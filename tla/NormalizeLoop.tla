--------------------------- MODULE NormalizeLoop ---------------------------
(***************************************************************************)
(* HexFile::normalized() of hexy-core/src/hexfile.rs, one action per       *)
(* iteration of its loops: the fast path for segments that do not overlap, *)
(* otherwise overlay_segment for each segment in insertion order, each     *)
(* followed by merge_adjacent_segments, and a last sort and merge.         *)
(*                                                                         *)
(* The input holds no empty segment: checked_non_empty_segment drops them  *)
(* wherever a HexFile stores segments.                                     *)
(***************************************************************************)
EXTENDS SegmentList

CONSTANT Inputs   \* the raw segment lists normalized() is called on

ASSUME InputsAssumption ==
  Inputs \subseteq Seq({s \in SegmentType : ~IsEmpty(s)})

VARIABLES
  segments,  \* self.segments, in insertion order
  pc,        \* which loop runs: "start", "overlay", "scan", "join" or "done"
  i,         \* the segment being overlaid; Len(segments) + 1 after the last
  merged,    \* `merged` of normalized(): the overlay of segments 1 .. i-1
  j,         \* the index of the inner loop, in merged or in next
  next,      \* `next` of overlay_segment, or the sorted list to be joined
  placed,    \* new_seg has been taken
  out        \* `merged` of merge_adjacent_segments

vars == <<segments, pc, i, merged, j, next, placed, out>>

seg == segments[i]
cur == merged[j]

(***************************************************************************)
(* sort_by_key(|s| s.start_address), which is stable: p says which element *)
(* of the list comes k-th.                                                 *)
(***************************************************************************)
SortedBy(p, list) ==
  /\ \A m, n \in DOMAIN list : m # n => p[m] # p[n]
  /\ \A n \in DOMAIN list : \E m \in DOMAIN list : p[m] = n
  /\ \A m, n \in DOMAIN list : m < n =>
       \/ list[p[m]].start < list[p[n]].start
       \/ list[p[m]].start = list[p[n]].start /\ p[m] < p[n]

Permuted(p, list) == [k \in 1..Len(list) |-> list[p[k]]]

\* Mutant of HasOverlap: misses segments that share one address.
HasOverlapStrict(sorted) ==
  \E k \in 2..Len(sorted) : sorted[k].start < EndAddress(sorted[k-1])

HasOverlap(sorted) ==
  \E k \in 2..Len(sorted) : sorted[k].start <= EndAddress(sorted[k-1])

Init ==
  /\ segments \in Inputs
  /\ pc = "start"
  /\ i = 1
  /\ merged = <<>>
  /\ j = 1
  /\ next = <<>>
  /\ placed = FALSE
  /\ out = <<>>

-----------------------------------------------------------------------------
(* normalized(), before the loops *)

ReturnEmpty ==
  /\ pc = "start"
  /\ segments = <<>>
  /\ pc' = "done"
  /\ UNCHANGED <<segments, i, merged, j, next, placed, out>>

FastPath(p) ==
  /\ pc = "start"
  /\ segments # <<>>
  /\ SortedBy(p, segments)
  /\ ~HasOverlap(Permuted(p, segments))
  /\ next' = Permuted(p, segments)
  /\ i' = Len(segments) + 1
  /\ pc' = "join"
  /\ UNCHANGED <<segments, merged, j, placed, out>>

SlowPath(p) ==
  /\ pc = "start"
  /\ segments # <<>>
  /\ SortedBy(p, segments)
  /\ HasOverlap(Permuted(p, segments))
  /\ pc' = "overlay"
  /\ UNCHANGED <<segments, i, merged, j, next, placed, out>>

-----------------------------------------------------------------------------
(* for seg in segments { merged = overlay_segment(merged, seg); } *)

OverlayOnNothing ==
  /\ pc = "overlay"
  /\ i <= Len(segments)
  /\ merged = <<>>
  /\ merged' = <<seg>>
  /\ i' = i + 1
  /\ UNCHANGED <<segments, pc, j, next, placed, out>>

BeginScan ==
  /\ pc = "overlay"
  /\ i <= Len(segments)
  /\ merged # <<>>
  /\ pc' = "scan"
  /\ j' = 1
  /\ next' = <<>>
  /\ placed' = FALSE
  /\ UNCHANGED <<segments, i, merged, out>>

FinalSort(p) ==
  /\ pc = "overlay"
  /\ i > Len(segments)
  /\ SortedBy(p, merged)
  /\ next' = Permuted(p, merged)
  /\ j' = 1
  /\ out' = <<>>
  /\ pc' = "join"
  /\ UNCHANGED <<segments, i, merged, placed>>

-----------------------------------------------------------------------------
(* overlay_segment: for cur in segments *)

KeepBefore ==
  /\ pc = "scan"
  /\ j <= Len(merged)
  /\ EndAddress(cur) < seg.start
  /\ next' = Append(next, cur)
  /\ j' = j + 1
  /\ UNCHANGED <<segments, pc, i, merged, placed, out>>

KeepAfter ==
  /\ pc = "scan"
  /\ j <= Len(merged)
  /\ EndAddress(cur) >= seg.start
  /\ cur.start > EndAddress(seg)
  /\ next' = Append(PushIf(next, ~placed, seg), cur)
  /\ placed' = TRUE
  /\ j' = j + 1
  /\ UNCHANGED <<segments, pc, i, merged, out>>

\* Mutant of Cover: keeps a part before seg even when it is empty.
CoverKeepsEmpty ==
  /\ pc = "scan"
  /\ j <= Len(merged)
  /\ EndAddress(cur) >= seg.start
  /\ cur.start <= EndAddress(seg)
  /\ LET right == EndAddress(cur) > EndAddress(seg)
         withLeft == Append(next, Clip(cur, cur.start, seg.start - 1))
     IN /\ next' = PushIf(PushIf(withLeft, right /\ ~placed, seg), right,
                        Clip(cur, EndAddress(seg) + 1, EndAddress(cur)))
        /\ placed' = (placed \/ right)
  /\ j' = j + 1
  /\ UNCHANGED <<segments, pc, i, merged, out>>

\* The part of cur before seg and the part after it; seg goes between.
Cover ==
  /\ pc = "scan"
  /\ j <= Len(merged)
  /\ EndAddress(cur) >= seg.start
  /\ cur.start <= EndAddress(seg)
  /\ LET left  == cur.start < seg.start
         right == EndAddress(cur) > EndAddress(seg)
         withLeft == PushIf(next, left, Clip(cur, cur.start, seg.start - 1))
         withSeg  == PushIf(withLeft, right /\ ~placed, seg)
     IN /\ next' = PushIf(withSeg, right,
                        Clip(cur, EndAddress(seg) + 1, EndAddress(cur)))
        /\ placed' = (placed \/ right)
  /\ j' = j + 1
  /\ UNCHANGED <<segments, pc, i, merged, out>>

\* Mutant of EndScan: forgets a new segment that no old one lies after.
EndScanUnplaced ==
  /\ pc = "scan"
  /\ j > Len(merged)
  /\ j' = 1
  /\ out' = <<>>
  /\ pc' = "join"
  /\ UNCHANGED <<segments, i, merged, next, placed>>

EndScan ==
  /\ pc = "scan"
  /\ j > Len(merged)
  /\ next' = PushIf(next, ~placed, seg)
  /\ placed' = TRUE
  /\ j' = 1
  /\ out' = <<>>
  /\ pc' = "join"
  /\ UNCHANGED <<segments, i, merged>>

-----------------------------------------------------------------------------
(* merge_adjacent_segments: for seg in segments *)

\* Mutant of JoinsLast: compares the starts of the two segments.
JoinsLastByStart == out # <<>> /\ out[Len(out)].start + 1 = next[j].start

JoinsLast == out # <<>> /\ IsContiguousWith(out[Len(out)], next[j])

JoinNext ==
  /\ pc = "join"
  /\ j <= Len(next)
  /\ out' = IF JoinsLast
              THEN [out EXCEPT ![Len(out)] = Join(out[Len(out)], next[j])]
              ELSE Append(out, next[j])
  /\ j' = j + 1
  /\ UNCHANGED <<segments, pc, i, merged, next, placed>>

EndJoin ==
  /\ pc = "join"
  /\ j > Len(next)
  /\ merged' = out
  /\ IF i <= Len(segments)
       THEN i' = i + 1 /\ pc' = "overlay"
       ELSE pc' = "done" /\ UNCHANGED i
  /\ UNCHANGED <<segments, j, next, placed, out>>

Orders(list) == [DOMAIN list -> DOMAIN list]

Next ==
  \/ ReturnEmpty
  \/ \E p \in Orders(segments) : FastPath(p)
  \/ \E p \in Orders(segments) : SlowPath(p)
  \/ OverlayOnNothing
  \/ BeginScan
  \/ \E p \in Orders(merged) : FinalSort(p)
  \/ KeepBefore
  \/ KeepAfter
  \/ Cover
  \/ EndScan
  \/ JoinNext
  \/ EndJoin

Spec == Init /\ [][Next]_vars

-----------------------------------------------------------------------------
(* Properties *)

\* Every variable has its type and every list holds non-empty segments
\* inside the address space, at each step of normalized().
TypeOK ==
  /\ segments \in ListType /\ AllInSpace(segments)
  /\ pc \in {"start", "overlay", "scan", "join", "done"}
  /\ i \in 1..(Len(segments) + 1)
  /\ j \in Nat \ {0}
  /\ placed \in BOOLEAN
  /\ merged \in ListType /\ AllInSpace(merged)
  /\ next \in ListType /\ AllInSpace(next)
  /\ out \in ListType /\ AllInSpace(out)

\* Between two overlays the accumulated list is sorted, disjoint and free of
\* neighbours that touch, and reads exactly as the segments overlaid so far
\* with the last one winning (hexfile.rs, the loop over overlay_segment).
OverlayIsLastWins ==
  pc = "overlay" =>
    /\ Separated(merged)
    /\ \A a \in Addr, b \in Byte :
         Holds(merged, a, b) <=> LastWins(segments, i - 1, a, b)

\* What normalized() returns is sorted, disjoint, with no two neighbours that
\* touch, and every address reads as it does in the raw list.
ResultIsLastWins ==
  pc = "done" =>
    /\ Separated(merged)
    /\ \A a \in Addr, b \in Byte :
         Holds(merged, a, b) <=> LastWins(segments, Len(segments), a, b)

\* The steps arrive at the list that SegmentList!Normalized computes at once,
\* the definition that HexFile and every operation on it are built on.
StepsComputeNormalized == pc = "done" => merged = Normalized(segments)

=============================================================================
