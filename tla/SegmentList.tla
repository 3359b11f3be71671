---------------------------- MODULE SegmentList ----------------------------
(***************************************************************************)
(* hexy-core/src/hexfile.rs without its state: what each function makes of *)
(* a list of raw segments.  NormalizeLoop has normalized() step by step.   *)
(***************************************************************************)
EXTENDS Segment, AddressRange

CONSTANT None   \* what an address that no segment covers reads as

ASSUME ByteAssumption == None \notin Byte

\* with_segments and set_segments: checked_non_empty_segment drops the empty.
NonEmpty(segs) == Keep(segs, {s \in ToSet(segs) : ~IsEmpty(s)})

\* Mutant of AppendSegment: stores an empty segment.
AppendUnchecked(segs, s) == Append(segs, s)

AppendSegment(segs, s) == segs \o NonEmpty(<<s>>)

PrependSegment(segs, s) == NonEmpty(<<s>>) \o segs

\* read_byte: the last segment that covers the address wins.
ReadByte(segs, a) ==
  LET covering == { n \in DOMAIN segs : Covers(segs[n], a) }
  IN IF covering = {} THEN None ELSE ByteAt(segs[Max(covering)], a)

Image(segs) == [a \in Addr |-> ReadByte(segs, a)]

Covered(segs) == { a \in Addr : ReadByte(segs, a) # None }

MinAddress(segs) == Min({ segs[n].start : n \in DOMAIN segs })

MaxAddress(segs) == Max({ EndAddress(segs[n]) : n \in DOMAIN segs })

AbsorbSegment(merged, s) ==
  IF merged # <<>> /\ IsContiguousWith(Last(merged), s)
    THEN Append(Front(merged), Join(Last(merged), s))
    ELSE Append(merged, s)

MergeAdjacent(segs) == FoldLeft(AbsorbSegment, <<>>, segs)

PushIf(list, cond, s) == IF cond THEN Append(list, s) ELSE list

\* One iteration of overlay_segment: cur before seg, after it, or covered.
OverlayStep(acc, cur, seg) ==
  LET left  == cur.start < seg.start
      right == EndAddress(cur) > EndAddress(seg)
      withLeft == PushIf(acc.next, left, Clip(cur, cur.start, seg.start - 1))
      withSeg == PushIf(withLeft, right /\ ~acc.placed, seg)
  IN IF EndAddress(cur) < seg.start
       THEN [next |-> Append(acc.next, cur), placed |-> acc.placed]
     ELSE IF cur.start > EndAddress(seg)
       THEN [next |-> Append(PushIf(acc.next, ~acc.placed, seg), cur), placed |-> TRUE]
     ELSE [next |-> PushIf(withSeg, right,
                      Clip(cur, EndAddress(seg) + 1, EndAddress(cur))),
           placed |-> acc.placed \/ right]

Scan(segs, seg) ==
  FoldLeft(LAMBDA acc, cur : OverlayStep(acc, cur, seg),
           [next |-> <<>>, placed |-> FALSE], segs)

OverlaySegment(segs, seg) ==
  LET scanned == Scan(segs, seg)
  IN IF segs = <<>> THEN <<seg>>
     ELSE MergeAdjacent(PushIf(scanned.next, ~scanned.placed, seg))

\* Mutant of AnyOverlap: looks for overlaps in insertion order.
AnyOverlapUnsorted(segs) ==
  \E k \in 2..Len(segs) :
    segs[k].start \in segs[k-1].start..EndAddress(segs[k-1])

AnyOverlap(segs) ==
  LET sorted == ByStart(segs)
  IN \E k \in 2..Len(sorted) : sorted[k].start <= EndAddress(sorted[k-1])

Normalized(segs) ==
  LET kept == NonEmpty(segs)
  IN IF ~AnyOverlap(kept) THEN MergeAdjacent(ByStart(kept))
     ELSE MergeAdjacent(ByStart(FoldLeft(OverlaySegment, <<>>, kept)))

\* Mutant of ReadBytesContiguous: looks for one raw segment with all the bytes.
ReadBytesRaw(segs, addr, len) ==
  LET whole == { n \in DOMAIN segs : addr >= segs[n].start
                                     /\ addr + len - 1 <= EndAddress(segs[n]) }
  IN IF len > MaxAddr \/ whole = {} THEN None
     ELSE Clip(segs[Max(whole)], addr, addr + len - 1).data

\* read_bytes_contiguous: the bytes at addr .. addr + len - 1, or None; a length
\* that no u32 holds, that of the whole address space, is None as well.
ReadBytesContiguous(segs, addr, len) ==
  LET normal == Normalized(segs)
      end == addr + len - 1
      whole == { n \in DOMAIN normal : addr >= normal[n].start
                                       /\ end <= EndAddress(normal[n]) }
  IN CASE len = 0 -> <<>>
       [] len > 0 /\ (len > MaxAddr \/ end > MaxAddr \/ whole = {}) -> None
       [] OTHER -> Clip(normal[Min(whole)], addr, end).data

\* One segment from the first to the last address, its gaps filled, for a list
\* that is not empty: what as_contiguous and fill_gaps make.
Dense(segs, fill) ==
  LET normal == Normalized(segs)
      lo == MinAddress(normal)
      hi == MaxAddress(normal)
  IN [start |-> lo,
      data |-> [k \in 1..(hi - lo + 1) |->
                  LET b == ReadByte(normal, lo + k - 1)
                  IN IF b = None THEN fill ELSE b]]

SpanLength(segs) == MaxAddress(Normalized(segs)) - MinAddress(Normalized(segs)) + 1

-----------------------------------------------------------------------------
(* What is said of lists of segments *)

\* What a HexFile stores: checked_non_empty_segment keeps the rest out.
StoredSegment == { s \in SegmentType : ~IsEmpty(s) }

Holds(list, a, b) == \E n \in 1..Len(list) : Has(list[n], a, b)

\* What an address reads as after the first n insertions: the last segment
\* that covers it wins (the rule read_byte follows on the raw list).
LastWins(list, n, a, b) ==
  \E m \in 1..n :
    /\ Has(list[m], a, b)
    /\ \A l \in (m+1)..n : ~Covers(list[l], a)

\* A non-empty segment inside the address space.  Unlike SegmentType this
\* admits the one segment that covers every address.
InSpace(s) ==
  /\ s \in [start : Addr, data : Seq(Byte)]
  /\ Len(s.data) > 0
  /\ s.start + Len(s.data) - 1 <= MaxAddr

InOrder(list) ==
  \A m, n \in 1..Len(list) : m < n => EndAddress(list[m]) < list[n].start

\* Sorted, disjoint and with a gap between any two.
Separated(list) ==
  \A m, n \in 1..Len(list) : m < n => EndAddress(list[m]) + 1 < list[n].start

AllInSpace(list) == \A n \in 1..Len(list) : InSpace(list[n])

ListType == Seq([start : Addr, data : Seq(Byte)])

=============================================================================
