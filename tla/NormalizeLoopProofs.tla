------------------------ MODULE NormalizeLoopProofs ------------------------
(***************************************************************************)
(* normalized() keeps the last-wins reading of any raw segment list, for   *)
(* every address space, every set of byte values and every input.          *)
(***************************************************************************)
EXTENDS NormalizeLoop, ListLemmas

-----------------------------------------------------------------------------
(* The inputs *)

\* A list put in the order of its start addresses holds the same segments.
LEMMA PermutedList ==
  ASSUME NEW list \in ListType, AllInSpace(list),
         NEW p \in Orders(list), SortedBy(p, list)
  PROVE  /\ Permuted(p, list) \in ListType
         /\ AllInSpace(Permuted(p, list))
         /\ Len(Permuted(p, list)) = Len(list)
         /\ \A k \in 1..Len(list) : /\ p[k] \in 1..Len(list)
                                    /\ Permuted(p, list)[k] = list[p[k]]
         /\ \A a, b : Holds(Permuted(p, list), a, b) <=> Holds(list, a, b)
<1> DEFINE q == Permuted(p, list)
<1>1. list \in Seq(SegRecord) /\ Len(list) \in Nat /\ DOMAIN list = 1..Len(list)
  BY LenProperties DEF ListType, SegRecord
<1>2. \A k \in 1..Len(list) : p[k] \in 1..Len(list)
  BY <1>1 DEF Orders
<1>3. \A k \in 1..Len(list) : list[p[k]] \in SegRecord
  BY <1>1, <1>2, ElementOfSeq
<1>4. q = [k \in 1..Len(list) |-> list[p[k]]]
  BY DEF Permuted
<1>5. q \in Seq(SegRecord) /\ Len(q) = Len(list)
  BY <1>1, <1>3, <1>4
<1>6. \A k \in 1..Len(list) : q[k] = list[p[k]]
  BY <1>4
<1> HIDE DEF q
<1>7. AllInSpace(q)
  BY <1>2, <1>5, <1>6 DEF AllInSpace
<1>8. ASSUME NEW a, NEW b
      PROVE  Holds(q, a, b) <=> Holds(list, a, b)
  <2>1. \A n \in 1..Len(list) : \E m \in 1..Len(list) : p[m] = n
    BY <1>1 DEF SortedBy
  <2>2. ASSUME NEW n \in 1..Len(list), Has(list[n], a, b)
        PROVE  Holds(q, a, b)
    <3>1. PICK m \in 1..Len(list) : p[m] = n
      BY <2>1
    <3>2. Has(q[m], a, b)
      BY <2>2, <3>1, <1>6
    <3>3. QED
      BY <3>2, <1>5 DEF Holds
  <2>3. ASSUME NEW m \in 1..Len(list), Has(q[m], a, b)
        PROVE  Holds(list, a, b)
    <3>1. Has(list[p[m]], a, b)
      BY <2>3, <1>6
    <3>2. QED
      BY <3>1, <1>2 DEF Holds
  <2>4. QED
    BY <2>2, <2>3, <1>5 DEF Holds
<1>9. QED
  BY <1>2, <1>5, <1>6, <1>7, <1>8 DEF q, ListType, SegRecord

\* The inputs are lists of non-empty segments inside the address space.
LEMMA InputsInSpace ==
  ASSUME NEW list \in Inputs
  PROVE  list \in ListType /\ AllInSpace(list)
<1> DEFINE T == {s \in SegmentType : ~IsEmpty(s)}
<1>1. list \in Seq(T)
  BY InputsAssumption
<1>2. T \subseteq [start : Addr, data : Seq(Byte)]
  BY DEF SegmentType
<1>3. \A s \in T : InSpace(s)
  BY MaxAddrAssumption DEF SegmentType, IsEmpty, InSpace, FitsAt, Addr
<1> HIDE DEF T
<1>4. list \in ListType
  BY <1>1, <1>2, SeqMonotonic DEF ListType
<1>5. AllInSpace(list)
  BY <1>1, <1>3, ElementOfSeq DEF AllInSpace
<1>6. QED
  BY <1>4, <1>5

-----------------------------------------------------------------------------
(* The invariant *)

ScanInv ==
  pc = "scan" =>
    /\ i <= Len(segments)
    /\ j <= Len(merged) + 1
    /\ Separated(merged)
    /\ \A a \in Addr, b \in Byte : Holds(merged, a, b) <=> LastWins(segments, i - 1, a, b)
    /\ Scanned(merged, seg, j - 1, next, placed)

\* How many of the segments the list being joined stands for.
Overlaid == IF i <= Len(segments) THEN i ELSE Len(segments)

JoinInv ==
  pc = "join" =>
    /\ j <= Len(next) + 1
    /\ InOrder(next)
    /\ \A a \in Addr, b \in Byte : Holds(next, a, b) <=> LastWins(segments, Overlaid, a, b)
    /\ Joined(next, j - 1, out)

StartInv ==
  pc = "start" => i = 1 /\ j = 1 /\ merged = <<>> /\ next = <<>> /\ out = <<>>

IInv ==
  /\ TypeOK
  /\ StartInv
  /\ OverlayIsLastWins
  /\ ScanInv
  /\ JoinInv
  /\ ResultIsLastWins

-----------------------------------------------------------------------------
(* One lemma per action *)

\* normalized() starts in the invariant.
LEMMA InitIInv == Init => IInv
<1> SUFFICES ASSUME Init
             PROVE  IInv
  OBVIOUS
<1>1. segments \in ListType /\ AllInSpace(segments)
  BY InputsInSpace DEF Init
<1>2. Len(segments) \in Nat
  BY <1>1, LenProperties DEF ListType
<1>3. i \in 1..(Len(segments) + 1) /\ j \in Nat \ {0}
  BY <1>2 DEF Init
<1>4. TypeOK
  BY <1>1, <1>3, EmptyList DEF Init, TypeOK
<1>5. QED
  BY <1>4 DEF Init, IInv, StartInv, OverlayIsLastWins, ScanInv, JoinInv, ResultIsLastWins

\* The segment and the index of the scan, used in its actions.
LEMMA ScanState ==
  ASSUME IInv, pc = "scan"
  PROVE  /\ TypeOK /\ ScanInv
         /\ i \in Nat /\ i \in 1..Len(segments) /\ InSpace(seg)
         /\ j \in Nat /\ Len(merged) \in Nat
         /\ merged \in ListType /\ AllInSpace(merged) /\ Separated(merged)
         /\ placed \in BOOLEAN /\ Scanned(merged, seg, j - 1, next, placed)
         /\ j <= Len(merged) => /\ j \in 1..Len(merged) /\ (j + 1) - 1 = j
                                /\ InSpace(cur)
                                /\ cur.start \in Int /\ EndAddress(cur) \in Int
         /\ seg.start \in Int /\ EndAddress(seg) \in Int
<1>1. TypeOK /\ ScanInv
  BY DEF IInv
<1>2. /\ i \in Nat /\ i \in 1..Len(segments)
      /\ j \in Nat /\ j >= 1 /\ Len(merged) \in Nat
  BY <1>1 DEF TypeOK, ScanInv, ListType
<1>3. InSpace(seg) /\ (j <= Len(merged) => InSpace(cur))
  BY <1>1, <1>2 DEF TypeOK, AllInSpace, seg, cur
<1>4. /\ seg.start \in Int /\ EndAddress(seg) \in Int
      /\ j <= Len(merged) => cur.start \in Int /\ EndAddress(cur) \in Int
  BY <1>3, SpanInSpace, MaxAddrAssumption DEF Addr
<1>5. QED
  BY <1>1, <1>2, <1>3, <1>4 DEF TypeOK, ScanInv

\* A step of the scan that takes one more segment of the list.
LEMMA ScanTakesOne ==
  ASSUME IInv, pc = "scan", j <= Len(merged), j' = j + 1,
         UNCHANGED <<segments, pc, i, merged, out>>,
         Scanned(merged, seg, j, next', placed')
  PROVE  IInv'
<1>1. /\ TypeOK /\ ScanInv
      /\ j \in Nat /\ Len(merged) \in Nat /\ (j + 1) - 1 = j
  BY ScanState
<1>2. /\ next' \in ListType /\ AllInSpace(next') /\ placed' \in BOOLEAN
  BY DEF Scanned
<1>3. TypeOK'
  <2>1. j' \in Nat \ {0}
    BY <1>1
  <2>2. AllInSpace(segments)' /\ AllInSpace(merged)' /\ AllInSpace(out)'
    BY <1>1 DEF TypeOK
  <2>3. AllInSpace(next)'
    BY <1>2
  <2>4. QED
    BY <2>1, <2>2, <2>3, <1>1, <1>2 DEF TypeOK
<1>4. seg' = seg
  BY DEF seg
<1>5. Scanned(merged', seg', j' - 1, next', placed')
  BY <1>1, <1>4
<1>6. j' <= Len(merged') + 1
  BY <1>1
<1>7. ScanInv'
  BY <1>1, <1>5, <1>6 DEF ScanInv, LastWins
<1>8. QED
  BY <1>3, <1>7 DEF IInv, StartInv, OverlayIsLastWins, JoinInv, ResultIsLastWins

\* A placed segment in front of the new one is kept.
LEMMA KeepBeforeStep == IInv /\ KeepBefore => IInv'
<1> SUFFICES ASSUME IInv, KeepBefore
             PROVE  IInv'
  OBVIOUS
<1>1. /\ pc = "scan" /\ j' = j + 1 /\ j <= Len(merged)
      /\ EndAddress(merged[j]) < seg.start
      /\ next' = Append(next, merged[j]) /\ placed' = placed
      /\ UNCHANGED <<segments, pc, i, merged, out>>
  BY DEF KeepBefore, cur
<1>2. Scanned(merged, seg, j, Append(next, merged[j]), placed)
  BY <1>1, ScanState, ScanBefore
<1>3. QED
  BY <1>1, <1>2, ScanTakesOne

\* A segment behind the new one is kept, the new one placed before it once.
LEMMA KeepAfterStep == IInv /\ KeepAfter => IInv'
<1> SUFFICES ASSUME IInv, KeepAfter
             PROVE  IInv'
  OBVIOUS
<1>1. /\ pc = "scan" /\ j' = j + 1 /\ j <= Len(merged)
      /\ merged[j].start > EndAddress(seg)
      /\ next' = Append(PushIf(next, ~placed, seg), merged[j]) /\ placed' = TRUE
      /\ UNCHANGED <<segments, pc, i, merged, out>>
  BY DEF KeepAfter, cur
<1>2. EndAddress(seg) < merged[j].start
  BY <1>1, ScanState DEF cur
<1>3. /\ merged \in ListType /\ AllInSpace(merged) /\ Separated(merged)
      /\ InSpace(seg) /\ j \in 1..Len(merged) /\ placed \in BOOLEAN
      /\ Scanned(merged, seg, j - 1, next, placed)
  BY <1>1, ScanState DEF Scanned
<1>4. Scanned(merged, seg, j, Append(PushIf(next, ~placed, seg), merged[j]), TRUE)
  BY <1>2, <1>3, ScanAfter
<1>5. QED
  BY <1>1, <1>4, ScanTakesOne

\* A segment the new one covers leaves what sticks out on either side.
LEMMA CoverStep == IInv /\ Cover => IInv'
<1> SUFFICES ASSUME IInv, Cover
             PROVE  IInv'
  OBVIOUS
<1> DEFINE left  == merged[j].start < seg.start
           right == EndAddress(merged[j]) > EndAddress(seg)
           withLeft == PushIf(next, left, Clip(merged[j], merged[j].start, seg.start - 1))
           withSeg == PushIf(withLeft, right /\ ~placed, seg)
           more == PushIf(withSeg, right,
                     Clip(merged[j], EndAddress(seg) + 1, EndAddress(merged[j])))
<1>1. /\ pc = "scan" /\ j' = j + 1 /\ j <= Len(merged)
      /\ EndAddress(merged[j]) >= seg.start /\ merged[j].start <= EndAddress(seg)
      /\ next' = more /\ placed' = (placed \/ right)
      /\ UNCHANGED <<segments, pc, i, merged, out>>
  BY DEF Cover, cur
<1>2. Scanned(merged, seg, j, more, placed \/ right)
  BY <1>1, ScanState, ScanCover
<1>3. QED
  BY <1>1, <1>2, ScanTakesOne

\* Entering the join with a list: nothing is joined yet.
LEMMA EnterJoin ==
  ASSUME NEW list \in ListType
  PROVE  1 <= Len(list) + 1 /\ Joined(list, 1 - 1, <<>>)
<1>1. Len(list) \in Nat
  BY LenProperties DEF ListType
<1>2. Joined(list, 0, <<>>)
  BY JoinNothing
<1>3. 1 - 1 = 0 /\ 1 <= Len(list) + 1
  BY <1>1
<1>4. QED
  BY <1>2, <1>3

\* At the end of the scan the new segment lies in the list exactly once.
LEMMA EndScanStep == IInv /\ EndScan => IInv'
<1> SUFFICES ASSUME IInv, EndScan
             PROVE  IInv'
  OBVIOUS
<1>1. /\ pc = "scan" /\ pc' = "join" /\ j > Len(merged)
      /\ next' = PushIf(next, ~placed, seg) /\ placed' = TRUE
      /\ j' = 1 /\ out' = <<>>
      /\ UNCHANGED <<segments, i, merged>>
  BY DEF EndScan
<1>2. /\ TypeOK /\ ScanInv
      /\ InSpace(seg) /\ i \in Nat /\ i >= 1 /\ i <= Len(segments)
      /\ merged \in ListType /\ Len(merged) \in Nat /\ j \in Nat
      /\ placed \in BOOLEAN /\ Scanned(merged, seg, j - 1, next, placed)
  BY <1>1, ScanState DEF ScanInv
<1>3. Scanned(merged, seg, Len(merged), next, placed)
  <2>1. j - 1 = Len(merged)
    BY <1>1, <1>2 DEF ScanInv
  <2>2. QED
    BY <2>1, <1>2
<1>4. /\ next' \in ListType /\ AllInSpace(next') /\ InOrder(next')
      /\ \A a \in Int : \A b : Holds(next', a, b)
           <=> Has(seg, a, b) \/ (~Covers(seg, a) /\ Holds(merged, a, b))
  BY <1>1, <1>2, <1>3, ScanEnds
<1>5. TypeOK'
  BY <1>1, <1>2, <1>4, EmptyList DEF TypeOK, AllInSpace, InSpace
<1>6. ASSUME NEW a \in Addr, NEW b \in Byte
      PROVE  Holds(next', a, b) <=> LastWins(segments, Overlaid, a, b)'
  <2>1. a \in Int
    BY MaxAddrAssumption DEF Addr
  <2>2. Holds(merged, a, b) <=> LastWins(segments, i - 1, a, b)
    BY <1>1, <1>2 DEF ScanInv
  <2>3. i - 1 \in Nat /\ (i - 1) + 1 = i
    BY <1>2
  <2>4. LastWins(segments, i, a, b) <=> Has(seg, a, b) \/ (~Covers(seg, a) /\ LastWins(segments, i - 1, a, b))
    BY <2>3, LastWinsStep DEF seg
  <2>5. segments' = segments /\ Overlaid' = i
    BY <1>1, <1>2 DEF Overlaid
  <2>6. LastWins(segments, Overlaid, a, b)' <=> LastWins(segments, i, a, b)
    BY <2>5 DEF LastWins
  <2>7. QED
    BY <2>1, <2>2, <2>4, <2>6, <1>4
<1>7. JoinInv'
  BY <1>1, <1>4, <1>6, EnterJoin DEF JoinInv
<1>8. QED
  BY <1>1, <1>5, <1>7 DEF IInv, StartInv, OverlayIsLastWins, ScanInv, ResultIsLastWins

\* The next segment is joined to the last one it touches, or pushed.
LEMMA JoinNextStep == IInv /\ JoinNext => IInv'
<1> SUFFICES ASSUME IInv, JoinNext
             PROVE  IInv'
  OBVIOUS
<1>1. /\ pc = "join" /\ j <= Len(next) /\ j' = j + 1
      /\ out' = IF out # <<>> /\ IsContiguousWith(out[Len(out)], next[j])
                  THEN [out EXCEPT ![Len(out)] = Join(out[Len(out)], next[j])]
                  ELSE Append(out, next[j])
      /\ UNCHANGED <<segments, pc, i, merged, next, placed>>
  BY DEF JoinNext, JoinsLast
<1>2. TypeOK /\ JoinInv
  BY DEF IInv
<1>3. /\ j \in Nat /\ Len(next) \in Nat /\ j \in 1..Len(next) /\ (j + 1) - 1 = j
  BY <1>1, <1>2, LenProperties DEF TypeOK, ListType
<1>4. /\ next \in ListType /\ AllInSpace(next) /\ InOrder(next)
      /\ Joined(next, j - 1, out)
  BY <1>1, <1>2 DEF TypeOK, JoinInv
<1>5. Joined(next, j, out')
  BY <1>1, <1>3, <1>4, JoinStep
<1>6. out' \in ListType /\ AllInSpace(out')
  BY <1>5 DEF Joined
<1>7. TypeOK'
  BY <1>1, <1>2, <1>3, <1>6 DEF TypeOK, AllInSpace, InSpace
<1>8. JoinInv'
  <2>1. j' <= Len(next') + 1 /\ Joined(next', j' - 1, out')
    BY <1>1, <1>3, <1>5
  <2>2. Overlaid' = Overlaid
    BY <1>1 DEF Overlaid
  <2>3. QED
    BY <1>1, <1>2, <2>1, <2>2 DEF JoinInv, LastWins
<1>9. QED
  BY <1>1, <1>7, <1>8 DEF IInv, StartInv, OverlayIsLastWins, ScanInv, ResultIsLastWins

\* The joined list becomes the result.
LEMMA EndJoinStep == IInv /\ EndJoin => IInv'
<1> SUFFICES ASSUME IInv, EndJoin
             PROVE  IInv'
  OBVIOUS
<1>1. TypeOK /\ JoinInv
  BY DEF IInv
<1>2. /\ pc = "join" /\ j > Len(next) /\ merged' = out
      /\ UNCHANGED <<segments, j, next, placed, out>>
      /\ i <= Len(segments) => i' = i + 1 /\ pc' = "overlay"
      /\ ~(i <= Len(segments)) => pc' = "done" /\ i' = i
  BY DEF EndJoin
<1>3. /\ i \in Nat /\ i >= 1 /\ Len(segments) \in Nat /\ Len(next) \in Nat
      /\ j = Len(next) + 1 /\ i <= Len(segments) + 1
  <2>1. Len(segments) \in Nat /\ Len(next) \in Nat
    BY <1>1, LenProperties DEF TypeOK, ListType
  <2>2. j <= Len(next) + 1
    BY <1>1, <1>2 DEF JoinInv
  <2>3. QED
    BY <2>1, <2>2, <1>1, <1>2 DEF TypeOK
<1>4. TypeOK'
  <2>1. /\ merged' \in ListType /\ AllInSpace(merged')
        /\ i' \in 1..(Len(segments) + 1)
        /\ pc' \in {"start", "overlay", "scan", "join", "done"}
    BY <1>1, <1>2, <1>3 DEF TypeOK
  <2>2. QED
    BY <2>1, <1>1, <1>2 DEF TypeOK, AllInSpace, InSpace
<1>5. ASSUME NEW a \in Addr, NEW b \in Byte
      PROVE  Holds(merged', a, b) <=> LastWins(segments, Overlaid, a, b)
  <2>1. Prefix(next, j - 1, a, b) <=> Holds(next, a, b)
    BY <1>3 DEF Prefix, Holds
  <2>2. Holds(out, a, b) <=> Prefix(next, j - 1, a, b)
    <3>1. a \in Int
      BY MaxAddrAssumption DEF Addr
    <3>2. QED
      BY <3>1, <1>1, <1>2 DEF JoinInv, Joined
  <2>3. QED
    BY <2>1, <2>2, <1>1, <1>2 DEF JoinInv
<1>6. Separated(merged')
  BY <1>1, <1>2 DEF JoinInv, Joined
<1>7. CASE i <= Len(segments)
  <2>1. i' - 1 = i /\ Overlaid = i /\ pc' = "overlay"
    BY <1>2, <1>3, <1>7 DEF Overlaid
  <2>2. OverlayIsLastWins'
    BY <2>1, <1>2, <1>5, <1>6 DEF OverlayIsLastWins, LastWins
  <2>3. QED
    BY <2>1, <2>2, <1>4 DEF IInv, StartInv, ScanInv, JoinInv, ResultIsLastWins
<1>8. CASE ~(i <= Len(segments))
  <2>1. Overlaid = Len(segments) /\ pc' = "done"
    BY <1>2, <1>8 DEF Overlaid
  <2>2. ResultIsLastWins'
    BY <2>1, <1>2, <1>5, <1>6 DEF ResultIsLastWins, LastWins
  <2>3. QED
    BY <2>1, <2>2, <1>4 DEF IInv, StartInv, ScanInv, JoinInv, OverlayIsLastWins
<1>9. QED
  BY <1>7, <1>8

\* Sorting the overlaid list, sorted already, starts the join.
LEMMA FinalSortStep ==
  ASSUME IInv, NEW p \in Orders(merged), FinalSort(p)
  PROVE  IInv'
<1> DEFINE q == Permuted(p, merged)
<1>1. TypeOK /\ OverlayIsLastWins
  BY DEF IInv
<1>2. /\ pc = "overlay" /\ i > Len(segments) /\ SortedBy(p, merged)
      /\ next' = q /\ j' = 1 /\ out' = <<>> /\ pc' = "join"
      /\ UNCHANGED <<segments, i, merged, placed>>
  BY DEF FinalSort
<1>3. /\ merged \in ListType /\ AllInSpace(merged) /\ Separated(merged)
      /\ i = Len(segments) + 1 /\ i - 1 = Len(segments) /\ Len(segments) \in Nat
  <2>1. Len(segments) \in Nat
    BY <1>1, LenProperties DEF TypeOK, ListType
  <2>2. i \in 1..(Len(segments) + 1) /\ i > Len(segments)
    BY <1>1, <1>2 DEF TypeOK
  <2>3. QED
    BY <2>1, <2>2, <1>1, <1>2 DEF TypeOK, OverlayIsLastWins
<1>4. /\ q \in ListType /\ AllInSpace(q) /\ Len(q) = Len(merged)
      /\ \A k \in 1..Len(merged) : p[k] \in 1..Len(merged) /\ q[k] = merged[p[k]]
      /\ \A a, b : Holds(q, a, b) <=> Holds(merged, a, b)
  BY <1>2, <1>3, PermutedList
<1>5. DOMAIN merged = 1..Len(merged) /\ Len(merged) \in Nat
  BY <1>3, LenProperties DEF ListType
<1> HIDE DEF q
<1>6. InOrder(q)
  <2> SUFFICES ASSUME NEW m \in 1..Len(q), NEW n \in 1..Len(q), m < n
               PROVE  EndAddress(q[m]) < q[n].start
    BY DEF InOrder
  <2>1. /\ m \in DOMAIN merged /\ n \in DOMAIN merged
        /\ p[m] \in 1..Len(merged) /\ p[n] \in 1..Len(merged)
        /\ q[m] = merged[p[m]] /\ q[n] = merged[p[n]]
    BY <1>4, <1>5
  <2>2. /\ p[m] # p[n]
        /\ \/ merged[p[m]].start < merged[p[n]].start
           \/ merged[p[m]].start = merged[p[n]].start /\ p[m] < p[n]
    <3>1. m \in Int /\ n \in Int /\ m # n /\ m < n
      BY <1>4, <1>5
    <3>2. QED
      BY <3>1, <2>1, <1>2 DEF SortedBy
  <2>3. /\ InSpace(q[m]) /\ InSpace(q[n])
    BY <1>4 DEF AllInSpace
  <2>4. /\ q[m].start \in Int /\ q[n].start \in Int
        /\ EndAddress(q[m]) \in Int /\ EndAddress(q[n]) \in Int
        /\ q[m].start <= EndAddress(q[m]) /\ q[n].start <= EndAddress(q[n])
    BY <2>3, SpanInSpace, MaxAddrAssumption DEF Addr
  <2>5. p[n] < p[m] => EndAddress(q[n]) + 1 < q[m].start
    BY <2>1, <1>3 DEF Separated
  <2>6. p[m] < p[n] => EndAddress(q[m]) + 1 < q[n].start
    BY <2>1, <1>3 DEF Separated
  <2>7. p[m] < p[n] \/ p[n] < p[m]
    BY <2>1, <2>2, <1>5
  <2>8. q[m].start <= q[n].start
    BY <2>1, <2>2, <2>4
  <2>9. QED
    BY <2>4, <2>5, <2>6, <2>7, <2>8
<1>7. TypeOK'
  BY <1>1, <1>2, <1>4, EmptyList DEF TypeOK, AllInSpace, InSpace
<1>8. ASSUME NEW a \in Addr, NEW b \in Byte
      PROVE  Holds(q, a, b) <=> LastWins(segments, Overlaid, a, b)'
  <2>1. Holds(q, a, b) <=> LastWins(segments, Len(segments), a, b)
    BY <1>1, <1>2, <1>3, <1>4 DEF OverlayIsLastWins
  <2>2. segments' = segments /\ Overlaid' = Len(segments)
    <3>1. ~(i <= Len(segments)) /\ i' = i /\ segments' = segments
      BY <1>2, <1>3
    <3>2. QED
      BY <3>1 DEF Overlaid
  <2>3. LastWins(segments, Overlaid, a, b)' <=> LastWins(segments, Len(segments), a, b)
    BY <2>2 DEF LastWins
  <2>4. QED
    BY <2>1, <2>3
<1>9. JoinInv'
  BY <1>2, <1>4, <1>6, <1>8, EnterJoin DEF JoinInv
<1>10. QED
  BY <1>2, <1>7, <1>9 DEF IInv, StartInv, OverlayIsLastWins, ScanInv, ResultIsLastWins

\* The first segment is the whole list.
LEMMA OverlayOnNothingStep == IInv /\ OverlayOnNothing => IInv'
<1> SUFFICES ASSUME IInv, OverlayOnNothing
             PROVE  IInv'
  OBVIOUS
<1>1. TypeOK /\ OverlayIsLastWins
  BY DEF IInv
<1>2. /\ pc = "overlay" /\ i <= Len(segments) /\ merged = <<>>
      /\ merged' = <<seg>> /\ i' = i + 1
      /\ UNCHANGED <<segments, pc, j, next, placed, out>>
  BY DEF OverlayOnNothing
<1>3. i \in Nat /\ i >= 1 /\ Len(segments) \in Nat /\ i \in 1..Len(segments)
  BY <1>1, <1>2, LenProperties DEF TypeOK, ListType
<1>4. InSpace(seg)
  BY <1>1, <1>3 DEF TypeOK, AllInSpace, seg
<1>5. merged' = Append(<<>>, seg)
  BY <1>2
<1>6. /\ merged' \in ListType /\ AllInSpace(merged') /\ Separated(merged')
      /\ \A a \in Int : \A b : Holds(merged', a, b) <=> Holds(merged, a, b) \/ Has(seg, a, b)
  <2>1. Separated(<<>>) /\ Len(<<>>) = 0
    BY EmptySeq DEF Separated
  <2>2. \A n \in 1..Len(<<>>) : EndAddress(<<>>[n]) + 1 < seg.start
    BY <2>1
  <2>3. Separated(Append(<<>>, seg))
    BY <2>1, <2>2, <1>4, EmptyList, AppendSeparated
  <2>4. /\ Append(<<>>, seg) \in ListType
        /\ AllInSpace(Append(<<>>, seg))
        /\ \A a \in Int : \A b : Holds(Append(<<>>, seg), a, b)
                             <=> Holds(<<>>, a, b) \/ Has(seg, a, b)
    BY <1>4, EmptyList, AppendList
  <2>5. QED
    BY <2>3, <2>4, <1>2, <1>5
<1>7. TypeOK'
  <2>1. i' \in 1..(Len(segments) + 1)
    BY <1>2, <1>3
  <2>2. QED
    BY <2>1, <1>1, <1>2, <1>6 DEF TypeOK, AllInSpace, InSpace
<1>8. ASSUME NEW a \in Addr, NEW b \in Byte
      PROVE  Holds(merged', a, b) <=> LastWins(segments, i, a, b)
  <2>1. a \in Int
    BY MaxAddrAssumption DEF Addr
  <2>2. ~Holds(merged, a, b)
    BY <1>2, EmptySeq DEF Holds
  <2>3. ~LastWins(segments, i - 1, a, b)
    BY <2>2, <1>1, <1>2 DEF OverlayIsLastWins
  <2>4. i - 1 \in Nat /\ (i - 1) + 1 = i
    BY <1>3
  <2>5. LastWins(segments, i, a, b) <=> Has(seg, a, b) \/ (~Covers(seg, a) /\ LastWins(segments, i - 1, a, b))
    BY <2>4, LastWinsStep DEF seg
  <2>6. QED
    BY <2>1, <2>2, <2>3, <2>5, <1>6
<1>9. OverlayIsLastWins'
  <2>1. i' - 1 = i
    BY <1>2, <1>3
  <2>2. QED
    BY <2>1, <1>2, <1>6, <1>8 DEF OverlayIsLastWins, LastWins
<1>10. QED
  BY <1>2, <1>7, <1>9 DEF IInv, StartInv, ScanInv, JoinInv, ResultIsLastWins

\* A scan starts with nothing kept and the new segment unplaced.
LEMMA BeginScanStep == IInv /\ BeginScan => IInv'
<1> SUFFICES ASSUME IInv, BeginScan
             PROVE  IInv'
  OBVIOUS
<1>1. TypeOK /\ OverlayIsLastWins
  BY DEF IInv
<1>2. /\ pc = "overlay" /\ i <= Len(segments) /\ pc' = "scan"
      /\ j' = 1 /\ next' = <<>> /\ placed' = FALSE
      /\ UNCHANGED <<segments, i, merged, out>>
  BY DEF BeginScan
<1>3. TypeOK'
  <2>1. next' \in ListType /\ AllInSpace(next') /\ placed' \in BOOLEAN
    BY <1>2, EmptyList
  <2>2. QED
    BY <2>1, <1>1, <1>2 DEF TypeOK, AllInSpace, InSpace
<1>4. Len(merged) \in Nat
  BY <1>1, LenProperties DEF TypeOK, ListType
<1>5. 1 <= Len(merged) + 1 /\ 1 - 1 = 0
  BY <1>4
<1>6. Scanned(merged, seg, 0, <<>>, FALSE)
  BY ScanNothing
<1>7. seg' = seg
  BY <1>2 DEF seg
<1>8. Scanned(merged', seg', j' - 1, next', placed')
  BY <1>2, <1>5, <1>6, <1>7
<1>9. ScanInv'
  BY <1>1, <1>2, <1>5, <1>8 DEF ScanInv, OverlayIsLastWins, LastWins
<1>10. QED
  BY <1>2, <1>3, <1>9 DEF IInv, StartInv, OverlayIsLastWins, JoinInv, ResultIsLastWins

\* The overlay loop starts with no segment overlaid.
LEMMA SlowPathStep ==
  ASSUME IInv, NEW p, SlowPath(p)
  PROVE  IInv'
<1>1. TypeOK /\ StartInv
  BY DEF IInv
<1>2. /\ pc = "start" /\ pc' = "overlay"
      /\ UNCHANGED <<segments, i, merged, j, next, placed, out>>
  BY DEF SlowPath
<1>3. i = 1 /\ merged = <<>>
  BY <1>1, <1>2 DEF StartInv
<1>4. TypeOK'
  BY <1>1, <1>2 DEF TypeOK, AllInSpace, InSpace
<1>5. OverlayIsLastWins'
  <2>1. Separated(<<>>) /\ \A a, b : ~Holds(<<>>, a, b)
    BY EmptySeq DEF Separated, Holds
  <2>2. \A a, b : ~LastWins(segments, 1 - 1, a, b)
    BY DEF LastWins
  <2>3. QED
    BY <2>1, <2>2, <1>2, <1>3 DEF OverlayIsLastWins, LastWins
<1>6. QED
  BY <1>2, <1>4, <1>5 DEF IInv, StartInv, ScanInv, JoinInv, ResultIsLastWins

\* No segments, nothing to read.
LEMMA ReturnEmptyStep == IInv /\ ReturnEmpty => IInv'
<1> SUFFICES ASSUME IInv, ReturnEmpty
             PROVE  IInv'
  OBVIOUS
<1>1. TypeOK /\ StartInv
  BY DEF IInv
<1>2. /\ pc = "start" /\ segments = <<>> /\ pc' = "done"
      /\ UNCHANGED <<segments, i, merged, j, next, placed, out>>
  BY DEF ReturnEmpty
<1>3. merged = <<>>
  BY <1>1, <1>2 DEF StartInv
<1>4. TypeOK'
  BY <1>1, <1>2 DEF TypeOK, AllInSpace, InSpace
<1>5. ResultIsLastWins'
  <2>1. Separated(<<>>) /\ \A a, b : ~Holds(<<>>, a, b)
    BY EmptySeq DEF Separated, Holds
  <2>2. Len(<<>>) = 0 /\ \A a, b : ~LastWins(segments, 0, a, b)
    BY EmptySeq DEF LastWins
  <2>3. QED
    BY <2>1, <2>2, <1>2, <1>3 DEF ResultIsLastWins, LastWins
<1>6. QED
  BY <1>2, <1>4, <1>5 DEF IInv, StartInv, OverlayIsLastWins, ScanInv, JoinInv

\* Without an overlap the order of the list makes no difference to a read.
LEMMA FastPathStep ==
  ASSUME IInv, NEW p \in Orders(segments), FastPath(p)
  PROVE  IInv'
<1> DEFINE q == Permuted(p, segments)
<1>1. TypeOK /\ StartInv
  BY DEF IInv
<1>2. /\ pc = "start" /\ SortedBy(p, segments) /\ ~HasOverlap(q)
      /\ next' = q /\ i' = Len(segments) + 1 /\ pc' = "join"
      /\ UNCHANGED <<segments, merged, j, placed, out>>
  BY DEF FastPath
<1>3. j = 1 /\ out = <<>>
  BY <1>1, <1>2 DEF StartInv
<1>4. /\ segments \in ListType /\ AllInSpace(segments)
      /\ DOMAIN segments = 1..Len(segments) /\ Len(segments) \in Nat
  BY <1>1, LenProperties DEF TypeOK, ListType
<1>5. /\ q \in ListType /\ AllInSpace(q) /\ Len(q) = Len(segments)
      /\ \A k \in 1..Len(segments) : p[k] \in 1..Len(segments) /\ q[k] = segments[p[k]]
      /\ \A a, b : Holds(q, a, b) <=> Holds(segments, a, b)
  BY <1>2, <1>4, PermutedList
<1> HIDE DEF q
<1>6. ASSUME NEW n \in 1..Len(q)
      PROVE  /\ q[n].start \in Int /\ EndAddress(q[n]) \in Int
             /\ \A a \in Int : Covers(q[n], a) <=> q[n].start <= a /\ a <= EndAddress(q[n])
  <2>1. InSpace(q[n])
    BY <1>5 DEF AllInSpace
  <2>2. QED
    BY <2>1, SpanInSpace, MaxAddrAssumption DEF Addr
<1>7. InOrder(q)
  <2> SUFFICES ASSUME NEW m \in 1..Len(q), NEW n \in 1..Len(q), m < n
               PROVE  EndAddress(q[m]) < q[n].start
    BY DEF InOrder
  <2>1. m + 1 \in 2..Len(q) /\ m + 1 \in 1..Len(q) /\ (m + 1) - 1 = m
    BY <1>4, <1>5
  <2>2. EndAddress(q[m]) < q[m + 1].start
    <3>1. ~(q[m + 1].start <= EndAddress(q[(m + 1) - 1]))
      BY <2>1, <1>2 DEF HasOverlap
    <3>2. q[m + 1].start \in Int /\ EndAddress(q[m]) \in Int
      BY <2>1, <1>6
    <3>3. QED
      BY <2>1, <3>1, <3>2
  <2>3. q[m + 1].start <= q[n].start
    <3>1. CASE m + 1 = n
      BY <3>1, <1>6
    <3>2. CASE m + 1 < n
      <4>1. m + 1 \in DOMAIN segments /\ n \in DOMAIN segments
        BY <2>1, <1>4, <1>5
      <4>2. \/ segments[p[m + 1]].start < segments[p[n]].start
            \/ segments[p[m + 1]].start = segments[p[n]].start
        BY <4>1, <3>2, <1>2 DEF SortedBy
      <4>3. q[m + 1] = segments[p[m + 1]] /\ q[n] = segments[p[n]]
        BY <2>1, <1>5
      <4>4. q[m + 1].start \in Int /\ q[n].start \in Int
        BY <2>1, <1>6
      <4>5. QED
        BY <4>2, <4>3, <4>4
    <3>3. QED
      BY <3>1, <3>2, <1>4, <1>5
  <2>4. QED
    BY <2>1, <2>2, <2>3, <1>6
<1>8. ASSUME NEW m \in 1..Len(q), NEW n \in 1..Len(q), m < n, NEW a \in Int
      PROVE  ~(Covers(q[m], a) /\ Covers(q[n], a))
  <2>1. EndAddress(q[m]) < q[n].start
    BY <1>7, <1>8 DEF InOrder
  <2>2. QED
    BY <2>1, <1>6
<1>9. ASSUME NEW m \in 1..Len(segments), NEW l \in 1..Len(segments), m # l,
             NEW a \in Int, Covers(segments[m], a)
      PROVE  ~Covers(segments[l], a)
  <2>1. /\ \E x \in DOMAIN segments : p[x] = m
        /\ \E y \in DOMAIN segments : p[y] = l
    BY <1>2, <1>4 DEF SortedBy
  <2>2. PICK x \in 1..Len(q), y \in 1..Len(q) : p[x] = m /\ p[y] = l
    BY <2>1, <1>4, <1>5
  <2>3. q[x] = segments[m] /\ q[y] = segments[l] /\ (x < y \/ y < x)
    BY <2>2, <1>4, <1>5, <1>9
  <2>4. QED
    BY <2>3, <1>8, <1>9
<1>10. ASSUME NEW a \in Addr, NEW b \in Byte
       PROVE  Holds(q, a, b) <=> LastWins(segments, Overlaid, a, b)'
  <2>1. a \in Int
    BY MaxAddrAssumption DEF Addr
  <2>2. ASSUME NEW m \in 1..Len(segments), Has(segments[m], a, b),
               NEW l \in (m + 1)..Len(segments)
        PROVE  ~Covers(segments[l], a)
    <3>1. l \in 1..Len(segments) /\ m # l
      BY <1>4
    <3>2. QED
      BY <3>1, <2>1, <2>2, <1>9 DEF Has
  <2>3. Holds(segments, a, b) <=> LastWins(segments, Len(segments), a, b)
    BY <2>2 DEF Holds, LastWins
  <2>4. segments' = segments /\ Overlaid' = Len(segments)
    <3>1. i' = Len(segments) + 1 /\ segments' = segments /\ ~(i' <= Len(segments))
      BY <1>2, <1>4
    <3>2. QED
      BY <3>1 DEF Overlaid
  <2>5. LastWins(segments, Overlaid, a, b)' <=> LastWins(segments, Len(segments), a, b)
    BY <2>4 DEF LastWins
  <2>6. QED
    BY <2>3, <2>5, <1>5
<1>11. TypeOK'
  <2>1. i' \in 1..(Len(segments) + 1)
    BY <1>2, <1>4
  <2>2. QED
    BY <2>1, <1>1, <1>2, <1>5 DEF TypeOK, AllInSpace, InSpace
<1>12. JoinInv'
  BY <1>2, <1>3, <1>5, <1>7, <1>10, EnterJoin DEF JoinInv
<1>13. QED
  BY <1>2, <1>11, <1>12 DEF IInv, StartInv, OverlayIsLastWins, ScanInv, ResultIsLastWins

-----------------------------------------------------------------------------
(* Theorems *)

\* A stuttering step keeps the invariant.
LEMMA StutterStep == IInv /\ UNCHANGED vars => IInv'
  BY DEF vars, IInv, TypeOK, AllInSpace, InSpace, StartInv, OverlayIsLastWins,
         ScanInv, JoinInv, Overlaid, ResultIsLastWins, LastWins, seg

\* Every step keeps the invariant.
LEMMA NextStep == IInv /\ [Next]_vars => IInv'
<1> SUFFICES ASSUME IInv, [Next]_vars
             PROVE  IInv'
  OBVIOUS
<1>1. CASE UNCHANGED vars
  BY <1>1, StutterStep
<1>2. CASE Next
  BY <1>2, ReturnEmptyStep, FastPathStep, SlowPathStep, OverlayOnNothingStep,
     BeginScanStep, FinalSortStep, KeepBeforeStep, KeepAfterStep, CoverStep,
     EndScanStep, JoinNextStep, EndJoinStep
  DEF Next
<1>3. QED
  BY <1>1, <1>2

\* The strengthened invariant holds in every state of normalized().
THEOREM Invariance == Spec => []IInv
<1>1. Init => IInv
  BY InitIInv
<1>2. IInv /\ [Next]_vars => IInv'
  BY NextStep
<1>3. QED
  BY <1>1, <1>2, PTL DEF Spec

\* Every list normalized() builds holds non-empty segments inside the address
\* space, for every address space and every input.
THEOREM TypeCorrectness == Spec => []TypeOK
<1>1. IInv => TypeOK
  BY DEF IInv
<1>2. QED
  BY <1>1, Invariance, PTL

\* Between two overlays the accumulated list is separated and reads as the
\* segments overlaid so far, the last one winning.
THEOREM OverlayCorrectness == Spec => []OverlayIsLastWins
<1>1. IInv => OverlayIsLastWins
  BY DEF IInv
<1>2. QED
  BY <1>1, Invariance, PTL

\* What normalized() returns is separated and reads at every address as the
\* raw list does, the last segment winning.
THEOREM ResultCorrectness == Spec => []ResultIsLastWins
<1>1. IInv => ResultIsLastWins
  BY DEF IInv
<1>2. QED
  BY <1>1, Invariance, PTL

\* The steps of normalized() arrive at the list that Normalized computes at
\* once, the definition every other module builds on: both are canonical and
\* read as the raw list does, and only one list is.
THEOREM NormalizedCorrectness == Spec => []StepsComputeNormalized
<1>1. ASSUME IInv, pc = "done"
      PROVE  merged = Normalized(segments)
  <2>1. /\ segments \in ListType /\ AllInSpace(segments)
        /\ merged \in ListType /\ AllInSpace(merged) /\ Separated(merged)
        /\ \A a \in Addr, b \in Byte :
             Holds(merged, a, b) <=> LastWins(segments, Len(segments), a, b)
    BY <1>1 DEF IInv, TypeOK, ResultIsLastWins
  <2>2. PICK raw, got : raw = segments /\ got = merged
    OBVIOUS
  <2>3. /\ Normalized(raw) \in ListType /\ AllInSpace(Normalized(raw))
        /\ Separated(Normalized(raw))
        /\ \A a \in Int : \A b : Holds(Normalized(raw), a, b)
                             <=> LastWins(raw, Len(raw), a, b)
    BY <2>1, <2>2, NormalizedReads
  <2>4. PICK want : want = Normalized(raw)
    OBVIOUS
  <2>5. \A a \in Addr, b \in Byte : Holds(got, a, b) <=> Holds(want, a, b)
    BY <2>1, <2>2, <2>3, <2>4, MaxAddrAssumption DEF Addr
  <2>6. got = want
    BY <2>1, <2>2, <2>3, <2>4, <2>5, CanonicalUnique
  <2>7. QED
    BY <2>2, <2>4, <2>6
<1>2. IInv => StepsComputeNormalized
  BY <1>1 DEF StepsComputeNormalized
<1>3. QED
  BY Invariance, <1>2, PTL

=============================================================================
