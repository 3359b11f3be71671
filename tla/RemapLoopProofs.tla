-------------------------- MODULE RemapLoopProofs --------------------------
(***************************************************************************)
(* Proofs about remap(): for every address space, every list of segments   *)
(* and all options, the cursor of remap_segment never leaves its segment,  *)
(* so that no slice is out of bounds and no subtraction underflows, every  *)
(* part has its type, each byte lands where the address rule puts it, and  *)
(* an error means that some byte has no place.                             *)
(***************************************************************************)
EXTENDS RemapLoop, ListLemmas

Stored(s) ==
  /\ s \in [start : Addr, data : Seq(Byte)]
  /\ Len(s.data) > 0
  /\ FitsAt(s.start, Len(s.data))

\* Until set_segments the file is the one the call was made on.
InputInv == pc # "done" => \A k \in 1..Len(segments) : Stored(segments[k])

\* What was checked before the loop still holds in it.
OptionsInv ==
  /\ pc = "check" => n = 1
  /\ pc = "loop" => options.size > 0 /\ options.inc > 0 /\ options.start <= options.end

IInv == TypeOK /\ InputInv /\ OptionsInv /\ CursorInSegment

-----------------------------------------------------------------------------
(* Arithmetic and sequences *)

\* The options are records of addresses.
LEMMA OptionsAreAddresses ==
  ASSUME NEW o \in Options
  PROVE  /\ o.start \in Addr /\ o.end \in Addr /\ o.linear \in Addr
         /\ o.size \in Addr /\ o.inc \in Addr
  BY OptionsAssumption

\* The files remap() is called on hold non-empty segments with an end.
LEMMA FilesAreStored ==
  ASSUME NEW list \in Files
  PROVE  /\ list \in Seq([start : Addr, data : Seq(Byte)])
         /\ \A k \in 1..Len(list) : Stored(list[k])
<1> DEFINE T == {s \in SegmentType : ~IsEmpty(s)}
<1>1. list \in Seq(T)
  BY FilesAssumption
<1>2. \A s \in T : Stored(s)
  BY DEF SegmentType, IsEmpty, Stored
<1>3. T \subseteq [start : Addr, data : Seq(Byte)]
  BY DEF SegmentType
<1> HIDE DEF T
<1>4. list \in Seq([start : Addr, data : Seq(Byte)])
  BY <1>1, <1>3, SeqMonotonic
<1>5. \A k \in 1..Len(list) : Stored(list[k])
  BY <1>1, <1>2, ElementOfSeq
<1>6. QED
  BY <1>4, <1>5

\* The end of a stored segment, not below its start.
LEMMA StoredEnd ==
  ASSUME NEW s, Stored(s)
  PROVE  /\ EndAddress(s) \in Addr
         /\ EndAddress(s) = s.start + Len(s.data) - 1
         /\ s.start \in Addr
         /\ s.start <= EndAddress(s)
  BY MaxAddrAssumption DEF Stored, EndAddress, IsEmpty, FitsAt, Addr

\* A part cut between two addresses of a segment is made of its bytes.
LEMMA PartType ==
  ASSUME NEW s, Stored(s), NEW lo \in Int, NEW hi \in Int, NEW mapped \in Addr,
         s.start <= lo, lo <= hi, hi <= EndAddress(s)
  PROVE  [Clip(s, lo, hi) EXCEPT !.start = mapped] \in [start : Addr, data : Seq(Byte)]
<1>1. EndAddress(s) = s.start + Len(s.data) - 1 /\ s.start \in Int
  BY StoredEnd, MaxAddrAssumption DEF Addr
<1>2. s.data \in Seq(Byte)
  BY DEF Stored
<1>3. SubSeq(s.data, lo - s.start + 1, hi - s.start + 1) \in Seq(Byte)
  <2>1. lo - s.start + 1 \in 1..(Len(s.data) + 1) /\ hi - s.start + 1 \in 0..Len(s.data)
    BY <1>1, <1>2
  <2>2. QED
    BY <1>2, <2>1, SubSeqProperties
<1> DEFINE d == SubSeq(s.data, lo - s.start + 1, hi - s.start + 1)
<1>4. Clip(s, lo, hi) = [start |-> lo, data |-> d]
  BY DEF Clip
<1>5. d \in Seq(Byte)
  BY <1>3
<1> HIDE DEF d
<1>6. [[start |-> lo, data |-> d] EXCEPT !.start = mapped] = [start |-> mapped, data |-> d]
  OBVIOUS
<1>7. QED
  BY <1>4, <1>5, <1>6

\* A part of s that is put at the address mapped.
Moved(s, lo, hi, mapped) == [Clip(s, lo, hi) EXCEPT !.start = mapped]

\* A part holds the bytes of its segment from the address it is cut at.
LEMMA PartBytes ==
  ASSUME NEW s, Stored(s), NEW lo \in Int, NEW hi \in Int, NEW mapped \in Addr,
         s.start <= lo, lo <= hi, hi <= EndAddress(s),
         NEW part, part = Moved(s, lo, hi, mapped)
  PROVE  /\ part.start = mapped
         /\ DOMAIN part.data = 1..(hi - lo + 1)
         /\ \A k \in 1..(hi - lo + 1) : part.data[k] = ByteAt(s, lo + k - 1)
<1>1. EndAddress(s) = s.start + Len(s.data) - 1 /\ s.start \in Int
  BY StoredEnd, MaxAddrAssumption DEF Addr
<1>2. s.data \in Seq(Byte)
  BY DEF Stored
<1> DEFINE from == lo - s.start + 1
           to == hi - s.start + 1
           d == SubSeq(s.data, from, to)
<1>3. Len(s.data) \in Nat
  BY <1>2, LenProperties
<1>4. from \in 1..(Len(s.data) + 1) /\ to \in 0..Len(s.data)
  BY <1>1, <1>3
<1>5. to - from + 1 = hi - lo + 1 /\ from <= to
  BY <1>1, <1>3
<1>6. \A i \in from..to : s.data[i] \in Byte
  BY <1>2, <1>3, <1>4
<1> HIDE DEF from, to
<1>7. /\ Len(d) = hi - lo + 1 /\ d \in Seq(Byte)
      /\ \A k \in 1..(hi - lo + 1) : d[k] = s.data[from + k - 1]
  BY <1>4, <1>5, <1>6, SubSeqProperties
<1>8. Clip(s, lo, hi) = [start |-> lo, data |-> d]
  BY DEF Clip, from, to
<1> HIDE DEF d
<1>9. part.start = mapped /\ part.data = d
  BY <1>8 DEF Moved
<1>10. DOMAIN d = 1..(hi - lo + 1)
  BY <1>7, LenProperties
<1>11. \A k \in 1..(hi - lo + 1) : d[k] = ByteAt(s, lo + k - 1)
  <2> TAKE k \in 1..(hi - lo + 1)
  <2>1. from + k - 1 = (lo + k - 1) - s.start + 1
    BY <1>1 DEF from
  <2>2. d[k] = s.data[from + k - 1]
    BY <1>7
  <2>3. QED
    BY <2>1, <2>2 DEF ByteAt
<1>12. QED
  BY <1>9, <1>10, <1>11

-----------------------------------------------------------------------------
(* The actions *)

\* The loop is entered and left in the invariant.
LEMMA InitIInv == Init => IInv
<1> SUFFICES ASSUME Init PROVE IInv
  OBVIOUS
<1>1. segments \in Files /\ pc = "check" /\ n = 1 /\ start = 0 /\ remapped = <<>>
      /\ options \in Options /\ res = "ok"
  BY DEF Init
<1>2. /\ segments \in Seq([start : Addr, data : Seq(Byte)])
      /\ \A k \in 1..Len(segments) : Stored(segments[k])
  BY <1>1, FilesAreStored
<1>3. TypeOK
  BY <1>1, <1>2, MaxAddrAssumption, EmptySeq DEF TypeOK, Addr
<1>4. QED
  BY <1>1, <1>2, <1>3 DEF IInv, InputInv, OptionsInv, CursorInSegment, InLoop

\* Facts about the segment and the cursor, used in the actions of the loop.
LEMMA LoopFacts ==
  ASSUME IInv, InLoop
  PROVE  /\ n \in 1..Len(segments)
         /\ Stored(seg)
         /\ segEnd \in Addr /\ start \in Addr
         /\ seg.start <= start /\ start <= segEnd
         /\ options.start \in Addr /\ options.end \in Addr /\ options.linear \in Addr
         /\ options.size \in Addr /\ options.inc \in Addr
         /\ options.size > 0 /\ options.inc > 0
<1>1. n \in 1..Len(segments)
  BY DEF IInv, TypeOK, InLoop
<1>2. Stored(seg)
  BY <1>1 DEF IInv, InputInv, InLoop, seg
<1>3. segEnd \in Addr
  BY <1>2, StoredEnd DEF segEnd
<1>4. options.start \in Addr /\ options.end \in Addr /\ options.linear \in Addr
      /\ options.size \in Addr /\ options.inc \in Addr
  BY OptionsAreAddresses DEF IInv, TypeOK
<1>5. QED
  BY <1>1, <1>2, <1>3, <1>4 DEF IInv, TypeOK, CursorInSegment, OptionsInv, InLoop

\* A turn that ends its part between the cursor and the end of the segment
\* takes at least one byte and leaves the cursor in a segment.
LEMMA TakeStep ==
  ASSUME IInv, InLoop, NEW end \in Int, start <= end, end <= segEnd,
         NEW mapped \in Nat, Take(end, mapped)
  PROVE  IInv'
<1>1. /\ n \in 1..Len(segments)
      /\ Stored(seg)
      /\ segEnd \in Addr /\ start \in Addr
      /\ seg.start <= start /\ start <= segEnd
  BY LoopFacts
<1>2. CASE Overflows(end, mapped)
  <2>1. /\ pc' = "done" /\ res' = "error" /\ segments' = segments
        /\ UNCHANGED <<options, n, start, remapped>>
    BY <1>2 DEF Take, Finish
  <2>2. QED
    BY <2>1 DEF IInv, TypeOK, InputInv, OptionsInv, CursorInSegment, InLoop
<1>3. CASE ~Overflows(end, mapped)
  <2>1. /\ remapped' = Append(remapped, Part(end, mapped))
        /\ Advance(end)
        /\ UNCHANGED <<segments, options, pc, res>>
    BY <1>3 DEF Take
  <2>2. Part(end, mapped) \in [start : Addr, data : Seq(Byte)]
    <3>1. mapped \in Addr
      BY <1>3, MaxAddrAssumption DEF Overflows, Addr
    <3>2. QED
      BY <1>1, <3>1, PartType, MaxAddrAssumption DEF Part, segEnd, Addr
  <2>3. remapped' \in Seq([start : Addr, data : Seq(Byte)])
    BY <2>1, <2>2, AppendProperties DEF IInv, TypeOK
  <2>4. CASE end # segEnd
    <3>1. start' = end + 1 /\ n' = n
      BY <2>1, <2>4 DEF Advance
    <3>2. start' \in Addr /\ seg.start <= start' /\ start' <= segEnd
      BY <1>1, <2>4, <3>1, StoredEnd, MaxAddrAssumption DEF Addr
    <3>3. seg' = seg /\ segEnd' = segEnd
      BY <2>1, <3>1 DEF seg, segEnd
    <3>4. QED
      BY <1>1, <2>1, <2>3, <3>1, <3>2, <3>3
      DEF IInv, TypeOK, InputInv, OptionsInv, CursorInSegment, InLoop
  <2>5. CASE end = segEnd
    <3>1. /\ n' = n + 1
          /\ start' = IF n < Len(segments) THEN segments[n + 1].start ELSE start
      BY <2>1, <2>5 DEF Advance
    <3>2. segments \in Seq([start : Addr, data : Seq(Byte)]) /\ Len(segments) \in Nat
      BY DEF IInv, TypeOK
    <3>3. n < Len(segments) =>
            /\ Stored(segments[n + 1])
            /\ start' = segments[n + 1].start
      BY <1>1, <3>1, <3>2 DEF IInv, InputInv, InLoop
    <3>4. n < Len(segments) =>
            /\ start' \in Addr
            /\ start' <= EndAddress(segments[n + 1])
      BY <3>3, StoredEnd
    <3>5. start' \in Addr
      BY <1>1, <3>1, <3>4
    <3>6. n' \in 1..(Len(segments') + 1)
      BY <1>1, <2>1, <3>1, <3>2
    <3>7. seg' = segments[n + 1] /\ segEnd' = EndAddress(segments[n + 1])
      BY <2>1, <3>1 DEF seg, segEnd
    <3>8. CursorInSegment'
      <4> SUFFICES ASSUME InLoop' PROVE seg'.start <= start' /\ start' <= segEnd'
        BY DEF CursorInSegment
      <4>1. n < Len(segments)
        BY <1>1, <2>1, <3>1, <3>2 DEF InLoop
      <4>2. seg'.start = start' /\ start' \in Int
        BY <4>1, <3>3, <3>5, <3>7 DEF Addr
      <4>3. QED
        BY <4>1, <4>2, <3>4, <3>7
    <3>9. TypeOK' /\ InputInv' /\ OptionsInv'
      BY <2>1, <2>3, <3>5, <3>6 DEF IInv, TypeOK, InputInv, OptionsInv, InLoop
    <3>10. QED
      BY <3>8, <3>9 DEF IInv
  <2>6. QED
    BY <2>4, <2>5
<1>4. QED
  BY <1>2, <1>3

\* A part ahead of the remapped range ends before the range or with the segment.
LEMMA KeepBelowStep == IInv /\ KeepBelow => IInv'
<1> SUFFICES ASSUME IInv, KeepBelow PROVE IInv'
  OBVIOUS
<1> DEFINE end == Least(segEnd, options.start - 1)
<1>1. InLoop /\ start < options.start /\ Take(end, start)
  BY DEF KeepBelow
<1>2. segEnd \in Int /\ options.start \in Int /\ start \in Nat /\ start <= segEnd
  BY <1>1, LoopFacts DEF Addr
<1>3. end \in Int /\ start <= end /\ end <= segEnd
  BY <1>1, <1>2 DEF Least
<1> HIDE DEF end
<1>4. QED
  BY <1>1, <1>2, <1>3, TakeStep

\* The rest of a segment behind the range is one part.
LEMMA KeepAboveStep == IInv /\ KeepAbove => IInv'
<1> SUFFICES ASSUME IInv, KeepAbove PROVE IInv'
  OBVIOUS
<1>1. InLoop /\ Take(segEnd, start)
  BY DEF KeepAbove
<1>2. segEnd \in Int /\ start \in Nat /\ start <= segEnd
  BY <1>1, LoopFacts DEF Addr
<1>3. QED
  BY <1>1, <1>2, TakeStep

\* A window of at least one byte ends between the cursor and the ends of the
\* segment and of the range.
LEMMA WindowEnd ==
  ASSUME IInv, InLoop, Inside, NEW length \in Int, length > 0
  PROVE  /\ Window(length) \in Int
         /\ start <= Window(length)
         /\ Window(length) <= segEnd
<1>1. /\ segEnd \in Int /\ start \in Int /\ start <= segEnd /\ start <= MaxAddr
      /\ options.end \in Int /\ start <= options.end
  BY LoopFacts DEF Addr, Inside
<1> DEFINE sum == SaturatingAdd(start, length - 1)
<1>2. sum \in Int /\ start <= sum
  BY <1>1, MaxAddrAssumption DEF SaturatingAdd, Least
<1> HIDE DEF sum
<1> DEFINE inner == Least(sum, segEnd)
<1>3. inner \in Int /\ start <= inner /\ inner <= segEnd
  BY <1>1, <1>2 DEF Least
<1>4. Window(length) = Least(inner, options.end)
  BY DEF Window, sum
<1> HIDE DEF inner
<1>5. QED
  BY <1>1, <1>3, <1>4 DEF Least

\* The number of a bank and the offset in it.
LEMMA BankFacts ==
  ASSUME IInv, InLoop, Inside
  PROVE  /\ bankIndex \in Nat
         /\ bankOffset \in Nat
         /\ bankOffset < options.inc
<1>1. /\ start - options.start \in Nat
      /\ options.inc \in Nat /\ options.inc > 0
  BY LoopFacts, MaxAddrAssumption DEF Inside, Addr
<1>2. \A x \in Nat, y \in Nat : y > 0 => x \div y \in Nat /\ x % y \in 0..(y - 1)
  OBVIOUS
<1>3. QED
  BY <1>1, <1>2 DEF bankIndex, bankOffset

\* A part in the window of a bank.
LEMMA MapBankStep == IInv /\ MapBank => IInv'
<1> SUFFICES ASSUME IInv, MapBank PROVE IInv'
  OBVIOUS
<1> DEFINE end == Window(options.size - bankOffset)
           mapped == options.linear + bankIndex * options.size + bankOffset
<1>1. InLoop /\ Inside /\ bankOffset < options.size /\ Take(end, mapped)
  BY DEF MapBank
<1>2. /\ bankIndex \in Nat /\ bankOffset \in Nat
      /\ options.linear \in Nat /\ options.size \in Nat
  BY <1>1, BankFacts, LoopFacts DEF Addr
<1>3. end \in Int /\ start <= end /\ end <= segEnd
  BY <1>1, <1>2, WindowEnd
<1>4. mapped \in Nat
  <2>1. bankIndex * options.size \in Nat
    BY <1>2
  <2>2. QED
    BY <1>2, <2>1
<1> HIDE DEF end, mapped
<1>5. QED
  BY <1>1, <1>3, <1>4, TakeStep

\* A part between the windows of two banks.
LEMMA KeepHoleStep == IInv /\ KeepHole => IInv'
<1> SUFFICES ASSUME IInv, KeepHole PROVE IInv'
  OBVIOUS
<1> DEFINE end == Window(options.inc - bankOffset)
<1>1. InLoop /\ Inside /\ Take(end, start)
  BY DEF KeepHole
<1>2. bankOffset \in Nat /\ bankOffset < options.inc /\ options.inc \in Nat
      /\ start \in Nat
  BY <1>1, BankFacts, LoopFacts DEF Addr
<1>3. end \in Int /\ start <= end /\ end <= segEnd
  BY <1>1, <1>2, WindowEnd
<1> HIDE DEF end
<1>4. QED
  BY <1>1, <1>2, <1>3, TakeStep

\* Options that make no sense end the call before the loop.
LEMMA RefuseStep == IInv /\ Refuse => IInv'
  BY DEF IInv, TypeOK, InputInv, OptionsInv, CursorInSegment, InLoop, Refuse, Finish

\* The loop starts at the first byte of the first segment.
LEMMA BeginStep == IInv /\ Begin => IInv'
<1> SUFFICES ASSUME IInv, Begin PROVE IInv'
  OBVIOUS
<1>1. /\ pc = "check" /\ pc' = "loop"
      /\ options.size # 0 /\ options.inc # 0 /\ options.start <= options.end
      /\ start' = IF segments = <<>> THEN start ELSE segments[1].start
      /\ UNCHANGED <<segments, options, n, remapped, res>>
  BY DEF Begin
<1>2. /\ n = 1 /\ segments \in Seq([start : Addr, data : Seq(Byte)])
      /\ Len(segments) \in Nat /\ start \in Addr
  BY <1>1 DEF IInv, TypeOK, OptionsInv
<1>3. segments # <<>> => 1 \in 1..Len(segments) /\ Stored(segments[1])
  <2>1. segments # <<>> => 1 \in 1..Len(segments)
    BY <1>2, EmptySeq
  <2>2. QED
    BY <1>1, <2>1 DEF IInv, InputInv
<1>4. segments # <<>> =>
        /\ start' = segments[1].start /\ start' \in Addr
        /\ start' <= EndAddress(segments[1])
  BY <1>1, <1>3, StoredEnd
<1>5. start' \in Addr
  BY <1>1, <1>2, <1>4
<1>6. OptionsInv'
  <2>1. options.size \in Nat /\ options.inc \in Nat
    BY OptionsAreAddresses DEF IInv, TypeOK, Addr
  <2>2. QED
    BY <1>1, <2>1 DEF OptionsInv
<1>7. CursorInSegment'
  <2> SUFFICES ASSUME InLoop' PROVE seg'.start <= start' /\ start' <= segEnd'
    BY DEF CursorInSegment
  <2>1. segments # <<>>
    BY <1>1, <1>2, EmptySeq DEF InLoop
  <2>2. seg' = segments[1] /\ segEnd' = EndAddress(segments[1])
    BY <1>1, <1>2 DEF seg, segEnd
  <2>3. start' \in Int
    BY <1>5 DEF Addr
  <2>4. QED
    BY <2>1, <2>2, <2>3, <1>4
<1>8. TypeOK' /\ InputInv'
  BY <1>1, <1>2, <1>5 DEF IInv, TypeOK, InputInv
<1>9. QED
  BY <1>6, <1>7, <1>8 DEF IInv

\* The parts become the file.
LEMMA SetSegmentsStep == IInv /\ SetSegments => IInv'
  BY DEF IInv, TypeOK, InputInv, OptionsInv, CursorInSegment, InLoop, SetSegments, Finish

\* Every step keeps the invariant.
LEMMA NextStep == IInv /\ [Next]_vars => IInv'
<1> SUFFICES ASSUME IInv, [Next]_vars PROVE IInv'
  OBVIOUS
<1>1. CASE Refuse
  BY <1>1, RefuseStep
<1>2. CASE Begin
  BY <1>2, BeginStep
<1>3. CASE KeepBelow
  BY <1>3, KeepBelowStep
<1>4. CASE KeepAbove
  BY <1>4, KeepAboveStep
<1>5. CASE MapBank
  BY <1>5, MapBankStep
<1>6. CASE KeepHole
  BY <1>6, KeepHoleStep
<1>7. CASE SetSegments
  BY <1>7, SetSegmentsStep
<1>8. CASE UNCHANGED vars
  BY <1>8 DEF vars, IInv, TypeOK, InputInv, OptionsInv, CursorInSegment, InLoop,
              Stored, seg, segEnd
<1>9. QED
  BY <1>1, <1>2, <1>3, <1>4, <1>5, <1>6, <1>7, <1>8 DEF Next

-----------------------------------------------------------------------------
(* Where the parts land *)

\* What PlacedByAddress says of one step.
PlacesPart ==
  Len(remapped') > Len(remapped) /\ options.size <= options.inc => PartPlaced

\* A byte of the file that the address rule puts outside the address space.
Unplaceable ==
  \E k \in 1..Len(segments) :
    \E a \in segments[k].start..EndAddress(segments[k]) : MapAddress(a) > MaxAddr

\* What a turn of the loop does: it places its part, or fails for a reason.
FollowsRule ==
  /\ PlacesPart
  /\ res = "ok" /\ res' = "error" /\ options.size <= options.inc => Unplaceable

\* A part that overflows holds a byte with no place: its last one.
LEMMA OverflowIsReal ==
  ASSUME IInv, InLoop, NEW end \in Int, start <= end, end <= segEnd,
         NEW mapped \in Nat, Overflows(end, mapped),
         \A k \in 1..(end - start + 1) : mapped + k - 1 = MapAddress(start + k - 1)
  PROVE  Unplaceable
<1>1. /\ n \in 1..Len(segments) /\ Stored(seg)
      /\ segEnd \in Int /\ start \in Int /\ seg.start <= start
  BY LoopFacts, MaxAddrAssumption DEF Addr
<1>2. end - start + 1 <= MaxAddr
  <2>1. /\ segEnd = seg.start + Len(seg.data) - 1 /\ seg.start \in Int
        /\ Len(seg.data) \in Nat
    BY <1>1, StoredEnd, LenProperties, MaxAddrAssumption DEF segEnd, Addr, Stored
  <2>2. Len(seg.data) <= MaxAddr
    BY <1>1, <2>1, MaxAddrAssumption DEF Stored, FitsAt
  <2>3. QED
    BY <1>1, <2>1, <2>2, MaxAddrAssumption
<1>3. mapped + (end - start) > MaxAddr
  BY <1>1, <1>2, MaxAddrAssumption DEF Overflows, FitsAt
<1>4. MapAddress(end) = mapped + (end - start)
  <2> DEFINE k == end - start + 1
  <2>1. k \in 1..(end - start + 1) /\ start + k - 1 = end /\ mapped + k - 1 = mapped + (end - start)
    BY <1>1
  <2> HIDE DEF k
  <2>2. QED
    BY <2>1
<1>5. end \in segments[n].start..EndAddress(segments[n])
  BY <1>1, StoredEnd, MaxAddrAssumption DEF seg, segEnd, Addr
<1>6. QED
  BY <1>1, <1>3, <1>4, <1>5 DEF Unplaceable

\* A turn that moves its part as a whole as the address rule moves each of
\* its addresses places it.
LEMMA TakePlaces ==
  ASSUME IInv, InLoop, NEW end \in Int, start <= end, end <= segEnd,
         NEW mapped \in Nat, Take(end, mapped),
         \A k \in 1..(end - start + 1) : mapped + k - 1 = MapAddress(start + k - 1)
  PROVE  FollowsRule
<1>1. CASE Overflows(end, mapped)
  <2>1. remapped' = remapped
    BY <1>1 DEF Take
  <2>2. Len(remapped) \in Nat
    BY LenProperties DEF IInv, TypeOK
  <2>3. PlacesPart
    BY <2>1, <2>2 DEF PlacesPart
  <2>4. Unplaceable
    BY <1>1, OverflowIsReal
  <2>5. QED
    BY <2>3, <2>4 DEF FollowsRule
<1>2. CASE ~Overflows(end, mapped)
  <2> DEFINE part == Part(end, mapped)
  <2>1. Stored(seg) /\ segEnd \in Int /\ start \in Int /\ seg.start <= start
    BY LoopFacts, MaxAddrAssumption DEF Addr
  <2>2. mapped \in Addr
    BY <1>2, MaxAddrAssumption DEF Overflows, Addr
  <2>3. part = Moved(seg, start, end, mapped) /\ end <= EndAddress(seg)
    BY DEF Part, Moved, segEnd
  <2>4. remapped' = Append(remapped, part)
    BY <1>2 DEF Take
  <2> HIDE DEF part
  <2>5. /\ part.start = mapped
        /\ DOMAIN part.data = 1..(end - start + 1)
        /\ \A k \in 1..(end - start + 1) : part.data[k] = ByteAt(seg, start + k - 1)
    BY <2>1, <2>2, <2>3, PartBytes
  <2>6. remapped'[Len(remapped')] = part
    BY <2>4 DEF IInv, TypeOK
  <2>7. PlacesPart
    BY <2>5, <2>6 DEF PlacesPart, PartPlaced
  <2>8. res' = res
    BY <1>2 DEF Take
  <2>9. QED
    BY <2>7, <2>8 DEF FollowsRule
<1>3. QED
  BY <1>1, <1>2

\* Addresses ahead of the range stay.
LEMMA KeepBelowPlaces == IInv /\ KeepBelow => FollowsRule
<1> SUFFICES ASSUME IInv, KeepBelow PROVE FollowsRule
  OBVIOUS
<1> DEFINE end == Least(segEnd, options.start - 1)
<1>1. InLoop /\ start < options.start /\ Take(end, start)
  BY DEF KeepBelow
<1>2. segEnd \in Int /\ options.start \in Int /\ start \in Nat /\ start <= segEnd
  BY <1>1, LoopFacts DEF Addr
<1>3. end \in Int /\ start <= end /\ end <= segEnd /\ end < options.start
  BY <1>1, <1>2 DEF Least
<1> HIDE DEF end
<1>4. \A k \in 1..(end - start + 1) : start + k - 1 = MapAddress(start + k - 1)
  BY <1>2, <1>3 DEF MapAddress
<1>5. QED
  BY <1>1, <1>2, <1>3, <1>4, TakePlaces

\* Addresses behind the range stay.
LEMMA KeepAbovePlaces == IInv /\ KeepAbove => FollowsRule
<1> SUFFICES ASSUME IInv, KeepAbove PROVE FollowsRule
  OBVIOUS
<1>1. InLoop /\ start > options.end /\ Take(segEnd, start)
  BY DEF KeepAbove
<1>2. segEnd \in Int /\ options.end \in Int /\ start \in Nat /\ start <= segEnd
  BY <1>1, LoopFacts DEF Addr
<1> DEFINE end == segEnd
<1>3. /\ end \in Int /\ start <= end /\ end <= segEnd
      /\ Take(end, start)
      /\ \A k \in 1..(end - start + 1) : start + k - 1 = MapAddress(start + k - 1)
  BY <1>1, <1>2 DEF MapAddress
<1> HIDE DEF end
<1>4. QED
  BY <1>1, <1>2, <1>3, TakePlaces

\* A window of some length ends with the range and within that length.
LEMMA WindowBound ==
  ASSUME IInv, InLoop, Inside, NEW length \in Int, length > 0
  PROVE  Window(length) <= start + length - 1 /\ Window(length) <= options.end
<1>1. segEnd \in Int /\ start \in Int /\ options.end \in Int
  BY LoopFacts DEF Addr
<1> DEFINE sum == SaturatingAdd(start, length - 1)
<1>2. sum \in Int /\ sum <= start + length - 1
  BY <1>1, MaxAddrAssumption DEF SaturatingAdd, Least
<1> HIDE DEF sum
<1> DEFINE inner == Least(sum, segEnd)
<1>3. inner \in Int /\ inner <= sum
  BY <1>1, <1>2 DEF Least
<1>4. Window(length) = Least(inner, options.end)
  BY DEF Window, sum
<1> HIDE DEF inner
<1>5. QED
  BY <1>1, <1>2, <1>3, <1>4 DEF Least

\* The addresses of one part of a bank: the k-th has the bank of the first
\* and an offset k - 1 higher.
LEMMA BankOfAddress ==
  ASSUME IInv, InLoop, Inside, NEW k \in Nat, k > 0,
         bankOffset + k - 1 < options.inc
  PROVE  /\ ((start + k - 1) - options.start) \div options.inc = bankIndex
         /\ ((start + k - 1) - options.start) % options.inc = bankOffset + k - 1
<1>1. /\ start \in Int /\ options.start \in Int
      /\ start - options.start \in Nat
      /\ options.inc \in Nat /\ options.inc > 0
  BY LoopFacts, MaxAddrAssumption DEF Inside, Addr
<1> DEFINE x == start - options.start
           j == k - 1
<1>2. x \in Nat /\ j \in Nat /\ (start + k - 1) - options.start = x + j
  BY <1>1
<1>3. bankIndex = x \div options.inc /\ bankOffset = x % options.inc
  BY DEF bankIndex, bankOffset
<1>4. bankOffset \in Nat
  BY BankFacts
<1>5. bankOffset + j < options.inc /\ bankOffset + k - 1 = bankOffset + j
  BY <1>4, <1>1
<1> HIDE DEF x, j
<1>6. (x + j) \div options.inc = x \div options.inc
      /\ (x + j) % options.inc = (x % options.inc) + j
  BY <1>1, <1>2, <1>3, <1>5, SameQuotient
<1>7. QED
  BY <1>2, <1>3, <1>5, <1>6

\* A part in the window of a bank goes to the packed place of the bank.
LEMMA MapBankPlaces == IInv /\ MapBank => FollowsRule
<1> SUFFICES ASSUME IInv, MapBank, options.size <= options.inc PROVE FollowsRule
  BY DEF FollowsRule, PlacesPart
<1> DEFINE end == Window(options.size - bankOffset)
           mapped == options.linear + bankIndex * options.size + bankOffset
<1>1. InLoop /\ Inside /\ bankOffset < options.size /\ Take(end, mapped)
  BY DEF MapBank
<1>2. /\ bankIndex \in Nat /\ bankOffset \in Nat
      /\ options.linear \in Nat /\ options.size \in Nat /\ options.inc \in Nat
      /\ start \in Nat /\ options.start \in Nat /\ options.end \in Nat
      /\ options.start <= start
  BY <1>1, BankFacts, LoopFacts DEF Addr, Inside
<1>3. end \in Int /\ start <= end /\ end <= segEnd
  BY <1>1, <1>2, WindowEnd
<1>4. end <= start + (options.size - bankOffset) - 1 /\ end <= options.end
  BY <1>1, <1>2, WindowBound
<1>5. bankIndex * options.size \in Nat
  BY <1>2
<1>6. mapped \in Nat
  BY <1>2, <1>5
<1> HIDE DEF end
<1>7. ASSUME NEW k \in 1..(end - start + 1)
      PROVE  mapped + k - 1 = MapAddress(start + k - 1)
  <2>1. k \in Nat /\ k > 0 /\ bankOffset + k - 1 < options.size
    BY <1>2, <1>3, <1>4
  <2>2. bankOffset + k - 1 < options.inc
    BY <1>2, <2>1
  <2>3. /\ ((start + k - 1) - options.start) \div options.inc = bankIndex
        /\ ((start + k - 1) - options.start) % options.inc = bankOffset + k - 1
    BY <1>1, <2>1, <2>2, BankOfAddress
  <2>4. ~(start + k - 1 < options.start) /\ ~(start + k - 1 > options.end)
    BY <1>2, <1>3, <1>4, <2>1
  <2>5. ~(((start + k - 1) - options.start) % options.inc >= options.size)
    BY <1>2, <2>1, <2>3
  <2>6. MapAddress(start + k - 1)
          = options.linear + bankIndex * options.size + (bankOffset + k - 1)
    <3> DEFINE a == start + k - 1
    <3>1. ~(a < options.start \/ a > options.end
            \/ (a - options.start) % options.inc >= options.size)
      BY <2>4, <2>5, Zenon
    <3>2. /\ (a - options.start) \div options.inc = bankIndex
          /\ (a - options.start) % options.inc = bankOffset + k - 1
      BY <2>3, Zenon
    <3> HIDE DEF a
    <3>3. MapAddress(a) = options.linear + ((a - options.start) \div options.inc) * options.size
                          + ((a - options.start) % options.inc)
      BY <3>1, Zenon DEF MapAddress
    <3>4. MapAddress(a) = options.linear + bankIndex * options.size + (bankOffset + k - 1)
      BY <3>2, <3>3
    <3>5. QED
      BY <3>4 DEF a
  <2>7. QED
    BY <1>2, <1>5, <2>1, <2>6
<1> HIDE DEF mapped
<1>8. QED
  BY <1>1, <1>3, <1>6, <1>7, TakePlaces

\* A part between two windows stays.
LEMMA KeepHolePlaces == IInv /\ KeepHole => FollowsRule
<1> SUFFICES ASSUME IInv, KeepHole PROVE FollowsRule
  OBVIOUS
<1> DEFINE end == Window(options.inc - bankOffset)
<1>1. InLoop /\ Inside /\ bankOffset >= options.size /\ Take(end, start)
  BY DEF KeepHole
<1>2. /\ bankOffset \in Nat /\ bankOffset < options.inc
      /\ options.inc \in Nat /\ options.size \in Nat /\ start \in Nat
  BY <1>1, BankFacts, LoopFacts DEF Addr
<1>3. end \in Int /\ start <= end /\ end <= segEnd
  BY <1>1, <1>2, WindowEnd
<1>4. end <= start + (options.inc - bankOffset) - 1
  BY <1>1, <1>2, WindowBound
<1> HIDE DEF end
<1>5. ASSUME NEW k \in 1..(end - start + 1)
      PROVE  start + k - 1 = MapAddress(start + k - 1)
  <2>1. k \in Nat /\ k > 0 /\ bankOffset + k - 1 < options.inc
    BY <1>2, <1>3, <1>4
  <2>2. ((start + k - 1) - options.start) % options.inc = bankOffset + k - 1
    BY <1>1, <2>1, BankOfAddress
  <2>3. ((start + k - 1) - options.start) % options.inc >= options.size
    BY <1>1, <1>2, <2>1, <2>2
  <2> DEFINE a == start + k - 1
  <2>4. (a - options.start) % options.inc >= options.size
    BY <2>3, Zenon
  <2> HIDE DEF a
  <2>5. MapAddress(a) = a
    BY <2>4, Zenon DEF MapAddress
  <2>6. QED
    BY <2>5 DEF a
<1>6. QED
  BY <1>1, <1>2, <1>3, <1>5, TakePlaces

\* The other steps cut no part.
LEMMA OtherPlaces ==
  ASSUME IInv, UNCHANGED remapped
  PROVE  PlacesPart
<1>1. Len(remapped) \in Nat
  BY LenProperties DEF IInv, TypeOK
<1>2. QED
  BY <1>1 DEF PlacesPart

\* Every step places the part it cuts.
LEMMA NextPlaces == IInv /\ [Next]_vars => PlacesPart
<1> SUFFICES ASSUME IInv, [Next]_vars PROVE PlacesPart
  OBVIOUS
<1>1. CASE Refuse
  BY <1>1, OtherPlaces DEF Refuse
<1>2. CASE Begin
  BY <1>2, OtherPlaces DEF Begin
<1>3. CASE KeepBelow
  BY <1>3, KeepBelowPlaces DEF FollowsRule
<1>4. CASE KeepAbove
  BY <1>4, KeepAbovePlaces DEF FollowsRule
<1>5. CASE MapBank
  BY <1>5, MapBankPlaces DEF FollowsRule
<1>6. CASE KeepHole
  BY <1>6, KeepHolePlaces DEF FollowsRule
<1>7. CASE SetSegments
  BY <1>7, OtherPlaces DEF SetSegments
<1>8. CASE UNCHANGED vars
  BY <1>8, OtherPlaces DEF vars
<1>9. QED
  BY <1>1, <1>2, <1>3, <1>4, <1>5, <1>6, <1>7, <1>8 DEF Next

-----------------------------------------------------------------------------
(* What an error means *)

\* The call has no result while it runs, and an error has a reason.
ErrorInv == (pc # "done" => res = "ok") /\ ErrorsAreReal

\* A turn of the loop leaves the file and the options alone; if it fails, it
\* is for a byte with no place.
LEMMA TurnErrors ==
  ASSUME IInv, ErrorInv, InLoop, FollowsRule, NEW end, NEW mapped, Take(end, mapped)
  PROVE  ErrorInv'
<1>1. res = "ok" /\ segments' = segments /\ options' = options
  BY DEF ErrorInv, InLoop, Take, Finish
<1>2. pc' # "done" => res' = "ok"
  BY <1>1 DEF InLoop, Take, Finish
<1>3. ASSUME res' = "error", options.size <= options.inc PROVE Unplaceable
  BY <1>1, <1>3 DEF FollowsRule
<1>4. ErrorsAreReal'
  <2> SUFFICES ASSUME res' = "error", options'.size <= options'.inc PROVE Unplaceable'
    BY DEF ErrorsAreReal, Unplaceable
  <2>1. Unplaceable
    BY <1>1, <1>3
  <2>2. QED
    BY <1>1, <2>1 DEF Unplaceable, MapAddress
<1>5. QED
  BY <1>2, <1>4 DEF ErrorInv

\* No error is reported without a reason in any step.
LEMMA NextErrors == IInv /\ ErrorInv /\ [Next]_vars => ErrorInv'
<1> SUFFICES ASSUME IInv, ErrorInv, [Next]_vars PROVE ErrorInv'
  OBVIOUS
<1>1. CASE Refuse
  BY <1>1 DEF Refuse, Finish, ErrorInv, ErrorsAreReal
<1>2. CASE Begin
  BY <1>2 DEF Begin, ErrorInv, ErrorsAreReal
<1>3. CASE KeepBelow
  BY <1>3, KeepBelowPlaces, TurnErrors DEF KeepBelow
<1>4. CASE KeepAbove
  BY <1>4, KeepAbovePlaces, TurnErrors DEF KeepAbove
<1>5. CASE MapBank
  BY <1>5, MapBankPlaces, TurnErrors DEF MapBank
<1>6. CASE KeepHole
  BY <1>6, KeepHolePlaces, TurnErrors DEF KeepHole
<1>7. CASE SetSegments
  BY <1>7 DEF SetSegments, Finish, ErrorInv, ErrorsAreReal
<1>8. CASE UNCHANGED vars
  BY <1>8 DEF vars, ErrorInv, ErrorsAreReal, MapAddress
<1>9. QED
  BY <1>1, <1>2, <1>3, <1>4, <1>5, <1>6, <1>7, <1>8 DEF Next

-----------------------------------------------------------------------------
(* No byte is lost *)

\* Segments and parts, wherever their bytes lie.
Piece == [start : Addr, data : Seq(Byte)]

\* The bytes of longer and longer prefixes of a list.
IsStream(acc, list) ==
  /\ acc \in [0..Len(list) -> Seq(Byte)]
  /\ acc[0] = <<>>
  /\ \A k \in 1..Len(list) : acc[k] = acc[k - 1] \o list[k].data

\* The bytes of a list are the last of the bytes of its prefixes.
LEMMA StreamRun ==
  ASSUME NEW list \in Seq(Piece)
  PROVE  \E acc : IsStream(acc, list) /\ Stream(list) = acc[Len(list)]
<1> DEFINE m == Len(list)
           F == [p \in Seq(Byte) \X (1..m) |-> p[1] \o list[p[2]].data]
<1>1. m \in Nat /\ <<>> \in Seq(Byte) /\ \A k \in 1..m : list[k].data \in Seq(Byte)
  <2>1. \A k \in 1..m : list[k] \in Piece
    BY ElementOfSeq
  <2>2. \A s \in Piece : s.data \in Seq(Byte)
    BY DEF Piece
  <2>3. QED
    BY <2>1, <2>2, EmptySeq, LenProperties
<1>2. IsStep(F, m, Seq(Byte))
  <2>1. \A p \in Seq(Byte) \X (1..m) : p[1] \o list[p[2]].data \in Seq(Byte)
    BY <1>1, ConcatProperties
  <2>2. QED
    BY <2>1 DEF IsStep
<1>3. \A x \in Seq(Byte), k \in 1..m : F[<<x, k>>] = x \o list[k].data
  OBVIOUS
<1>4. PICK acc \in [0..m -> Seq(Byte)] : IsRun(acc, m, Seq(Byte), <<>>, F)
  <2> HIDE DEF F, m
  <2>1. \E acc : IsRun(acc, m, Seq(Byte), <<>>, F)
    BY <1>1, <1>2, RunExists
  <2>2. QED
    BY <2>1 DEF IsRun
<1>5. IsStream(acc, list)
  <2>1. \A k \in 1..m : acc[k - 1] \in Seq(Byte)
    <3>1. \A k \in 1..m : k - 1 \in 0..m
      BY <1>1
    <3>2. QED
      BY <3>1
  <2>2. \A k \in 1..m : acc[k] = acc[k - 1] \o list[k].data
    BY <2>1, <1>3, <1>4 DEF IsRun
  <2>3. QED
    BY <2>2, <1>4 DEF IsRun, IsStream
<1> DEFINE E(f) == f = [k \in 0..m |-> IF k = 0 THEN <<>> ELSE f[k - 1] \o list[k].data]
           after == CHOOSE f : E(f)
<1>6. E(acc)
  <2> DEFINE g == [k \in 0..m |-> IF k = 0 THEN <<>> ELSE acc[k - 1] \o list[k].data]
  <2>1. \A k \in 0..m : acc[k] = g[k]
    <3>1. \A k \in 0..m : k = 0 \/ k \in 1..m
      BY <1>1
    <3>2. QED
      BY <3>1, <1>5 DEF IsStream
  <2>2. acc = g
    BY <2>1
  <2>3. QED
    BY <2>2
<1>7. E(after)
  <2> HIDE DEF E
  <2>1. QED
    BY <1>6, Zenon
<1>8. Stream(list) = after[m]
  BY Zenon DEF Stream
<1> HIDE DEF after
<1>9. RunsWithin(after, m, Seq(Byte), <<>>, F)
  <2>1. \A k \in 1..m : k \in 0..m /\ k # 0
    BY <1>1
  <2>2. 0 \in 0..m
    BY <1>1
  <2>3. QED
    BY <2>1, <2>2, <1>3, <1>7 DEF RunsWithin
<1>10. after[m] = acc[m]
  <2>1. m \in Nat
    BY <1>1
  <2> HIDE DEF F, E, m
  <2>2. QED
    BY <2>1, <1>2, <1>4, <1>9, RunUnique
<1>11. QED
  BY <1>5, <1>8, <1>10

\* What the last segment of a list adds to its bytes.
LEMMA StreamAppend ==
  ASSUME NEW list \in Seq(Piece), NEW s \in Piece
  PROVE  /\ Stream(list) \in Seq(Byte)
         /\ Stream(Append(list, s)) = Stream(list) \o s.data
<1> DEFINE m == Len(list)
           more == Append(list, s)
           F == [p \in Seq(Byte) \X (1..m) |-> p[1] \o list[p[2]].data]
<1>1. /\ m \in Nat /\ more \in Seq(Piece) /\ Len(more) = m + 1
      /\ \A k \in 1..m : more[k] = list[k]
      /\ more[m + 1] = s
  BY AppendProperties, LenProperties
<1>2. PICK f : IsStream(f, list) /\ Stream(list) = f[m]
  BY StreamRun
<1> HIDE DEF more
<1>3. PICK g : IsStream(g, more) /\ Stream(more) = g[m + 1]
  BY <1>1, StreamRun
<1>4. IsStep(F, m, Seq(Byte))
  <2>1. \A k \in 1..m : list[k].data \in Seq(Byte)
    <3>1. \A k \in 1..m : list[k] \in Piece
      BY <1>1, ElementOfSeq
    <3>2. \A x \in Piece : x.data \in Seq(Byte)
      BY DEF Piece
    <3>3. QED
      BY <3>1, <3>2
  <2>2. \A p \in Seq(Byte) \X (1..m) : p[1] \o list[p[2]].data \in Seq(Byte)
    BY <2>1, ConcatProperties
  <2>3. QED
    BY <2>2 DEF IsStep
<1>5. \A x \in Seq(Byte), k \in 1..m : F[<<x, k>>] = x \o list[k].data
  OBVIOUS
<1> HIDE DEF F
<1>6. IsRun(f, m, Seq(Byte), <<>>, F)
  <2>1. \A k \in 1..m : k - 1 \in 0..m
    BY <1>1
  <2>2. QED
    BY <2>1, <1>2, <1>5 DEF IsStream, IsRun
<1>7. RunsWithin(g, m, Seq(Byte), <<>>, F)
  <2>1. \A k \in 1..m : k \in 1..Len(more)
    BY <1>1
  <2>2. QED
    BY <2>1, <1>1, <1>3, <1>5 DEF IsStream, RunsWithin
<1>8. g[m] = f[m]
  <2>1. m \in Nat
    BY <1>1
  <2> HIDE DEF m
  <2>2. QED
    BY <2>1, <1>4, <1>6, <1>7, RunUnique
<1>9. g[m + 1] = g[m] \o s.data
  <2>1. m + 1 \in 1..Len(more) /\ (m + 1) - 1 = m
    BY <1>1
  <2>2. QED
    BY <2>1, <1>1, <1>3 DEF IsStream
<1>10. f[m] \in Seq(Byte)
  BY <1>1, <1>2 DEF IsStream
<1>11. QED
  BY <1>2, <1>3, <1>8, <1>9, <1>10 DEF more

\* The bytes of segment m up to address a and of the segments before it.
ConsumedUpTo(list, m, a) ==
  SubSeq(list, 1, m - 1)
  \o IF m <= Len(list)
       THEN <<[start |-> list[m].start,
               data |-> SubSeq(list[m].data, 1, a - list[m].start)]>>
       ELSE <<>>

\* Two slices that meet.
LEMMA SlicesMeet ==
  ASSUME NEW d \in Seq(Byte), NEW x \in Nat, NEW y \in Nat, x <= y, y <= Len(d)
  PROVE  /\ SubSeq(d, 1, x) \in Seq(Byte)
         /\ SubSeq(d, x + 1, y) \in Seq(Byte)
         /\ SubSeq(d, 1, x) \o SubSeq(d, x + 1, y) = SubSeq(d, 1, y)
<1> DEFINE front == SubSeq(d, 1, x)
           back == SubSeq(d, x + 1, y)
           whole == SubSeq(d, 1, y)
<1>1. Len(d) \in Nat /\ \A i \in 1..Len(d) : d[i] \in Byte
  BY LenProperties, ElementOfSeq
<1>2. front \in Seq(Byte) /\ Len(front) = x /\ \A i \in 1..x : front[i] = d[i]
  <2>1. \A i \in 1..x : d[i] \in Byte
    BY <1>1
  <2>2. front \in Seq(Byte) /\ Len(front) = (IF 1 <= x THEN x - 1 + 1 ELSE 0)
        /\ \A i \in 1..(x - 1 + 1) : front[i] = d[1 + i - 1]
    BY <2>1, SubSeqProperties
  <2>3. QED
    BY <2>2
<1>3. back \in Seq(Byte) /\ Len(back) = y - x /\ \A i \in 1..(y - x) : back[i] = d[x + i]
  <2>1. \A i \in (x + 1)..y : d[i] \in Byte
    BY <1>1
  <2>2. back \in Seq(Byte) /\ Len(back) = (IF x + 1 <= y THEN y - (x + 1) + 1 ELSE 0)
        /\ \A i \in 1..(y - (x + 1) + 1) : back[i] = d[x + 1 + i - 1]
    BY <2>1, SubSeqProperties
  <2>3. QED
    BY <2>2
<1>4. whole \in Seq(Byte) /\ Len(whole) = y /\ \A i \in 1..y : whole[i] = d[i]
  <2>1. \A i \in 1..y : d[i] \in Byte
    BY <1>1
  <2>2. whole \in Seq(Byte) /\ Len(whole) = (IF 1 <= y THEN y - 1 + 1 ELSE 0)
        /\ \A i \in 1..(y - 1 + 1) : whole[i] = d[1 + i - 1]
    BY <2>1, SubSeqProperties
  <2>3. QED
    BY <2>2
<1> HIDE DEF front, back, whole
<1>5. /\ front \o back \in Seq(Byte)
      /\ Len(front \o back) = y
      /\ \A i \in 1..y : (front \o back)[i] = IF i <= x THEN front[i] ELSE back[i - x]
  <2>1. /\ front \o back \in Seq(Byte)
        /\ Len(front \o back) = Len(front) + Len(back)
        /\ \A i \in 1..(Len(front) + Len(back)) :
             (front \o back)[i] = IF i <= Len(front) THEN front[i] ELSE back[i - Len(front)]
    BY <1>2, <1>3, ConcatProperties
  <2>2. Len(front) = x /\ Len(front) + Len(back) = y
    BY <1>2, <1>3
  <2>3. QED
    BY <2>1, <2>2
<1>6. \A i \in 1..y : (front \o back)[i] = whole[i]
  <2> SUFFICES ASSUME NEW i \in 1..y PROVE (front \o back)[i] = whole[i]
    OBVIOUS
  <2>1. i <= x => front[i] = d[i]
    BY <1>2
  <2>2. ~(i <= x) => back[i - x] = d[i]
    <3>1. ~(i <= x) => i - x \in 1..(y - x) /\ x + (i - x) = i
      OBVIOUS
    <3>2. QED
      BY <3>1, <1>3
  <2>3. QED
    BY <2>1, <2>2, <1>4, <1>5
<1>7. front \o back = whole
  BY <1>4, <1>5, <1>6, SeqEqual
<1>8. QED
  BY <1>2, <1>3, <1>7 DEF front, back, whole

\* The bytes up to an address in segment m.
LEMMA ConsumedInSegment ==
  ASSUME NEW list \in Seq(Piece), NEW m \in 1..Len(list), NEW a \in Int,
         list[m].start <= a, a <= list[m].start + Len(list[m].data)
  PROVE  /\ Stream(SubSeq(list, 1, m - 1)) \in Seq(Byte)
         /\ Stream(ConsumedUpTo(list, m, a))
              = Stream(SubSeq(list, 1, m - 1)) \o SubSeq(list[m].data, 1, a - list[m].start)
<1> DEFINE before == SubSeq(list, 1, m - 1)
           taken == SubSeq(list[m].data, 1, a - list[m].start)
           part == [start |-> list[m].start, data |-> taken]
<1>1. /\ Len(list) \in Nat /\ m \in Int
      /\ list[m] \in Piece
      /\ \A i \in 1..(m - 1) : list[i] \in Piece
  BY LenProperties, ElementOfSeq
<1>2. list[m].start \in Int /\ list[m].start \in Addr /\ list[m].data \in Seq(Byte)
  BY <1>1, MaxAddrAssumption DEF Piece, Addr
<1>3. before \in Seq(Piece)
  BY <1>1, SubSeqProperties
<1>4. taken \in Seq(Byte)
  <2> DEFINE x == a - list[m].start
  <2>1. x \in Nat /\ x <= Len(list[m].data) /\ Len(list[m].data) \in Nat
    BY <1>2, LenProperties
  <2> HIDE DEF x
  <2>2. SubSeq(list[m].data, 1, x) \in Seq(Byte)
    BY <2>1, <1>2, SlicesMeet
  <2>3. QED
    BY <2>2 DEF x
<1>5. part \in Piece
  BY <1>2, <1>4 DEF Piece
<1>6. ConsumedUpTo(list, m, a) = before \o <<part>>
  BY <1>1 DEF ConsumedUpTo
<1>7. part.data = taken
  OBVIOUS
<1> HIDE DEF before, taken, part
<1>8. before \o <<part>> = Append(before, part)
  BY <1>3, <1>5, AppendIsConcat
<1>9. Stream(before) \in Seq(Byte) /\ Stream(Append(before, part)) = Stream(before) \o part.data
  BY <1>3, <1>5, StreamAppend
<1>10. QED
  BY <1>6, <1>7, <1>8, <1>9 DEF before, taken

\* The bytes up to the start of the segment after segment m, or to the end.
LEMMA ConsumedSegment ==
  ASSUME NEW list \in Seq(Piece), NEW m \in 1..Len(list), NEW a,
         m < Len(list) => a = list[m + 1].start
  PROVE  Stream(ConsumedUpTo(list, m + 1, a))
           = Stream(SubSeq(list, 1, m - 1)) \o list[m].data
<1> DEFINE before == SubSeq(list, 1, m - 1)
           upTo == SubSeq(list, 1, m)
<1>1. /\ Len(list) \in Nat /\ m \in Int
      /\ list[m] \in Piece
      /\ \A i \in 1..(m - 1) : list[i] \in Piece
      /\ \A i \in 1..m : list[i] \in Piece
  BY LenProperties, ElementOfSeq
<1>2. before \in Seq(Piece) /\ upTo \in Seq(Piece)
  BY <1>1, SubSeqProperties
<1>3. upTo = Append(before, list[m])
  <2>1. 1 \in 1..Len(list) /\ m \in 1..Len(list) /\ m \in 1..m
    BY <1>1
  <2>2. upTo = before \o <<list[m]>>
    <3>1. m \in 1..Len(list)
      OBVIOUS
    <3>2. 1 \in 1..Len(list)
      BY <2>1
    <3>3. QED
      BY <3>1, <3>2, SubSeqRecursiveSecond
  <2>3. QED
    BY <2>2, <1>1, <1>2, AppendIsConcat
<1>4. Stream(upTo) = Stream(before) \o list[m].data /\ Stream(upTo) \in Seq(Byte)
  <2> HIDE DEF before, upTo
  <2>1. Stream(Append(before, list[m])) = Stream(before) \o list[m].data
    BY <1>1, <1>2, StreamAppend
  <2>2. Stream(upTo) \in Seq(Byte)
    BY <1>1, <1>2, StreamAppend
  <2>3. QED
    BY <1>3, <2>1, <2>2
<1>5. CASE m < Len(list)
  <2>1. m + 1 \in 1..Len(list) /\ (m + 1) - 1 = m
    BY <1>1, <1>5
  <2>2. list[m + 1] \in Piece
    BY <2>1, ElementOfSeq
  <2>3. list[m + 1].start \in Int /\ list[m + 1].data \in Seq(Byte)
    BY <2>2, MaxAddrAssumption DEF Piece, Addr
  <2>4. /\ a \in Int /\ list[m + 1].start <= a
        /\ a <= list[m + 1].start + Len(list[m + 1].data)
        /\ a - list[m + 1].start = 0
    BY <2>3, <1>5, LenProperties
  <2>5. Stream(ConsumedUpTo(list, m + 1, a))
          = Stream(SubSeq(list, 1, (m + 1) - 1))
            \o SubSeq(list[m + 1].data, 1, a - list[m + 1].start)
    BY <2>1, <2>4, ConsumedInSegment
  <2>6. SubSeq(list[m + 1].data, 1, 0) = <<>>
    BY SubSeqEmpty
  <2>7. Stream(upTo) \o <<>> = Stream(upTo)
    BY <1>4, ConcatEmptySeq
  <2>8. QED
    BY <2>1, <2>4, <2>5, <2>6, <2>7, <1>4
<1>6. CASE ~(m < Len(list))
  <2>1. ConsumedUpTo(list, m + 1, a) = SubSeq(list, 1, (m + 1) - 1) \o <<>>
    BY <1>1, <1>6 DEF ConsumedUpTo
  <2>2. (m + 1) - 1 = m
    BY <1>1
  <2>3. upTo \o <<>> = upTo
    BY <1>2, ConcatEmptySeq
  <2>4. QED
    BY <2>1, <2>2, <2>3, <1>4
<1>7. QED
  BY <1>5, <1>6

LEMMA ConsumedNow == Consumed = ConsumedUpTo(segments, n, start)
  BY DEF Consumed, ConsumedUpTo, seg

\* A turn adds the bytes of its part and moves the cursor over them.
LEMMA TakeStream ==
  ASSUME IInv, NoByteLost, InLoop, NEW end \in Int, start <= end, end <= segEnd,
         NEW mapped \in Nat, Take(end, mapped)
  PROVE  NoByteLost'
<1> SUFFICES ASSUME pc' = "loop" PROVE Stream(remapped') = Stream(Consumed')
  BY DEF NoByteLost
<1>1. ~Overflows(end, mapped)
  BY DEF Take, Finish
<1>2. /\ remapped' = Append(remapped, Part(end, mapped))
      /\ Advance(end)
      /\ segments' = segments
  BY <1>1 DEF Take
<1>3. /\ n \in 1..Len(segments) /\ Stored(seg) /\ seg = segments[n]
      /\ segEnd \in Int /\ start \in Int /\ seg.start <= start /\ seg.start \in Int
      /\ segEnd = seg.start + Len(seg.data) - 1
      /\ seg.data \in Seq(Byte) /\ Len(seg.data) \in Nat
  <2>1. n \in 1..Len(segments) /\ Stored(seg) /\ seg = segments[n]
        /\ segEnd \in Int /\ start \in Int /\ seg.start <= start
    BY LoopFacts, MaxAddrAssumption DEF Addr, seg
  <2>2. seg.start \in Addr /\ seg.data \in Seq(Byte)
    BY <2>1 DEF Stored
  <2>3. seg.start \in Int
    BY <2>2, MaxAddrAssumption DEF Addr
  <2>4. segEnd = seg.start + Len(seg.data) - 1
    BY <2>1, StoredEnd DEF segEnd
  <2>5. Len(seg.data) \in Nat
    BY <2>2, LenProperties
  <2>6. QED
    BY <2>1, <2>2, <2>3, <2>4, <2>5
<1> DEFINE before == Stream(SubSeq(segments, 1, n - 1))
           x == start - seg.start
           y == end - seg.start + 1
           taken == SubSeq(seg.data, 1, x)
           cut == SubSeq(seg.data, x + 1, y)
<1>4. segments \in Seq(Piece) /\ remapped \in Seq(Piece)
  BY DEF IInv, TypeOK, Piece
<1>5. x \in Nat /\ y \in Nat /\ x <= y /\ y <= Len(seg.data)
  <2>1. PICK b \in Int, m \in Nat : b = seg.start /\ m = Len(seg.data)
    BY <1>3
  <2>2. start \in Int /\ end \in Int /\ b <= start /\ start <= end /\ end <= b + m - 1
        /\ x = start - b /\ y = end - b + 1
    BY <1>3, <2>1
  <2>3. x \in Nat /\ y \in Nat /\ x <= y /\ y <= m
    BY <2>1, <2>2
  <2>4. QED
    BY <2>1, <2>3
<1>6. /\ taken \in Seq(Byte) /\ cut \in Seq(Byte)
      /\ taken \o cut = SubSeq(seg.data, 1, y)
  <2> HIDE DEF x, y
  <2>1. QED
    BY <1>3, <1>5, SlicesMeet
<1>7. Part(end, mapped) \in Piece /\ Part(end, mapped).data = cut
  <2>1. mapped \in Addr
    BY <1>1, MaxAddrAssumption DEF Overflows, Addr
  <2>2. Part(end, mapped) \in Piece
    BY <1>3, <2>1, PartType DEF Part, segEnd, Piece
  <2>3. QED
    BY <2>2 DEF Part, Clip
<1>8. Stream(remapped') = Stream(remapped) \o cut
  BY <1>2, <1>4, <1>7, StreamAppend
<1>9. Stream(remapped) = before \o taken /\ before \in Seq(Byte)
  <2>1. Stream(remapped) = Stream(ConsumedUpTo(segments, n, start))
    BY ConsumedNow DEF NoByteLost, InLoop
  <2>2. seg.start <= start /\ start <= seg.start + Len(seg.data)
    BY <1>3
  <2>3. QED
    BY <1>3, <1>4, <2>1, <2>2, ConsumedInSegment
<1>10. Stream(remapped') = before \o SubSeq(seg.data, 1, y)
  <2> HIDE DEF before, taken, cut, y
  <2>1. before \in Seq(Byte) /\ taken \in Seq(Byte) /\ cut \in Seq(Byte)
    BY <1>6, <1>9
  <2>2. (before \o taken) \o cut = before \o (taken \o cut)
    BY <2>1, ConcatAssociative
  <2>3. QED
    BY <1>6, <1>8, <1>9, <2>2
<1>11. Consumed' = ConsumedUpTo(segments, n', start')
  BY <1>2 DEF Consumed, ConsumedUpTo, seg
<1>12. CASE end # segEnd
  <2>1. start' = end + 1 /\ n' = n
    BY <1>2, <1>12 DEF Advance
  <2>2. PICK a \in Int : a = end + 1
    OBVIOUS
  <2>3. /\ seg.start <= a
        /\ a <= seg.start + Len(seg.data)
        /\ a - seg.start = y
    <3>1. PICK b \in Int, m \in Nat : b = seg.start /\ m = Len(seg.data)
      BY <1>3
    <3>2. end \in Int /\ b <= end /\ end <= b + m - 1
      BY <1>3, <3>1
    <3>3. b <= a /\ a <= b + m /\ a - b = end - b + 1
      BY <3>1, <3>2, <2>2
    <3>4. QED
      BY <3>1, <3>3
  <2>4. Stream(ConsumedUpTo(segments, n, a)) = before \o SubSeq(seg.data, 1, a - seg.start)
    BY <1>3, <1>4, <2>3, ConsumedInSegment
  <2>5. QED
    BY <1>10, <1>11, <2>1, <2>2, <2>3, <2>4
<1>13. CASE end = segEnd
  <2>1. n' = n + 1 /\ (n < Len(segments) => start' = segments[n + 1].start)
    BY <1>2, <1>13 DEF Advance
  <2>2. Stream(ConsumedUpTo(segments, n + 1, start')) = before \o seg.data
    BY <1>3, <1>4, <2>1, ConsumedSegment
  <2>3. SubSeq(seg.data, 1, y) = seg.data
    <3>1. y = Len(seg.data)
      BY <1>3, <1>13
    <3>2. QED
      BY <3>1, <1>3, SubSeqFull
  <2>4. QED
    BY <1>10, <1>11, <2>1, <2>2, <2>3
<1>14. QED
  BY <1>12, <1>13

\* Nothing is taken before the loop.
LEMMA NothingConsumed ==
  ASSUME NEW list \in Seq(Piece), NEW a, list # <<>> => a = list[1].start
  PROVE  Stream(<<>>) = <<>> /\ Stream(ConsumedUpTo(list, 1, a)) = <<>>
<1>1. Stream(<<>>) = <<>>
  <2>1. <<>> \in Seq(Piece) /\ Len(<<>>) = 0
    BY EmptySeq
  <2>2. PICK acc : IsStream(acc, <<>>) /\ Stream(<<>>) = acc[Len(<<>>)]
    BY <2>1, StreamRun
  <2>3. QED
    BY <2>1, <2>2 DEF IsStream
<1>2. SubSeq(list, 1, 1 - 1) = <<>>
  BY SubSeqEmpty
<1>3. CASE list = <<>>
  <2>1. ConsumedUpTo(list, 1, a) = <<>> \o <<>>
    BY <1>2, <1>3 DEF ConsumedUpTo
  <2>2. QED
    BY <2>1, <1>1
<1>4. CASE list # <<>>
  <2>1. 1 \in 1..Len(list) /\ list[1] \in Piece
    BY <1>4, EmptySeq, ElementOfSeq
  <2>2. a = list[1].start /\ a \in Int /\ list[1].data \in Seq(Byte)
    BY <1>4, <2>1, MaxAddrAssumption DEF Piece, Addr
  <2>3. list[1].start <= a /\ a <= list[1].start + Len(list[1].data)
    BY <2>2, LenProperties
  <2>4. Stream(ConsumedUpTo(list, 1, a))
          = Stream(SubSeq(list, 1, 1 - 1)) \o SubSeq(list[1].data, 1, a - list[1].start)
    BY <2>1, <2>2, <2>3, ConsumedInSegment
  <2>5. SubSeq(list[1].data, 1, a - list[1].start) = <<>>
    BY <2>2, SubSeqEmpty
  <2>6. <<>> \o <<>> = <<>>
    BY EmptySeq, ConcatEmptySeq
  <2>7. Stream(ConsumedUpTo(list, 1, a)) = <<>> \o <<>>
    BY <2>4, <2>5, <1>1, <1>2, Zenon
  <2>8. QED
    BY <2>6, <2>7, <1>1
<1>5. QED
  BY <1>3, <1>4

\* The parts are empty when the loop begins.
EmptyBefore == pc = "check" => remapped = <<>>

\* A step keeps the bytes whichever rule ends its part.
LEMMA NextStream ==
  IInv /\ EmptyBefore /\ NoByteLost /\ [Next]_vars => EmptyBefore' /\ NoByteLost'
<1> SUFFICES ASSUME IInv, EmptyBefore, NoByteLost, [Next]_vars
             PROVE  EmptyBefore' /\ NoByteLost'
  OBVIOUS
<1>1. EmptyBefore'
  BY DEF EmptyBefore, Next, vars, Refuse, Begin, KeepBelow, KeepAbove, MapBank, KeepHole,
         SetSegments, InLoop, Take, Finish
<1>2. CASE Refuse
  BY <1>1, <1>2 DEF Refuse, Finish, NoByteLost
<1>3. CASE Begin
  <2>1. /\ n = 1 /\ n' = 1 /\ segments' = segments /\ remapped' = <<>>
        /\ start' = IF segments = <<>> THEN start ELSE segments[1].start
    BY <1>3 DEF Begin, IInv, OptionsInv, EmptyBefore
  <2>2. Consumed' = ConsumedUpTo(segments, 1, start')
    BY <2>1 DEF Consumed, ConsumedUpTo, seg
  <2>3. segments \in Seq(Piece) /\ (segments # <<>> => start' = segments[1].start)
    BY <2>1 DEF IInv, TypeOK, Piece
  <2>4. Stream(<<>>) = <<>> /\ Stream(ConsumedUpTo(segments, 1, start')) = <<>>
    BY <2>3, NothingConsumed
  <2>5. QED
    BY <1>1, <2>1, <2>2, <2>4 DEF NoByteLost
<1>4. CASE KeepBelow
  <2> DEFINE end == Least(segEnd, options.start - 1)
  <2>1. InLoop /\ start < options.start /\ Take(end, start)
    BY <1>4 DEF KeepBelow
  <2>2. segEnd \in Int /\ options.start \in Int /\ start \in Nat /\ start <= segEnd
    BY <2>1, LoopFacts DEF Addr
  <2>3. end \in Int /\ start <= end /\ end <= segEnd
    BY <2>1, <2>2 DEF Least
  <2> HIDE DEF end
  <2>4. QED
    BY <1>1, <2>1, <2>2, <2>3, TakeStream
<1>5. CASE KeepAbove
  <2>1. InLoop /\ Take(segEnd, start)
    BY <1>5 DEF KeepAbove
  <2>2. segEnd \in Int /\ start \in Nat /\ start <= segEnd
    BY <2>1, LoopFacts DEF Addr
  <2>3. QED
    BY <1>1, <2>1, <2>2, TakeStream
<1>6. CASE MapBank
  <2> DEFINE end == Window(options.size - bankOffset)
             mapped == options.linear + bankIndex * options.size + bankOffset
  <2>1. InLoop /\ Inside /\ bankOffset < options.size /\ Take(end, mapped)
    BY <1>6 DEF MapBank
  <2>2. /\ bankIndex \in Nat /\ bankOffset \in Nat
        /\ options.linear \in Nat /\ options.size \in Nat
    BY <2>1, BankFacts, LoopFacts DEF Addr
  <2>3. end \in Int /\ start <= end /\ end <= segEnd
    BY <2>1, <2>2, WindowEnd
  <2>4. mapped \in Nat
    <3>1. bankIndex * options.size \in Nat
      BY <2>2
    <3>2. QED
      BY <2>2, <3>1
  <2> HIDE DEF end, mapped
  <2>5. QED
    BY <1>1, <2>1, <2>3, <2>4, TakeStream
<1>7. CASE KeepHole
  <2> DEFINE end == Window(options.inc - bankOffset)
  <2>1. InLoop /\ Inside /\ Take(end, start)
    BY <1>7 DEF KeepHole
  <2>2. bankOffset \in Nat /\ bankOffset < options.inc /\ options.inc \in Nat
        /\ start \in Nat
    BY <2>1, BankFacts, LoopFacts DEF Addr
  <2>3. end \in Int /\ start <= end /\ end <= segEnd
    BY <2>1, <2>2, WindowEnd
  <2> HIDE DEF end
  <2>4. QED
    BY <1>1, <2>1, <2>2, <2>3, TakeStream
<1>8. CASE SetSegments
  BY <1>1, <1>8 DEF SetSegments, Finish, NoByteLost
<1>9. CASE UNCHANGED vars
  BY <1>1, <1>9 DEF vars, NoByteLost, Consumed, seg
<1>10. QED
  BY <1>2, <1>3, <1>4, <1>5, <1>6, <1>7, <1>8, <1>9 DEF Next

-----------------------------------------------------------------------------
(* The theorems *)

\* The invariant holds in every state of remap().
THEOREM Invariance == Spec => []IInv
<1>1. Init => IInv
  BY InitIInv
<1>2. IInv /\ [Next]_vars => IInv'
  BY NextStep
<1>3. QED
  BY <1>1, <1>2, PTL DEF Spec

\* Every variable of remap() has its type, for every address space, file and
\* options: no mapped start leaves the address space.
THEOREM TypeCorrectness == Spec => []TypeOK
<1>1. IInv => TypeOK
  BY DEF IInv
<1>2. QED
  BY <1>1, Invariance, PTL

\* At the head of the loop of remap_segment the cursor is in its segment, so
\* that each part has a byte, no slice is out of bounds and no subtraction
\* from the cursor underflows.
THEOREM CursorCorrectness == Spec => []CursorInSegment
<1>1. IInv => CursorInSegment
  BY DEF IInv
<1>2. QED
  BY <1>1, Invariance, PTL

\* Every byte lands where the documented address rule of remap() puts it,
\* wherever the borders of its segment and of its part lie, for all options
\* whose windows are not wider than the distance of the banks.
THEOREM Placement == Spec => PlacedByAddress
<1>1. IInv /\ [Next]_vars =>
        [Len(remapped') > Len(remapped) /\ options.size <= options.inc => PartPlaced]_vars
  BY NextPlaces DEF PlacesPart
<1>2. QED
  BY <1>1, Invariance, PTL DEF Spec, PlacedByAddress

\* remap() fails only for options that make no sense or for a byte of the file
\* whose mapped address is not in the address space, for all options whose
\* windows are not wider than the distance of the banks.
THEOREM ErrorCorrectness == Spec => []ErrorsAreReal
<1>1. Init => ErrorInv
  BY DEF Init, ErrorInv, ErrorsAreReal
<1>2. IInv /\ ErrorInv /\ [Next]_vars => ErrorInv'
  BY NextErrors
<1>3. ErrorInv => ErrorsAreReal
  BY DEF ErrorInv
<1>4. QED
  BY <1>1, <1>2, <1>3, Invariance, PTL DEF Spec

\* The bytes cut so far are those of the segments up to the cursor, in their
\* order: remap() loses, doubles and reorders none, so that the priority of
\* overlapping segments survives, for every file and all options.
THEOREM NoByteIsLost == Spec => []NoByteLost
<1>1. Init => EmptyBefore /\ NoByteLost
  BY DEF Init, EmptyBefore, NoByteLost
<1>2. QED
  BY <1>1, NextStream, Invariance, PTL DEF Spec

=============================================================================
