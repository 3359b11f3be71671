--------------------------- MODULE BankMapProofs ---------------------------
(***************************************************************************)
(* Proofs about map_banked() and map_star08(): for every address space,    *)
(* size of a bank, width of a bank number, file and options, a raw segment *)
(* is moved with the window it lies in or stays, and a call fails only for *)
(* a segment that has no place.                                            *)
(***************************************************************************)
EXTENDS BankMap, ListLemmas

Stored(s) ==
  /\ s \in [start : Addr, data : Seq(Byte)]
  /\ Len(s.data) > 0
  /\ FitsAt(s.start, Len(s.data))

(* What the properties say of one segment, as operators on constants.      *)

WindowsOf(o) ==
  { [from |-> Quarter, to |-> o.low] }
  \union { w \in { [from |-> 3 * Quarter, to |-> o.high] } : o.kind = "banked" }
  \union { [from |-> b * 4 * Quarter + 2 * Quarter,
            to |-> o.linear + (b - o.min) * Quarter] : b \in o.min..o.max }

NewStartOf(o, s) ==
  LET home == { w \in WindowsOf(o) : HoldsAll(w, s) }
  IN IF home = {} THEN {s.start} ELSE { s.start - w.from + w.to : w \in home }

BankOf(s) == (s.start \div (4 * Quarter)) % BankCount

BelowOf(o, s) ==
  /\ o.kind = "banked"
  /\ o.min <= BankOf(s) /\ BankOf(s) <= o.max
  /\ s.start < BankOf(s) * 4 * Quarter + 2 * Quarter

Good(o, s, new) == BelowOf(o, s) \/ new \in NewStartOf(o, s)

Reason(o, s) ==
  BelowOf(o, s) \/ \E new \in NewStartOf(o, s) : ~FitsAt(new, Len(s.data))

\* Until apply_segment_starts the file is the one the call was made on, and
\* there is at most one start for each of its segments.
CallInv ==
  /\ pc \in {"check", "plan", "done"}
  /\ options \in Options
  /\ pc # "done" =>
       /\ segments \in Seq([start : Addr, data : Seq(Byte)])
       /\ \A k \in 1..Len(segments) : Stored(segments[k])
       /\ starts \in Seq(Int)
       /\ Len(starts) <= Len(segments)
       /\ res = "ok"
  /\ pc = "check" => starts = <<>>

PlansInv == pc = "plan" => \A k \in 1..Len(starts) : Good(options, segments[k], starts[k])

FailsInv ==
  res # "ok" =>
    options.min > options.max \/ \E k \in DOMAIN segments : Reason(options, segments[k])

IInv == CallInv /\ PlansInv /\ FailsInv

-----------------------------------------------------------------------------
(* Segments and windows *)

\* The options have the types of their fields in BankedMapOptions.
LEMMA OptionsFacts ==
  ASSUME NEW o \in Options
  PROVE  /\ o.kind \in {"banked", "star08"}
         /\ o.min \in Nat /\ o.max \in Nat /\ o.max < BankCount
         /\ o.linear \in Nat /\ o.low \in Nat /\ o.high \in Nat
  BY OptionsAssumption, QuarterAssumption, MaxAddrAssumption DEF Addr

\* The files that are mapped hold non-empty segments with an end.
LEMMA FilesAreStored ==
  ASSUME NEW list \in Files
  PROVE  /\ list \in Seq([start : Addr, data : Seq(Byte)])
         /\ \A k \in 1..Len(list) : Stored(list[k])
<1> DEFINE T == {s \in SegmentType : ~IsEmpty(s)}
<1>1. list \in Seq(T)
  BY FilesAssumption
<1>2. \A s \in T : Stored(s)
  BY DEF SegmentType, IsEmpty, Stored
<1>3. T \subseteq [start : Addr, data : Seq(Byte)]
  BY DEF SegmentType
<1> HIDE DEF T
<1>4. list \in Seq([start : Addr, data : Seq(Byte)])
  BY <1>1, <1>3, SeqMonotonic
<1>5. \A k \in 1..Len(list) : Stored(list[k])
  BY <1>1, <1>2, ElementOfSeq
<1>6. QED
  BY <1>4, <1>5

\* The end of a stored segment, not below its start.
LEMMA StoredEnd ==
  ASSUME NEW s, Stored(s)
  PROVE  /\ s.start \in Nat /\ EndAddress(s) \in Nat /\ Len(s.data) \in Nat
         /\ EndAddress(s) = s.start + Len(s.data) - 1
         /\ s.start <= EndAddress(s)
  BY MaxAddrAssumption, LenProperties DEF Stored, EndAddress, IsEmpty, FitsAt, Addr

\* A window holds a segment if it holds its two ends.
LEMMA HoldsEnds ==
  ASSUME NEW s, Stored(s), NEW w, w.from \in Int
  PROVE  HoldsAll(w, s) <=> w.from <= s.start /\ EndAddress(s) < w.from + Quarter
<1>1. /\ s.start \in Int /\ EndAddress(s) \in Int /\ s.start <= EndAddress(s)
      /\ Quarter \in Int
  BY StoredEnd, QuarterAssumption
<1>2. QED
  BY <1>1 DEF HoldsAll

\* A segment in a window may move with it.
LEMMA HomeMoves ==
  ASSUME NEW o, NEW s, NEW w \in WindowsOf(o), HoldsAll(w, s)
  PROVE  s.start - w.from + w.to \in NewStartOf(o, s)
  BY DEF NewStartOf

\* A segment in no window stays.
LEMMA HomelessStays ==
  ASSUME NEW o, NEW s, \A w \in WindowsOf(o) : ~HoldsAll(w, s)
  PROVE  s.start \in NewStartOf(o, s)
  BY DEF NewStartOf

\* A start that is not allowed is one where the segment does not fit.
LEMMA MisfitIsReason ==
  ASSUME NEW o, NEW s, Stored(s), NEW new \in Nat, Good(o, s, new),
         ~(new <= MaxAddr /\ FitsAt(new, Len(s.data)))
  PROVE  Reason(o, s)
<1>1. Len(s.data) \in Nat /\ Len(s.data) > 0
  BY StoredEnd DEF Stored
<1>2. ~FitsAt(new, Len(s.data))
  BY <1>1, MaxAddrAssumption DEF FitsAt
<1>3. QED
  BY <1>2 DEF Good, Reason

\* An address in a bank whose number is a u8 has that number.
LEMMA BankOfStart ==
  ASSUME NEW s, Stored(s), NEW b \in Nat, b < BankCount,
         b * 4 * Quarter + 2 * Quarter <= s.start,
         s.start < b * 4 * Quarter + 3 * Quarter
  PROVE  BankOf(s) = b
<1> DEFINE y == 4 * Quarter
<1>1. s.start \in Nat /\ Quarter \in Nat /\ Quarter > 0 /\ BankCount \in Nat
  BY StoredEnd, QuarterAssumption
<1>2. y \in Nat /\ y > 0 /\ y * b = b * 4 * Quarter /\ y * b \in Nat
  BY <1>1
<1>3. y * b <= s.start /\ s.start < y * b + y
  <2>1. 2 * Quarter >= 0 /\ 3 * Quarter < y
    BY <1>1
  <2> HIDE DEF y
  <2>2. QED
    BY <1>1, <1>2, <2>1
<1> HIDE DEF y
<1>4. s.start \div y = b
  BY <1>1, <1>2, <1>3, Quotient
<1>5. b % BankCount = b
  BY <1>1
<1>6. QED
  BY <1>4, <1>5 DEF BankOf, y

-----------------------------------------------------------------------------
(* The actions *)

\* The call starts in the invariant.
LEMMA InitIInv == Init => IInv
<1> SUFFICES ASSUME Init PROVE IInv
  OBVIOUS
<1>1. segments \in Files /\ options \in Options /\ pc = "check" /\ starts = <<>> /\ res = "ok"
  BY DEF Init
<1>2. /\ segments \in Seq([start : Addr, data : Seq(Byte)])
      /\ \A k \in 1..Len(segments) : Stored(segments[k])
  BY <1>1, FilesAreStored
<1>3. starts \in Seq(Int) /\ Len(starts) = 0 /\ Len(segments) \in Nat
  BY <1>1, <1>2
<1>4. QED
  BY <1>1, <1>2, <1>3 DEF IInv, CallInv, PlansInv, FailsInv

\* Facts about the segment that is planned, used in the actions of the pass.
LEMMA PlanFacts ==
  ASSUME IInv, Planning
  PROVE  /\ pc = "plan" /\ res = "ok" /\ options \in Options
         /\ segments \in Seq([start : Addr, data : Seq(Byte)])
         /\ starts \in Seq(Int) /\ Len(starts) \in Nat
         /\ Len(starts) + 1 \in 1..Len(segments)
         /\ Stored(seg)
<1>1. /\ pc = "plan" /\ res = "ok" /\ options \in Options
      /\ segments \in Seq([start : Addr, data : Seq(Byte)])
      /\ starts \in Seq(Int) /\ Len(starts) < Len(segments)
      /\ \A k \in 1..Len(segments) : Stored(segments[k])
  BY DEF IInv, CallInv, Planning
<1>2. Len(starts) \in Nat /\ Len(starts) + 1 \in 1..Len(segments)
  BY <1>1, LenProperties
<1>3. QED
  BY <1>1, <1>2 DEF seg

\* A segment that gets a good start keeps the invariant.
LEMMA PlanStep ==
  ASSUME IInv, Planning, NEW new \in Int, Good(options, seg, new),
         starts' = Append(starts, new), UNCHANGED <<segments, options, pc, res>>
  PROVE  IInv'
<1>1. /\ pc = "plan" /\ res = "ok" /\ options \in Options
      /\ segments \in Seq([start : Addr, data : Seq(Byte)])
      /\ starts \in Seq(Int) /\ Len(starts) \in Nat
      /\ Len(starts) + 1 \in 1..Len(segments)
  BY PlanFacts
<1>2. /\ starts' \in Seq(Int) /\ Len(starts') = Len(starts) + 1
      /\ starts'[Len(starts) + 1] = new
      /\ \A k \in 1..Len(starts) : starts'[k] = starts[k]
  BY <1>1, AppendProperties
<1>3. CallInv'
  BY <1>1, <1>2, LenProperties DEF IInv, CallInv
<1>4. PlansInv'
  <2>1. \A k \in 1..Len(starts) : Good(options, segments[k], starts[k])
    BY <1>1 DEF IInv, PlansInv
  <2>2. ASSUME NEW k \in 1..(Len(starts) + 1)
        PROVE  Good(options, segments[k], starts'[k])
    <3>1. CASE k \in 1..Len(starts)
      BY <1>2, <2>1, <3>1
    <3>2. CASE k = Len(starts) + 1
      BY <1>2, <3>2 DEF seg
    <3>3. QED
      BY <1>1, <3>1, <3>2
  <2>3. QED
    BY <1>2, <2>2 DEF PlansInv
<1>5. FailsInv'
  BY <1>1 DEF FailsInv
<1>6. QED
  BY <1>3, <1>4, <1>5 DEF IInv

\* A call that stops with an error or a panic has a segment as its reason.
LEMMA FailStep ==
  ASSUME IInv, Planning, Reason(options, seg), NEW result, Stop(result, segments),
         UNCHANGED <<options, starts>>
  PROVE  IInv'
<1>1. /\ options \in Options /\ Len(starts) + 1 \in DOMAIN segments
  BY PlanFacts
<1>2. pc' = "done" /\ segments' = segments /\ options' = options
  BY DEF Stop
<1>3. Reason(options, segments[Len(starts) + 1])
  BY DEF seg
<1>4. FailsInv'
  BY <1>1, <1>2, <1>3 DEF FailsInv
<1>5. QED
  BY <1>1, <1>2, <1>4 DEF IInv, CallInv, PlansInv

\* A move to a good start keeps the invariant, whether it fits or not.
LEMMA MoveStep ==
  ASSUME IInv, Planning, NEW new \in Nat, Good(options, seg, new), Move(new)
  PROVE  IInv'
<1>1. CASE Fits(new)
  BY <1>1, PlanStep DEF Move
<1>2. CASE ~Fits(new)
  <2>1. Reason(options, seg)
    BY <1>2, PlanFacts, MisfitIsReason DEF Fits
  <2>2. QED
    BY <1>2, <2>1, FailStep DEF Move
<1>3. QED
  BY <1>1, <1>2

\* A segment in the low window goes where the window goes.
LEMMA LowStep == IInv /\ Low => IInv'
<1> SUFFICES ASSUME IInv, Low PROVE IInv'
  OBVIOUS
<1> DEFINE w == [from |-> Quarter, to |-> options.low]
           new == options.low + (seg.start - Quarter)
<1>1. Planning /\ InLow /\ Move(new)
  BY DEF Low
<1>2. /\ Stored(seg) /\ options.low \in Nat /\ Quarter \in Nat
      /\ seg.start \in Nat /\ EndAddress(seg) \in Nat
  BY <1>1, PlanFacts, OptionsFacts, StoredEnd, QuarterAssumption
<1>3. w.from = Quarter /\ w.to = options.low /\ w \in WindowsOf(options)
  BY DEF WindowsOf
<1> HIDE DEF w
<1>4. HoldsAll(w, seg)
  BY <1>1, <1>2, <1>3, HoldsEnds DEF InLow, end
<1>5. new \in Nat /\ new = seg.start - w.from + w.to
  BY <1>1, <1>2, <1>3 DEF InLow
<1>6. Good(options, seg, new)
  BY <1>3, <1>4, <1>5, HomeMoves DEF Good
<1> HIDE DEF new
<1>7. QED
  BY <1>1, <1>5, <1>6, MoveStep

\* A segment in the high window goes where that window goes.
LEMMA HighStep == IInv /\ High => IInv'
<1> SUFFICES ASSUME IInv, High PROVE IInv'
  OBVIOUS
<1> DEFINE w == [from |-> 3 * Quarter, to |-> options.high]
           new == options.high + (seg.start - 3 * Quarter)
<1>1. Planning /\ InHigh /\ Move(new)
  BY DEF High
<1>2. /\ Stored(seg) /\ options.high \in Nat /\ Quarter \in Nat
      /\ seg.start \in Nat /\ EndAddress(seg) \in Nat
  BY <1>1, PlanFacts, OptionsFacts, StoredEnd, QuarterAssumption
<1>3. w.from = 3 * Quarter /\ w.to = options.high /\ w \in WindowsOf(options)
  BY <1>1 DEF WindowsOf, InHigh
<1> HIDE DEF w
<1>4. HoldsAll(w, seg)
  BY <1>1, <1>2, <1>3, HoldsEnds DEF InHigh, end
<1>5. new \in Nat /\ new = seg.start - w.from + w.to
  BY <1>1, <1>2, <1>3 DEF InHigh
<1>6. Good(options, seg, new)
  BY <1>3, <1>4, <1>5, HomeMoves DEF Good
<1> HIDE DEF new
<1>7. QED
  BY <1>1, <1>5, <1>6, MoveStep

\* The number of a bank and the addresses of its window.
LEMMA BankFacts ==
  ASSUME IInv, Planning, InBank
  PROVE  /\ bank = BankOf(seg) /\ bank \in Nat
         /\ options.min <= bank /\ bank <= options.max
         /\ options.min \in Nat /\ options.max \in Nat /\ options.linear \in Nat
         /\ Quarter \in Nat /\ Quarter > 0
         /\ bankBase \in Nat /\ bankEnd = bankBase + Quarter - 1
         /\ (bank - options.min) * Quarter \in Nat
<1>1. Stored(seg) /\ options \in Options
  BY PlanFacts
<1>2. /\ seg.start \in Nat /\ Quarter \in Nat /\ Quarter > 0
      /\ BankCount \in Nat /\ BankCount > 0
  BY <1>1, StoredEnd, QuarterAssumption
<1>3. seg.start \div (4 * Quarter) \in Nat
  BY <1>2, DivisionFacts
<1>4. bank \in Nat /\ bank = BankOf(seg)
  BY <1>2, <1>3, DivisionFacts DEF bank, BankOf
<1>5. bankBase \in Nat
  BY <1>2, <1>4 DEF bankBase
<1>6. options.min <= bank /\ bank <= options.max /\ options.min \in Nat /\ options.max \in Nat
      /\ options.linear \in Nat
  BY <1>1, OptionsFacts DEF InBank
<1>7. (bank - options.min) * Quarter \in Nat
  <2>1. bank - options.min \in Nat
    BY <1>4, <1>6
  <2>2. QED
    BY <1>2, <2>1
<1>8. QED
  BY <1>2, <1>4, <1>5, <1>6, <1>7 DEF bankEnd

\* A segment in the window of a bank goes to the place of that bank.
LEMMA BankStep == IInv /\ Bank => IInv'
<1> SUFFICES ASSUME IInv, Bank PROVE IInv'
  OBVIOUS
<1> DEFINE to == options.linear + (bank - options.min) * Quarter
           w == [from |-> bank * 4 * Quarter + 2 * Quarter, to |-> to]
           new == linearBankBase + (seg.start - bankBase)
<1>1. Planning /\ InBank /\ seg.start >= bankBase /\ Move(new)
  BY DEF Bank
<1>2. /\ bank \in Nat /\ options.min <= bank /\ bank <= options.max
      /\ options.min \in Nat /\ options.max \in Nat /\ options.linear \in Nat
      /\ Quarter \in Nat /\ Quarter > 0
      /\ bankBase \in Nat /\ bankEnd = bankBase + Quarter - 1
      /\ (bank - options.min) * Quarter \in Nat
  BY <1>1, BankFacts
<1>3. Stored(seg) /\ seg.start \in Nat /\ EndAddress(seg) \in Nat
  BY <1>1, PlanFacts, StoredEnd
<1>4. bank \in options.min..options.max
  BY <1>2
<1>5. w.from = bankBase /\ w.to = to /\ w \in WindowsOf(options)
  BY <1>4 DEF WindowsOf, bankBase
<1>6. to \in Nat /\ linearBankBase = to
  BY <1>2 DEF linearBankBase
<1> HIDE DEF w, to
<1>7. HoldsAll(w, seg)
  BY <1>1, <1>2, <1>3, <1>5, HoldsEnds DEF InBank, end
<1>8. new \in Nat /\ new = seg.start - w.from + w.to
  BY <1>1, <1>2, <1>3, <1>5, <1>6
<1>9. Good(options, seg, new)
  BY <1>5, <1>7, <1>8, HomeMoves DEF Good
<1> HIDE DEF new
<1>10. QED
  BY <1>1, <1>8, <1>9, MoveStep

\* A segment below the window of its bank is one the properties leave out.
LEMMA BelowWindowStep == IInv /\ BelowWindow => IInv'
<1> SUFFICES ASSUME IInv, BelowWindow PROVE IInv'
  OBVIOUS
<1>1. Planning /\ InBank /\ seg.start < bankBase
  BY DEF BelowWindow
<1>2. /\ bank = BankOf(seg) /\ bank \in Nat
      /\ options.min <= bank /\ bank <= options.max
      /\ options.linear \in Nat /\ bankBase \in Nat /\ Quarter \in Nat
      /\ (bank - options.min) * Quarter \in Nat
  BY <1>1, BankFacts
<1>3. Stored(seg) /\ seg.start \in Nat /\ options.kind \in {"banked", "star08"}
  BY <1>1, PlanFacts, StoredEnd, OptionsFacts
<1>4. BelowOf(options, seg)
  <2>1. options.kind = "banked"
    BY <1>1, <1>2, <1>3 DEF InBank
  <2>2. bankBase = BankOf(seg) * 4 * Quarter + 2 * Quarter
    BY <1>2 DEF bankBase
  <2>3. QED
    BY <1>1, <1>2, <2>1, <2>2 DEF BelowOf
<1>5. Reason(options, seg) /\ \A new : Good(options, seg, new)
  BY <1>4 DEF Reason, Good
<1>6. CASE \E result : Stop(result, segments) /\ UNCHANGED <<options, starts>>
  BY <1>1, <1>5, <1>6, FailStep
<1>7. CASE linearBankBase <= MaxAddr
           /\ Move(linearBankBase + (seg.start - bankBase + MaxAddr + 1))
  <2> DEFINE new == linearBankBase + (seg.start - bankBase + MaxAddr + 1)
  <2>1. new \in Int /\ Move(new)
    BY <1>2, <1>3, <1>7, MaxAddrAssumption DEF linearBankBase
  <2> HIDE DEF new
  <2>2. CASE Fits(new)
    BY <1>1, <1>5, <2>1, <2>2, PlanStep DEF Move
  <2>3. CASE ~Fits(new)
    BY <1>1, <1>5, <2>1, <2>3, FailStep DEF Move
  <2>4. QED
    BY <2>2, <2>3
<1>8. QED
  BY <1>6, <1>7 DEF BelowWindow

\* A segment that no test catches lies in no window.
LEMMA LeaveStep == IInv /\ Leave => IInv'
<1> SUFFICES ASSUME IInv, Leave PROVE IInv'
  OBVIOUS
<1>1. /\ Planning /\ ~InLow /\ ~InHigh /\ ~InBank
      /\ starts' = Append(starts, seg.start)
      /\ UNCHANGED <<segments, options, pc, res>>
  BY DEF Leave
<1>2. /\ Stored(seg) /\ seg.start \in Nat /\ EndAddress(seg) \in Nat
      /\ seg.start <= EndAddress(seg)
      /\ Quarter \in Nat /\ Quarter > 0 /\ options \in Options
  BY <1>1, PlanFacts, StoredEnd, QuarterAssumption
<1>3. ASSUME NEW w \in WindowsOf(options), HoldsAll(w, seg) PROVE FALSE
  <2>1. CASE w = [from |-> Quarter, to |-> options.low]
    <3>1. w.from = Quarter
      BY <2>1
    <3>2. QED
      BY <1>1, <1>2, <1>3, <3>1, HoldsEnds DEF InLow, end
  <2>2. CASE w = [from |-> 3 * Quarter, to |-> options.high] /\ options.kind = "banked"
    <3>1. w.from = 3 * Quarter /\ w.from \in Int
      BY <1>2, <2>2
    <3>2. QED
      BY <1>1, <1>2, <1>3, <2>2, <3>1, HoldsEnds DEF InHigh, end
  <2>3. ASSUME NEW b \in options.min..options.max,
               w = [from |-> b * 4 * Quarter + 2 * Quarter,
                    to |-> options.linear + (b - options.min) * Quarter]
        PROVE  FALSE
    <3> DEFINE base == b * 4 * Quarter + 2 * Quarter
    <3>1. b \in Nat /\ b < BankCount /\ options.min <= b /\ b <= options.max
      BY <1>2, OptionsFacts, QuarterAssumption
    <3>2. w.from = base /\ base \in Nat /\ base + Quarter = b * 4 * Quarter + 3 * Quarter
      BY <1>2, <2>3, <3>1
    <3>3. base <= seg.start /\ EndAddress(seg) < base + Quarter
      <4> HIDE DEF base
      <4>1. QED
        BY <1>2, <1>3, <3>2, HoldsEnds
    <3>4. seg.start < b * 4 * Quarter + 3 * Quarter
      <4> DEFINE top == b * 4 * Quarter + 3 * Quarter
      <4>1. base + Quarter = top
        BY <3>2
      <4> HIDE DEF base, top
      <4>2. seg.start < top
        BY <1>2, <3>2, <3>3, <4>1
      <4>3. QED
        BY <4>2 DEF top
    <3>5. BankOf(seg) = b
      BY <1>2, <3>1, <3>3, <3>4, BankOfStart
    <3>6. bank = b /\ bankBase = base /\ bankEnd = base + Quarter - 1
      BY <3>5 DEF BankOf, bank, bankBase, bankEnd
    <3> HIDE DEF base
    <3>7. InBank
      BY <1>1, <1>2, <3>1, <3>2, <3>3, <3>6 DEF InBank, end
    <3>8. QED
      BY <1>1, <3>7
  <2>4. QED
    BY <2>1, <2>2, <2>3 DEF WindowsOf
<1>4. Good(options, seg, seg.start)
  BY <1>3, HomelessStays DEF Good
<1>5. QED
  BY <1>1, <1>2, <1>4, PlanStep

\* Every step keeps the invariant.
LEMMA NextStep == IInv /\ [Next]_vars => IInv'
<1> SUFFICES ASSUME IInv, [Next]_vars PROVE IInv'
  OBVIOUS
<1>1. CASE Refuse
  BY <1>1 DEF Refuse, Stop, IInv, CallInv, PlansInv, FailsInv
<1>2. CASE Begin
  <2>1. starts = <<>> /\ starts' = <<>> /\ res = "ok"
    BY <1>2 DEF Begin, IInv, CallInv
  <2>2. PlansInv' /\ FailsInv'
    BY <1>2, <2>1 DEF Begin, PlansInv, FailsInv
  <2>3. QED
    BY <1>2, <2>2 DEF Begin, IInv, CallInv
<1>3. CASE Low
  BY <1>3, LowStep
<1>4. CASE High
  BY <1>4, HighStep
<1>5. CASE Bank
  BY <1>5, BankStep
<1>6. CASE BelowWindow
  BY <1>6, BelowWindowStep
<1>7. CASE Leave
  BY <1>7, LeaveStep
<1>8. CASE Apply
  BY <1>8 DEF Apply, Stop, IInv, CallInv, PlansInv, FailsInv
<1>9. CASE UNCHANGED vars
  BY <1>9 DEF vars, IInv, CallInv, PlansInv, FailsInv
<1>10. QED
  BY <1>1, <1>2, <1>3, <1>4, <1>5, <1>6, <1>7, <1>8, <1>9 DEF Next

-----------------------------------------------------------------------------
(* The theorems *)

\* The invariant holds in every state of the call.
THEOREM Invariance == Spec => []IInv
<1>1. Init => IInv
  BY InitIInv
<1>2. IInv /\ [Next]_vars => IInv'
  BY NextStep
<1>3. QED
  BY <1>1, <1>2, PTL DEF Spec

\* Every start that map_banked() and map_star08() plan is that of the window
\* the segment lies in, or its own if it lies in none, bank numbers that are
\* cut to a byte included.
THEOREM PlanCorrectness == Spec => []PlansByWindow
<1>1. IInv => PlansByWindow
  <2> SUFFICES ASSUME IInv, NEW k \in DOMAIN starts, pc = "plan"
      PROVE StartsBelow(segments[k]) \/ starts[k] \in NewStart(segments[k])
    BY DEF PlansByWindow
  <2>1. k \in 1..Len(starts)
    BY DEF IInv, CallInv
  <2>2. Good(options, segments[k], starts[k])
    BY <2>1 DEF IInv, PlansInv
  <2>3. QED
    BY <2>2 DEF Good, BelowOf, BankOf, NewStartOf, WindowsOf, StartsBelow, NewStart, Windows
<1>2. QED
  BY <1>1, Invariance, PTL

\* The call fails only if its banks make no sense, or for a segment that has
\* no place where its window puts it or lies below the window of its bank.
THEOREM FailureCorrectness == Spec => []FailsForAReason
<1>1. IInv => FailsForAReason
  BY DEF IInv, FailsInv, FailsForAReason, Reason, BelowOf, BankOf, NewStartOf, WindowsOf,
         StartsBelow, NewStart, Windows
<1>2. QED
  BY <1>1, Invariance, PTL

=============================================================================
