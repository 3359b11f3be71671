------------------------------ MODULE BankMap ------------------------------
(***************************************************************************)
(* HexFile::map_banked (map_star12, map_star12x) and map_star08 of         *)
(* hexy-core/src/ops/transform.rs: the first pass finds the new start of   *)
(* each raw segment or fails, the second one moves them.  Addresses come   *)
(* in banks of four quarters; a bank shows its memory in the third.        *)
(***************************************************************************)
EXTENDS Segment

CONSTANTS
  Quarter,   \* 0x4000
  BankCount, \* 2^8: a bank number is a u8
  Files,     \* the raw segment lists that are mapped
  Options    \* records [kind, min, max, linear, low, high]; map_star08 has
             \* kind "star08", all banks and no window at high

ASSUME QuarterAssumption == Quarter \in Nat \ {0} /\ BankCount \in Nat \ {0}

ASSUME SpaceAssumption == (MaxAddr + 1) % (4 * Quarter) = 0

ASSUME FilesAssumption == Files \subseteq Seq({s \in SegmentType : ~IsEmpty(s)})

ASSUME OptionsAssumption ==
  Options \subseteq [kind : {"banked", "star08"}, min : 0..(BankCount - 1),
                     max : 0..(BankCount - 1), linear : Addr, low : Addr, high : Addr]

VARIABLES
  segments,  \* self.segments
  options,
  pc,        \* "check", "plan", "done"
  starts,    \* the new starts found so far
  res        \* "ok", "error" or "panic"

vars == <<segments, options, pc, starts, res>>

seg == segments[Len(starts) + 1]
end == EndAddress(seg)

bank == (seg.start \div (4 * Quarter)) % BankCount
bankBase == bank * 4 * Quarter + 2 * Quarter
bankEnd == bankBase + Quarter - 1

Init ==
  /\ segments \in Files
  /\ options \in Options
  /\ pc = "check"
  /\ starts = <<>>
  /\ res = "ok"

Stop(result, segs) == pc' = "done" /\ res' = result /\ segments' = segs

Refuse ==
  /\ pc = "check"
  /\ options.min > options.max
  /\ Stop("error", segments)
  /\ UNCHANGED <<options, starts>>

Begin ==
  /\ pc = "check"
  /\ options.min <= options.max
  /\ pc' = "plan"
  /\ UNCHANGED <<segments, options, starts, res>>

Planning == pc = "plan" /\ Len(starts) < Len(segments)

\* Mutant of Fits: takes the end of the segment for an exclusive one.
FitsExclusive(new) == new + Len(seg.data) <= MaxAddr

\* validate_start_address
Fits(new) == new <= MaxAddr /\ FitsAt(new, Len(seg.data))

\* The segment gets a new start if it fits there.
Move(new) ==
  IF Fits(new)
    THEN starts' = Append(starts, new) /\ UNCHANGED <<segments, options, pc, res>>
    ELSE Stop("error", segments) /\ UNCHANGED <<options, starts>>

InLow == Quarter <= seg.start /\ end <= 2 * Quarter - 1

InHigh ==
  options.kind = "banked" /\ 3 * Quarter <= seg.start /\ end <= 4 * Quarter - 1

Low == Planning /\ InLow /\ Move(options.low + (seg.start - Quarter))

High ==
  Planning /\ ~InLow /\ InHigh /\ Move(options.high + (seg.start - 3 * Quarter))

\* Mutant of InBank: goes by where the segment starts.
InBankByStart ==
  /\ ~InLow /\ ~InHigh
  /\ options.min <= bank /\ bank <= options.max
  /\ seg.start <= bankEnd
  /\ options.kind = "star08" => seg.start >= bankBase

\* Only map_star08 asks whether the segment starts before the window.
InBank ==
  /\ ~InLow /\ ~InHigh
  /\ options.min <= bank /\ bank <= options.max
  /\ end <= bankEnd
  /\ options.kind = "star08" => seg.start >= bankBase

linearBankBase == options.linear + (bank - options.min) * Quarter

Bank ==
  /\ Planning
  /\ InBank
  /\ seg.start >= bankBase
  /\ Move(linearBankBase + (seg.start - bankBase))

\* start - bank_base underflows: a debug build panics, a release build gets a
\* number just below 2^32.
BelowWindow ==
  /\ Planning
  /\ InBank
  /\ seg.start < bankBase
  /\ \/ /\ linearBankBase <= MaxAddr
        /\ Stop("panic", segments) /\ UNCHANGED <<options, starts>>
     \/ /\ linearBankBase <= MaxAddr
        /\ Move(linearBankBase + (seg.start - bankBase + MaxAddr + 1))
     \/ /\ linearBankBase > MaxAddr
        /\ Stop("error", segments) /\ UNCHANGED <<options, starts>>

Leave ==
  /\ Planning
  /\ ~InLow /\ ~InHigh /\ ~InBank
  /\ starts' = Append(starts, seg.start)
  /\ UNCHANGED <<segments, options, pc, res>>

\* apply_segment_starts
Apply ==
  /\ pc = "plan"
  /\ Len(starts) = Len(segments)
  /\ Stop("ok", [n \in DOMAIN segments |-> [segments[n] EXCEPT !.start = starts[n]]])
  /\ UNCHANGED <<options, starts>>

Next ==
  \/ Refuse
  \/ Begin
  \/ Low
  \/ High
  \/ Bank
  \/ BelowWindow
  \/ Leave
  \/ Apply

Spec == Init /\ [][Next]_vars

-----------------------------------------------------------------------------
(* Properties *)

\* The windows as sets of addresses, and where each puts its bytes.
Windows ==
  { [from |-> Quarter, to |-> options.low] }
  \union { w \in { [from |-> 3 * Quarter, to |-> options.high] } : options.kind = "banked" }
  \union { [from |-> b * 4 * Quarter + 2 * Quarter,
            to |-> options.linear + (b - options.min) * Quarter] :
             b \in options.min..options.max }

HoldsAll(w, s) ==
  \A a \in s.start..EndAddress(s) : w.from <= a /\ a < w.from + Quarter

\* A raw segment that lies in a window moves with it, any other stays.
NewStart(s) ==
  LET home == { w \in Windows : HoldsAll(w, s) }
  IN IF home = {} THEN {s.start} ELSE { s.start - w.from + w.to : w \in home }

\* Where the first byte of a segment lies below the window of its bank the
\* subtraction underflows, which no other property speaks of.
StartsBelow(s) ==
  LET b == (s.start \div (4 * Quarter)) % BankCount
  IN /\ options.kind = "banked"
     /\ options.min <= b /\ b <= options.max
     /\ s.start < b * 4 * Quarter + 2 * Quarter

\* Every planned start is the one the windows give, whatever the other
\* segments are and although a bank number is cut to a byte.
PlansByWindow ==
  \A n \in DOMAIN starts :
    pc = "plan" => StartsBelow(segments[n]) \/ starts[n] \in NewStart(segments[n])

\* The call fails only where a segment has no place in the address space, or
\* underflows.
FailsForAReason ==
  res # "ok" =>
    \/ options.min > options.max
    \/ \E n \in DOMAIN segments :
         \/ StartsBelow(segments[n])
         \/ \E new \in NewStart(segments[n]) : ~FitsAt(new, Len(segments[n].data))

\* "Map banked address ranges into a linear space": what is in none of the
\* ranges stays where it is, as map_star08 leaves it.
UnbankedStays ==
  \A n \in DOMAIN starts :
    pc = "plan" /\ (\A w \in Windows : ~HoldsAll(w, segments[n])) =>
      starts[n] = segments[n].start

=============================================================================
