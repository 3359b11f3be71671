---------------------------- MODULE ChecksumLoop ----------------------------
(***************************************************************************)
(* collect_data_for_checksum of hexy-core/src/ops/checksum.rs step by      *)
(* step: append_checksum_range walks the ranges to include and, with an    *)
(* index that it keeps from one range to the next, the segments; it takes  *)
(* runs of data and, between them, runs of the forced pattern.             *)
(***************************************************************************)
EXTENDS ChecksumOps

CONSTANTS
  Normals,  \* the normalized lists, each sorted and with gaps
  Options,  \* ChecksumOptions
  Targets   \* target_exclude: None or a range

\* What HexFile::normalized returns.
ASSUME NormalsAreNormalized ==
  \A list \in Normals : list \in ListType /\ AllInSpace(list) /\ Separated(list)

ASSUME OptionsAreRanges ==
  \A o \in Options :
    /\ o.range = None \/ o.range \in RangeType
    /\ o.forced = None \/ o.forced.range \in RangeType
    /\ o.exclude \in Seq(RangeType)

ASSUME TargetsAreRanges == \A t \in Targets : t = None \/ t \in RangeType

VARIABLES
  segments, \* normalized.segments()
  options, target,
  ranges,   \* include_ranges
  pc,       \* "check", "walk", "done"
  n,        \* the range being walked
  addr,     \* the next address in it; MaxAddr + 1 stands for a `break`
  segIdx,
  data,
  res       \* "ok" or "error"

vars == <<segments, options, target, ranges, pc, n, addr, segIdx, data, res>>

input == <<segments, options, target, ranges>>

Init ==
  /\ segments \in Normals
  /\ options \in Options
  /\ target \in Targets
  /\ ranges = IncludeRanges(segments, options, Excluded(options, target))
  /\ pc = "check"
  /\ n = 1 /\ addr = 0 /\ segIdx = 1 /\ data = <<>> /\ res = "ok"

\* All ranges are checked before the first byte is taken.
Check ==
  /\ pc = "check"
  /\ IF ~CanCollect(ranges, options)
       THEN pc' = "done" /\ res' = "error" /\ UNCHANGED addr
       ELSE /\ pc' = IF ranges = <<>> THEN "done" ELSE "walk"
            /\ addr' = IF ranges = <<>> THEN addr ELSE ranges[1].start
            /\ UNCHANGED res
  /\ UNCHANGED <<input, n, segIdx, data>>

range == ranges[n]

InRange == pc = "walk" /\ addr <= range.end

HasSegment == segIdx <= Len(segments)

seg == segments[segIdx]

\* Mutant of SkipSegment: forgets to move the index.
SkipSegmentStuck ==
  /\ InRange
  /\ HasSegment /\ EndAddress(seg) < addr
  /\ UNCHANGED vars

SkipSegment ==
  /\ InRange
  /\ HasSegment /\ EndAddress(seg) < addr
  /\ segIdx' = segIdx + 1
  /\ UNCHANGED <<input, pc, n, addr, data, res>>

\* The inner loop is over.
AtSegment == InRange /\ (HasSegment => EndAddress(seg) >= addr)

OnData == HasSegment /\ seg.start <= addr

\* Mutant of PastSegment: goes on to the next segment after every run.
PastSegmentAlways(end) == segIdx' = segIdx + 1

PastSegment(end) == segIdx' = IF EndAddress(seg) <= end THEN segIdx + 1 ELSE segIdx

TakeData ==
  /\ AtSegment
  /\ OnData
  /\ LET end == Min({EndAddress(seg), range.end})
     IN /\ data' = data \o Clip(seg, addr, end).data
        /\ PastSegment(end)
        /\ addr' = end + 1
  /\ UNCHANGED <<input, pc, n, res>>

\* Mutant of InForced: takes the end for an exclusive one.
InForcedExclusive ==
  /\ options.forced # None
  /\ options.forced.range.start <= addr /\ addr < options.forced.range.end

InForced ==
  /\ options.forced # None
  /\ options.forced.range.start <= addr /\ addr <= options.forced.range.end

\* Mutant of ForcedEnd: does not stop at the next segment.
ForcedEndOver == Min({options.forced.range.end, range.end})

ForcedEnd ==
  Min({options.forced.range.end, range.end}
      \union IF HasSegment /\ seg.start > addr THEN {seg.start - 1} ELSE {})

\* Mutant of ForcedRun: starts the pattern anew after each run of data.
ForcedRunAnew(end) ==
  [k \in 1..(end - addr + 1) |->
     ForcedByte(options.forced, options.forced.range.start + k - 1)]

ForcedRun(end) == [k \in 1..(end - addr + 1) |-> ForcedByte(options.forced, addr + k - 1)]

\* Where the forced range does not reach either: RangeNotCovered.
TakeForced ==
  /\ AtSegment
  /\ ~OnData
  /\ IF InForced
       THEN data' = data \o ForcedRun(ForcedEnd) /\ addr' = ForcedEnd + 1
            /\ UNCHANGED <<pc, res>>
       ELSE pc' = "done" /\ res' = "error" /\ UNCHANGED <<data, addr>>
  /\ UNCHANGED <<input, n, segIdx>>

NextRange ==
  /\ pc = "walk"
  /\ addr > range.end
  /\ IF n = Len(ranges) THEN pc' = "done" /\ UNCHANGED <<n, addr>>
     ELSE n' = n + 1 /\ addr' = ranges[n + 1].start /\ UNCHANGED pc
  /\ UNCHANGED <<input, segIdx, data, res>>

Next ==
  \/ Check
  \/ SkipSegment
  \/ TakeData
  \/ TakeForced
  \/ NextRange

Spec == Init /\ [][Next]_vars

\* The call runs on one thread, which always takes its next step.
FairSpec == Spec /\ WF_vars(Next)

-----------------------------------------------------------------------------
(* Properties *)

\* The addresses the options speak of: where there is data or a forced range,
\* within the limit, outside of what is excluded and of the target.
Included ==
  { a \in Addr :
      /\ a \in Covered(segments)
         \/ (options.forced # None /\ In(a, options.forced.range))
      /\ options.range = None \/ In(a, options.range)
      /\ ~\E k \in DOMAIN options.exclude : In(a, options.exclude[k])
      /\ target = None \/ ~In(a, target) }

Value(a) ==
  IF a \in Covered(segments) THEN ReadByte(segments, a)
  ELSE ForcedByte(options.forced, a)

Walked(S) == [k \in DOMAIN AddressesIn(S) |-> Value(AddressesIn(S)[k])]

\* The bytes taken so far are those of the included addresses below the
\* cursor, in address order, whatever segments, forced range, limit and
\* excluded ranges cut each other into.
TakesIncludedInOrder ==
  pc = "walk" => data = Walked({ a \in Included : a < addr })

\* At the end none is missing.
TakesAll == (pc = "done" /\ res = "ok") => data = Walked(Included)

\* The segments behind the index end before the cursor, so that an index kept
\* from one range to the next never misses data.
IndexBehindCursor ==
  pc = "walk" => \A k \in 1..(segIdx - 1) : EndAddress(segments[k]) < addr

\* Nothing fails once the first byte was taken: no address of the ranges is
\* without data and outside the forced range (RangeNotCovered).
FailsBeforeData == res = "error" => data = <<>> /\ ~CanCollect(ranges, options)

\* The walk makes the list that CollectData says.
WalkIsCollectData ==
  (pc = "done" /\ res = "ok") => data = CollectData(segments, options, ranges)

\* Both loops come to an end.
Terminates == <>(pc = "done")

=============================================================================
