----------------------------- MODULE RemapLoop -----------------------------
(***************************************************************************)
(* HexFile::remap() of hexy-core/src/ops/transform.rs with remap_segment,  *)
(* one action per turn of its `loop`: each turn cuts a part off the front  *)
(* of what is left of a segment, ends it at the next border of a bank and  *)
(* gives it its mapped start.                                              *)
(***************************************************************************)
EXTENDS Segment

CONSTANTS
  Files,    \* the raw segment lists remap() is called on
  Options   \* RemapOptions: records [start, end, linear, size, inc]

ASSUME FilesAssumption == Files \subseteq Seq({s \in SegmentType : ~IsEmpty(s)})

ASSUME OptionsAssumption ==
  Options \subseteq [start : Addr, end : Addr, linear : Addr, size : Addr, inc : Addr]

VARIABLES
  segments,  \* self.segments
  options,
  pc,        \* "check", "loop" while parts are cut, or "done"
  n,         \* the segment being remapped
  start,     \* the address of its first byte that is in no part yet
  remapped,  \* the parts made so far, those of the current segment included
  res        \* what remap() returns: "ok" or "error"

vars == <<segments, options, pc, n, start, remapped, res>>

seg == segments[n]
segEnd == EndAddress(seg)

Least(x, y) == IF x <= y THEN x ELSE y

SaturatingAdd(x, y) == Least(x + y, MaxAddr)

bankIndex  == (start - options.start) \div options.inc
bankOffset == (start - options.start) % options.inc

\* Mutant of Inside: takes options.end for an exclusive end.
InsideExclusive == options.start <= start /\ start < options.end

Inside == options.start <= start /\ start <= options.end

Init ==
  /\ segments \in Files
  /\ options \in Options
  /\ pc = "check"
  /\ n = 1
  /\ start = 0
  /\ remapped = <<>>
  /\ res = "ok"

\* set_segments(remapped) on success; an error leaves the file as it is.
Finish(result, segs) ==
  /\ pc' = "done"
  /\ res' = result
  /\ segments' = segs

Refuse ==
  /\ pc = "check"
  /\ options.size = 0 \/ options.inc = 0 \/ options.start > options.end
  /\ Finish("error", segments)
  /\ UNCHANGED <<options, n, start, remapped>>

Begin ==
  /\ pc = "check"
  /\ options.size # 0 /\ options.inc # 0 /\ options.start <= options.end
  /\ pc' = "loop"
  /\ start' = IF segments = <<>> THEN start ELSE segments[1].start
  /\ UNCHANGED <<segments, options, n, remapped, res>>

\* Mutant of Advance: skips a byte between two parts.
AdvanceTooFar(end) ==
  IF end # segEnd THEN start' = end + 2 /\ UNCHANGED n
  ELSE /\ n' = n + 1
       /\ start' = IF n < Len(segments) THEN segments[n + 1].start ELSE start

\* Mutant of Advance: takes the last byte of a part again.
AdvanceTooLittle(end) ==
  IF end # segEnd /\ end # start THEN start' = end /\ UNCHANGED n
  ELSE /\ n' = n + 1
       /\ start' = IF n < Len(segments) THEN segments[n + 1].start ELSE start

\* On to the next part of the segment, or to the next segment.
Advance(end) ==
  IF end # segEnd THEN start' = end + 1 /\ UNCHANGED n
  ELSE /\ n' = n + 1
       /\ start' = IF n < Len(segments) THEN segments[n + 1].start ELSE start

Part(end, mapped) == [Clip(seg, start, end) EXCEPT !.start = mapped]

\* Mutant of Overflows: allows the mapped start to be one too high.
OverflowsAtStart(end, mapped) == mapped > MaxAddr + 1

\* Mutant of Overflows: takes MaxAddr for an exclusive end.
OverflowsEarly(end, mapped) == mapped + (end - start) >= MaxAddr

Overflows(end, mapped) == mapped > MaxAddr \/ ~FitsAt(mapped, end - start + 1)

\* The rest of the turn once `end` and `mapped_start` are known.
Take(end, mapped) ==
  IF Overflows(end, mapped)
    THEN Finish("error", segments) /\ UNCHANGED <<options, n, start, remapped>>
    ELSE /\ remapped' = Append(remapped, Part(end, mapped))
         /\ Advance(end)
         /\ UNCHANGED <<segments, options, pc, res>>

InLoop == pc = "loop" /\ n <= Len(segments)

KeepBelow ==
  /\ InLoop
  /\ start < options.start
  /\ Take(Least(segEnd, options.start - 1), start)

KeepAbove ==
  /\ InLoop
  /\ start > options.end
  /\ Take(segEnd, start)

Window(length) ==
  Least(Least(SaturatingAdd(start, length - 1), segEnd), options.end)

\* Mutant of MapBank: leaves the banks as far apart as they were.
MapBankUnpacked ==
  /\ InLoop
  /\ Inside
  /\ bankOffset < options.size
  /\ Take(Window(options.size - bankOffset),
          options.linear + bankIndex * options.inc + bankOffset)

MapBank ==
  /\ InLoop
  /\ Inside
  /\ bankOffset < options.size
  /\ Take(Window(options.size - bankOffset),
          options.linear + bankIndex * options.size + bankOffset)

KeepHole ==
  /\ InLoop
  /\ Inside
  /\ bankOffset >= options.size
  /\ Take(Window(options.inc - bankOffset), start)

SetSegments ==
  /\ pc = "loop"
  /\ n > Len(segments)
  /\ Finish("ok", remapped)
  /\ UNCHANGED <<options, n, start, remapped>>

Next ==
  \/ Refuse
  \/ Begin
  \/ KeepBelow
  \/ KeepAbove
  \/ MapBank
  \/ KeepHole
  \/ SetSegments

Spec == Init /\ [][Next]_vars

\* The call runs on one thread, which always takes its next step.
FairSpec == Spec /\ WF_vars(Next)

-----------------------------------------------------------------------------
(* Properties *)

\* Every variable has its type.
TypeOK ==
  /\ segments \in Seq([start : Addr, data : Seq(Byte)])
  /\ options \in Options
  /\ pc \in {"check", "loop", "done"}
  /\ n \in 1..(Len(segments) + 1) \/ pc = "done"
  /\ start \in Addr
  /\ remapped \in Seq([start : Addr, data : Seq(Byte)])
  /\ res \in {"ok", "error"}

\* At the head of the loop something is left of the segment, so that the
\* slices segment.data[data_start..data_end] are in bounds and not empty and
\* the two subtractions from seg_start cannot underflow.
CursorInSegment ==
  InLoop => seg.start <= start /\ start <= segEnd

\* Where the reference rule (docs: "source banks start every inc bytes, only
\* the first size bytes of each bank are remapped, and output windows are
\* packed contiguously from linear") puts the byte of address a.
MapAddress(a) ==
  LET offset == a - options.start
  IN IF \/ a < options.start \/ a > options.end
        \/ offset % options.inc >= options.size THEN a
     ELSE options.linear + (offset \div options.inc) * options.size
          + (offset % options.inc)

\* The bytes of a list, one after the other.
Stream(list) ==
  LET after[k \in 0..Len(list)] ==
        IF k = 0 THEN <<>> ELSE after[k - 1] \o list[k].data
  IN after[Len(list)]

\* The bytes cut so far are those of the raw segments up to the cursor, in
\* their order: none is lost, doubled or moved past another, so the priority
\* of overlapping segments survives.
Consumed ==
  SubSeq(segments, 1, n - 1)
  \o IF n <= Len(segments)
       THEN <<[start |-> seg.start, data |-> SubSeq(seg.data, 1, start - seg.start)]>>
       ELSE <<>>

NoByteLost == pc = "loop" => Stream(remapped) = Stream(Consumed)

\* The part cut last holds the bytes at the cursor and after it, and each
\* lies where the address rule puts it.
PartPlaced ==
  LET part == remapped'[Len(remapped')]
  IN \A k \in DOMAIN part.data :
       /\ part.start + k - 1 = MapAddress(start + k - 1)
       /\ part.data[k] = ByteAt(seg, start + k - 1)

\* Every byte lands where the address rule puts it, wherever the borders of
\* its segment and of its part lie.  With windows wider than the distance of
\* the banks (size > inc) the rule is ambiguous.
PlacedByAddress ==
  [][ Len(remapped') > Len(remapped) /\ options.size <= options.inc
        => PartPlaced ]_vars

\* An error is reported only for options that make no sense or for a byte
\* whose mapped address is not in the address space.
ErrorsAreReal ==
  (res = "error" /\ options.size <= options.inc) =>
    \/ options.size = 0 \/ options.inc = 0 \/ options.start > options.end
    \/ \E k \in 1..Len(segments) :
         \E a \in segments[k].start..EndAddress(segments[k]) : MapAddress(a) > MaxAddr

\* remap_segment has a bare `loop`: each turn must take at least one byte.
Terminates == <>(pc = "done")

=============================================================================
