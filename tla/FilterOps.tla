----------------------------- MODULE FilterOps -----------------------------
(***************************************************************************)
(* hexy-core/src/ops/filter.rs without its state.  An operation that can   *)
(* fail is a condition and the list it makes when the condition holds.     *)
(***************************************************************************)
EXTENDS SegmentList

SegRange(s) == FromStartEnd(s.start, EndAddress(s))

\* The parts of a segment that lie in the merged ranges, in range order.
PartsIn(s, merged) ==
  LET hit == Keep(merged, {r \in ToSet(merged) : Overlaps(SegRange(s), r)})
  IN [n \in DOMAIN hit |->
        LET part == Intersection(SegRange(s), hit[n])
        IN Clip(s, part.start, part.end)]

FilterRanges(segs, ranges) ==
  LET merged == MergeRanges(ranges)
      kept == NonEmpty(segs)
  IN NonEmpty(FlattenSeq([n \in DOMAIN kept |-> PartsIn(kept[n], merged)]))

\* What one cut leaves of a segment: the part before and the part after.
PartsOutside(s, r) ==
  IF EndAddress(s) < r.start \/ s.start > r.end THEN <<s>>
  ELSE PushIf(PushIf(<<>>, s.start < r.start, Clip(s, s.start, r.start - 1)),
              EndAddress(s) > r.end, Clip(s, r.end + 1, EndAddress(s)))

CutRange(segs, r) ==
  LET kept == NonEmpty(segs)
  IN NonEmpty(FlattenSeq([n \in DOMAIN kept |-> PartsOutside(kept[n], r)]))

CutRanges(segs, ranges) == FoldLeft(CutRange, segs, ranges)

\* materialized_range_len: a range whose bytes can be laid out.
Materializable(r) == ~ExtendsPastAddressSpace(r) /\ RangeLength(r) <= MaxAddr

\* Mutant of FillSegment: starts the pattern anew in each gap.
FillFromGap(r, pattern, lo, hi) ==
  [start |-> lo,
   data |-> [k \in 1..(hi - lo + 1) |-> pattern[((k - 1) % Len(pattern)) + 1]]]

\* The fill bytes at lo..hi, their phase anchored at the start of the range.
FillSegment(r, pattern, lo, hi) ==
  [start |-> lo,
   data |-> [k \in 1..(hi - lo + 1) |->
               pattern[((lo - r.start + k - 1) % Len(pattern)) + 1]]]

\* The parts of the range that segments occupy, sorted and merged.
Occupied(segs, r) ==
  LET hit == Keep(NonEmpty(segs), {s \in ToSet(segs) : Overlaps(SegRange(s), r)})
      spans == [n \in DOMAIN hit |-> Intersection(SegRange(hit[n]), r)]
  IN MergeRanges(spans)

\* Fills what lies between the cursor and an occupied part, and steps over it.
FillBefore(acc, occ, r, pattern) ==
  [segs |-> PushIf(acc.segs, acc.cursor < occ.start,
                   FillSegment(r, pattern, acc.cursor, occ.start - 1)),
   cursor |-> occ.end + 1]

\* fill_gaps_in_range.  A cursor of MaxAddr + 1 is its early return.
FillGapsInRange(segs, r, pattern) ==
  LET last == FoldLeft(LAMBDA acc, occ : FillBefore(acc, occ, r, pattern),
                       [segs |-> segs, cursor |-> r.start], Occupied(segs, r))
  IN PushIf(last.segs, last.cursor <= r.end,
            FillSegment(r, pattern, last.cursor, r.end))

FillRange(segs, r, pattern, overwrite) ==
  IF overwrite
    THEN Append(CutRange(segs, r), FillSegment(r, pattern, r.start, r.end))
    ELSE FillGapsInRange(segs, r, pattern)

\* Every length is checked before the first range is filled.
CanFill(ranges, pattern) ==
  pattern = <<>> \/ \A n \in DOMAIN ranges : Materializable(ranges[n])

FillRanges(segs, ranges, pattern, overwrite) ==
  IF pattern = <<>> THEN segs
  ELSE FoldLeft(LAMBDA acc, r : FillRange(acc, r, pattern, overwrite), segs, ranges)

\* fill_gaps_bounded refuses a span above its limit; fill_gaps is the same with
\* the limit u32::MAX.
CanFillGaps(segs, limit) == segs = <<>> \/ SpanLength(segs) <= limit

FillGaps(segs, byte) == IF segs = <<>> THEN segs ELSE <<Dense(segs, byte)>>

CanOffset(segs, offset) ==
  \A n \in DOMAIN segs :
    IsEmpty(segs[n]) \/ ( /\ segs[n].start + offset \in Addr
                          /\ EndAddress(segs[n]) + offset <= MaxAddr )

OffsetAddresses(segs, offset) ==
  [n \in DOMAIN segs |-> IF IsEmpty(segs[n]) THEN segs[n]
                         ELSE [segs[n] EXCEPT !.start = @ + offset]]

\* The part of the other file that merge() takes, before its offset.
MergeSource(other, ranges) ==
  IF ranges = <<>> THEN other ELSE FilterRanges(other, ranges)

\* Preserve prepends the other file's segments one by one.
MergeSegments(segs, source, mode) ==
  IF mode = "Overwrite" THEN FoldLeft(AppendSegment, segs, source)
  ELSE FoldLeft(PrependSegment, segs, source)

=============================================================================
