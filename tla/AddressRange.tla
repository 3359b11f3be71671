---------------------------- MODULE AddressRange ----------------------------
(***************************************************************************)
(* hexy-core/src/range.rs: inclusive address ranges.  A range asked for by *)
(* start and length may reach past the address space: `end` is clipped,    *)
(* `requested` keeps what was asked for.                                   *)
(***************************************************************************)
EXTENDS AddressSpace, FiniteSets, SequencesExt

\* length is at least 1: the code refuses zero with ZeroLength.
FromStartLength(start, length) ==
  LET requested == start + length - 1
  IN [start |-> start, requested |-> requested,
      end |-> IF requested > MaxAddr THEN MaxAddr ELSE requested]

\* start <= end: the code refuses the rest with StartExceedsEnd.
FromStartEnd(start, end) == [start |-> start, end |-> end, requested |-> end]

RangeLength(r) == r.requested - r.start + 1

ExtendsPastAddressSpace(r) == r.requested > MaxAddr

Overlaps(r, t) == r.start <= t.end /\ t.start <= r.end

\* Only for ranges that overlap.  The result forgets what was requested.
Intersection(r, t) == FromStartEnd(Max({r.start, t.start}), Min({r.end, t.end}))

\* The elements of a list that are in S, in their order: Iterator::filter.
Keep(list, S) ==
  LET kept[k \in 0..Len(list)] ==
        IF k = 0 THEN <<>>
        ELSE IF list[k] \in S THEN Append(kept[k - 1], list[k]) ELSE kept[k - 1]
  IN kept[Len(list)]

\* sort_by_key(|x| x.start), which is stable, on ranges or segments.
InsertByStart(sorted, x) ==
  Keep(sorted, {y \in ToSet(sorted) : y.start <= x.start}) \o <<x>>
  \o Keep(sorted, {y \in ToSet(sorted) : y.start > x.start})

ByStart(list) == FoldLeft(InsertByStart, <<>>, list)

\* Extends the last merged range by one that overlaps or touches it.
AbsorbRange(merged, r) ==
  IF merged # <<>> /\ r.start <= Last(merged).end + 1
    THEN Append(Front(merged),
           [start |-> Last(merged).start,
            end |-> Max({Last(merged).end, r.end}),
            requested |-> Max({Last(merged).requested, r.requested})])
    ELSE Append(merged, r)

MergeRanges(ranges) ==
  FoldLeft(AbsorbRange, <<>>, ByStart(ranges))

-----------------------------------------------------------------------------
(* What is said of ranges *)

In(a, r) == r.start <= a /\ a <= r.end

InAny(a, list) == \E n \in 1..Len(list) : In(a, list[n])

\* The ranges that the two constructors make.
RangeType ==
  { r \in [start : Addr, end : Addr, requested : Nat] :
      /\ r.start <= r.end
      /\ r.end = IF r.requested > MaxAddr THEN MaxAddr ELSE r.requested }

\* Sorted, with at least one address between any two.
Apart(list) ==
  \A m, n \in 1..Len(list) : m < n => list[m].end + 1 < list[n].start

\* The addresses in S, in their order.
AddressesIn(S) == Keep([k \in 1..(MaxAddr + 1) |-> k - 1], S)

=============================================================================
