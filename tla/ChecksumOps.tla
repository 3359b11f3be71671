---------------------------- MODULE ChecksumOps ----------------------------
(***************************************************************************)
(* hexy-core/src/ops/checksum.rs without its state: which addresses a      *)
(* checksum covers, the sums, and where the result goes.  A byte has the   *)
(* values 0 .. Base - 1 and a sum wraps at Base^2, which is 256 and 2^16.  *)
(* ChecksumLoop collects the data byte run by byte run.                    *)
(*                                                                         *)
(* options: [alg, range, reversed, forced, exclude]; range is None or a    *)
(* range, forced is None or [range, pattern].                              *)
(***************************************************************************)
EXTENDS FilterOps

CONSTANT Base

\* The algorithms whose arithmetic is in the source, by their names there.
WordSums ==
  {"WordSumBe", "WordSumLe", "WordSumBeTwosComplement", "WordSumLeTwosComplement"}

NativeLittleEndian(alg) ==
  alg \in {"ByteSumLe", "WordSumLe", "WordSumLeTwosComplement"}

\* result_size of these algorithms.
Size == 2

-----------------------------------------------------------------------------
(* Selection of addresses *)

\* One excluded range of subtract_ranges: what lies before it is kept.
SubtractStep(acc, ex, r) ==
  IF ex.end < acc.cursor \/ ex.start > r.end THEN acc
  ELSE [out |-> PushIf(acc.out, acc.cursor < ex.start,
                       FromStartEnd(acc.cursor, ex.start - 1)),
        cursor |-> Min({ex.end, r.end}) + 1]

Subtracted(r, excludes) ==
  FoldLeft(LAMBDA acc, ex : SubtractStep(acc, ex, r),
           [out |-> <<>>, cursor |-> r.start], excludes)

\* subtract_ranges: excludes is sorted and merged.
SubtractRanges(r, excludes) ==
  LET last == Subtracted(r, excludes)
  IN PushIf(last.out, last.cursor <= r.end, FromStartEnd(last.cursor, r.end))

\* Mutant of Excluded: forgets the ranges of the options.
ExcludesTarget(o, target) == IF target = None THEN <<>> ELSE <<target>>

Excluded(o, target) ==
  MergeRanges(IF target = None THEN o.exclude ELSE Append(o.exclude, target))

\* Where there is data or a forced range, within the limit.
Domains(normal, o) ==
  LET data == [n \in DOMAIN normal |-> SegRange(normal[n])]
      all == MergeRanges(IF o.forced = None THEN data ELSE Append(data, o.forced.range))
      hit == Keep(all, {r \in ToSet(all) : Overlaps(r, o.range)})
  IN IF o.range = None THEN all
     ELSE [n \in DOMAIN hit |-> Intersection(hit[n], o.range)]

\* Without excludes a range is taken as it is, requested end and all.
IncludeRanges(normal, o, excludes) ==
  LET domains == Domains(normal, o)
      parts == [n \in DOMAIN domains |->
                  IF excludes = <<>> THEN <<domains[n]>>
                  ELSE SubtractRanges(domains[n], excludes)]
  IN MergeRanges(FlattenSeq(parts))

\* The ranges can be laid out, and are made of words for a sum of words.
CanCollect(ranges, o) ==
  \A n \in DOMAIN ranges :
    /\ Materializable(ranges[n])
    /\ o.alg \in WordSums =>
         ranges[n].start % 2 = 0 /\ RangeLength(ranges[n]) % 2 = 0

\* An empty pattern stands for the byte 0xFF.
ForcedByte(forced, a) ==
  IF forced.pattern = <<>> THEN Base - 1
  ELSE forced.pattern[((a - forced.range.start) % Len(forced.pattern)) + 1]

\* The data of the ranges; where there is none the forced pattern.
CollectData(normal, o, ranges) ==
  FlattenSeq([n \in DOMAIN ranges |->
    [k \in 1..(ranges[n].end - ranges[n].start + 1) |->
       LET a == ranges[n].start + k - 1
           b == ReadByte(normal, a)
       IN IF b = None THEN ForcedByte(o.forced, a) ELSE b]])

-----------------------------------------------------------------------------
(* Sums *)

Width == Base * Base

Word(hi, lo) == hi * Base + lo

Sum16(values) == FoldLeft(LAMBDA sum, v : (sum + v) % Width, 0, values)

ByteSum(data) == Sum16(data)

\* wrapping_neg of each byte, then the sum.
ByteTwosSum(data) == Sum16([k \in DOMAIN data |-> (Base - data[k]) % Base])

WordSumBe(data) ==
  Sum16([k \in 1..(Len(data) \div 2) |-> Word(data[2 * k - 1], data[2 * k])])

WordSumLe(data) ==
  Sum16([k \in 1..(Len(data) \div 2) |-> Word(data[2 * k], data[2 * k - 1])])

TwosComplement(sum) == (Width - sum) % Width

\* ModularSum refuses an odd length only, and anywhere else than CanCollect.
CanSum(alg, data) ==
  alg \in WordSums \union {"ModularSum"} => Len(data) % 2 = 0

SumOf(alg, data) ==
  CASE alg \in {"ByteSumBe", "ByteSumLe"} -> ByteSum(data)
    [] alg = "ByteSumTwosComplement" -> ByteTwosSum(data)
    [] alg = "WordSumBe" -> WordSumBe(data)
    [] alg = "WordSumLe" -> WordSumLe(data)
    [] alg = "WordSumBeTwosComplement" -> TwosComplement(WordSumBe(data))
    [] alg \in {"WordSumLeTwosComplement", "ModularSum"} -> TwosComplement(WordSumLe(data))

\* Big-endian, or little-endian where exactly one of the two says so.
Output(alg, reversed, sum) ==
  IF NativeLittleEndian(alg) # reversed
    THEN <<sum % Base, sum \div Base>> ELSE <<sum \div Base, sum % Base>>

\* calculate_checksum with the excluded target, or None for an error.
Calculate(segs, o, target) ==
  LET normal == Normalized(segs)
      ranges == IncludeRanges(normal, o, Excluded(o, target))
      data == CollectData(normal, o, ranges)
  IN IF ~CanCollect(ranges, o) \/ ~CanSum(o.alg, data) THEN None
     ELSE Output(o.alg, o.reversed, SumOf(o.alg, data))

-----------------------------------------------------------------------------
(* Targets: [kind, at] with at for kind "Address" *)

\* Where checksum() looks for the bytes to exclude, if anywhere.
ExcludeStart(segs, target) ==
  CASE target.kind = "Address" -> target.at
    [] target.kind = "OverwriteEnd" /\ segs # <<>> -> MaxAddress(segs) - (Size - 1)
    [] target.kind = "Append" /\ segs # <<>> -> MaxAddress(segs) + 1
    [] target.kind = "Prepend" /\ segs # <<>> -> MinAddress(segs) - Size
    [] OTHER -> None

\* The target lies in the address space.
TargetFits(segs, target) ==
  LET at == ExcludeStart(segs, target)
  IN at # None => 0 <= at /\ at + Size - 1 <= MaxAddr

TargetRange(segs, target) ==
  IF ExcludeStart(segs, target) = None THEN None
  ELSE FromStartLength(ExcludeStart(segs, target), Size)

\* Mutant of WriteStart: counts the size from the last address down.
WriteStartLow(segs, target, result) ==
  CASE target.kind = "Address" -> target.at
    [] target.kind = "OverwriteEnd" /\ segs # <<>> -> MaxAddress(segs) - Len(result)
    [] target.kind = "Append" /\ segs # <<>> -> MaxAddress(segs) + 1
    [] target.kind = "Prepend" /\ segs # <<>> -> MinAddress(segs) - Len(result)
    [] OTHER -> None

\* Where it then writes, found again in the same file.
WriteStart(segs, target, result) ==
  CASE target.kind = "Address" -> target.at
    [] target.kind = "OverwriteEnd" /\ segs # <<>> -> MaxAddress(segs) - (Len(result) - 1)
    [] target.kind = "Append" /\ segs # <<>> -> MaxAddress(segs) + 1
    [] target.kind = "Prepend" /\ segs # <<>> -> MinAddress(segs) - Len(result)
    [] OTHER -> None

=============================================================================
