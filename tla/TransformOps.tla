---------------------------- MODULE TransformOps ----------------------------
(***************************************************************************)
(* hexy-core/src/ops/transform.rs without its state: align, split, swap,   *)
(* the dsPIC copies and the scaling of addresses.  RemapLoop and BankMap   *)
(* have the mappings of banks.                                             *)
(***************************************************************************)
EXTENDS FilterOps

CONSTANTS
  Zero,       \* the byte 0x00
  LargeSpan   \* SWAPLONG_LARGE_SPAN_LIMIT

-----------------------------------------------------------------------------
(* align *)

AlignDown(a, alignment) == a - (a % alignment)

\* Mutant of AlignUp: an overflow saturates.
AlignUpToLast(a, alignment) ==
  LET up == a + (alignment - (a % alignment))
  IN IF a % alignment = 0 THEN a ELSE IF up > MaxAddr THEN MaxAddr ELSE up

\* An overflow leaves the value as it is.
AlignUp(a, alignment) ==
  LET up == a + (alignment - (a % alignment))
  IN IF a % alignment = 0 \/ up > MaxAddr THEN a ELSE up

\* Bytes of padding at lo .. hi - 1, or nothing.
Padding(lo, hi, byte) ==
  IF lo < hi THEN <<[start |-> lo, data |-> [k \in 1..(hi - lo) |-> byte]]>> ELSE <<>>

\* Mutant of PadSegment: rounds up the length of the data instead of its end.
PadToLength(s, alignment, byte, length) ==
  LET after == Min({EndAddress(s) + 1, MaxAddr})
      missing == (alignment - (Len(s.data) % alignment)) % alignment
  IN (IF length THEN Padding(after, Min({after + missing, MaxAddr}), byte) ELSE <<>>)
     \o Padding(AlignDown(s.start, alignment), s.start, byte)

PadSegment(s, alignment, byte, length) ==
  LET after == Min({EndAddress(s) + 1, MaxAddr})
  IN (IF length THEN Padding(after, AlignUp(after, alignment), byte) ELSE <<>>)
     \o Padding(AlignDown(s.start, alignment), s.start, byte)

\* Mutant of Align: appends the padding, which then wins against the data.
AlignOver(segs, alignment, byte, length) ==
  LET normal == Normalized(segs)
      padded == FoldLeft(LAMBDA acc, s : acc \o PadSegment(s, alignment, byte, length),
                         <<>>, normal)
  IN Normalized(normal \o padded)

\* The padding is prepended, so that it loses against the data.
Align(segs, alignment, byte, length) ==
  LET normal == Normalized(segs)
      padded == FoldLeft(LAMBDA acc, s : PadSegment(s, alignment, byte, length) \o acc,
                         <<>>, normal)
  IN Normalized(padded \o normal)

-----------------------------------------------------------------------------
(* split *)

\* Mutant of SplitSegment: its last chunk takes a byte more.
SplitWithTail(s, size) ==
  LET len == Len(s.data)
  IN IF len <= size + 1 THEN <<s>>
     ELSE <<Clip(s, s.start, s.start + size - 1),
            Clip(s, s.start + size, EndAddress(s))>>

SplitSegment(s, size) ==
  LET len == Len(s.data)
  IN IF len <= size THEN <<s>>
     ELSE [k \in 1..((len + size - 1) \div size) |->
             Clip(s, s.start + (k - 1) * size,
                  Min({s.start + k * size - 1, EndAddress(s)}))]

Split(segs, size) ==
  IF size = 0 THEN segs
  ELSE NonEmpty(FlattenSeq([n \in DOMAIN segs |-> SplitSegment(segs[n], size)]))

-----------------------------------------------------------------------------
(* swap_bytes *)

MapData(segs, NewByte(_, _)) ==
  [n \in DOMAIN segs |->
     [segs[n] EXCEPT !.data = [k \in DOMAIN segs[n].data |-> NewByte(n, k)]]]

\* Position k of a list of len bytes after its whole chunks were reversed.
Reversed(k, len, chunk) ==
  LET first == k - ((k - 1) % chunk)
  IN IF first + chunk - 1 > len THEN k ELSE first + chunk - 1 - (k - first)

ReverseChunks(segs, chunk) ==
  MapData(segs, LAMBDA n, k :
    segs[n].data[Reversed(k, Len(segs[n].data), chunk)])

TotalBytes(segs) == FoldLeft(LAMBDA sum, s : sum + Len(s.data), 0, segs)

\* Mutant of WordsAligned: does not ask where the segments start.
TotalIsEven(segs) == TotalBytes(segs) % 2 = 0

WordsAligned(segs) ==
  /\ TotalBytes(segs) % 2 = 0
  /\ \A n \in DOMAIN segs : segs[n].start % 2 = 0

SwapWord(segs) == IF WordsAligned(segs) THEN ReverseChunks(segs, 2) ELSE segs

RawSpan(segs) == MaxAddress(segs) - MinAddress(segs) + 1

\* The span of the raw segments must fit u32.
CanSwapLong(segs) == segs = <<>> \/ RawSpan(segs) <= MaxAddr

\* One segment from LargeSpan bytes on: its first word, swapped, everywhere.
RepeatFirst(s) == [s EXCEPT !.data = [k \in DOMAIN @ |-> @[4 - ((k - 1) % 4)]]]

\* Mutant of SwapThroughMap: swaps each segment on its own.
SwapEachSegment(segs) == ReverseChunks(segs, 4)

\* Several segments go through a map of the image.  A word whose first byte is
\* missing is left alone; the missing bytes of another are those of the last
\* word that was whole, or zero; every raw segment then takes the new bytes.
SwapThroughMap(segs) ==
  LET image == Image(segs)
      word(a) == a - (a % 4)
      Whole(w) == \A i \in 0..3 : image[w + i] # None
      before(w) == { v \in Covered(segs) : v % 4 = 0 /\ v < w /\ Whole(v) }
      Filled(w, i) == IF image[w + i] # None THEN image[w + i]
                      ELSE IF before(w) = {} THEN Zero ELSE image[Max(before(w)) + i]
  IN MapData(segs, LAMBDA n, k :
       LET a == segs[n].start + k - 1
       IN IF image[word(a)] = None THEN segs[n].data[k]
          ELSE Filled(word(a), 3 - (a % 4)))

SwapLong(segs) ==
  CASE segs = <<>> -> segs
    [] segs # <<>> /\ (MinAddress(segs) % 4 # 0 \/ RawSpan(segs) % 4 # 0) -> segs
    [] OTHER ->
         IF Len(segs) > 1 THEN SwapThroughMap(segs)
         ELSE IF Len(segs[1].data) >= LargeSpan THEN <<RepeatFirst(segs[1])>>
         ELSE ReverseChunks(segs, 4)

-----------------------------------------------------------------------------
(* dspic_expand, dspic_shrink, dspic_clear_ghost: each writes what it makes of
   the bytes of a range *)

Expanded(d) ==
  [k \in 1..(2 * Len(d)) |->
     IF (k - 1) % 4 < 2 THEN d[2 * ((k - 1) \div 4) + ((k - 1) % 4) + 1] ELSE Zero]

Shrunk(d) ==
  [k \in 1..(Len(d) \div 2) |-> d[4 * ((k - 1) \div 2) + ((k - 1) % 2) + 1]]

Cleared(d) == [k \in DOMAIN d |-> IF k % 4 = 0 THEN Zero ELSE d[k]]

ExpandTarget(r, target) == IF target = None THEN 2 * r.start ELSE target
ShrinkTarget(r, target) == IF target = None THEN r.start \div 2 ELSE target

\* The segment a copy writes, or None when the range is refused.
CopyOf(segs, r, group, Make(_), at) ==
  IF ~Materializable(r) \/ RangeLength(r) % group # 0 THEN None
  ELSE LET source == ReadBytesContiguous(segs, r.start, RangeLength(r))
       IN IF source = None THEN None ELSE [start |-> at, data |-> Make(source)]

ExpandCopy(segs, r, target) == CopyOf(segs, r, 2, Expanded, ExpandTarget(r, target))

ShrinkCopy(segs, r, target) ==
  IF target = None /\ r.start % 2 # 0 THEN None
  ELSE CopyOf(segs, r, 4, Shrunk, ShrinkTarget(r, target))

GhostCopy(segs, r) == CopyOf(segs, r, 4, Cleared, r.start)

\* write_bytes succeeds on a copy that exists and fits.
CanWrite(copy) == copy # None /\ FitsAt(copy.start, Len(copy.data)) /\ copy.start <= MaxAddr

-----------------------------------------------------------------------------
(* scale_addresses, unscale_addresses *)

\* Mutant of CanScale: looks at the new starts only.
CanScaleStarts(segs, factor) ==
  \A n \in DOMAIN segs : segs[n].start * factor <= MaxAddr

CanScale(segs, factor) ==
  \A n \in DOMAIN segs :
    /\ segs[n].start * factor <= MaxAddr
    /\ FitsAt(segs[n].start * factor, Len(segs[n].data))

Scale(segs, factor) ==
  [n \in DOMAIN segs |-> [segs[n] EXCEPT !.start = @ * factor]]

CanUnscale(segs, divisor) ==
  divisor # 0 /\ \A n \in DOMAIN segs : segs[n].start % divisor = 0

Unscale(segs, divisor) ==
  [n \in DOMAIN segs |-> [segs[n] EXCEPT !.start = @ \div divisor]]

=============================================================================
