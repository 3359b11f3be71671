------------------------------ MODULE HexFile ------------------------------
(***************************************************************************)
(* A HexFile and the calls that change it (hexy-core/src/hexfile.rs,       *)
(* ops/filter.rs and ops/transform.rs without the maps of banks): an       *)
(* ordered list of raw segments that may overlap.  A call is answered in   *)
(* one step, since every method takes &mut self, and then returns.         *)
(***************************************************************************)
EXTENDS TransformOps

CONSTANTS
  Calls,     \* the calls that can be made: records [op |-> ..., arguments]
  Idle,      \* no call is being answered
  MaxSegs    \* bound: a longer list of raw segments is not called again

\* None is an Option, neither bytes nor a segment; the byte 0 is a byte.
ASSUME NoneAssumption ==
  /\ None \notin Seq(Byte)
  /\ None \notin [start : Nat, data : Seq(Byte)]
ASSUME ZeroAssumption == Zero \in Byte

\* What the types of the methods' parameters let a caller pass: an address, a
\* length or a factor is a u32, a segment and a file have been constructed.
IsCall(c) ==
  /\ c.op \in {"append_segment", "prepend_segment"} => c.seg \in SegmentType
  /\ c.op = "write_bytes" => c.seg \in [start : Addr, data : Seq(Byte)]
  /\ c.op \in {"filter_ranges", "cut_ranges", "fill_ranges", "merge"}
       => c.ranges \in Seq(RangeType)
  /\ c.op = "fill_ranges" => c.pattern \in Seq(Byte) /\ c.overwrite \in BOOLEAN
  /\ c.op = "fill_gaps" => c.limit \in Addr /\ c.byte \in Byte
  /\ c.op = "merge" => /\ c.other \in Seq(StoredSegment)
                      /\ c.image = Image(c.other)
                      /\ c.mode \in {"Overwrite", "Preserve"}
  /\ c.op \in {"merge", "offset_addresses"} => c.offset \in Int
  /\ c.op = "align" => c.alignment \in Addr /\ c.byte \in Byte /\ c.length \in BOOLEAN
  /\ c.op = "split" => c.size \in Addr
  /\ c.op \in {"dspic_expand", "dspic_shrink", "dspic_clear_ghost"} => c.range \in RangeType
  /\ c.op \in {"dspic_expand", "dspic_shrink"} => c.target \in Addr \union {None}
  /\ c.op \in {"scale_addresses", "unscale_addresses"} => c.by \in Addr

ASSUME CallsAssumption == \A c \in Calls : IsCall(c)

VARIABLES
  segments,  \* self.segments, in insertion order
  call,      \* the call just answered, or Idle
  res        \* what it returned: "ok" or "error"

vars == <<segments, call, res>>

Bounded == Len(segments) <= MaxSegs

\* A file that covers every address has no end for its one segment in u32:
\* NormalizeLoop has what becomes of it.  The bound of the calls that join; one
\* more keeps align from making such a file.
HasGap == Covered(segments) # Addr

Begin(c, op) ==
  /\ call = Idle
  /\ Bounded
  /\ c.op = op
  /\ call' = c

Ok(new) == segments' = new /\ res' = "ok"

Fail == UNCHANGED segments /\ res' = "error"

OkIf(cond, new) == IF cond THEN Ok(new) ELSE Fail

Init == segments = <<>> /\ call = Idle /\ res = "ok"

-----------------------------------------------------------------------------
(* hexfile.rs *)

AnswerAppend(c) ==
  Begin(c, "append_segment") /\ Ok(AppendSegment(segments, c.seg))

AnswerPrepend(c) ==
  Begin(c, "prepend_segment") /\ Ok(PrependSegment(segments, c.seg))

\* c.seg has any start and data; the code refuses the ones that do not fit.
AnswerWrite(c) ==
  /\ Begin(c, "write_bytes")
  /\ OkIf(FitsAt(c.seg.start, Len(c.seg.data)), AppendSegment(segments, c.seg))

\* A caller that replaces its file by the normalized one.
AnswerNormalize(c) ==
  /\ Begin(c, "normalized")
  /\ HasGap
  /\ Ok(Normalized(segments))

-----------------------------------------------------------------------------
(* ops/filter.rs *)

AnswerFilter(c) ==
  Begin(c, "filter_ranges") /\ Ok(FilterRanges(segments, c.ranges))

AnswerCut(c) ==
  Begin(c, "cut_ranges") /\ Ok(CutRanges(segments, c.ranges))

AnswerFill(c) ==
  /\ Begin(c, "fill_ranges")
  /\ OkIf(CanFill(c.ranges, c.pattern),
          FillRanges(segments, c.ranges, c.pattern, c.overwrite))

AnswerFillGaps(c) ==
  /\ Begin(c, "fill_gaps")
  /\ HasGap
  /\ OkIf(CanFillGaps(segments, c.limit), FillGaps(segments, c.byte))

AnswerMerge(c) ==
  /\ Begin(c, "merge")
  /\ LET source == MergeSource(c.other, c.ranges)
     IN OkIf(c.offset = 0 \/ CanOffset(source, c.offset),
             MergeSegments(segments, OffsetAddresses(source, c.offset), c.mode))

AnswerOffset(c) ==
  /\ Begin(c, "offset_addresses")
  /\ OkIf(CanOffset(segments, c.offset), OffsetAddresses(segments, c.offset))

-----------------------------------------------------------------------------
(* ops/transform.rs *)

AnswerAlign(c) ==
  /\ Begin(c, "align")
  /\ HasGap
  /\ c.alignment # 0 =>
       Covered(Align(segments, c.alignment, c.byte, c.length)) # Addr
  /\ OkIf(c.alignment # 0, Align(segments, c.alignment, c.byte, c.length))

AnswerSplit(c) == Begin(c, "split") /\ Ok(Split(segments, c.size))

AnswerSwapWord(c) == Begin(c, "swap_word") /\ Ok(SwapWord(segments))

AnswerSwapLong(c) ==
  Begin(c, "swap_long") /\ OkIf(CanSwapLong(segments), SwapLong(segments))

\* The dsPIC calls write what they copied with write_bytes, or fail.
WriteCopy(copy) == OkIf(CanWrite(copy), AppendSegment(segments, copy))

AnswerExpand(c) ==
  /\ Begin(c, "dspic_expand")
  /\ HasGap
  /\ WriteCopy(ExpandCopy(segments, c.range, c.target))

AnswerShrink(c) ==
  /\ Begin(c, "dspic_shrink")
  /\ HasGap
  /\ WriteCopy(ShrinkCopy(segments, c.range, c.target))

AnswerClearGhost(c) ==
  /\ Begin(c, "dspic_clear_ghost")
  /\ HasGap
  /\ WriteCopy(GhostCopy(segments, c.range))

AnswerScale(c) ==
  Begin(c, "scale_addresses") /\ OkIf(CanScale(segments, c.by), Scale(segments, c.by))

AnswerUnscale(c) ==
  /\ Begin(c, "unscale_addresses")
  /\ OkIf(CanUnscale(segments, c.by), Unscale(segments, c.by))

-----------------------------------------------------------------------------
Return == call # Idle /\ call' = Idle /\ res' = "ok" /\ UNCHANGED segments

Next ==
  \/ Return
  \/ \E c \in Calls :
       \/ AnswerAppend(c)
       \/ AnswerPrepend(c)
       \/ AnswerWrite(c)
       \/ AnswerNormalize(c)
       \/ AnswerFilter(c)
       \/ AnswerCut(c)
       \/ AnswerFill(c)
       \/ AnswerFillGaps(c)
       \/ AnswerMerge(c)
       \/ AnswerOffset(c)
       \/ AnswerAlign(c)
       \/ AnswerSplit(c)
       \/ AnswerSwapWord(c)
       \/ AnswerSwapLong(c)
       \/ AnswerExpand(c)
       \/ AnswerShrink(c)
       \/ AnswerClearGhost(c)
       \/ AnswerScale(c)
       \/ AnswerUnscale(c)

Spec == Init /\ [][Next]_vars

-----------------------------------------------------------------------------
(* Properties *)

\* Every segment is stored non-empty and inside the address space, which the
\* assertion of checked_non_empty_segment demands of each list stored.  (HasGap
\* leaves out the one file for which that fails.)
TypeOK ==
  /\ segments \in Seq(StoredSegment)
  /\ call \in Calls \union {Idle}
  /\ res \in {"ok", "error"}

\* The promise of the whole type: whatever the raw segments are, a sequence
\* of calls acts on what read_byte shows as it would act on a plain sparse
\* map, and fails exactly when that map says it must.
Img == INSTANCE SparseImage WITH mem <- Image(segments)

ImplementsSparseImage == Img!Spec

\* What the promise takes of the files merged in Preserve mode: segments that
\* agree where they overlap.  They are prepended one by one, so that of two that
\* differ the first would win, and not the last as in their own file.
Unambiguous(segs) ==
  \A m, n \in DOMAIN segs : \A a \in Addr :
    Covers(segs[m], a) /\ Covers(segs[n], a) => ByteAt(segs[m], a) = ByteAt(segs[n], a)

MergesUnambiguous ==
  \A c \in Calls : c.op = "merge" /\ c.mode = "Preserve" =>
    Unambiguous(MergeSource(c.other, c.ranges))

\* The maximal runs of covered addresses, in order.
RunStarts == { a \in Covered(segments) : a - 1 \notin Covered(segments) }

RunEnd(a) ==
  CHOOSE e \in Covered(segments) :
    /\ a <= e
    /\ a..e \subseteq Covered(segments)
    /\ e + 1 \notin Covered(segments)

Runs ==
  LET starts == AddressesIn(RunStarts)
  IN [n \in DOMAIN starts |->
        [start |-> starts[n],
         data |-> [k \in 1..(RunEnd(starts[n]) - starts[n] + 1) |->
                     ReadByte(segments, starts[n] + k - 1)]]]

\* normalized() returns the maximal runs of the image whichever path it
\* takes, so two files that read alike normalize to the same list.
NormalizedIsCanonical == call = Idle => Normalized(segments) = Runs

\* read_bytes_contiguous, which goes by the normalized list, gives the bytes
\* that read_byte finds in the raw list, or None when one is missing.  The one
\* length no u32 holds is None even in a file that covers every address.
ContiguousReadsAgree ==
  call = Idle => \A a \in Addr, len \in 1..(MaxAddr + 1) :
    LET present == \A k \in a..(a + len - 1) : k \in Covered(segments)
    IN ReadBytesContiguous(segments, a, len) =
         IF len <= MaxAddr /\ present
           THEN [k \in 1..len |-> ReadByte(segments, a + k - 1)]
           ELSE None

\* A merge in Preserve mode "fills gaps": where this file had nothing it then
\* reads as the other file read (MergeMode::Preserve, "transparent").
MergeFillsGaps ==
  [][ /\ call' # Idle
      /\ call'.op = "merge"
      /\ call'.mode = "Preserve" /\ call'.ranges = <<>> /\ call'.offset = 0
      => \A a \in Addr : ReadByte(segments, a) = None =>
           ReadByte(segments', a) = ReadByte(call'.other, a) ]_vars

-----------------------------------------------------------------------------
(* Properties of the transforms *)

Answered(op) == call' # Idle /\ call'.op = op /\ res' = "ok"

\* align: whatever overlaps and gaps the padding meets, every run of bytes
\* then starts at a multiple of the alignment, and with length ends before
\* one.  AlignOptions::align_length promises the second without exception; in
\* the last block of the address space, which ends at no u32, a run ends where
\* its data did.
AlignsRuns ==
  [][ Answered("align") =>
        LET al == call'.alignment
            starts == RunStarts'
            ends == { (RunEnd(a) + 1)' : a \in starts }
        IN /\ \A a \in starts : a % al = 0
           /\ call'.length => \A e \in ends :
                \/ e % al = 0
                \/ AlignDown(e, al) + al > MaxAddr /\ e - 1 \in Covered(segments) ]_vars

\* split: no piece is longer than the size asked for, and no more pieces
\* are made than that needs.
SplitFits ==
  [][ Answered("split") /\ call'.size > 0 =>
        /\ \A n \in DOMAIN segments' : Len(segments'[n].data) <= call'.size
        /\ Len(segments') =
             FoldLeft(LAMBDA sum, s : sum + (Len(s.data) + call'.size - 1) \div call'.size,
                      0, segments) ]_vars

EvenSegments == \A n \in DOMAIN segments : Len(segments[n].data) % 2 = 0

\* swap_bytes(Word) swaps the bytes of every word of the image or none, even
\* where segments overlap, when no segment has an odd length.  (One with an
\* odd length keeps its last byte, and what it hides may come out.)
SwapsWords ==
  [][ Answered("swap_word") /\ EvenSegments =>
        \/ Image(segments') = Image(segments)
        \/ \A a \in Addr : ReadByte(segments', a) =
              ReadByte(segments, IF a % 2 = 0 THEN a + 1 ELSE a - 1) ]_vars

WholeWords ==
  \A a \in Covered(segments) : (a - (a % 4))..(a - (a % 4) + 3) \subseteq Covered(segments)

\* swap_bytes(DWord) turns every aligned word of the image around or none,
\* however words are cut by segments and wherever they overlap, when no word
\* has a hole; one segment of LargeSpan bytes or more repeats its first word.
SwapsLongWords ==
  [][ Answered("swap_long") /\ WholeWords
        /\ ~(Len(segments) = 1 /\ Len(segments[1].data) >= LargeSpan) =>
        \/ Image(segments') = Image(segments)
        \/ \A a \in Addr : ReadByte(segments', a) =
              ReadByte(segments, a - (a % 4) + 3 - (a % 4)) ]_vars

Disjoint(segs) == ~AnyOverlap(segs)

ShowsAll(segs, Start(_)) ==
  \A n \in DOMAIN segments : \A k \in DOMAIN segments[n].data :
    LET a == Start(segments[n].start) + k - 1
    IN a \in Addr /\ ReadByte(segs, a) = segments[n].data[k]

\* scale_addresses moves segments apart: of a file without overlaps every
\* byte can be read where its segment went.  (The factor 0, which
\* unscale_addresses refuses and this call does not, moves all of them to the
\* first address, where the last hides the others.)
ScaleShowsAll ==
  [][ Answered("scale_addresses") /\ call'.by > 0 /\ Disjoint(segments) =>
        ShowsAll(segments', LAMBDA x : x * call'.by) ]_vars

=============================================================================
