----------------------------- MODULE Operations -----------------------------
(***************************************************************************)
(* The operations that both front ends, the command line and the Pipeline  *)
(* of the Python bindings, string together: each turns a list of raw       *)
(* segments into another or fails.  An operation is a record [op |-> ...]  *)
(* with its arguments; a sequence of them ends at the first that fails.    *)
(***************************************************************************)
EXTENDS TransformOps, ChecksumOps

CONSTANTS
  Failed,         \* what an operation that returns an error yields
  MapStar(_, _)   \* what map_star12, map_star12x and map_star08 make of a
                  \* list, or Failed: BankMap has them in detail

Attempt(cond, new) == IF cond THEN new ELSE Failed

\* remap_segment (RemapLoop has it turn by turn): the parts of a segment, cut
\* at the borders of the banks and each at its mapped start.
RemapParts(s, o) ==
  LET offset(a) == (a - o.start) % o.inc
      Inside(a) == o.start <= a /\ a <= o.end
      InBank(a) == Inside(a) /\ offset(a) < o.size
      upTo(a) == CASE a < o.start -> o.start - 1
                   [] a > o.end -> MaxAddr
                   [] InBank(a) -> Min({a + ((o.size - offset(a)) - 1), o.end})
                   [] OTHER -> Min({a + ((o.inc - offset(a)) - 1), o.end})
      end(a) == Min({upTo(a), EndAddress(s)})
      mapped(a) == IF InBank(a)
                     THEN o.linear + ((a - o.start) \div o.inc) * o.size + offset(a)
                     ELSE a
      from[a \in s.start..(EndAddress(s) + 1)] ==
        IF a > EndAddress(s) THEN <<>>
        ELSE <<[Clip(s, a, end(a)) EXCEPT !.start = mapped(a)]>> \o from[end(a) + 1]
  IN from[s.start]

Remap(segs, o) ==
  LET parts == FlattenSeq([n \in DOMAIN segs |-> RemapParts(segs[n], o)])
  IN Attempt(\A n \in DOMAIN parts :
               parts[n].start <= MaxAddr /\ FitsAt(parts[n].start, Len(parts[n].data)),
             parts)

\* The dsPIC copies are written with write_bytes.
WriteCopied(segs, copy) == Attempt(CanWrite(copy), AppendSegment(segs, copy))

Merge(segs, o) ==
  LET source == MergeSource(o.other, o.ranges)
  IN Attempt(o.offset = 0 \/ CanOffset(source, o.offset),
             MergeSegments(segs, OffsetAddresses(source, o.offset), o.mode))

Apply(segs, o) ==
  CASE o.op \in {"map_star12", "map_star12x", "map_star08"} -> MapStar(o.op, segs)
    [] o.op = "remap" ->
         IF o.options.size = 0 \/ o.options.inc = 0 \/ o.options.start > o.options.end
           THEN Failed ELSE Remap(segs, o.options)
    [] o.op = "dspic_expand" -> WriteCopied(segs, ExpandCopy(segs, o.range, o.target))
    [] o.op = "dspic_shrink" -> WriteCopied(segs, ShrinkCopy(segs, o.range, o.target))
    [] o.op = "dspic_clear_ghost" -> WriteCopied(segs, GhostCopy(segs, o.range))
    [] o.op = "fill" -> Attempt(CanFill(o.ranges, o.pattern),
                                FillRanges(segs, o.ranges, o.pattern, o.overwrite))
    [] o.op = "cut" -> CutRanges(segs, o.ranges)
    [] o.op = "merge" -> Merge(segs, o)
    [] o.op = "filter" -> FilterRanges(segs, o.ranges)
    [] o.op = "fill_gaps" -> Attempt(CanFillGaps(segs, o.limit), FillGaps(segs, o.byte))
    [] o.op = "align" -> Attempt(o.alignment # 0, Align(segs, o.alignment, o.byte, o.length))
    [] o.op = "split" -> Split(segs, o.size)
    [] o.op = "swap_word" -> SwapWord(segs)
    [] o.op = "swap_dword" -> Attempt(CanSwapLong(segs), SwapLong(segs))

\* ops is a list of operations; what the first does is the next one's file.
InTurn(Do(_, _), segs, ops) ==
  FoldLeft(LAMBDA acc, o : IF acc = Failed THEN Failed ELSE Do(acc, o), segs, ops)

ApplyAll(segs, ops) == InTurn(Apply, segs, ops)

=============================================================================
