----------------------------- MODULE RecordFile -----------------------------
(***************************************************************************)
(* What the readers and writers of hexy-core/src/io share: a HexFile, the  *)
(* lines of a text, and the place each of them has reached.                *)
(*                                                                         *)
(* A line is what it says, not its digits: a record with field mark, its   *)
(* first character, and                                                    *)
(*   mark ":"  type "data" (addr, data), "eof", "segment" or "linear"      *)
(*             (field, None when it has not two bytes), "start", "unknown",*)
(*             or "broken": too short, not hex digits, a wrong checksum or *)
(*             byte count;                                                 *)
(*   mark "S"  type "S1", "S2" or "S3" (count, addr, data), "other" (a     *)
(*             header, a count or a terminator), "unknown" or "broken";    *)
(*   mark "text", "hexlike" (hex digits only, as a record that lost its    *)
(*             colon), "blank", or "binary" (not text at all).             *)
(***************************************************************************)
EXTENDS SegmentList

CONSTANTS
  Bank,   \* 2^16: the addresses the two address bytes of a record reach
  Para    \* 16: one step of an Intel HEX extended segment address

VARIABLES
  phase,     \* the function that runs, "idle" between functions, "binary" after
             \* parse_binary, "read_error" or "write_error": the Err of a parser
             \* or writer, which drops what was parsed or written
  segments,  \* the HexFile written, or the one read
  text,      \* the lines written, or read
  pos,       \* reading: the lines taken
  parsed,    \* reading: `segments` or `hexfile` of the parser
  source,    \* writing: the normalized segments
  n,         \* writing: the segment that is written
  offset,    \* writing: the bytes of it that are written
  options    \* writing: bytes_per_line, and the mode or record type

fileVars == <<segments, text>>
readVars == <<pos, parsed>>
writeVars == <<source, n, offset, options>>

Line == text[pos + 1]

Reading(reader) == phase = reader /\ pos < Len(text)

Consume == pos' = pos + 1

-----------------------------------------------------------------------------

\* What is left of the line: lines are cut at multiples of perLine from the
\* start of the segment.
Remaining(perLine) == perLine - (offset % perLine)

Writing(writer) == phase = writer /\ n <= Len(source)

WriteAddr == source[n].start + offset

ChunkOf(len) == SubSeq(source[n].data, offset + 1, offset + len)

Written(len) ==
  IF offset + len < Len(source[n].data)
    THEN offset' = offset + len /\ n' = n
    ELSE offset' = 0 /\ n' = n + 1

Emit(lines) == text' = text \o lines

=============================================================================
