-------------------------------- MODULE SRec --------------------------------
(***************************************************************************)
(* parse_srec and write_srec of hexy-core/src/io/srec.rs, one action for   *)
(* each way a turn of their loops goes.                                    *)
(***************************************************************************)
EXTENDS RecordFile

CONSTANTS
  ByteRange,     \* 2^8: what the count of a record wraps at
  SRecTop,       \* max_address_for: the last address of "S1", "S2" and "S3"
  SRecPerLine    \* DEFAULT_SREC_BYTES_PER_LINE

SRecTypes == {"S1", "S2", "S3"}

AddrLen(type) == CASE type = "S1" -> 2 [] type = "S2" -> 3 [] type = "S3" -> 4

-----------------------------------------------------------------------------
(* parse_srec *)

IsDataRecord(line) == line.mark = "S" /\ line.type \in SRecTypes

\* record_bytes.len() != count + 1, for a line that holds what it says.
CountIsWrong(line) == line.count # AddrLen(line.type) + Len(line.data) + 1

SRecRejected(line) ==
  \/ line.mark # "S"
  \/ line.mark = "S" /\ line.type \in {"broken", "unknown"}
  \/ /\ IsDataRecord(line)
     /\ CountIsWrong(line) \/ line.addr + Len(line.data) - 1 > MaxAddr

StartReadSRec ==
  /\ phase' = "read_srec"
  /\ pos' = 0 /\ parsed' = <<>>
  /\ UNCHANGED <<fileVars, writeVars>>

SkipSRecLine ==
  /\ Reading("read_srec")
  /\ \/ Line.mark = "blank"
     \/ Line.mark = "S" /\ Line.type = "other"
  /\ Consume
  /\ UNCHANGED <<phase, parsed, fileVars, writeVars>>

RejectSRecLine ==
  /\ Reading("read_srec") /\ Line.mark # "blank" /\ SRecRejected(Line)
  /\ phase' = "read_error"
  /\ UNCHANGED <<fileVars, readVars, writeVars>>

\* append_segment, for a record with data.
TakeSRecord ==
  /\ Reading("read_srec") /\ Line.mark = "S"
  /\ ~SRecRejected(Line) /\ IsDataRecord(Line)
  /\ Consume
  /\ parsed' = parsed \o NonEmpty(<<[start |-> Line.addr, data |-> Line.data]>>)
  /\ UNCHANGED <<phase, fileVars, writeVars>>

\* No terminator is asked for.
EndOfSRec ==
  /\ phase = "read_srec" /\ pos = Len(text)
  /\ phase' = "idle" /\ segments' = parsed
  /\ UNCHANGED <<text, readVars, writeVars>>

SRecReaderNext ==
  SkipSRecLine \/ RejectSRecLine \/ TakeSRecord \/ EndOfSRec

-----------------------------------------------------------------------------
(* write_srec *)

\* max_address().unwrap_or(0)
LastAddress(list) ==
  IF list = <<>> THEN 0 ELSE EndAddress(list[Len(list)])

SmallestType(list) ==
  IF LastAddress(list) <= SRecTop["S1"] THEN "S1"
  ELSE IF LastAddress(list) <= SRecTop["S2"] THEN "S2" ELSE "S3"

RecordType(list, o) == IF o.type = None THEN SmallestType(list) ELSE o.type

TypeReaches(list, type) == LastAddress(list) <= SRecTop[type]

SRecPerLineOf(o) == IF o.perLine = 0 THEN SRecPerLine ELSE o.perLine

StartWriteSRec(list, o) ==
  /\ phase' = IF TypeReaches(list, RecordType(list, o)) THEN "write_srec" ELSE "write_error"
  /\ text' = <<>>
  /\ source' = list /\ n' = 1 /\ offset' = 0
  /\ options' = [o EXCEPT !.type = RecordType(list, o)]
  /\ pos' = 0 /\ parsed' = <<>>
  /\ UNCHANGED segments

\* The address bytes hold the low part of the address only.
AddressField(type) == WriteAddr % (SRecTop[type] + 1)

WriteSRecord ==
  /\ Writing("write_srec")
  /\ \E len \in {Min({Remaining(SRecPerLineOf(options)), Len(source[n].data) - offset})} :
       /\ Emit(<<[mark |-> "S", type |-> options.type, addr |-> AddressField(options.type),
                  count |-> (AddrLen(options.type) + len + 1) % ByteRange,
                  data |-> ChunkOf(len)]>>)
       /\ Written(len)
  /\ UNCHANGED <<phase, segments, readVars, source, options>>

WriteTerminator ==
  /\ phase = "write_srec" /\ n > Len(source)
  /\ Emit(<<[mark |-> "S", type |-> "other"]>>)
  /\ phase' = "idle"
  /\ UNCHANGED <<segments, readVars, writeVars>>

SRecWriterNext == WriteSRecord \/ WriteTerminator

\* A full line has a count that fits its byte.
LineFits(type, o) == AddrLen(type) + SRecPerLineOf(o) + 1 < ByteRange

=============================================================================
