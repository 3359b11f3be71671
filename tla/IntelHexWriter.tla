--------------------------- MODULE IntelHexWriter ---------------------------
(***************************************************************************)
(* write_intel_hex of hexy-core/src/io/intel_hex.rs: one action writes a   *)
(* line, with the extended address record it needs.  IntelHexMode is       *)
(* "auto", "segment" or "linear".                                          *)
(***************************************************************************)
EXTENDS RecordFile

CONSTANT IntelPerLine   \* 16: what bytes_per_line = 0 stands for

VARIABLES
  writtenExtended,  \* current_extended
  writtenMode       \* current_mode

emittedVars == <<writtenExtended, writtenMode>>

\* 0xFFFFF: the last address an extended segment address reaches.
SegmentTop == Bank * Para - 1

IntelWriterIdle == writtenExtended = None /\ writtenMode = None

AutoMode == options.mode = "auto"

ForceLinear ==
  AutoMode /\ \E k \in DOMAIN source : EndAddress(source[k]) > SegmentTop

LineMode ==
  IF ~AutoMode THEN options.mode
  ELSE IF ForceLinear \/ WriteAddr > SegmentTop THEN "linear" ELSE "segment"

Unreachable == LineMode = "segment" /\ WriteAddr > SegmentTop

\* The 16 bits of the extended address record for WriteAddr.
NeededField ==
  IF LineMode = "linear" THEN WriteAddr \div Bank
  ELSE (WriteAddr \div Bank) * (Bank \div Para)

\* An automatic file starts without a record as long as its addresses need none.
ImpliedBase ==
  /\ AutoMode
  /\ writtenMode = None /\ writtenExtended = None
  /\ IF LineMode = "segment" THEN WriteAddr < Bank ELSE NeededField = 0

\* Mutant of ShouldEmit: only a new mode needs a record.
EmitForMode == writtenMode # LineMode /\ ~ImpliedBase

ShouldEmit ==
  /\ writtenExtended # NeededField \/ writtenMode # LineMode
  /\ ~ImpliedBase

IntelPerLineOf(o) == IF o.perLine = 0 THEN IntelPerLine ELSE o.perLine

\* Mutant of IntelChunkLen: a line may run on into the next bank.
ChunkOverBank ==
  Min({ Remaining(IntelPerLineOf(options)), Len(source[n].data) - offset })

IntelChunkLen ==
  Min({ Remaining(IntelPerLineOf(options)), Bank - (WriteAddr % Bank),
          Len(source[n].data) - offset })

StartWriteIntel(list, o) ==
  /\ phase' = "write_ihex"
  /\ text' = <<>>
  /\ source' = list /\ n' = 1 /\ offset' = 0 /\ options' = o
  /\ writtenExtended' = None
  /\ writtenMode' = IF o.mode = "auto" THEN None ELSE o.mode
  /\ pos' = 0 /\ parsed' = <<>>
  /\ UNCHANGED segments

ExtendedLine == [mark |-> ":", type |-> LineMode, field |-> NeededField]

DataLine(len) ==
  [mark |-> ":", type |-> "data", addr |-> WriteAddr % Bank, data |-> ChunkOf(len)]

Unchanged == UNCHANGED <<segments, readVars, source, options>>

WriteLine ==
  /\ Writing("write_ihex") /\ ~Unreachable /\ ~ShouldEmit
  /\ \E len \in {IntelChunkLen} : Emit(<<DataLine(len)>>) /\ Written(len)
  /\ UNCHANGED <<phase, emittedVars>> /\ Unchanged

WriteExtendedAndLine ==
  /\ Writing("write_ihex") /\ ~Unreachable /\ ShouldEmit
  /\ \E len \in {IntelChunkLen} :
       Emit(<<ExtendedLine, DataLine(len)>>) /\ Written(len)
  /\ writtenExtended' = NeededField /\ writtenMode' = LineMode
  /\ UNCHANGED phase /\ Unchanged

RefuseAddress ==
  /\ Writing("write_ihex") /\ Unreachable
  /\ phase' = "write_error"
  /\ UNCHANGED <<text, n, offset, emittedVars>> /\ Unchanged

WriteEof ==
  /\ phase = "write_ihex" /\ n > Len(source)
  /\ Emit(<<[mark |-> ":", type |-> "eof"]>>)
  /\ phase' = "idle"
  /\ UNCHANGED <<n, offset, emittedVars>> /\ Unchanged

IntelWriterNext ==
  WriteLine \/ WriteExtendedAndLine \/ RefuseAddress \/ WriteEof

-----------------------------------------------------------------------------

IsData(line) == line.mark = ":" /\ line.type = "data"

\* INVARIANT.  A data record stays inside the bank its address is in, is no
\* longer than bytes_per_line asks for, and holds a byte: a reader that wraps
\* at the bank reads the same (intel_hex.rs:304-317).
RecordsInBank ==
  phase = "write_ihex" =>
    \A k \in DOMAIN text : IsData(text[k]) =>
      /\ Len(text[k].data) \in 1..IntelPerLineOf(options)
      /\ text[k].addr + Len(text[k].data) <= Bank

=============================================================================
