--------------------------- MODULE IntelHexReader ---------------------------
(***************************************************************************)
(* parse_intel_hex_with_address_scale of hexy-core/src/io/intel_hex.rs: an *)
(* action for each way a turn of its loop over the lines goes.  The bytes  *)
(* of consecutive records gather in an open segment.                       *)
(***************************************************************************)
EXTENDS RecordFile

VARIABLES
  scale,       \* address_scale: 2 for 16-bit addressing, else 1
  current,     \* current_segment, or None
  extended,    \* extended_address
  eofSeen,     \* eof_seen
  recordSeen   \* record_seen

ihexVars == <<scale, current, extended, eofSeen, recordSeen>>

IntelReaderIdle ==
  /\ scale = 1
  /\ current = None
  /\ extended = 0
  /\ eofSeen = FALSE
  /\ recordSeen = FALSE

IsRecord(line, types) == line.mark = ":" /\ line.type \in types

FullAddress(line) == (extended + line.addr) * scale

Overflows(line) ==
  \/ FullAddress(line) > MaxAddr
  \/ FullAddress(line) + Len(line.data) - 1 > MaxAddr

\* Mutant of Rejected: lines after the end of the file are read on.
RejectedAnywhere(line) ==
  \/ line.mark # ":" /\ (recordSeen \/ line.mark = "hexlike")
  \/ IsRecord(line, {"broken", "unknown"})
  \/ IsRecord(line, {"segment", "linear"}) /\ line.field = None
  \/ IsRecord(line, {"data"}) /\ Overflows(line)

\* The error returns of one turn.
Rejected(line) ==
  \/ eofSeen
  \/ line.mark # ":" /\ (recordSeen \/ line.mark = "hexlike")
  \/ IsRecord(line, {"broken", "unknown"})
  \/ IsRecord(line, {"segment", "linear"}) /\ line.field = None
  \/ IsRecord(line, {"data"}) /\ Overflows(line)

Turn == Reading("read_ihex") /\ Line.mark # "blank"

StartReadIntel(factor) ==
  /\ pos' = 0 /\ parsed' = <<>>
  /\ scale' = factor
  /\ current' = None /\ extended' = 0
  /\ eofSeen' = FALSE /\ recordSeen' = FALSE
  /\ UNCHANGED <<fileVars, writeVars>>
  /\ phase' = IF \E k \in DOMAIN text : text[k].mark = "binary"
                THEN "read_error" ELSE "read_ihex"

SkipBlank ==
  /\ Reading("read_ihex") /\ Line.mark = "blank"
  /\ Consume
  /\ UNCHANGED <<phase, parsed, fileVars, writeVars, ihexVars>>

RejectLine ==
  /\ Turn /\ Rejected(Line)
  /\ phase' = "read_error"
  /\ UNCHANGED <<fileVars, readVars, writeVars, ihexVars>>

\* Text in front of the first record.
SkipText ==
  /\ Turn /\ ~Rejected(Line) /\ Line.mark # ":"
  /\ Consume
  /\ UNCHANGED <<phase, parsed, fileVars, writeVars, ihexVars>>

Take(types) ==
  /\ Turn /\ ~Rejected(Line) /\ IsRecord(Line, types)
  /\ Consume
  /\ recordSeen' = TRUE
  /\ UNCHANGED <<phase, scale, fileVars, writeVars>>

Continues(line) ==
  /\ current # None
  /\ EndAddress(current) < MaxAddr
  /\ FullAddress(line) = EndAddress(current) + 1

ExtendCurrent ==
  /\ Take({"data"}) /\ Continues(Line)
  /\ current' = [current EXCEPT !.data = @ \o Line.data]
  /\ UNCHANGED <<parsed, extended, eofSeen>>

PushCurrent == IF current = None THEN parsed ELSE Append(parsed, current)

OpenSegment ==
  /\ Take({"data"}) /\ ~Continues(Line)
  /\ current' = [start |-> FullAddress(Line), data |-> Line.data]
  /\ parsed' = PushCurrent
  /\ UNCHANGED <<extended, eofSeen>>

\* Mutant of BaseOf: both kinds of base count paragraphs.
BaseInParagraphs(line) == line.field * Para

BaseOf(line) == line.field * (IF line.type = "linear" THEN Bank ELSE Para)

SetExtended ==
  /\ Take({"segment", "linear"})
  /\ extended' = BaseOf(Line)
  /\ current' = None
  /\ parsed' = PushCurrent
  /\ UNCHANGED eofSeen

TakeEof ==
  /\ Take({"eof"})
  /\ eofSeen' = TRUE
  /\ UNCHANGED <<parsed, current, extended>>

SkipStartAddress ==
  /\ Take({"start"})
  /\ UNCHANGED <<parsed, current, extended, eofSeen>>

EndOfText ==
  /\ phase = "read_ihex" /\ pos = Len(text)
  /\ IF eofSeen
       THEN phase' = "idle" /\ segments' = NonEmpty(PushCurrent)
       ELSE phase' = "read_error" /\ UNCHANGED segments
  /\ UNCHANGED <<text, readVars, writeVars, ihexVars>>

IntelReaderNext ==
  \/ SkipBlank \/ RejectLine \/ SkipText
  \/ ExtendCurrent \/ OpenSegment \/ SetExtended
  \/ TakeEof \/ SkipStartAddress \/ EndOfText

-----------------------------------------------------------------------------
(* What a text of records says, without an open segment. *)

BaseAt(k) ==
  LET set == { e \in 1..(k - 1) : IsRecord(text[e], {"segment", "linear"}) }
        base == text[Max(set)]
  IN IF set = {} THEN 0
     ELSE base.field * (IF base.type = "segment" THEN Para ELSE Bank)

RecordAt(k) ==
  [start |-> (BaseAt(k) + text[k].addr) * scale, data |-> text[k].data]

DataLines(upto) == { k \in 1..upto : IsRecord(text[k], {"data"}) }

\* The byte at a after the first lines: the last record that covers a wins.
SaidAt(upto, a) ==
  LET covering == { k \in DataLines(upto) : Covers(RecordAt(k), a) }
  IN IF covering = {} THEN None ELSE ByteAt(RecordAt(Max(covering)), a)

\* A record of no bytes opens a segment whose end_address is its start, so
\* that a record one address further on is joined one address too low.
NoEmptyRecord == \A k \in DataLines(pos) : text[k].data # <<>>

\* INVARIANT.  At every line the segments gathered so far, the open one last,
\* read as the records so far do, each placed by the extended address record
\* before it, the last one winning (intel_hex.rs:112-172).
ReadsAsRecords ==
  phase = "read_ihex" /\ NoEmptyRecord =>
    \A a \in Addr : ReadByte(PushCurrent, a) = SaidAt(pos, a)

=============================================================================
