----------------------------- MODULE Conversion -----------------------------
(***************************************************************************)
(* A file converted from one format to another: parse_auto of              *)
(* hexy-core/src/io/file.rs picks the reader by the text, the caller picks *)
(* a writer and its options, and the text written is read in turn.         *)
(***************************************************************************)
EXTENDS IntelHexReader, IntelHexWriter, SRec

CONSTANTS
  Texts,         \* texts that another program made
  Files,         \* files that a caller made
  IntelOptions,  \* options of write_intel_hex
  SRecOptions,   \* options of write_srec
  DetectLines,   \* 25: the lines detect_format looks at
  NoFile         \* nothing has been written yet

ASSUME FormatAssumption ==
  /\ Bank \in Nat \ {0} /\ Para \in Nat \ {0}
  /\ MaxAddr = Bank * Bank - 1 /\ Bank % Para = 0
  /\ SRecTop \in [SRecTypes -> Addr]
  /\ SRecTop["S1"] = Bank - 1 /\ SRecTop["S3"] = MaxAddr
  /\ DetectLines \in Nat \ {0}

\* What a count byte can say, and bytes_per_line: u8.
ASSUME CountAssumption ==
  /\ ByteRange \in 2..MaxAddr
  /\ IntelPerLine \in 1..(ByteRange - 1) /\ SRecPerLine \in 1..(ByteRange - 1)
  /\ IntelOptions \subseteq
       [perLine : 0..(ByteRange - 1), mode : {"auto", "segment", "linear"}]
  /\ SRecOptions \subseteq
       [perLine : 0..(ByteRange - 1), type : SRecTypes \union {None}]

RecordData == { d \in Seq(Byte) : Len(d) < ByteRange }

\* The lines a text can have.
TextLine ==
  [mark : {":"}, type : {"data"}, addr : Nat, data : RecordData]
  \union [mark : {":"}, type : {"segment", "linear"}, field : Nat \union {None}]
  \union [mark : {":"}, type : {"eof", "start", "unknown", "broken"}]
  \union [mark : {"S"}, type : SRecTypes, count : Nat, addr : Addr, data : RecordData]
  \union [mark : {"S"}, type : {"other", "unknown", "broken"}]
  \union [mark : {"text", "hexlike", "blank", "binary"}]

ASSUME InputAssumption == Texts \subseteq Seq(TextLine) /\ Files \subseteq Seq(StoredSegment)

\* What stands for no value is none.
ASSUME NoneAssumption ==
  /\ None \notin Nat /\ None \notin {"auto", "segment", "linear"} /\ None \notin SRecTypes
  /\ None \notin [start : Addr, data : Seq(Byte)]
  /\ NoFile \notin [format : {"ihex", "srec"}, list : ListType,
                    options : IntelOptions \union SRecOptions]

VARIABLE
  written   \* history: the format, options and normalized file of the text

vars == <<phase, segments, text, pos, parsed, source, n, offset, options,
          scale, current, extended, eofSeen, recordSeen,
          writtenExtended, writtenMode, written>>

Init ==
  /\ phase = "idle"
  /\ \/ segments \in Files /\ text = <<>>
     \/ segments = <<>> /\ text \in Texts
  /\ pos = 0 /\ parsed = <<>>
  /\ source = <<>> /\ n = 1 /\ offset = 0 /\ options = None
  /\ IntelReaderIdle /\ IntelWriterIdle
  /\ written = NoFile

\* detect_format: among the first lines that are not blank, the first with a
\* colon decides, an S only in the very first, and a line that is not ASCII
\* ends the search.
DetectFormat(lines) ==
  LET shown == Keep(lines, {l \in ToSet(lines) : l.mark # "blank"})
      looked == 1..Min({Len(shown), DetectLines})
      first == { k \in looked : \/ shown[k].mark \in {"binary", ":"}
                                \/ shown[k].mark = "S" /\ k = 1 }
  IN IF first = {} THEN "binary" ELSE shown[Min(first)].mark

\* parse_binary makes one segment of the bytes of the text itself.
ParseAuto ==
  /\ phase = "idle" /\ text # <<>> /\ parsed = <<>> /\ pos = 0
  /\ UNCHANGED written
  /\ \/ /\ DetectFormat(text) = ":"
        /\ StartReadIntel(1)
        /\ UNCHANGED emittedVars
     \/ /\ DetectFormat(text) = "S"
        /\ StartReadSRec
        /\ UNCHANGED <<ihexVars, emittedVars>>
     \/ /\ DetectFormat(text) = "binary"
        /\ phase' = "binary"
        /\ UNCHANGED <<fileVars, readVars, writeVars, ihexVars, emittedVars>>

\* parse_intel_hex_16bit, which the caller asks for by name.
Parse16Bit ==
  /\ phase = "idle" /\ written = NoFile /\ text # <<>> /\ pos = 0
  /\ StartReadIntel(2)
  /\ UNCHANGED <<emittedVars, written>>

\* The caller writes the file it made or read; once, which bounds the model.
Writable == phase = "idle" /\ written = NoFile /\ pos = Len(text)

WriteIntel ==
  /\ Writable
  /\ \E o \in IntelOptions, list \in {Normalized(segments)} :
       /\ StartWriteIntel(list, o)
       /\ written' = [format |-> "ihex", options |-> o, list |-> list]
  /\ UNCHANGED ihexVars

WriteSRec ==
  /\ Writable
  /\ \E o \in SRecOptions, list \in {Normalized(segments)} :
       /\ StartWriteSRec(list, o)
       /\ written' = [format |-> "srec", options |-> o, list |-> list]
  /\ UNCHANGED <<ihexVars, emittedVars>>

Next ==
  \/ ParseAuto \/ Parse16Bit \/ WriteIntel \/ WriteSRec
  \/ IntelReaderNext /\ UNCHANGED <<emittedVars, written>>
  \/ SRecReaderNext /\ UNCHANGED <<ihexVars, emittedVars, written>>
  \/ IntelWriterNext /\ UNCHANGED <<ihexVars, written>>
  \/ SRecWriterNext /\ UNCHANGED <<ihexVars, emittedVars, written>>

Spec == Init /\ [][Next]_vars

-----------------------------------------------------------------------------

\* An Intel HEX text: text in front, good records, one end, nothing after it.
WholeIntelHex ==
  \E e \in DOMAIN text :
    /\ IsRecord(text[e], {"eof"})
    /\ \A k \in DOMAIN text \ {e} :
         \/ text[k].mark = "blank"
         \/ /\ k < e
            /\ \/ IsRecord(text[k], {"start"})
               \/ IsRecord(text[k], {"segment", "linear"}) /\ text[k].field # None
               \/ /\ k \in DataLines(Len(text))
                  /\ RecordAt(k).start \in Addr
                  /\ FitsAt(RecordAt(k).start, Len(text[k].data))
               \/ /\ text[k].mark \in {"text", "S"}
                  /\ \A m \in 1..k : text[m].mark # ":"

WholeSRec ==
  \A k \in DOMAIN text :
    \/ text[k].mark = "blank"
    \/ /\ text[k].mark = "S"
       /\ text[k].type \notin {"broken", "unknown"}
       /\ IsDataRecord(text[k]) =>
            /\ ~CountIsWrong(text[k])
            /\ FitsAt(text[k].addr, Len(text[k].data))

Foreign == written = NoFile /\ text # <<>>

IsIntelHex == scale = 2 \/ DetectFormat(text) = ":"

\* INVARIANT.  A text from elsewhere is read if and only if it is whole: no
\* broken or unknown record anywhere, every byte inside the address space and,
\* in Intel HEX, one end record with nothing after it (intel_hex.rs:51-185,
\* srec.rs:38-136).
AcceptsWholeFiles ==
  (Foreign /\ (phase = "read_error" \/ (phase = "idle" /\ pos = Len(text)))) =>
    ((phase = "idle") <=> IF IsIntelHex THEN WholeIntelHex ELSE WholeSRec)

\* The format and its options have a record for every address of the file.
Encodable ==
  LET top == IF written.list = <<>> THEN 0
             ELSE EndAddress(Last(written.list))
  IN IF written.format = "ihex"
       THEN written.options.mode = "segment" => top <= SegmentTop
       ELSE written.options.type = None \/ top <= SRecTop[written.options.type]

CountsFit ==
  written.format = "srec" =>
    \A type \in SRecTypes : LineFits(type, written.options)

ReadBack == phase = "idle" /\ pos > 0

KeptByRoundTrip ==
  IF Encodable
    THEN /\ phase \notin {"write_error", "read_error", "binary"}
         /\ ReadBack => Normalized(segments) = written.list
    ELSE phase \notin {"idle", "read_ihex", "read_srec", "binary"}

\* INVARIANT.  A file that a writer takes reads back, by the format detected, as
\* the normalized file that was written; a writer refuses a file exactly when
\* the mode or type asked for does not reach its addresses (file.rs:28-63,
\* intel_hex.rs:243-322, srec.rs:148-205).
ImageKept == written # NoFile /\ CountsFit => KeptByRoundTrip

\* INVARIANT.  The same of every number of bytes per line, as the round trips of
\* the tests have it, srec.rs:300: "assert_eq!(parsed.normalized(),
\* hexfile.normalized())".
ImageKeptForAllLines == written # NoFile => KeptByRoundTrip

=============================================================================
