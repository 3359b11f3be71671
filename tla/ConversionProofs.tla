-------------------------- MODULE ConversionProofs --------------------------
(***************************************************************************)
(* Theorems about the readers and writers of hexy-core/src/io, for every   *)
(* size of banks and lines and every text and file: what a text of records *)
(* says, what the readers make of it line by line, and what the writers    *)
(* leave in it.                                                            *)
(***************************************************************************)
EXTENDS Conversion, ListLemmas, TLAPS

-----------------------------------------------------------------------------
(* What a text says *)

\* The records at the indices in lines put byte b at a: the last one there wins.
Said(lines, record, a, b) ==
  \E k \in lines :
    /\ Has(record[k], a, b)
    /\ \A j \in lines : j > k => ~Covers(record[j], a)

ExtendedIn(t, k) == { e \in 1..k : IsRecord(t[e], {"segment", "linear"}) }

\* The base of an address in line k + 1.
BaseAfter(t, k) ==
  LET base == t[Max(ExtendedIn(t, k))]
  IN IF ExtendedIn(t, k) = {} THEN 0
     ELSE base.field * (IF base.type = "segment" THEN Para ELSE Bank)

IntelLines(t, k) == { e \in 1..k : IsRecord(t[e], {"data"}) }

IntelRecord(t, factor, k) ==
  [start |-> (BaseAfter(t, k - 1) + t[k].addr) * factor, data |-> t[k].data]

IntelRecords(t, factor, k) ==
  [e \in IntelLines(t, k) |-> IntelRecord(t, factor, e)]

IntelSays(t, factor, k, a, b) ==
  Said(IntelLines(t, k), IntelRecords(t, factor, k), a, b)

SRecLines(t, k) == { e \in 1..k : IsDataRecord(t[e]) }

SRecRecord(t, k) == [start |-> t[k].addr, data |-> t[k].data]

SRecSays(t, k, a, b) ==
  Said(SRecLines(t, k), [e \in SRecLines(t, k) |-> SRecRecord(t, e)], a, b)

\* What PushCurrent and parse_srec gather.
ReadsAs(list, a, b) == LastWins(list, Len(list), a, b)

-----------------------------------------------------------------------------
(* The lines that a reader does not reject *)

\* A segment that may be empty, inside the address space.
Loose(s) ==
  /\ s \in SegRecord
  /\ Len(s.data) > 0 => s.start + Len(s.data) - 1 <= MaxAddr

NoneBefore(t, k, types) == \A m \in 1..k : ~IsRecord(t[m], types)

IntelGood(t, factor, k) ==
  \/ t[k].mark = "blank"
  \/ /\ NoneBefore(t, k - 1, {"eof"})
     /\ \/ IsRecord(t[k], {"eof", "start"})
        \/ IsRecord(t[k], {"segment", "linear"}) /\ t[k].field # None
        \/ IsRecord(t[k], {"data"}) /\ Loose(IntelRecord(t, factor, k))
        \/ t[k].mark \in {"text", "S"} /\ \A m \in 1..k : t[m].mark # ":"

SRecGood(t, k) == t[k].mark = "blank" \/ ~SRecRejected(t[k])

IntelWhole(t, factor) ==
  /\ \A k \in 1..Len(t) : IntelGood(t, factor, k)
  /\ \E k \in 1..Len(t) : IsRecord(t[k], {"eof"})

SRecWhole(t) == \A k \in 1..Len(t) : SRecGood(t, k)

-----------------------------------------------------------------------------
(* The invariant *)

Phases ==
  {"idle", "binary", "read_ihex", "read_srec", "write_ihex", "write_srec",
   "read_error", "write_error"}

TypeOK ==
  /\ phase \in Phases
  /\ segments \in ListType /\ AllInSpace(segments)
  /\ text \in Seq(TextLine)
  /\ pos \in 0..Len(text)
  /\ scale \in {1, 2}

\* What a reader of Intel HEX knows after k lines.
IntelKnows(t, factor, k, base, eof, seen) ==
  /\ base = BaseAfter(t, k) /\ base \in Nat
  /\ eof <=> ~NoneBefore(t, k, {"eof"})
  /\ seen <=> \E m \in 1..k : t[m].mark = ":"
  /\ \A m \in 1..k : IntelGood(t, factor, m)

\* PushCurrent
Gathered(done, open) == IF open = None THEN done ELSE Append(done, open)

\* What it has gathered: what the lines say, as long as no record is empty.
IntelGathers(t, factor, k, done, open) ==
  /\ done \in Seq(SegRecord) /\ \A m \in 1..Len(done) : Loose(done[m])
  /\ open = None \/ Loose(open)
  /\ (\A e \in IntelLines(t, k) : t[e].data # <<>>) =>
       /\ AllInSpace(Gathered(done, open))
       /\ \A a \in Addr, b \in Byte :
            ReadsAs(Gathered(done, open), a, b) <=> IntelSays(t, factor, k, a, b)

\* parse_intel_hex before a line.
ReadingIntel ==
  /\ IntelKnows(text, scale, pos, extended, eofSeen, recordSeen)
  /\ IntelGathers(text, scale, pos, parsed, current)
  /\ \A m \in 1..Len(text) : text[m].mark # "binary"

ReadingSRec ==
  /\ text # <<>>
  /\ parsed \in ListType /\ AllInSpace(parsed)
  /\ \A m \in 1..pos : SRecGood(text, m)
  /\ \A a \in Addr, b \in Byte : ReadsAs(parsed, a, b) <=> SRecSays(text, pos, a, b)

\* The format that a text from elsewhere is read in, once it is.
ForeignRead ==
  Foreign =>
    /\ phase = "idle" /\ pos = 0 => scale = 1
    /\ phase = "idle" /\ pos > 0 =>
         IF IsIntelHex THEN IntelWhole(text, scale) ELSE SRecWhole(text)
    /\ phase = "read_error" =>
         ~(IF IsIntelHex THEN IntelWhole(text, scale) ELSE SRecWhole(text))
    /\ phase = "read_ihex" => IsIntelHex
    /\ phase = "read_srec" => ~IsIntelHex

ReadInv ==
  /\ phase = "read_ihex" => ReadingIntel
  /\ phase = "read_srec" => ReadingSRec
  /\ ForeignRead

-----------------------------------------------------------------------------

\* A writer at byte off of segment k has passed what lies below.
Passed(list, k, off, a) == k > Len(list) \/ a < list[k].start + off

WriterPlace ==
  /\ source = written.list
  /\ n \in 1..(Len(source) + 1)
  /\ offset \in Nat
  /\ n <= Len(source) => offset < Len(source[n].data)
  /\ pos = 0 /\ parsed = <<>>

\* A line of write_intel_hex, but for the last.
IntelLine(l, o) ==
  \/ IsRecord(l, {"segment", "linear"}) /\ l.field \in Nat
  \/ /\ IsRecord(l, {"data"})
     /\ Len(l.data) \in 1..IntelPerLineOf(o) /\ l.addr + Len(l.data) <= Bank

\* The text says the bytes of the list in the addresses of which Below is true.
LinesInSpace(t) ==
  \A k \in IntelLines(t, Len(t)) : InSpace(IntelRecord(t, 1, k))

WritingIntel ==
  /\ written.format = "ihex" /\ options = written.options
  /\ options \in IntelOptions
  /\ WriterPlace
  /\ \A k \in 1..Len(text) : IntelLine(text[k], options)
  /\ LinesInSpace(text)
  /\ \A a \in Addr, b \in Byte :
       IntelSays(text, 1, Len(text), a, b) <=> Holds(source, a, b) /\ Passed(source, n, offset, a)
  /\ writtenExtended = None \/ writtenExtended \in Nat
  /\ writtenExtended # None => writtenMode \in {"segment", "linear"}
  /\ BaseAfter(text, Len(text)) =
       IF writtenExtended = None THEN 0
       ELSE writtenExtended * (IF writtenMode = "segment" THEN Para ELSE Bank)
  /\ options.mode = "segment" /\ n > Len(source) /\ source # <<>> =>
       EndAddress(source[Len(source)]) <= SegmentTop

SRecLine(l, o) ==
  /\ l.mark = "S" /\ l.type \in SRecTypes
  /\ Len(l.data) \in 1..SRecPerLineOf(o)
  /\ l.count = (AddrLen(l.type) + Len(l.data) + 1) % ByteRange
  /\ l.addr + Len(l.data) - 1 <= MaxAddr

WritingSRec ==
  /\ written.format = "srec" /\ written.options \in SRecOptions
  /\ options = [written.options EXCEPT !.type = RecordType(written.list, written.options)]
  /\ WriterPlace
  /\ TypeReaches(source, options.type)
  /\ \A k \in 1..Len(text) : SRecLine(text[k], options)
  /\ \A a \in Addr, b \in Byte :
       SRecSays(text, Len(text), a, b) <=> Holds(source, a, b) /\ Passed(source, n, offset, a)

\* What the writers leave.
IntelWritten ==
  /\ written.format = "ihex" /\ written.options \in IntelOptions
  /\ Len(text) > 0 /\ IsRecord(text[Len(text)], {"eof"})
  /\ \A k \in 1..(Len(text) - 1) : IntelLine(text[k], written.options)
  /\ LinesInSpace(text)
  /\ \A a \in Addr, b \in Byte :
       IntelSays(text, 1, Len(text), a, b) <=> Holds(written.list, a, b)

SRecWritten ==
  /\ written.format = "srec" /\ written.options \in SRecOptions
  /\ Len(text) > 0 /\ text[Len(text)] = [mark |-> "S", type |-> "other"]
  /\ \A k \in 1..(Len(text) - 1) : SRecLine(text[k], written.options)
  /\ \A a \in Addr, b \in Byte :
       SRecSays(text, Len(text), a, b) <=> Holds(written.list, a, b)

\* Where a text that was written is read.
Rereading ==
  /\ Encodable
  /\ IntelWritten \/ SRecWritten
  /\ phase = "read_ihex" => IntelWritten /\ scale = 1
  /\ phase = "read_srec" => SRecWritten
  /\ CountsFit =>
       /\ phase \in {"idle", "read_ihex", "read_srec"}
       /\ ReadBack => Normalized(segments) = written.list

WrittenInv ==
  written # NoFile =>
    /\ written.list \in ListType /\ AllInSpace(written.list) /\ Separated(written.list)
    /\ phase = "write_ihex" => WritingIntel
    /\ phase = "write_srec" => WritingSRec /\ Encodable
    /\ phase = "write_error" => ~Encodable
    /\ phase \in {"idle", "binary", "read_ihex", "read_srec", "read_error"} => Rereading

\* Writers have written their file.
WriterInv ==
  phase \in {"write_ihex", "write_srec", "write_error"} => written # NoFile

IInv == TypeOK /\ ReadInv /\ WrittenInv /\ WriterInv

-----------------------------------------------------------------------------
(* What a text says, line by line *)

\* One more record, behind the others, hides what it covers.
LEMMA SaidStep ==
  ASSUME NEW D, D \subseteq Int, NEW m \in Int, \A k \in D : k < m,
         NEW r, NEW s, \A k \in D : s[k] = r[k], NEW a, NEW b
  PROVE  Said(D \union {m}, s, a, b)
           <=> \/ Has(s[m], a, b)
               \/ ~Covers(s[m], a) /\ Said(D, r, a, b)
<1> DEFINE E == D \union {m}
<1>1. /\ m \in E /\ \A k \in D : k \in E /\ m > k /\ ~(k > m)
      /\ \A k \in E : k \in D \/ k = m
  OBVIOUS
<1>2. ASSUME Said(E, s, a, b)
      PROVE  Has(s[m], a, b) \/ (~Covers(s[m], a) /\ Said(D, r, a, b))
  <2>1. PICK k \in E : Has(s[k], a, b) /\ \A j \in E : j > k => ~Covers(s[j], a)
    BY <1>2 DEF Said
  <2>2. CASE k = m
    BY <2>1, <2>2
  <2>3. CASE k \in D
    <3>1. Has(r[k], a, b) /\ \A j \in D : j > k => ~Covers(r[j], a)
      BY <1>1, <2>1, <2>3
    <3>2. QED
      BY <1>1, <2>1, <2>3, <3>1 DEF Said
  <2>4. QED
    BY <1>1, <2>2, <2>3
<1>3. ASSUME Has(s[m], a, b)
      PROVE  Said(E, s, a, b)
  <2>1. \A j \in E : ~(j > m)
    BY <1>1
  <2>2. QED
    BY <1>1, <1>3, <2>1 DEF Said
<1>4. ASSUME ~Covers(s[m], a), Said(D, r, a, b)
      PROVE  Said(E, s, a, b)
  <2>1. PICK k \in D : Has(r[k], a, b) /\ \A j \in D : j > k => ~Covers(r[j], a)
    BY <1>4 DEF Said
  <2>2. Has(s[k], a, b) /\ \A j \in E : j > k => ~Covers(s[j], a)
    BY <1>1, <1>4, <2>1
  <2>3. QED
    BY <1>1, <2>2 DEF Said
<1>5. QED
  BY <1>2, <1>3, <1>4

LEMMA SaidSame ==
  ASSUME NEW D, NEW r, NEW s, \A k \in D : s[k] = r[k], NEW a, NEW b
  PROVE  Said(D, s, a, b) <=> Said(D, r, a, b)
  BY DEF Said

\* An extended address record sets the base of the lines behind it.
LEMMA BaseStep ==
  ASSUME NEW t, NEW k \in Nat
  PROVE  BaseAfter(t, k + 1) =
           IF IsRecord(t[k + 1], {"segment", "linear"})
             THEN t[k + 1].field * (IF t[k + 1].type = "segment" THEN Para ELSE Bank)
             ELSE BaseAfter(t, k)
<1>1. CASE ~IsRecord(t[k + 1], {"segment", "linear"})
  <2>1. ExtendedIn(t, k + 1) = ExtendedIn(t, k)
    BY <1>1 DEF ExtendedIn
  <2>2. QED
    BY <1>1, <2>1 DEF BaseAfter
<1>2. CASE IsRecord(t[k + 1], {"segment", "linear"})
  <2> DEFINE S == ExtendedIn(t, k + 1)
  <2>1. S \subseteq Int /\ k + 1 \in S /\ \A e \in S : e <= k + 1
    BY <1>2 DEF ExtendedIn
  <2>2. Max(S) \in S /\ \A e \in S : e <= Max(S)
    BY <2>1, MaxOf
  <2>3. Max(S) = k + 1 /\ S # {}
    BY <2>1, <2>2
  <2>4. QED
    BY <1>2, <2>3 DEF BaseAfter
<1>3. QED
  BY <1>1, <1>2

LEMMA BaseFirst ==
  ASSUME NEW t
  PROVE  BaseAfter(t, 0) = 0
  BY DEF BaseAfter, ExtendedIn

\* Lines behind do not matter.
LEMMA BaseSame ==
  ASSUME NEW t, NEW u, NEW k \in Nat, \A e \in 1..k : u[e] = t[e]
  PROVE  BaseAfter(u, k) = BaseAfter(t, k)
<1>1. ExtendedIn(u, k) = ExtendedIn(t, k)
  BY DEF ExtendedIn
<1>2. CASE ExtendedIn(t, k) = {}
  BY <1>1, <1>2 DEF BaseAfter
<1>3. CASE ExtendedIn(t, k) # {}
  <2>1. Max(ExtendedIn(t, k)) \in ExtendedIn(t, k)
    <3>1. ExtendedIn(t, k) \subseteq Int /\ \A e \in ExtendedIn(t, k) : e <= k
      BY DEF ExtendedIn
    <3>2. QED
      BY <1>3, <3>1, MaxOf
  <2>2. u[Max(ExtendedIn(t, k))] = t[Max(ExtendedIn(t, k))]
    BY <2>1 DEF ExtendedIn
  <2>3. QED
    BY <1>1, <1>3, <2>2 DEF BaseAfter
<1>4. QED
  BY <1>2, <1>3

LEMMA IntelSaysStep ==
  ASSUME NEW t, NEW factor, NEW k \in Nat, NEW a, NEW b
  PROVE  IntelSays(t, factor, k + 1, a, b)
           <=> IF IsRecord(t[k + 1], {"data"})
                 THEN \/ Has(IntelRecord(t, factor, k + 1), a, b)
                      \/ /\ ~Covers(IntelRecord(t, factor, k + 1), a)
                         /\ IntelSays(t, factor, k, a, b)
                 ELSE IntelSays(t, factor, k, a, b)
<1> DEFINE D == IntelLines(t, k)
           E == IntelLines(t, k + 1)
           r == IntelRecords(t, factor, k)
           s == IntelRecords(t, factor, k + 1)
<1>1. D \subseteq Int /\ D \subseteq E /\ \A e \in D : e < k + 1
  BY DEF IntelLines
<1>2. \A e \in D : s[e] = r[e]
  BY <1>1 DEF IntelRecords
<1>3. CASE IsRecord(t[k + 1], {"data"})
  <2>1. E = D \union {k + 1} /\ s[k + 1] = IntelRecord(t, factor, k + 1)
    BY <1>3 DEF IntelLines, IntelRecords
  <2>2. Said(D \union {k + 1}, s, a, b)
          <=> Has(s[k + 1], a, b) \/ (~Covers(s[k + 1], a) /\ Said(D, r, a, b))
    <3>1. PICK m \in Int : m = k + 1
      OBVIOUS
    <3>2. \A e \in D : e < m
      BY <1>1, <3>1
    <3>3. Said(D \union {m}, s, a, b)
            <=> Has(s[m], a, b) \/ (~Covers(s[m], a) /\ Said(D, r, a, b))
      <4> HIDE DEF D, E, r, s
      <4> QED
        BY <1>1, <1>2, <3>2, SaidStep
    <3>4. QED
      BY <3>1, <3>3
  <2>3. QED
    BY <1>3, <2>1, <2>2 DEF IntelSays
<1>4. CASE ~IsRecord(t[k + 1], {"data"})
  <2>1. E = D
    BY <1>4 DEF IntelLines
  <2>2. QED
    BY <1>4, <2>1 DEF IntelSays, IntelRecords
<1>5. QED
  BY <1>3, <1>4

StartsAs(u, t, k) == k \in Nat /\ \A e \in 1..k : u[e] = t[e]

LEMMA RecordSame ==
  ASSUME NEW t, NEW u, NEW k, StartsAs(u, t, k), NEW factor, NEW e \in 1..k
  PROVE  IntelRecord(u, factor, e) = IntelRecord(t, factor, e)
<1>1. e - 1 \in Nat /\ \A d \in 1..(e - 1) : u[d] = t[d]
  BY DEF StartsAs
<1>2. BaseAfter(u, e - 1) = BaseAfter(t, e - 1)
  BY <1>1, BaseSame
<1>3. QED
  BY <1>2 DEF IntelRecord, StartsAs

LEMMA IntelSaysSame ==
  ASSUME NEW t, NEW u, NEW factor, NEW k \in Nat, \A e \in 1..k : u[e] = t[e], NEW a, NEW b
  PROVE  IntelSays(u, factor, k, a, b) <=> IntelSays(t, factor, k, a, b)
<1>1. IntelLines(u, k) = IntelLines(t, k)
  BY DEF IntelLines
<1>2. \A e \in 1..k : IntelRecord(u, factor, e) = IntelRecord(t, factor, e)
  <2>1. StartsAs(u, t, k)
    BY DEF StartsAs
  <2>2. QED
    BY <2>1, RecordSame
<1>3. IntelRecords(u, factor, k) = IntelRecords(t, factor, k)
  BY <1>1, <1>2 DEF IntelRecords, IntelLines
<1>4. QED
  BY <1>1, <1>3 DEF IntelSays

LEMMA SRecSaysStep ==
  ASSUME NEW t, NEW k \in Nat, NEW a, NEW b
  PROVE  SRecSays(t, k + 1, a, b)
           <=> IF IsDataRecord(t[k + 1])
                 THEN \/ Has(SRecRecord(t, k + 1), a, b)
                      \/ ~Covers(SRecRecord(t, k + 1), a) /\ SRecSays(t, k, a, b)
                 ELSE SRecSays(t, k, a, b)
<1> DEFINE D == SRecLines(t, k)
           E == SRecLines(t, k + 1)
           r == [e \in D |-> SRecRecord(t, e)]
           s == [e \in E |-> SRecRecord(t, e)]
<1>1. D \subseteq Int /\ D \subseteq E /\ \A e \in D : e < k + 1
  BY DEF SRecLines
<1>2. \A e \in D : s[e] = r[e]
  BY <1>1
<1>3. CASE IsDataRecord(t[k + 1])
  <2>1. E = D \union {k + 1} /\ s[k + 1] = SRecRecord(t, k + 1)
    BY <1>3 DEF SRecLines
  <2>2. Said(D \union {k + 1}, s, a, b)
          <=> Has(s[k + 1], a, b) \/ (~Covers(s[k + 1], a) /\ Said(D, r, a, b))
    <3>1. PICK m \in Int : m = k + 1
      OBVIOUS
    <3>2. \A e \in D : e < m
      BY <1>1, <3>1
    <3>3. Said(D \union {m}, s, a, b)
            <=> Has(s[m], a, b) \/ (~Covers(s[m], a) /\ Said(D, r, a, b))
      <4> HIDE DEF D, E, r, s
      <4> QED
        BY <1>1, <1>2, <3>2, SaidStep
    <3>4. QED
      BY <3>1, <3>3
  <2>3. QED
    BY <1>3, <2>1, <2>2 DEF SRecSays
<1>4. CASE ~IsDataRecord(t[k + 1])
  <2>1. E = D
    BY <1>4 DEF SRecLines
  <2>2. QED
    BY <1>4, <2>1 DEF SRecSays
<1>5. QED
  BY <1>3, <1>4

LEMMA SRecSaysSame ==
  ASSUME NEW t, NEW u, NEW k \in Nat, \A e \in 1..k : u[e] = t[e], NEW a, NEW b
  PROVE  SRecSays(u, k, a, b) <=> SRecSays(t, k, a, b)
<1>1. SRecLines(u, k) = SRecLines(t, k)
  BY DEF SRecLines
<1>2. \A e \in SRecLines(t, k) : SRecRecord(u, e) = SRecRecord(t, e)
  BY DEF SRecLines, SRecRecord
<1>3. QED
  BY <1>1, <1>2 DEF SRecSays

LEMMA SaidNothing ==
  ASSUME NEW t, NEW factor, NEW a, NEW b
  PROVE  ~IntelSays(t, factor, 0, a, b) /\ ~SRecSays(t, 0, a, b)
  BY DEF IntelSays, SRecSays, Said, IntelLines, SRecLines

-----------------------------------------------------------------------------
(* The lines of a text *)

Marks == {":", "S", "text", "hexlike", "blank", "binary"}

IntelTypes == {"data", "segment", "linear", "eof", "start", "unknown", "broken"}

LEMMA LineFacts ==
  ASSUME NEW l \in TextLine
  PROVE  /\ l.mark \in Marks
         /\ l.mark = ":" => l.type \in IntelTypes
         /\ l.mark = "S" => l.type \in SRecTypes \union {"other", "unknown", "broken"}
         /\ IsRecord(l, {"data"}) =>
              l.addr \in Nat /\ l.data \in Seq(Byte) /\ Len(l.data) \in 0..(ByteRange - 1)
         /\ IsRecord(l, {"segment", "linear"}) => l.field \in Nat \/ l.field = None
         /\ IsDataRecord(l) =>
              /\ l.count \in Nat /\ l.addr \in Addr
              /\ l.data \in Seq(Byte) /\ Len(l.data) \in 0..(ByteRange - 1)
<1>1. ASSUME NEW d \in RecordData
      PROVE  d \in Seq(Byte) /\ Len(d) \in 0..(ByteRange - 1)
  BY <1>1, LenProperties, CountAssumption DEF RecordData
<1>2. CASE l \in [mark : {":"}, type : {"data"}, addr : Nat, data : RecordData]
  BY <1>1, <1>2 DEF Marks, IntelTypes, IsRecord, IsDataRecord
<1>3. CASE l \in [mark : {":"}, type : {"segment", "linear"}, field : Nat \union {None}]
  BY <1>3 DEF Marks, IntelTypes, IsRecord, IsDataRecord
<1>4. CASE l \in [mark : {":"}, type : {"eof", "start", "unknown", "broken"}]
  BY <1>4 DEF Marks, IntelTypes, IsRecord, IsDataRecord
<1>5. CASE l \in [mark : {"S"}, type : SRecTypes, count : Nat, addr : Addr, data : RecordData]
  BY <1>1, <1>5 DEF Marks, IsRecord, IsDataRecord
<1>6. CASE l \in [mark : {"S"}, type : {"other", "unknown", "broken"}]
  BY <1>6 DEF Marks, IsRecord, IsDataRecord, SRecTypes
<1>7. CASE l \in [mark : {"text", "hexlike", "blank", "binary"}]
  BY <1>7 DEF Marks, IsRecord, IsDataRecord
<1>8. QED
  BY <1>2, <1>3, <1>4, <1>5, <1>6, <1>7 DEF TextLine

LEMMA LinesOf ==
  ASSUME NEW t \in Seq(TextLine)
  PROVE  /\ Len(t) \in Nat /\ DOMAIN t = 1..Len(t)
         /\ \A k \in 1..Len(t) : t[k] \in TextLine
  BY LenProperties, ElementOfSeq

-----------------------------------------------------------------------------
(* parse_intel_hex, line by line *)

\* The base is a number: a record without a field is rejected.
LEMMA NextBase ==
  ASSUME NEW t \in Seq(TextLine), NEW k \in 0..(Len(t) - 1), NEW factor,
         BaseAfter(t, k) \in Nat, IntelGood(t, factor, k + 1)
  PROVE  BaseAfter(t, k + 1) \in Nat
<1>1. k \in Nat /\ k + 1 \in 1..Len(t) /\ t[k + 1] \in TextLine
  BY LinesOf
<1>2. Bank \in Nat /\ Para \in Nat
  BY FormatAssumption
<1>3. CASE IsRecord(t[k + 1], {"segment", "linear"})
  <2>0. PICK l \in TextLine : l = t[k + 1]
    BY <1>1
  <2>1. t[k + 1].field \in Nat
    <3>1. l.mark = ":" /\ l.type \in {"segment", "linear"}
      BY <1>3, <2>0 DEF IsRecord
    <3>2. l.field \in Nat \/ l.field = None
      BY <1>3, <2>0, LineFacts
    <3>3. l.field # None
      <4>1. l.mark # "blank" /\ ~(l.mark \in {"text", "S"})
        BY <3>1
      <4>2. ~IsRecord(l, {"eof", "start"}) /\ ~IsRecord(l, {"data"})
        BY <3>1 DEF IsRecord
      <4>3. \/ t[k + 1].mark = "blank" \/ t[k + 1].field # None
            \/ IsRecord(t[k + 1], {"eof", "start"}) \/ IsRecord(t[k + 1], {"data"})
            \/ t[k + 1].mark \in {"text", "S"}
        BY Zenon DEF IntelGood
      <4>4. QED
        BY <2>0, <4>1, <4>2, <4>3
    <3>4. QED
      BY <2>0, <3>2, <3>3
  <2>2. QED
    BY <1>1, <1>2, <1>3, <2>1, BaseStep
<1>4. CASE ~IsRecord(t[k + 1], {"segment", "linear"})
  BY <1>1, <1>4, BaseStep
<1>5. QED
  BY <1>3, <1>4

LEMMA KnowsStep ==
  ASSUME NEW t \in Seq(TextLine), NEW factor, NEW k \in 0..(Len(t) - 1),
         NEW base, NEW eof, NEW seen, IntelKnows(t, factor, k, base, eof, seen),
         IntelGood(t, factor, k + 1),
         NEW base2, base2 = BaseAfter(t, k + 1),
         NEW eof2, eof2 <=> eof \/ IsRecord(t[k + 1], {"eof"}),
         NEW seen2, seen2 <=> seen \/ t[k + 1].mark = ":"
  PROVE  IntelKnows(t, factor, k + 1, base2, eof2, seen2)
<1>1. \A m \in 1..(k + 1) : m \in 1..k \/ m = k + 1
  OBVIOUS
<1>2. \A m \in 1..k : m \in 1..(k + 1)
  OBVIOUS
<1>3. k + 1 \in 1..(k + 1)
  OBVIOUS
<1>4. base2 \in Nat
  BY NextBase DEF IntelKnows
<1>5. eof2 <=> ~NoneBefore(t, k + 1, {"eof"})
  BY <1>1, <1>2, <1>3 DEF IntelKnows, NoneBefore
<1>6. seen2 <=> \E m \in 1..(k + 1) : t[m].mark = ":"
  BY <1>1, <1>2, <1>3 DEF IntelKnows
<1>7. \A m \in 1..(k + 1) : IntelGood(t, factor, m)
  BY <1>1 DEF IntelKnows
<1>8. QED
  BY <1>4, <1>5, <1>6, <1>7 DEF IntelKnows

LEMMA KnowsNothing ==
  ASSUME NEW t, NEW factor
  PROVE  IntelKnows(t, factor, 0, 0, FALSE, FALSE)
  BY BaseFirst DEF IntelKnows, NoneBefore

\* Where a record lies, when it does not overflow.
LEMMA RecordPlace ==
  ASSUME NEW t \in Seq(TextLine), NEW factor \in {1, 2}, NEW k \in 0..(Len(t) - 1),
         BaseAfter(t, k) \in Nat, IsRecord(t[k + 1], {"data"})
  PROVE  LET s == IntelRecord(t, factor, k + 1)
             at == (BaseAfter(t, k) + t[k + 1].addr) * factor
             len == Len(t[k + 1].data)
         IN /\ s.start = at /\ s.data = t[k + 1].data /\ at \in Nat
            /\ s.data \in Seq(Byte) /\ len \in 0..(ByteRange - 1)
            /\ Loose(s) <=> ~(at > MaxAddr \/ at + len - 1 > MaxAddr)
<1> DEFINE s == IntelRecord(t, factor, k + 1)
           at == (BaseAfter(t, k) + t[k + 1].addr) * factor
           len == Len(t[k + 1].data)
<1>1. /\ t[k + 1] \in TextLine /\ t[k + 1].addr \in Nat /\ t[k + 1].data \in Seq(Byte)
      /\ len \in 0..(ByteRange - 1)
  BY LinesOf, LineFacts
<1>2. s = [start |-> at, data |-> t[k + 1].data]
  <2>1. (k + 1) - 1 = k
    OBVIOUS
  <2>2. QED
    BY <2>1 DEF IntelRecord
<1>3. at \in Nat
  BY <1>1
<1>4. /\ s.start = at /\ s.data = t[k + 1].data
  BY <1>2
<1>5. Loose(s) <=> ~(at > MaxAddr \/ at + len - 1 > MaxAddr)
  <2>1. s \in SegRecord <=> at <= MaxAddr
    BY <1>1, <1>2, <1>3, MaxAddrAssumption DEF SegRecord, Addr
  <2>2. ByteRange \in Nat /\ MaxAddr \in Nat /\ len \in Nat
    BY <1>1, CountAssumption, MaxAddrAssumption
  <2>3. Loose(s) <=> at <= MaxAddr /\ (len > 0 => at + len - 1 <= MaxAddr)
    BY <1>4, <2>1 DEF Loose
  <2>4. QED
    <3> HIDE DEF s, at, len
    <3> QED
      BY <1>3, <2>2, <2>3
<1>6. QED
  BY <1>1, <1>3, <1>4, <1>5

\* The last segment hides what it covers.
LEMMA LastHides ==
  ASSUME NEW list \in Seq(SegRecord), NEW s \in SegRecord, NEW a, NEW b
  PROVE  ReadsAs(Append(list, s), a, b)
           <=> Has(s, a, b) \/ (~Covers(s, a) /\ ReadsAs(list, a, b))
<1>1. PICK more, n0 : more = Append(list, s) /\ n0 = Len(list) /\ n0 \in Nat
  BY LenProperties
<1>2. /\ Len(more) = n0 + 1 /\ more[n0 + 1] = s
      /\ \A m \in 1..n0 : more[m] = list[m]
  BY <1>1, AppendProperties DEF Loose
<1>3. LastWins(more, n0, a, b) <=> LastWins(list, n0, a, b)
  <2>1. \A m \in 1..n0 : \A l \in (m + 1)..n0 : l \in 1..n0
    OBVIOUS
  <2>2. QED
    BY <1>2, <2>1 DEF LastWins
<1>4. LastWins(more, n0 + 1, a, b)
        <=> Has(more[n0 + 1], a, b)
            \/ (~Covers(more[n0 + 1], a) /\ LastWins(more, n0, a, b))
  BY <1>1, LastWinsStep
<1>5. QED
  BY <1>1, <1>2, <1>3, <1>4 DEF ReadsAs

LEMMA NothingReads ==
  ASSUME NEW a, NEW b
  PROVE  ~ReadsAs(<<>>, a, b)
  BY EmptySeq DEF ReadsAs, LastWins

LEMMA AppendLoose ==
  ASSUME NEW list \in Seq(SegRecord), \A m \in 1..Len(list) : Loose(list[m]),
         NEW s, Loose(s)
  PROVE  /\ Append(list, s) \in Seq(SegRecord)
         /\ \A m \in 1..Len(Append(list, s)) : Loose(Append(list, s)[m])
<1>1. PICK more, n0 : more = Append(list, s) /\ n0 = Len(list) /\ n0 \in Nat
  BY LenProperties
<1>2. /\ more \in Seq(SegRecord) /\ Len(more) = n0 + 1 /\ more[n0 + 1] = s
      /\ \A m \in 1..n0 : more[m] = list[m]
  BY <1>1, AppendProperties DEF Loose
<1>3. \A m \in 1..(n0 + 1) : m \in 1..n0 \/ m = n0 + 1
  BY <1>1
<1>4. QED
  BY <1>1, <1>2, <1>3

LEMMA AppendInSpace ==
  ASSUME NEW list \in Seq(SegRecord), NEW s, Loose(s)
  PROVE  AllInSpace(Append(list, s)) <=> AllInSpace(list) /\ Len(s.data) > 0
<1>1. PICK more, n0 : more = Append(list, s) /\ n0 = Len(list) /\ n0 \in Nat
  BY LenProperties
<1>2. /\ Len(more) = n0 + 1 /\ more[n0 + 1] = s
      /\ \A m \in 1..n0 : more[m] = list[m]
  BY <1>1, AppendProperties DEF Loose
<1>3. InSpace(s) <=> Len(s.data) > 0
  BY DEF InSpace, Loose, SegRecord
<1>4. \A m \in 1..(n0 + 1) : m \in 1..n0 \/ m = n0 + 1
  BY <1>1
<1>5. n0 + 1 \in 1..(n0 + 1) /\ \A m \in 1..n0 : m \in 1..(n0 + 1)
  BY <1>1
<1>6. QED
  BY <1>1, <1>2, <1>3, <1>4, <1>5 DEF AllInSpace

\* A line that is no data record leaves the open segment open, or puts it
\* behind the others.
LEMMA GatherNothing ==
  ASSUME NEW t, NEW factor, NEW k \in Nat, NEW done, NEW open,
         IntelGathers(t, factor, k, done, open), ~IsRecord(t[k + 1], {"data"}),
         NEW done2, NEW open2,
         (done2 = done /\ open2 = open)
           \/ (done2 = Gathered(done, open) /\ open2 = None)
  PROVE  IntelGathers(t, factor, k + 1, done2, open2)
<1>1. IntelLines(t, k + 1) = IntelLines(t, k)
  BY DEF IntelLines
<1>2. \A a, b : IntelSays(t, factor, k + 1, a, b) <=> IntelSays(t, factor, k, a, b)
  BY IntelSaysStep
<1>3. Gathered(done2, open2) = Gathered(done, open)
  BY DEF Gathered
<1>4. /\ done2 \in Seq(SegRecord) /\ \A m \in 1..Len(done2) : Loose(done2[m])
      /\ open2 = None \/ Loose(open2)
  <2>1. CASE done2 = done /\ open2 = open
    BY <2>1 DEF IntelGathers
  <2>2. CASE done2 = Gathered(done, open) /\ open2 = None
    <3>1. CASE open = None
      BY <2>2, <3>1 DEF IntelGathers, Gathered
    <3>2. CASE open # None
      BY <2>2, <3>2, AppendLoose DEF IntelGathers, Gathered
    <3>3. QED
      BY <3>1, <3>2
  <2>3. QED
    BY <2>1, <2>2
<1>5. QED
  BY <1>1, <1>2, <1>3, <1>4 DEF IntelGathers

\* A data record is put behind the others as the segment that is now open.
LEMMA GatherRecord ==
  ASSUME NEW t, NEW factor, NEW k \in Nat, NEW done, NEW open,
         IntelGathers(t, factor, k, done, open), IsRecord(t[k + 1], {"data"}),
         NEW s, s = IntelRecord(t, factor, k + 1), Loose(s),
         NEW done2, done2 = Gathered(done, open)
  PROVE  IntelGathers(t, factor, k + 1, done2, s)
<1>1. /\ IntelLines(t, k + 1) = IntelLines(t, k) \union {k + 1}
  BY DEF IntelLines
<1>2. s # None /\ Gathered(done2, s) = Append(done2, s)
  BY NoneAssumption DEF Gathered, Loose, SegRecord
<1>3. done2 \in Seq(SegRecord) /\ \A m \in 1..Len(done2) : Loose(done2[m])
  <2>1. CASE open = None
    BY <2>1 DEF IntelGathers, Gathered
  <2>2. CASE open # None
    BY <2>2, AppendLoose DEF IntelGathers, Gathered
  <2>3. QED
    BY <2>1, <2>2
<1>4. ASSUME \A e \in IntelLines(t, k + 1) : t[e].data # <<>>
      PROVE  /\ AllInSpace(Append(done2, s))
             /\ \A a \in Addr, b \in Byte :
                  ReadsAs(Append(done2, s), a, b) <=> IntelSays(t, factor, k + 1, a, b)
  <2>1. AllInSpace(done2)
        /\ \A a \in Addr, b \in Byte :
             ReadsAs(done2, a, b) <=> IntelSays(t, factor, k, a, b)
    BY <1>1, <1>4 DEF IntelGathers
  <2>2. Len(s.data) > 0
    <3>1. s.data = t[k + 1].data
      BY DEF IntelRecord
    <3>2. s.data # <<>> /\ s.data \in Seq(Byte)
      BY <1>1, <1>4, <3>1 DEF Loose, SegRecord
    <3>3. QED
      BY <3>2, EmptySeq
  <2>3. QED
    BY <1>3, <2>1, <2>2, AppendInSpace, LastHides, IntelSaysStep DEF Loose
<1>5. QED
  BY <1>2, <1>3, <1>4 DEF IntelGathers

\* end_address of a segment that may be empty.
LEMMA LooseEnd ==
  ASSUME NEW s, Loose(s)
  PROVE  LET len == Len(s.data)
         IN /\ len \in Nat /\ s.start \in Addr /\ EndAddress(s) \in Addr
            /\ len > 0 => s.start + len - 1 <= MaxAddr
            /\ EndAddress(s) = IF len = 0 THEN s.start ELSE s.start + len - 1
<1>1. PICK len, lo : len = Len(s.data) /\ lo = s.start /\ len \in Nat /\ lo \in Addr
  BY LenProperties DEF Loose, SegRecord
<1>2. CASE len > 0
  <2>1. InSpace(s)
    BY <1>1, <1>2 DEF Loose, InSpace, SegRecord
  <2>2. QED
    BY <1>1, <1>2, <2>1, SpanInSpace DEF Loose
<1>3. CASE len = 0
  BY <1>1, <1>3 DEF EndAddress, FitsAt, IsEmpty
<1>4. QED
  BY <1>1, <1>2, <1>3

\* A record that follows on the open segment becomes part of it.
LEMMA GatherMore ==
  ASSUME NEW t, NEW factor, NEW k \in Nat, NEW done, NEW open, open # None,
         IntelGathers(t, factor, k, done, open), IsRecord(t[k + 1], {"data"}),
         NEW s, s = IntelRecord(t, factor, k + 1), Loose(s),
         EndAddress(open) < MaxAddr, s.start = EndAddress(open) + 1,
         NEW open2, open2 = [open EXCEPT !.data = @ \o s.data]
  PROVE  IntelGathers(t, factor, k + 1, done, open2)
<1>1. /\ IntelLines(t, k + 1) = IntelLines(t, k) \union {k + 1}
  BY DEF IntelLines
<1>2. Loose(open) /\ open \in SegRecord /\ s \in SegRecord /\ done \in Seq(SegRecord)
  BY DEF IntelGathers, Loose
<1>3. PICK p, q, lo, hi :
        /\ p = Len(open.data) /\ q = Len(s.data) /\ lo = open.start /\ hi = EndAddress(open)
        /\ p \in Nat /\ q \in Nat /\ lo \in Addr /\ hi \in Addr
        /\ p > 0 => lo + p - 1 <= MaxAddr
        /\ hi = IF p = 0 THEN lo ELSE lo + p - 1
  BY <1>2, LooseEnd
<1>4. Len(open.data \o s.data) = p + q /\ open.data \o s.data \in Seq(Byte)
  BY <1>2, <1>3, ConcatProperties DEF SegRecord
<1>5. q > 0 => hi + 1 + q - 1 <= MaxAddr
  BY <1>2, <1>3 DEF Loose
<1>6. open2 = [start |-> lo, data |-> open.data \o s.data] /\ open2 \in SegRecord
  BY <1>2, <1>3, <1>4 DEF SegRecord
<1>7. Loose(open2)
  <2>1. lo \in Int /\ MaxAddr \in Int /\ p \in Nat /\ q \in Nat
    BY <1>3, MaxAddrAssumption DEF Addr
  <2>2. p > 0 => lo + p - 1 <= MaxAddr
    BY <1>3
  <2>3. q > 0 => (IF p = 0 THEN lo ELSE lo + p - 1) + 1 + q - 1 <= MaxAddr
    BY <1>3, <1>5
  <2>4. p + q > 0 => lo + (p + q) - 1 <= MaxAddr
    BY ONLY <2>1, <2>2, <2>3
  <2>5. open2.start = lo /\ Len(open2.data) = p + q
    BY <1>4, <1>6
  <2>6. QED
    BY <1>6, <2>4, <2>5 DEF Loose
<1>8. open2 # None
  BY <1>6, NoneAssumption DEF SegRecord
<1>9. ASSUME \A e \in IntelLines(t, k + 1) : t[e].data # <<>>
      PROVE  /\ AllInSpace(Append(done, open2))
             /\ \A a \in Addr, b \in Byte :
                  ReadsAs(Append(done, open2), a, b) <=> IntelSays(t, factor, k + 1, a, b)
  <2>1. /\ AllInSpace(Append(done, open))
        /\ \A a \in Addr, b \in Byte :
             ReadsAs(Append(done, open), a, b) <=> IntelSays(t, factor, k, a, b)
    BY <1>1, <1>9 DEF IntelGathers, Gathered
  <2>2. AllInSpace(done) /\ p > 0
    BY <1>2, <1>3, <2>1, AppendInSpace
  <2>3. q > 0
    <3>1. s.data = t[k + 1].data
      BY DEF IntelRecord
    <3>2. s.data # <<>> /\ s.data \in Seq(Byte)
      BY <1>1, <1>2, <1>9, <3>1 DEF SegRecord
    <3>3. QED
      BY <1>3, <3>2, EmptySeq
  <2>4. InSpace(open) /\ InSpace(s)
    BY <1>2, <1>3, <2>2, <2>3 DEF InSpace, Loose, SegRecord
  <2>5. IsContiguousWith(open, s) /\ Join(open, s) = open2
    BY <1>3, <1>6 DEF IsContiguousWith, Join
  <2>6. InSpace(open2)
        /\ \A a \in Int : \A b : Has(open2, a, b) <=> Has(open, a, b) \/ Has(s, a, b)
    <3>1. /\ InSpace(Join(open, s))
          /\ \A a \in Int : \A b : Has(Join(open, s), a, b) <=> Has(open, a, b) \/ Has(s, a, b)
      BY <2>4, <2>5, JoinInSpace
    <3>2. QED
      BY <2>5, <3>1
  <2>7. ASSUME NEW a \in Addr
        PROVE  /\ Covers(open2, a) <=> Covers(open, a) \/ Covers(s, a)
               /\ ~(Covers(open, a) /\ Covers(s, a))
    <3>1. a \in Int
      BY DEF Addr
    <3>2. Covers(open2, a) <=> Covers(open, a) \/ Covers(s, a)
      <4>1. \A b : Has(open2, a, b) <=> Has(open, a, b) \/ Has(s, a, b)
        BY <2>6, <3>1
      <4>2. QED
        BY <4>1 DEF Has
    <3>3. ~(Covers(open, a) /\ Covers(s, a))
      <4>1. a \in Int
        BY DEF Addr
      <4>2. /\ Covers(open, a) <=> open.start <= a /\ a <= EndAddress(open)
            /\ Covers(s, a) <=> s.start <= a /\ a <= EndAddress(s)
            /\ EndAddress(open) \in Int
        BY <2>4, <4>1, SpanInSpace DEF Addr
      <4>3. QED
        BY <4>1, <4>2
    <3>4. QED
      BY <3>2, <3>3
  <2>8. AllInSpace(Append(done, open2))
    <3>1. Len(open2.data) > 0
      BY <1>3, <1>4, <1>6, <2>2
    <3>2. QED
      BY <1>2, <1>7, <2>2, <3>1, AppendInSpace
  <2>9. ASSUME NEW a \in Addr, NEW b \in Byte
        PROVE  ReadsAs(Append(done, open2), a, b) <=> IntelSays(t, factor, k + 1, a, b)
    <3>1. ReadsAs(Append(done, open2), a, b)
            <=> Has(open2, a, b) \/ (~Covers(open2, a) /\ ReadsAs(done, a, b))
      BY <1>2, <1>6, LastHides
    <3>2. ReadsAs(Append(done, open), a, b)
            <=> Has(open, a, b) \/ (~Covers(open, a) /\ ReadsAs(done, a, b))
      BY <1>2, LastHides
    <3>3. IntelSays(t, factor, k + 1, a, b)
            <=> Has(s, a, b) \/ (~Covers(s, a) /\ IntelSays(t, factor, k, a, b))
      BY IntelSaysStep
    <3>4. Has(open2, a, b) <=> Has(open, a, b) \/ Has(s, a, b)
      <4>1. a \in Int
        BY DEF Addr
      <4>2. QED
        BY <2>6, <4>1
    <3>5. (Has(open, a, b) => Covers(open, a)) /\ (Has(s, a, b) => Covers(s, a))
      BY DEF Has
    <3>6. QED
      BY <2>1, <2>7, <3>1, <3>2, <3>3, <3>4, <3>5
  <2>10. QED
    BY <2>8, <2>9
<1>10. QED
  BY <1>2, <1>7, <1>8, <1>9 DEF IntelGathers, Gathered

LEMMA GatherFirst ==
  ASSUME NEW t, NEW factor
  PROVE  IntelGathers(t, factor, 0, <<>>, None)
<1>1. /\ <<>> \in Seq(SegRecord) /\ Len(<<>>) = 0
      /\ Gathered(<<>>, None) = <<>>
  BY EmptySeq DEF Gathered
<1>2. AllInSpace(<<>>)
  BY EmptyList
<1>3. QED
  BY <1>1, <1>2, NothingReads, SaidNothing DEF IntelGathers

-----------------------------------------------------------------------------
(* parse_intel_hex as a step of the specification *)

LEMMA TheLine ==
  ASSUME TypeOK, pos < Len(text)
  PROVE  /\ pos \in 0..(Len(text) - 1) /\ pos \in Nat /\ pos + 1 \in 1..Len(text)
         /\ (pos + 1) - 1 = pos /\ pos + 1 \in 0..Len(text)
         /\ Line = text[pos + 1] /\ Line \in TextLine
         /\ text \in Seq(TextLine) /\ scale \in {1, 2} /\ Len(text) \in Nat
<1>1. text \in Seq(TextLine) /\ pos \in 0..Len(text) /\ scale \in {1, 2}
  BY DEF TypeOK
<1>2. Len(text) \in Nat
  BY <1>1, LenProperties
<1>3. pos \in 0..(Len(text) - 1) /\ pos + 1 \in 1..Len(text) /\ pos + 1 \in 0..Len(text)
  BY <1>1, <1>2
<1>4. text[pos + 1] \in TextLine
  BY <1>1, <1>3, LinesOf
<1>5. QED
  BY <1>1, <1>2, <1>3, <1>4 DEF Line

\* The reader rejects what is not good.
LEMMA RejectedIsBad ==
  ASSUME TypeOK, ReadingIntel, Turn
  PROVE  Rejected(Line) <=> ~IntelGood(text, scale, pos + 1)
<1>1. /\ pos \in 0..(Len(text) - 1) /\ pos \in Nat /\ (pos + 1) - 1 = pos
      /\ pos + 1 \in 1..Len(text) /\ Line = text[pos + 1] /\ Line \in TextLine
      /\ text \in Seq(TextLine) /\ scale \in {1, 2}
  BY TheLine DEF Turn, Reading
<1>2. /\ extended = BaseAfter(text, pos) /\ extended \in Nat
      /\ eofSeen <=> ~NoneBefore(text, pos, {"eof"})
      /\ recordSeen <=> \E m \in 1..pos : text[m].mark = ":"
  BY DEF ReadingIntel, IntelKnows
<1>3. Line.mark \in Marks \ {"blank", "binary"}
  BY <1>1, LineFacts DEF ReadingIntel, Turn
<1>4. CASE Line.mark # ":"
  <2>1. Rejected(Line) <=> eofSeen \/ recordSeen \/ Line.mark = "hexlike"
    BY <1>4 DEF Rejected, IsRecord
  <2>2. (\A m \in 1..(pos + 1) : text[m].mark # ":") <=> ~recordSeen
    <3>1. \A m \in 1..(pos + 1) : m \in 1..pos \/ m = pos + 1
      BY <1>1
    <3>2. \A m \in 1..pos : m \in 1..(pos + 1)
      BY <1>1
    <3>3. QED
      BY <1>1, <1>2, <1>4, <3>1, <3>2
  <2>3. IntelGood(text, scale, pos + 1)
          <=> ~eofSeen /\ Line.mark \in {"text", "S"} /\ ~recordSeen
    BY <1>1, <1>2, <1>3, <1>4, <2>2 DEF IntelGood, IsRecord
  <2>4. QED
    BY <1>3, <1>4, <2>1, <2>3 DEF Marks
<1>5. CASE Line.mark = ":"
  <2>1. Line.type \in IntelTypes
    BY <1>1, <1>5, LineFacts
  <2>2. IsRecord(Line, {"data"}) =>
          (Overflows(Line) <=> ~Loose(IntelRecord(text, scale, pos + 1)))
    <3>1. HAVE IsRecord(Line, {"data"})
    <3>2. Loose(IntelRecord(text, scale, pos + 1)) <=>
            ~( \/ (BaseAfter(text, pos) + text[pos + 1].addr) * scale > MaxAddr
               \/ (BaseAfter(text, pos) + text[pos + 1].addr) * scale
                    + Len(text[pos + 1].data) - 1 > MaxAddr)
      BY <1>1, <1>2, <3>1, RecordPlace
    <3>3. QED
      BY <1>1, <1>2, <3>2 DEF Overflows, FullAddress
  <2>3. Rejected(Line) <=>
          \/ eofSeen
          \/ Line.type \in {"broken", "unknown"}
          \/ Line.type \in {"segment", "linear"} /\ Line.field = None
          \/ Line.type = "data" /\ Overflows(Line)
    BY <1>5 DEF Rejected, IsRecord
  <2>4. IntelGood(text, scale, pos + 1) <=>
          /\ ~eofSeen
          /\ \/ Line.type \in {"eof", "start"}
             \/ Line.type \in {"segment", "linear"} /\ Line.field # None
             \/ Line.type = "data" /\ Loose(IntelRecord(text, scale, pos + 1))
    BY <1>1, <1>2, <1>5 DEF IntelGood, IsRecord
  <2>5. Line.type = "data" <=> IsRecord(Line, {"data"})
    BY <1>5 DEF IsRecord
  <2>6. QED
    BY <2>1, <2>2, <2>3, <2>4, <2>5 DEF IntelTypes
<1>6. QED
  BY <1>4, <1>5

\* What the records taken leave as they were.
LEMMA ReadingOn ==
  ASSUME TypeOK, ReadingIntel, pos < Len(text), IntelGood(text, scale, pos + 1),
         text' = text, scale' = scale, pos' = pos + 1,
         extended' = BaseAfter(text, pos + 1),
         eofSeen' <=> eofSeen \/ IsRecord(Line, {"eof"}),
         recordSeen' <=> recordSeen \/ Line.mark = ":",
         IntelGathers(text, scale, pos + 1, parsed', current')
  PROVE  ReadingIntel'
<1>1. /\ pos \in 0..(Len(text) - 1) /\ Line = text[pos + 1] /\ text \in Seq(TextLine)
  BY TheLine
<1>2. IntelKnows(text, scale, pos, extended, eofSeen, recordSeen)
  BY DEF ReadingIntel
<1>3. IntelKnows(text, scale, pos + 1, extended', eofSeen', recordSeen')
  BY <1>1, <1>2, KnowsStep
<1>4. QED
  BY <1>3 DEF ReadingIntel

\* Every line that is taken leaves what a reader knows true.
LEMMA IntelReaderReads ==
  ASSUME TypeOK, ReadingIntel, phase = "read_ihex",
         \/ SkipBlank \/ SkipText \/ ExtendCurrent \/ OpenSegment \/ SetExtended
         \/ TakeEof \/ SkipStartAddress
  PROVE  /\ ReadingIntel' /\ phase' = "read_ihex" /\ IntelGood(text, scale, pos + 1)
         /\ pos < Len(text) /\ pos' = pos + 1
         /\ UNCHANGED <<fileVars, writeVars, scale>>
<1>1. pos < Len(text)
  BY DEF SkipBlank, SkipText, ExtendCurrent, OpenSegment, SetExtended, TakeEof,
         SkipStartAddress, Take, Turn, Reading
<1>2. /\ pos \in 0..(Len(text) - 1) /\ pos \in Nat /\ Line = text[pos + 1]
      /\ Line \in TextLine /\ text \in Seq(TextLine) /\ scale \in {1, 2}
  BY <1>1, TheLine
<1>3. pos' = pos + 1 /\ phase' = phase /\ UNCHANGED <<fileVars, writeVars, scale>>
  BY DEF SkipBlank, SkipText, ExtendCurrent, OpenSegment, SetExtended, TakeEof,
         SkipStartAddress, Take, Consume, ihexVars
<1>4. text' = text
  BY <1>3 DEF fileVars
<1>5. IntelGood(text, scale, pos + 1)
  <2>1. CASE SkipBlank
    BY <1>2, <2>1 DEF SkipBlank, IntelGood
  <2>2. CASE SkipText \/ ExtendCurrent \/ OpenSegment \/ SetExtended
               \/ TakeEof \/ SkipStartAddress
    BY <2>2, RejectedIsBad DEF SkipText, ExtendCurrent, OpenSegment, SetExtended,
       TakeEof, SkipStartAddress, Take
  <2>3. QED
    BY <2>1, <2>2
<1>6. extended = BaseAfter(text, pos) /\ extended \in Nat
      /\ IntelGathers(text, scale, pos, parsed, current)
  BY DEF ReadingIntel, IntelKnows
<1>7. BaseAfter(text, pos + 1) = IF IsRecord(Line, {"segment", "linear"})
             THEN Line.field * (IF Line.type = "segment" THEN Para ELSE Bank)
             ELSE BaseAfter(text, pos)
  BY <1>2, BaseStep
<1>8. CASE SkipBlank \/ SkipText
  <2>1. Line.mark # ":"
    BY <1>8 DEF SkipBlank, SkipText
  <2>2. ~IsRecord(Line, {"data"}) /\ ~IsRecord(Line, {"segment", "linear"})
        /\ ~IsRecord(Line, {"eof"})
    BY <2>1 DEF IsRecord
  <2>3. UNCHANGED <<parsed, current, extended, eofSeen, recordSeen>>
    BY <1>8 DEF SkipBlank, SkipText, ihexVars
  <2>4. IntelGathers(text, scale, pos + 1, parsed', current')
    BY <1>2, <1>6, <2>2, <2>3, GatherNothing
  <2>5. QED
    BY <1>1, <1>3, <1>4, <1>5, <1>6, <1>7, <2>1, <2>2, <2>3, <2>4, ReadingOn
<1>9. CASE TakeEof \/ SkipStartAddress
  <2>1. IsRecord(Line, {"eof", "start"})
    BY <1>9 DEF TakeEof, SkipStartAddress, Take, IsRecord
  <2>2. ~IsRecord(Line, {"data"}) /\ ~IsRecord(Line, {"segment", "linear"})
        /\ Line.mark = ":"
    BY <2>1 DEF IsRecord
  <2>3. /\ UNCHANGED <<parsed, current, extended>> /\ recordSeen'
        /\ eofSeen' <=> eofSeen \/ IsRecord(Line, {"eof"})
    BY <1>9 DEF TakeEof, SkipStartAddress, Take, IsRecord
  <2>4. IntelGathers(text, scale, pos + 1, parsed', current')
    BY <1>2, <1>6, <2>2, <2>3, GatherNothing
  <2>5. QED
    BY <1>1, <1>3, <1>4, <1>5, <1>6, <1>7, <2>2, <2>3, <2>4, ReadingOn
<1>10. CASE SetExtended
  <2>1. IsRecord(Line, {"segment", "linear"}) /\ Line.mark = ":"
    BY <1>10 DEF SetExtended, Take, IsRecord
  <2>2. ~IsRecord(Line, {"data"}) /\ ~IsRecord(Line, {"eof"})
    BY <2>1 DEF IsRecord
  <2>3. /\ parsed' = Gathered(parsed, current) /\ current' = None
        /\ eofSeen' = eofSeen /\ recordSeen' /\ extended' = BaseOf(Line)
    BY <1>10 DEF SetExtended, Take, PushCurrent, Gathered
  <2>4. IntelGathers(text, scale, pos + 1, parsed', current')
    BY <1>2, <1>6, <2>2, <2>3, GatherNothing
  <2>5. extended' = BaseAfter(text, pos + 1)
    BY <1>7, <2>1, <2>3 DEF BaseOf, IsRecord
  <2>6. QED
    BY <1>1, <1>3, <1>4, <1>5, <2>1, <2>2, <2>3, <2>4, <2>5, ReadingOn
<1>11. CASE ExtendCurrent \/ OpenSegment
  <2> DEFINE s == IntelRecord(text, scale, pos + 1)
  <2>1. IsRecord(Line, {"data"}) /\ Line.mark = ":"
    BY <1>11 DEF ExtendCurrent, OpenSegment, Take, IsRecord
  <2>2. ~IsRecord(Line, {"eof"}) /\ ~IsRecord(Line, {"segment", "linear"})
    BY <2>1 DEF IsRecord
  <2>3. UNCHANGED <<extended, eofSeen>> /\ recordSeen'
    BY <1>11 DEF ExtendCurrent, OpenSegment, Take
  <2>4. Loose(s)
    BY <1>2, <1>5, <2>1 DEF IntelGood, IsRecord
  <2>5. s = [start |-> FullAddress(Line), data |-> Line.data]
        /\ s.start = FullAddress(Line) /\ s.data = Line.data
    <3>1. (pos + 1) - 1 = pos
      BY <1>2
    <3>2. QED
      BY <1>2, <1>6, <3>1 DEF IntelRecord, FullAddress
  <2>6. IntelGathers(text, scale, pos + 1, parsed', current')
    <3>1. CASE ExtendCurrent
      <4>1. /\ current # None /\ EndAddress(current) < MaxAddr
            /\ s.start = EndAddress(current) + 1
            /\ current' = [current EXCEPT !.data = @ \o s.data]
            /\ parsed' = parsed
        BY <2>5, <3>1 DEF ExtendCurrent, Continues
      <4>2. QED
        <5> HIDE DEF s
        <5> QED
          BY <1>2, <1>6, <2>1, <2>4, <4>1, GatherMore DEF s
    <3>2. CASE OpenSegment
      <4>1. current' = s /\ parsed' = Gathered(parsed, current)
        BY <2>5, <3>2 DEF OpenSegment, PushCurrent, Gathered
      <4>2. QED
        BY <1>2, <1>6, <2>1, <2>4, <4>1, GatherRecord
    <3>3. QED
      BY <1>11, <3>1, <3>2
  <2>7. QED
    BY <1>1, <1>3, <1>4, <1>5, <1>6, <1>7, <2>1, <2>2, <2>3, <2>6, ReadingOn
<1>12. QED
  BY <1>1, <1>3, <1>5, <1>8, <1>9, <1>10, <1>11

\* No record after the first n lines: the bytes are those of the whole text.
LEMMA IntelEnd ==
  ASSUME TypeOK, ReadingIntel, pos = Len(text)
  PROVE  /\ eofSeen <=> IntelWhole(text, scale)
         /\ eofSeen => pos > 0
         /\ NonEmpty(PushCurrent) \in ListType /\ AllInSpace(NonEmpty(PushCurrent))
         /\ (\A e \in IntelLines(text, Len(text)) : text[e].data # <<>>) =>
              \A a \in Addr, b \in Byte :
                ReadsAs(NonEmpty(PushCurrent), a, b)
                  <=> IntelSays(text, scale, Len(text), a, b)
<1> DEFINE list == Gathered(parsed, current)
<1>1. PushCurrent = list
  BY DEF PushCurrent, Gathered
<1>2. /\ IntelKnows(text, scale, pos, extended, eofSeen, recordSeen)
      /\ IntelGathers(text, scale, pos, parsed, current)
      /\ pos \in Nat
  BY DEF ReadingIntel, TypeOK
<1>3. eofSeen <=> IntelWhole(text, scale)
  BY <1>2 DEF IntelKnows, IntelWhole, NoneBefore
<1>4. eofSeen => pos > 0
  BY <1>2 DEF IntelKnows, NoneBefore
<1>5. list \in Seq(SegRecord) /\ \A m \in 1..Len(list) : Loose(list[m])
  <2>1. CASE current = None
    BY <1>2, <2>1 DEF IntelGathers, Gathered
  <2>2. CASE current # None
    BY <1>2, <2>2, AppendLoose DEF IntelGathers, Gathered
  <2>3. QED
    BY <2>1, <2>2
<1>6. NonEmpty(list) \in ListType /\ AllInSpace(NonEmpty(list))
  <2> DEFINE S == {s \in ToSet(list) : ~IsEmpty(s)}
  <2>1. /\ Keep(list, S) \in Seq(SegRecord)
        /\ \A y : IsIn(Keep(list, S), y) <=> IsIn(list, y) /\ y \in S
    <3> HIDE DEF S, list
    <3> QED
      BY <1>5, KeepElements
  <2>2. NonEmpty(list) = Keep(list, S)
    BY DEF NonEmpty
  <2>3. ASSUME NEW m \in 1..Len(NonEmpty(list))
        PROVE  InSpace(NonEmpty(list)[m])
    <3> DEFINE y == NonEmpty(list)[m]
    <3>1. IsIn(NonEmpty(list), y)
      BY DEF IsIn
    <3>2. IsIn(list, y) /\ ~IsEmpty(y)
      BY <2>1, <2>2, <3>1
    <3>3. Loose(y)
      BY <1>5, <3>2 DEF IsIn
    <3>4. Len(y.data) \in Nat /\ Len(y.data) # 0
      BY <3>2, <3>3, LenProperties DEF IsEmpty, Loose, SegRecord
    <3>5. QED
      BY <3>3, <3>4 DEF Loose, InSpace, SegRecord
  <2>4. QED
    BY <2>1, <2>2, <2>3 DEF AllInSpace, ListType, SegRecord
<1>7. ASSUME \A e \in IntelLines(text, Len(text)) : text[e].data # <<>>
      PROVE  \A a \in Addr, b \in Byte :
               ReadsAs(NonEmpty(list), a, b) <=> IntelSays(text, scale, Len(text), a, b)
  <2>1. /\ AllInSpace(list)
        /\ \A a \in Addr, b \in Byte : ReadsAs(list, a, b) <=> IntelSays(text, scale, pos, a, b)
    BY <1>2, <1>7 DEF IntelGathers
  <2>2. list \in ListType
    BY <1>5 DEF ListType, SegRecord
  <2>3. NonEmpty(list) = list
    <3> HIDE DEF list
    <3> QED
      BY <2>1, <2>2, NonEmptyKeeps
  <2>4. QED
    BY <2>1, <2>3
<1>8. QED
  BY <1>1, <1>3, <1>4, <1>6, <1>7

-----------------------------------------------------------------------------
(* Texts that were written *)

LEMMA ReadsBack ==
  ASSUME NEW list \in ListType, AllInSpace(list), NEW w \in ListType, AllInSpace(w),
         Separated(w), \A a \in Addr, b \in Byte : ReadsAs(list, a, b) <=> Holds(w, a, b)
  PROVE  Normalized(list) = w
<1>1. /\ Normalized(list) \in ListType /\ AllInSpace(Normalized(list))
      /\ Separated(Normalized(list))
      /\ \A a \in Int : \A b : Holds(Normalized(list), a, b) <=> LastWins(list, Len(list), a, b)
  BY NormalizedReads
<1>2. \A a \in Addr, b \in Byte : Holds(Normalized(list), a, b) <=> Holds(w, a, b)
  BY <1>1 DEF ReadsAs, Addr
<1>3. QED
  BY <1>1, <1>2, CanonicalUnique

\* detect_format tells the two formats apart.
LEMMA DetectsFormat ==
  ASSUME NEW t \in Seq(TextLine), Len(t) > 0, NEW mark \in {":", "S"},
         \A k \in 1..Len(t) : t[k].mark = mark
  PROVE  DetectFormat(t) = mark
<1> DEFINE K == {l \in ToSet(t) : l.mark # "blank"}
           looked == 1..Min({Len(t), DetectLines})
           first == { k \in looked : \/ t[k].mark \in {"binary", ":"}
                                     \/ t[k].mark = "S" /\ k = 1 }
<1>1. Keep(t, K) = t
  <2>1. \A k \in 1..Len(t) : t[k] \in K
    BY LinesOf DEF ToSet
  <2>2. QED
    <3> HIDE DEF K
    <3> QED
      BY <2>1, KeepAll
<1>2. Len(t) \in Nat /\ DetectLines \in Nat \ {0}
  BY LenProperties, FormatAssumption
<1>3. looked \subseteq 1..Len(t) /\ 1 \in looked
  BY <1>2, MinOfTwo
<1>4. first # {} /\ first \subseteq Int /\ \A k \in first : 1 <= k
  BY <1>3
<1>5. Min(first) \in first
  <2> HIDE DEF first
  <2> QED
    BY <1>4, MinOf
<1>6. t[Min(first)].mark = mark
  BY <1>3, <1>5
<1>7. QED
  BY <1>1, <1>4, <1>6 DEF DetectFormat

\* What write_intel_hex leaves is read without an error.
LEMMA IntelWrittenIsWhole ==
  ASSUME text \in Seq(TextLine), IntelWritten
  PROVE  /\ IntelWhole(text, 1)
         /\ \A k \in 1..Len(text) : text[k].mark = ":"
         /\ DetectFormat(text) = ":"
         /\ \A e \in IntelLines(text, Len(text)) : text[e].data # <<>>
<1>1. Len(text) \in Nat /\ Len(text) > 0 /\ \A k \in 1..Len(text) : text[k] \in TextLine
  BY LinesOf DEF IntelWritten
<1>2. \A k \in 1..Len(text) : k \in 1..(Len(text) - 1) \/ k = Len(text)
  BY <1>1
<1>3. \A k \in 1..(Len(text) - 1) :
        /\ text[k].mark = ":" /\ text[k].type \in {"segment", "linear", "data"}
        /\ ~IsRecord(text[k], {"eof"})
  BY DEF IntelWritten, IntelLine, IsRecord
<1>4. ASSUME NEW k \in 1..Len(text)
      PROVE  text[k].mark = ":" /\ IntelGood(text, 1, k)
  <2>1. NoneBefore(text, k - 1, {"eof"})
    BY <1>1, <1>3 DEF NoneBefore
  <2>2. CASE k = Len(text)
    BY <2>1, <2>2 DEF IntelWritten, IntelGood, IsRecord
  <2>3. CASE k \in 1..(Len(text) - 1)
    <3>1. IntelLine(text[k], written.options)
      BY <2>3 DEF IntelWritten
    <3>2. CASE IsRecord(text[k], {"segment", "linear"}) /\ text[k].field \in Nat
      BY <2>1, <3>2, NoneAssumption DEF IntelGood, IsRecord
    <3>3. CASE IsRecord(text[k], {"data"})
      <4>1. InSpace(IntelRecord(text, 1, k))
        BY <3>3 DEF IntelWritten, LinesInSpace, IntelLines
      <4>2. Loose(IntelRecord(text, 1, k))
        BY <4>1 DEF InSpace, Loose, SegRecord
      <4>3. QED
        BY <2>1, <3>3, <4>2 DEF IntelGood, IsRecord
    <3>4. QED
      BY <3>1, <3>2, <3>3 DEF IntelLine
  <2>4. QED
    BY <1>2, <2>2, <2>3
<1>5. IntelWhole(text, 1)
  BY <1>1, <1>4 DEF IntelWhole, IntelWritten
<1>6. DetectFormat(text) = ":"
  BY <1>1, <1>4, DetectsFormat
<1>7. ASSUME NEW e \in IntelLines(text, Len(text))
      PROVE  text[e].data # <<>>
  <2>1. e \in 1..Len(text) /\ IsRecord(text[e], {"data"})
    BY DEF IntelLines
  <2>2. InSpace(IntelRecord(text, 1, e))
    BY DEF IntelWritten, LinesInSpace
  <2>3. Len(text[e].data) > 0
    BY <2>2 DEF InSpace, IntelRecord
  <2>4. QED
    BY <2>3, EmptySeq
<1>8. QED
  BY <1>4, <1>5, <1>6, <1>7

\* What write_srec leaves is read without an error, when its counts are right.
LEMMA SRecWrittenIsWhole ==
  ASSUME text \in Seq(TextLine), SRecWritten
  PROVE  /\ CountsFit => SRecWhole(text)
         /\ DetectFormat(text) = "S"
<1>1. Len(text) \in Nat /\ Len(text) > 0 /\ \A k \in 1..Len(text) : text[k] \in TextLine
  BY LinesOf DEF SRecWritten
<1>2. \A k \in 1..Len(text) : k \in 1..(Len(text) - 1) \/ k = Len(text)
  BY <1>1
<1>3. \A k \in 1..Len(text) : text[k].mark = "S"
  BY <1>2 DEF SRecWritten, SRecLine
<1>4. DetectFormat(text) = "S"
  BY <1>1, <1>3, DetectsFormat
<1>5. ASSUME CountsFit, NEW k \in 1..Len(text)
      PROVE  SRecGood(text, k)
  <2>1. CASE k = Len(text)
    <3>1. text[k].mark = "S" /\ text[k].type = "other"
      BY <2>1 DEF SRecWritten
    <3>2. QED
      BY <3>1 DEF SRecGood, SRecRejected, IsDataRecord, SRecTypes
  <2>2. CASE k \in 1..(Len(text) - 1)
    <3> DEFINE l == text[k]
               p == SRecPerLineOf(written.options)
               w == AddrLen(l.type)
               q == Len(l.data)
    <3>1. SRecLine(l, written.options)
      BY <2>2 DEF SRecWritten
    <3>2. l.mark = "S" /\ l.type \in SRecTypes /\ IsDataRecord(l)
      BY <3>1 DEF SRecLine, IsDataRecord
    <3>3. w + p + 1 < ByteRange
      BY <1>5, <3>2 DEF CountsFit, LineFits, SRecWritten
    <3>4. w \in Nat /\ p \in Nat /\ q \in 1..p
      <4>1. written.options.perLine \in 0..(ByteRange - 1)
        BY CountAssumption DEF SRecWritten
      <4>2. p \in Nat
        BY <4>1, CountAssumption DEF SRecPerLineOf
      <4>3. QED
        BY <3>1, <3>2, <4>2 DEF SRecLine, AddrLen, SRecTypes
    <3>5. (w + q + 1) % ByteRange = w + q + 1
      <4>1. ByteRange \in Nat /\ w + q + 1 \in Nat /\ w + q + 1 < ByteRange
        <5> HIDE DEF w, p, q
        <5> QED
          BY <3>3, <3>4, CountAssumption, MaxAddrAssumption
      <4>2. QED
        BY <4>1, SmallRemainder
    <3>6. ~CountIsWrong(l)
      BY <3>1, <3>5 DEF CountIsWrong, SRecLine
    <3>7. ~(l.addr + q - 1 > MaxAddr)
      <4>1. l.addr \in Int /\ q \in Int /\ MaxAddr \in Int /\ l.addr + q - 1 <= MaxAddr
        <5>1. l.addr \in Addr
          BY <1>1, <3>2, LineFacts
        <5>2. QED
          BY <3>1, <3>4, <5>1, MaxAddrAssumption DEF SRecLine, Addr
      <4>2. QED
        BY <4>1
    <3>8. l.type \notin {"broken", "unknown"}
      BY <3>2 DEF SRecTypes
    <3>9. QED
      BY <3>2, <3>6, <3>7, <3>8 DEF SRecGood, SRecRejected
  <2>3. QED
    BY <1>2, <2>1, <2>2
<1>6. QED
  BY <1>4, <1>5 DEF SRecWhole

-----------------------------------------------------------------------------
(* Whole files *)

LEMMA WholeIntel ==
  ASSUME TypeOK
  PROVE  WholeIntelHex <=> IntelWhole(text, scale)
<1>1. /\ text \in Seq(TextLine) /\ Len(text) \in Nat /\ DOMAIN text = 1..Len(text)
      /\ \A k \in 1..Len(text) : text[k] \in TextLine
  BY LinesOf DEF TypeOK
<1>2. ASSUME NEW k \in 1..Len(text)
      PROVE  k \in DataLines(Len(text)) /\ RecordAt(k).start \in Addr
                  /\ FitsAt(RecordAt(k).start, Len(text[k].data))
               <=> IsRecord(text[k], {"data"}) /\ Loose(IntelRecord(text, scale, k))
  <2> DEFINE s == IntelRecord(text, scale, k)
             len == Len(text[k].data)
  <2>1. RecordAt(k) = s
    <3>1. BaseAt(k) = BaseAfter(text, k - 1)
      BY DEF BaseAt, BaseAfter, ExtendedIn
    <3>2. QED
      BY <3>1 DEF RecordAt, IntelRecord
  <2>2. k \in DataLines(Len(text)) <=> IsRecord(text[k], {"data"})
    BY DEF DataLines
  <2>3. ASSUME IsRecord(text[k], {"data"})
        PROVE  Loose(s) <=> s.start \in Addr /\ FitsAt(s.start, len)
    <3>1. text[k].data \in Seq(Byte) /\ len \in 0..(ByteRange - 1)
      BY <1>1, <2>3, LineFacts
    <3>2. len \in Nat /\ len <= MaxAddr
      BY <3>1, CountAssumption, MaxAddrAssumption
    <3>3. Loose(s) <=> s.start \in Addr /\ (len > 0 => s.start + len - 1 <= MaxAddr)
      BY <3>1 DEF Loose, SegRecord, IntelRecord
    <3>4. QED
      <4> HIDE DEF s, len
      <4> QED
        BY <3>2, <3>3 DEF FitsAt
  <2>4. QED
    BY <2>1, <2>2, <2>3
<1>3. ASSUME WholeIntelHex
      PROVE  IntelWhole(text, scale)
  <2>1. PICK e \in 1..Len(text) :
          /\ IsRecord(text[e], {"eof"})
          /\ \A k \in (1..Len(text)) \ {e} :
               \/ text[k].mark = "blank"
               \/ /\ k < e
                  /\ \/ IsRecord(text[k], {"start"})
                     \/ IsRecord(text[k], {"segment", "linear"}) /\ text[k].field # None
                     \/ /\ k \in DataLines(Len(text)) /\ RecordAt(k).start \in Addr
                        /\ FitsAt(RecordAt(k).start, Len(text[k].data))
                     \/ /\ text[k].mark \in {"text", "S"}
                        /\ \A m \in 1..k : text[m].mark # ":"
    BY <1>1, <1>3 DEF WholeIntelHex
  <2>2. ASSUME NEW k \in 1..Len(text), k # e
        PROVE  ~IsRecord(text[k], {"eof"})
    BY <1>2, <2>1, <2>2 DEF IsRecord
  <2>3. ASSUME NEW k \in 1..Len(text), k <= e
        PROVE  NoneBefore(text, k - 1, {"eof"})
    <3>1. \A m \in 1..(k - 1) : m \in 1..Len(text) /\ m # e
      BY <1>1, <2>3
    <3>2. QED
      BY <2>2, <3>1 DEF NoneBefore
  <2>4. ASSUME NEW k \in 1..Len(text)
        PROVE  IntelGood(text, scale, k)
    <3>1. CASE k = e
      BY <2>1, <2>3, <3>1 DEF IntelGood, IsRecord
    <3>2. CASE k # e /\ text[k].mark = "blank"
      BY <3>2 DEF IntelGood
    <3>3. CASE k # e /\ text[k].mark # "blank"
      <4>1. NoneBefore(text, k - 1, {"eof"})
        BY <2>1, <2>3, <3>3
      <4>2. \/ IsRecord(text[k], {"start"})
            \/ IsRecord(text[k], {"segment", "linear"}) /\ text[k].field # None
            \/ IsRecord(text[k], {"data"}) /\ Loose(IntelRecord(text, scale, k))
            \/ text[k].mark \in {"text", "S"} /\ \A m \in 1..k : text[m].mark # ":"
        BY <1>2, <2>1, <3>3
      <4>3. QED
        BY <4>1, <4>2 DEF IntelGood, IsRecord
    <3>4. QED
      BY <3>1, <3>2, <3>3
  <2>5. QED
    BY <2>1, <2>4 DEF IntelWhole
<1>4. ASSUME IntelWhole(text, scale)
      PROVE  WholeIntelHex
  <2>1. PICK e \in 1..Len(text) : IsRecord(text[e], {"eof"})
    BY <1>4 DEF IntelWhole
  <2>2. \A k \in 1..Len(text) : IntelGood(text, scale, k)
    BY <1>4 DEF IntelWhole
  <2>3. ASSUME NEW k \in (1..Len(text)) \ {e}
        PROVE  \/ text[k].mark = "blank"
               \/ /\ k < e
                  /\ \/ IsRecord(text[k], {"start"})
                     \/ IsRecord(text[k], {"segment", "linear"}) /\ text[k].field # None
                     \/ /\ k \in DataLines(Len(text)) /\ RecordAt(k).start \in Addr
                        /\ FitsAt(RecordAt(k).start, Len(text[k].data))
                     \/ /\ text[k].mark \in {"text", "S"}
                        /\ \A m \in 1..k : text[m].mark # ":"
    <3>1. CASE text[k].mark # "blank"
      <4>1. NoneBefore(text, k - 1, {"eof"})
        BY <2>2, <3>1 DEF IntelGood
      <4>2. ~(e < k)
        <5>1. SUFFICES ASSUME e < k
                       PROVE  FALSE
          OBVIOUS
        <5>2. e \in 1..(k - 1)
          BY <1>1, <5>1
        <5>3. QED
          BY <2>1, <4>1, <5>2 DEF NoneBefore
      <4>3. k < e /\ k \in 1..(e - 1)
        BY <1>1, <4>2
      <4>4. NoneBefore(text, e - 1, {"eof"})
        BY <2>1, <2>2 DEF IntelGood, IsRecord
      <4>5. ~IsRecord(text[k], {"eof"})
        BY <4>3, <4>4 DEF NoneBefore
      <4>6. \/ IsRecord(text[k], {"start"})
            \/ IsRecord(text[k], {"segment", "linear"}) /\ text[k].field # None
            \/ IsRecord(text[k], {"data"}) /\ Loose(IntelRecord(text, scale, k))
            \/ text[k].mark \in {"text", "S"} /\ \A m \in 1..k : text[m].mark # ":"
        BY <2>2, <3>1, <4>5 DEF IntelGood, IsRecord
      <4>7. QED
        BY <1>2, <4>3, <4>6
    <3>2. QED
      BY <3>1
  <2>4. QED
    BY <1>1, <2>1, <2>3 DEF WholeIntelHex
<1>5. QED
  BY <1>3, <1>4

LEMMA WholeSRecord ==
  ASSUME TypeOK
  PROVE  WholeSRec <=> SRecWhole(text)
<1>1. /\ text \in Seq(TextLine) /\ Len(text) \in Nat /\ DOMAIN text = 1..Len(text)
      /\ \A k \in 1..Len(text) : text[k] \in TextLine
  BY LinesOf DEF TypeOK
<1>2. ASSUME NEW k \in 1..Len(text), IsDataRecord(text[k])
      PROVE  FitsAt(text[k].addr, Len(text[k].data))
               <=> ~(text[k].addr + Len(text[k].data) - 1 > MaxAddr)
  <2>1. text[k].addr \in Addr /\ Len(text[k].data) \in 0..(ByteRange - 1)
    BY <1>1, <1>2, LineFacts
  <2>2. ByteRange - 1 <= MaxAddr /\ ByteRange \in Int
    BY CountAssumption, MaxAddrAssumption
  <2>3. QED
    BY <2>1, <2>2, MaxAddrAssumption DEF FitsAt, Addr
<1>3. QED
  BY <1>1, <1>2 DEF WholeSRec, SRecWhole, SRecGood, SRecRejected

-----------------------------------------------------------------------------
(* parse_srec as a step of the specification *)

LEMMA SRecReaderReads ==
  ASSUME TypeOK, ReadingSRec, phase = "read_srec", SkipSRecLine \/ TakeSRecord
  PROVE  /\ ReadingSRec' /\ phase' = "read_srec" /\ SRecGood(text, pos + 1)
         /\ pos < Len(text) /\ pos' = pos + 1
         /\ UNCHANGED <<fileVars, writeVars>>
<1>1. pos < Len(text)
  BY DEF SkipSRecLine, TakeSRecord, Reading
<1>2. /\ pos \in 0..(Len(text) - 1) /\ pos \in Nat /\ Line = text[pos + 1]
      /\ Line \in TextLine /\ text \in Seq(TextLine)
  BY <1>1, TheLine
<1>3. pos' = pos + 1 /\ phase' = phase /\ UNCHANGED <<fileVars, writeVars>>
  BY DEF SkipSRecLine, TakeSRecord, Consume
<1>4. text' = text
  BY <1>3 DEF fileVars
<1>5. SRecGood(text, pos + 1)
  <2>1. CASE SkipSRecLine
    BY <1>2, <2>1 DEF SkipSRecLine, SRecGood, SRecRejected, IsDataRecord, SRecTypes
  <2>2. CASE TakeSRecord
    BY <1>2, <2>2 DEF TakeSRecord, SRecGood
  <2>3. QED
    BY <2>1, <2>2
<1>6. \A m \in 1..(pos + 1) : SRecGood(text, m)
  <2>1. \A m \in 1..(pos + 1) : m \in 1..pos \/ m = pos + 1
    BY <1>2
  <2>2. QED
    BY <1>5, <2>1 DEF ReadingSRec
<1>7. /\ text # <<>> /\ parsed \in ListType /\ AllInSpace(parsed)
      /\ \A a \in Addr, b \in Byte : ReadsAs(parsed, a, b) <=> SRecSays(text, pos, a, b)
  BY DEF ReadingSRec
<1>8. /\ parsed' \in ListType /\ AllInSpace(parsed')
      /\ \A a \in Addr, b \in Byte :
           ReadsAs(parsed', a, b) <=> SRecSays(text, pos + 1, a, b)
  <2>1. CASE SkipSRecLine
    <3>1. ~IsDataRecord(text[pos + 1]) /\ parsed' = parsed
      BY <1>2, <2>1 DEF SkipSRecLine, IsDataRecord, SRecTypes
    <3>2. QED
      BY <1>2, <1>7, <3>1, SRecSaysStep
  <2>2. CASE TakeSRecord
    <3> DEFINE s == SRecRecord(text, pos + 1)
    <3>1. IsDataRecord(text[pos + 1])
      BY <1>2, <2>2 DEF TakeSRecord
    <3>2. parsed' = parsed \o NonEmpty(<<s>>)
      BY <1>2, <2>2 DEF TakeSRecord, SRecRecord
    <3>3. s \in SegRecord /\ s.start = Line.addr /\ s.data = Line.data
          /\ Len(s.data) \in Nat
      <4>1. Line.addr \in Addr /\ Line.data \in Seq(Byte)
        BY <1>2, <3>1, LineFacts
      <4>2. QED
        BY <1>2, <4>1, LenProperties DEF SRecRecord, SegRecord
    <3>4. /\ <<s>> \in Seq(SegRecord) /\ Len(<<s>>) = 1 /\ <<s>>[1] = s
      BY <3>3
    <3>5. parsed \in Seq(SegRecord)
      BY <1>7 DEF ListType, SegRecord
    <3>6. \A a, b : SRecSays(text, pos + 1, a, b)
                      <=> Has(s, a, b) \/ (~Covers(s, a) /\ SRecSays(text, pos, a, b))
      BY <1>2, <3>1, SRecSaysStep
    <3>7. CASE Len(s.data) = 0
      <4>1. NonEmpty(<<s>>) = <<>>
        <5>1. s \notin {x \in ToSet(<<s>>) : ~IsEmpty(x)}
          BY <3>7 DEF IsEmpty
        <5>2. \A k \in 1..Len(<<s>>) : <<s>>[k] \notin {x \in ToSet(<<s>>) : ~IsEmpty(x)}
          BY <3>4, <5>1
        <5>3. QED
          <6> HIDE DEF s
          <6> QED
            BY <3>4, <5>2, KeepNone DEF NonEmpty
      <4>2. parsed' = parsed
        <5> HIDE DEF s
        <5> QED
          BY <3>2, <3>5, <4>1, ConcatEmptySeq
      <4>3. \A a \in Addr : \A b : ~Covers(s, a) /\ ~Has(s, a, b)
        <5>1. s.start \in Int
          BY <3>3 DEF SegRecord, Addr
        <5>2. QED
          <6> HIDE DEF s
          <6> QED
            BY <3>7, <5>1 DEF Covers, Has, Addr
      <4>4. QED
        <5> HIDE DEF s
        <5> QED
          BY <1>7, <3>6, <4>2, <4>3
    <3>8. CASE Len(s.data) # 0
      <4>1. InSpace(s)
        <5>1. ~SRecRejected(Line)
          BY <2>2 DEF TakeSRecord
        <5>2. ~(s.start + Len(s.data) - 1 > MaxAddr)
          BY <1>2, <3>1, <3>3, <5>1 DEF SRecRejected
        <5>3. s.start \in Int /\ MaxAddr \in Int
          BY <3>3, MaxAddrAssumption DEF SegRecord, Addr
        <5>4. QED
          <6> HIDE DEF s
          <6> QED
            BY <3>3, <3>8, <5>2, <5>3 DEF InSpace, SegRecord
      <4>2. <<s>> \in ListType /\ AllInSpace(<<s>>)
        <5> HIDE DEF s
        <5> QED
          BY <3>4, <4>1 DEF AllInSpace, ListType, SegRecord
      <4>3. NonEmpty(<<s>>) = <<s>>
        <5> HIDE DEF s
        <5> QED
          BY <4>2, NonEmptyKeeps
      <4>4. parsed' = Append(parsed, s)
        <5> HIDE DEF s
        <5> QED
          BY <3>2, <3>3, <3>5, <4>3, AppendIsConcat
      <4>5. /\ Append(parsed, s) \in ListType /\ AllInSpace(Append(parsed, s))
        <5> HIDE DEF s
        <5> QED
          BY <1>7, <4>1, AppendList
      <4>6. \A a, b : ReadsAs(Append(parsed, s), a, b)
                        <=> Has(s, a, b) \/ (~Covers(s, a) /\ ReadsAs(parsed, a, b))
        <5> HIDE DEF s
        <5> QED
          BY <3>3, <3>5, LastHides
      <4>7. QED
        <5> HIDE DEF s
        <5> QED
          BY <1>7, <3>6, <4>4, <4>5, <4>6
    <3>9. QED
      BY <3>7, <3>8
  <2>3. QED
    BY <2>1, <2>2
<1>9. QED
  BY <1>1, <1>3, <1>4, <1>5, <1>6, <1>7, <1>8 DEF ReadingSRec

-----------------------------------------------------------------------------
(* The readers keep the invariant *)

\* Whether a text from elsewhere is whole, in the format it is read in.
IsWhole == IF IsIntelHex THEN IntelWhole(text, scale) ELSE SRecWhole(text)

LEMMA SameText ==
  ASSUME text' = text, written' = written
  PROVE  /\ Foreign' <=> Foreign
         /\ Encodable' <=> Encodable
         /\ CountsFit' <=> CountsFit
         /\ IntelWritten' <=> IntelWritten
         /\ SRecWritten' <=> SRecWritten
         /\ scale' = scale => /\ IsIntelHex' <=> IsIntelHex
                              /\ IsWhole' <=> IsWhole
<1>1. Foreign' <=> Foreign
  BY DEF Foreign
<1>2. Encodable' <=> Encodable
  BY DEF Encodable
<1>3. CountsFit' <=> CountsFit
  BY DEF CountsFit
<1>4. (IntelWritten' <=> IntelWritten) /\ (SRecWritten' <=> SRecWritten)
  BY DEF IntelWritten, SRecWritten
<1>5. ASSUME scale' = scale
      PROVE  (IsIntelHex' <=> IsIntelHex) /\ (IsWhole' <=> IsWhole)
  BY <1>5 DEF IsIntelHex, IsWhole
<1>6. QED
  BY <1>1, <1>2, <1>3, <1>4, <1>5

\* A line more of the same text.
LEMMA ReadsOn ==
  ASSUME IInv, phase \in {"read_ihex", "read_srec"}, phase' = phase,
         text' = text, segments' = segments, scale' = scale, written' = written,
         pos' \in 0..Len(text),
         phase = "read_ihex" => ReadingIntel', phase = "read_srec" => ReadingSRec'
  PROVE  IInv'
<1>1. TypeOK'
  BY DEF IInv, TypeOK
<1>2. ForeignRead'
  BY SameText DEF IInv, ReadInv, ForeignRead, IsWhole
<1>3. WrittenInv'
  <2>1. written # NoFile => Rereading'
    BY SameText DEF IInv, WrittenInv, Rereading, ReadBack
  <2>2. QED
    BY <2>1 DEF IInv, WrittenInv
<1>4. WriterInv'
  BY DEF WriterInv
<1>5. QED
  BY <1>1, <1>2, <1>3, <1>4 DEF IInv, ReadInv

\* The Err of a parser, or the HexFile it returns.
LEMMA ReadEnds ==
  ASSUME IInv, phase \in {"read_ihex", "read_srec"}, phase' \in {"idle", "read_error"},
         text' = text, scale' = scale, written' = written, pos' = pos,
         segments' \in ListType, AllInSpace(segments'),
         Foreign => IF phase' = "idle" THEN pos > 0 /\ IsWhole ELSE ~IsWhole,
         written # NoFile /\ CountsFit =>
           phase' = "idle" /\ Normalized(segments') = written.list
  PROVE  IInv'
<1>1. TypeOK'
  BY DEF IInv, TypeOK, Phases
<1>2. ForeignRead'
  BY SameText DEF IInv, ReadInv, ForeignRead, IsWhole
<1>3. WrittenInv'
  <2>1. ASSUME written # NoFile
        PROVE  Rereading'
    <3>1. Rereading
      BY <2>1 DEF IInv, WrittenInv
    <3>2. QED
      BY <2>1, <3>1, SameText DEF Rereading, ReadBack
  <2>2. QED
    BY <2>1 DEF IInv, WrittenInv
<1>4. WriterInv'
  BY DEF WriterInv
<1>5. QED
  BY <1>1, <1>2, <1>3, <1>4 DEF IInv, ReadInv

LEMMA IntelReaderStep ==
  ASSUME IInv, IntelReaderNext, UNCHANGED <<emittedVars, written>>
  PROVE  IInv'
<1>1. phase = "read_ihex" /\ written' = written
  BY DEF IntelReaderNext, SkipBlank, RejectLine, SkipText, ExtendCurrent, OpenSegment,
         SetExtended, TakeEof, SkipStartAddress, EndOfText, Take, Turn, Reading
<1>2. TypeOK /\ ReadingIntel /\ (Foreign => IsIntelHex)
  BY <1>1 DEF IInv, ReadInv, ForeignRead
<1>3. written # NoFile => IntelWritten /\ scale = 1
                          /\ written.list \in ListType /\ AllInSpace(written.list)
                          /\ Separated(written.list)
  BY <1>1 DEF IInv, WrittenInv, Rereading
<1>4. written # NoFile => IntelWhole(text, scale)
        /\ \A e \in IntelLines(text, Len(text)) : text[e].data # <<>>
  BY <1>2, <1>3, IntelWrittenIsWhole DEF TypeOK
<1>5. segments \in ListType /\ AllInSpace(segments)
  BY <1>2 DEF TypeOK
<1>6. CASE SkipBlank \/ SkipText \/ ExtendCurrent \/ OpenSegment \/ SetExtended
             \/ TakeEof \/ SkipStartAddress
  <2>1. /\ ReadingIntel' /\ phase' = "read_ihex" /\ pos < Len(text) /\ pos' = pos + 1
        /\ UNCHANGED <<fileVars, writeVars, scale>>
    BY <1>1, <1>2, <1>6, IntelReaderReads
  <2>2. pos' \in 0..Len(text)
    BY <1>2, <2>1, TheLine
  <2>3. QED
    BY <1>1, <2>1, <2>2, ReadsOn DEF fileVars
<1>7. CASE RejectLine
  <2>1. /\ phase' = "read_error" /\ text' = text /\ segments' = segments
        /\ pos' = pos /\ scale' = scale
        /\ Turn /\ Rejected(Line)
    BY <1>7 DEF RejectLine, fileVars, readVars, ihexVars
  <2>2. pos + 1 \in 1..Len(text) /\ ~IntelGood(text, scale, pos + 1)
    BY <1>2, <2>1, RejectedIsBad, TheLine DEF Turn, Reading
  <2>3. ~IntelWhole(text, scale)
    BY <2>2 DEF IntelWhole
  <2>4. Foreign => ~IsWhole
    BY <1>2, <2>3 DEF IsWhole
  <2>5. QED
    BY <1>1, <1>4, <1>5, <2>1, <2>3, <2>4, ReadEnds
<1>8. CASE EndOfText
  <2>1. /\ pos = Len(text) /\ text' = text /\ pos' = pos /\ scale' = scale
        /\ IF eofSeen
             THEN phase' = "idle" /\ segments' = NonEmpty(PushCurrent)
             ELSE phase' = "read_error" /\ segments' = segments
    BY <1>8 DEF EndOfText, readVars, ihexVars
  <2>2. /\ eofSeen <=> IntelWhole(text, scale)
        /\ eofSeen => pos > 0
        /\ NonEmpty(PushCurrent) \in ListType /\ AllInSpace(NonEmpty(PushCurrent))
        /\ (\A e \in IntelLines(text, Len(text)) : text[e].data # <<>>) =>
             \A a \in Addr, b \in Byte :
               ReadsAs(NonEmpty(PushCurrent), a, b)
                 <=> IntelSays(text, scale, Len(text), a, b)
    BY <1>2, <2>1, IntelEnd
  <2>3. ASSUME written # NoFile
        PROVE  phase' = "idle" /\ Normalized(segments') = written.list
    <3>1. phase' = "idle" /\ segments' = NonEmpty(PushCurrent)
      BY <1>4, <2>1, <2>2, <2>3
    <3>2. \A a \in Addr, b \in Byte :
            ReadsAs(NonEmpty(PushCurrent), a, b) <=> Holds(written.list, a, b)
      BY <1>3, <1>4, <2>2, <2>3 DEF IntelWritten
    <3>3. Normalized(NonEmpty(PushCurrent)) = written.list
      BY <1>3, <2>2, <2>3, <3>2, ReadsBack
    <3>4. QED
      BY <3>1, <3>3
  <2>4. Foreign => IF phase' = "idle" THEN pos > 0 /\ IsWhole ELSE ~IsWhole
    BY <1>2, <2>1, <2>2 DEF IsWhole
  <2>5. segments' \in ListType /\ AllInSpace(segments')
    BY <1>5, <2>1, <2>2
  <2>6. phase' \in {"idle", "read_error"}
    BY <2>1
  <2>7. QED
    BY <1>1, <2>1, <2>3, <2>4, <2>5, <2>6, ReadEnds
<1>9. QED
  BY <1>6, <1>7, <1>8 DEF IntelReaderNext

LEMMA SRecReaderStep ==
  ASSUME IInv, SRecReaderNext, UNCHANGED <<ihexVars, emittedVars, written>>
  PROVE  IInv'
<1>1. phase = "read_srec" /\ written' = written /\ scale' = scale
  BY DEF SRecReaderNext, SkipSRecLine, RejectSRecLine, TakeSRecord, EndOfSRec, Reading,
         ihexVars
<1>2. TypeOK /\ ReadingSRec /\ (Foreign => ~IsIntelHex)
  BY <1>1 DEF IInv, ReadInv, ForeignRead
<1>3. written # NoFile => SRecWritten
                          /\ written.list \in ListType /\ AllInSpace(written.list)
                          /\ Separated(written.list)
  BY <1>1 DEF IInv, WrittenInv, Rereading
<1>4. written # NoFile /\ CountsFit => SRecWhole(text)
  BY <1>2, <1>3, SRecWrittenIsWhole DEF TypeOK
<1>5. segments \in ListType /\ AllInSpace(segments)
  BY <1>2 DEF TypeOK
<1>6. CASE SkipSRecLine \/ TakeSRecord
  <2>1. /\ ReadingSRec' /\ phase' = "read_srec" /\ pos < Len(text) /\ pos' = pos + 1
        /\ UNCHANGED <<fileVars, writeVars>>
    BY <1>1, <1>2, <1>6, SRecReaderReads
  <2>2. pos' \in 0..Len(text)
    BY <1>2, <2>1, TheLine
  <2>3. QED
    BY <1>1, <2>1, <2>2, ReadsOn DEF fileVars
<1>7. CASE RejectSRecLine
  <2>1. /\ phase' = "read_error" /\ text' = text /\ segments' = segments /\ pos' = pos
        /\ pos < Len(text) /\ Line.mark # "blank" /\ SRecRejected(Line)
    BY <1>7 DEF RejectSRecLine, Reading, fileVars, readVars
  <2>2. pos + 1 \in 1..Len(text) /\ ~SRecGood(text, pos + 1)
    BY <1>2, <2>1, TheLine DEF SRecGood
  <2>3. ~SRecWhole(text)
    BY <2>2 DEF SRecWhole
  <2>4. Foreign => ~IsWhole
    BY <1>2, <2>3 DEF IsWhole
  <2>5. QED
    BY <1>1, <1>4, <1>5, <2>1, <2>3, <2>4, ReadEnds
<1>8. CASE EndOfSRec
  <2>1. /\ pos = Len(text) /\ text' = text /\ pos' = pos
        /\ phase' = "idle" /\ segments' = parsed
    BY <1>8 DEF EndOfSRec, readVars
  <2>2. /\ text # <<>> /\ parsed \in ListType /\ AllInSpace(parsed) /\ SRecWhole(text)
        /\ \A a \in Addr, b \in Byte :
             ReadsAs(parsed, a, b) <=> SRecSays(text, Len(text), a, b)
    BY <1>2, <2>1 DEF ReadingSRec, SRecWhole
  <2>3. pos > 0
    BY <1>2, <2>1, <2>2, EmptySeq, LenProperties DEF TypeOK
  <2>4. ASSUME written # NoFile
        PROVE  Normalized(parsed) = written.list
    <3>1. \A a \in Addr, b \in Byte : ReadsAs(parsed, a, b) <=> Holds(written.list, a, b)
      BY <1>3, <2>2, <2>4 DEF SRecWritten
    <3>2. QED
      BY <1>3, <2>2, <2>4, <3>1, ReadsBack
  <2>5. Foreign => IsWhole
    BY <1>2, <2>2 DEF IsWhole
  <2>6. QED
    BY <1>1, <2>1, <2>2, <2>3, <2>4, <2>5, ReadEnds
<1>9. QED
  BY <1>6, <1>7, <1>8 DEF SRecReaderNext

-----------------------------------------------------------------------------
(* The functions that start *)

LEMMA StartsIntel ==
  ASSUME IInv, phase = "idle", NEW factor \in {1, 2}, StartReadIntel(factor),
         written' = written, factor = 2 \/ DetectFormat(text) = ":",
         written # NoFile => factor = 1 /\ IntelWritten
  PROVE  IInv'
<1>1. /\ text' = text /\ segments' = segments /\ pos' = 0 /\ parsed' = <<>>
      /\ scale' = factor /\ current' = None /\ extended' = 0
      /\ eofSeen' = FALSE /\ recordSeen' = FALSE
      /\ phase' = IF \E k \in DOMAIN text : text[k].mark = "binary"
                    THEN "read_error" ELSE "read_ihex"
  BY DEF StartReadIntel, fileVars
<1>2. TypeOK /\ DOMAIN text = 1..Len(text) /\ Len(text) \in Nat
  BY LinesOf DEF IInv, TypeOK
<1>3. TypeOK'
  BY <1>1, <1>2 DEF TypeOK, Phases
<1>4. phase' = "read_ihex" => ReadingIntel'
  <2>1. IntelKnows(text, factor, 0, 0, FALSE, FALSE)
    BY KnowsNothing
  <2>2. IntelGathers(text, factor, 0, <<>>, None)
    BY GatherFirst
  <2>3. QED
    BY <1>1, <1>2, <2>1, <2>2 DEF ReadingIntel
<1>5. IsIntelHex'
  BY <1>1 DEF IsIntelHex
<1>6. phase' = "read_error" => \E k \in 1..Len(text) : text[k].mark = "binary"
  BY <1>1, <1>2
<1>7. phase' = "read_error" => ~IntelWhole(text, factor)
  <2>1. ASSUME NEW k \in 1..Len(text), text[k].mark = "binary"
        PROVE  ~IntelGood(text, factor, k)
    BY <2>1 DEF IntelGood, IsRecord
  <2>2. QED
    BY <1>6, <2>1 DEF IntelWhole
<1>8. ForeignRead'
  BY <1>1, <1>5, <1>7 DEF ForeignRead
<1>9. ReadInv'
  BY <1>1, <1>4, <1>8 DEF ReadInv
<1>10. WrittenInv'
  <2>1. ASSUME written # NoFile
        PROVE  Rereading' /\ phase' = "read_ihex"
    <3>1. Rereading /\ IntelWritten /\ factor = 1
      BY <2>1 DEF IInv, WrittenInv
    <3>2. \A k \in 1..Len(text) : text[k].mark = ":"
      BY <1>2, <3>1, IntelWrittenIsWhole DEF TypeOK
    <3>3. phase' = "read_ihex"
      BY <1>1, <1>6, <3>2
    <3>4. QED
      BY <1>1, <3>1, <3>3, SameText DEF Rereading, ReadBack
  <2>2. QED
    BY <2>1 DEF IInv, WrittenInv
<1>11. WriterInv'
  BY <1>1 DEF WriterInv
<1>12. QED
  BY <1>3, <1>9, <1>10, <1>11 DEF IInv

LEMMA ParseStep ==
  ASSUME IInv, ParseAuto \/ Parse16Bit
  PROVE  IInv'
<1>1. phase = "idle" /\ text # <<>> /\ pos = 0 /\ written' = written
  BY DEF ParseAuto, Parse16Bit
<1>2. TypeOK
  BY DEF IInv
<1>3. written # NoFile => Rereading
  BY <1>1 DEF IInv, WrittenInv
<1>4. /\ IntelWritten => DetectFormat(text) = ":"
      /\ SRecWritten => DetectFormat(text) = "S"
  BY <1>2, IntelWrittenIsWhole, SRecWrittenIsWhole DEF TypeOK
<1>5. CASE Parse16Bit
  BY <1>1, <1>5, StartsIntel DEF Parse16Bit
<1>6. CASE ParseAuto /\ DetectFormat(text) = ":"
  <2>1. StartReadIntel(1)
    BY <1>6 DEF ParseAuto
  <2>2. written # NoFile => IntelWritten
    BY <1>3, <1>4, <1>6 DEF Rereading
  <2>3. QED
    BY <1>1, <1>6, <2>1, <2>2, StartsIntel
<1>7. CASE ParseAuto /\ DetectFormat(text) = "S"
  <2>1. /\ text' = text /\ segments' = segments /\ pos' = 0 /\ parsed' = <<>>
        /\ scale' = scale /\ phase' = "read_srec"
    BY <1>7 DEF ParseAuto, StartReadSRec, fileVars, ihexVars
  <2>2. TypeOK'
    BY <1>2, <2>1, LenProperties DEF TypeOK, Phases
  <2>3. ReadingSRec'
    BY <1>1, <2>1, EmptyList, NothingReads, SaidNothing DEF ReadingSRec
  <2>4. Foreign => scale = 1
    BY <1>1 DEF IInv, ReadInv, ForeignRead
  <2>5. ForeignRead'
    BY <1>7, <2>1, <2>4, <1>1, SameText DEF ForeignRead, IsIntelHex
  <2>6. WrittenInv'
    <3>1. ASSUME written # NoFile
          PROVE  Rereading'
      <4>1. Rereading /\ SRecWritten
        BY <1>3, <1>4, <1>7, <3>1 DEF Rereading
      <4>2. QED
        BY <1>1, <2>1, <4>1, SameText DEF Rereading, ReadBack
    <3>2. QED
      BY <1>1, <2>1, <3>1 DEF IInv, WrittenInv
  <2>7. WriterInv'
    BY <2>1 DEF WriterInv
  <2>8. QED
    BY <2>1, <2>2, <2>3, <2>5, <2>6, <2>7 DEF IInv, ReadInv
<1>8. CASE ParseAuto /\ DetectFormat(text) = "binary"
  <2>1. /\ text' = text /\ segments' = segments /\ pos' = pos /\ scale' = scale
        /\ phase' = "binary"
    BY <1>8 DEF ParseAuto, fileVars, readVars, ihexVars
  <2>2. written = NoFile
    BY <1>3, <1>4, <1>8 DEF Rereading
  <2>3. QED
    BY <1>1, <2>1, <2>2 DEF IInv, TypeOK, Phases, ReadInv, ForeignRead, WrittenInv, WriterInv
<1>9. QED
  BY <1>5, <1>6, <1>7, <1>8 DEF ParseAuto

-----------------------------------------------------------------------------
(* What a writer puts in one line *)

\* The writer takes len bytes of segment k as the record s, and goes on at byte
\* off2 of segment k2.
IsChunk(list, k, off, len, k2, off2, s) ==
  /\ off + len <= Len(list[k].data)
  /\ s = [start |-> list[k].start + off,
          data |-> SubSeq(list[k].data, off + 1, off + len)]
  /\ IF off + len < Len(list[k].data) THEN off2 = off + len /\ k2 = k
                                      ELSE off2 = 0 /\ k2 = k + 1

\* What it has passed is that much more.
LEMMA PassedStep ==
  ASSUME NEW list \in ListType, AllInSpace(list), Separated(list),
         NEW k \in 1..Len(list), NEW off \in Nat,
         NEW len \in Nat, len > 0, NEW k2, NEW off2, NEW s,
         IsChunk(list, k, off, len, k2, off2, s)
  PROVE  /\ InSpace(s) /\ Len(s.data) = len
         /\ s.start = list[k].start + off /\ EndAddress(s) = s.start + len - 1
         /\ EndAddress(s) <= EndAddress(list[k])
         /\ k2 \in 1..(Len(list) + 1) /\ off2 \in Nat
         /\ k2 <= Len(list) => off2 < Len(list[k2].data)
         /\ k2 > Len(list) => EndAddress(s) = EndAddress(list[Len(list)])
         /\ \A a \in Addr : \A b :
              Holds(list, a, b) /\ Passed(list, k2, off2, a)
                <=> \/ Has(s, a, b)
                    \/ /\ ~Covers(s, a)
                       /\ Holds(list, a, b) /\ Passed(list, k, off, a)
<1>0. PICK lo, size, top : lo = list[k].start /\ size = Len(list[k].data) /\ top = Len(list)
  OBVIOUS
<1>1. /\ lo = list[k].start /\ size = Len(list[k].data) /\ top = Len(list)
      /\ top \in Nat /\ InSpace(list[k]) /\ list[k] \in SegRecord
      /\ lo \in Addr /\ size \in Nat /\ size > 0 /\ lo \in Int
      /\ EndAddress(list[k]) = lo + size - 1 /\ EndAddress(list[k]) \in Addr /\ EndAddress(list[k]) \in Int
      /\ k \in Nat /\ k <= top /\ off + len <= size
      /\ off + len < size => off2 = off + len /\ k2 = k
      /\ ~(off + len < size) => off + len = size /\ off2 = 0 /\ k2 = k + 1
  <2>1. top \in Nat
    BY <1>0, LenProperties DEF ListType
  <2>2. InSpace(list[k])
    BY DEF AllInSpace
  <2>3. /\ list[k] \in SegRecord /\ lo \in Addr /\ lo \in Int /\ size \in Nat /\ size > 0
        /\ EndAddress(list[k]) = lo + size - 1
        /\ EndAddress(list[k]) \in Addr /\ EndAddress(list[k]) \in Int
    BY <1>0, <2>2, SpanInSpace, LenProperties DEF InSpace, SegRecord, Addr
  <2>4. /\ off + len <= size
        /\ off + len < size => off2 = off + len /\ k2 = k
        /\ ~(off + len < size) => off + len = size /\ off2 = 0 /\ k2 = k + 1
    <3>1. off + len <= size
      BY <1>0 DEF IsChunk
    <3>2. IF off + len < size THEN off2 = off + len /\ k2 = k
                              ELSE off2 = 0 /\ k2 = k + 1
      BY <1>0 DEF IsChunk
    <3>3. ~(off + len < size) => off + len = size
      BY <2>3, <3>1
    <3>4. QED
      BY <3>1, <3>2, <3>3
  <2>5. k \in Nat /\ k <= top
    BY <1>0, <2>1
  <2>6. QED
    BY <1>0, <2>1, <2>2, <2>3, <2>4, <2>5
<1>a. /\ lo \in Int /\ off \in Int /\ len \in Int /\ size \in Int /\ len > 0
      /\ 0 <= off /\ off + len <= size /\ list[k].start = lo
      /\ EndAddress(list[k]) = lo + size - 1
  BY <1>1
<1>2. s = Clip(list[k], lo + off, lo + off + len - 1)
  <2>1. (lo + off) - lo + 1 = off + 1 /\ (lo + off + len - 1) - lo + 1 = off + len
    BY <1>1
  <2>2. Clip(list[k], lo + off, lo + off + len - 1) =
          [start |-> lo + off, data |-> SubSeq(list[k].data, off + 1, off + len)]
    BY <1>0, <2>1 DEF Clip
  <2>3. QED
    BY <1>0, <2>2 DEF IsChunk
<1>3. /\ InSpace(s) /\ s.start = lo + off /\ EndAddress(s) = lo + off + len - 1
      /\ \A a \in Int : \A b : Has(s, a, b)
           <=> lo + off <= a /\ a <= lo + off + len - 1 /\ Has(list[k], a, b)
  <2>1. PICK from \in Int, to \in Int : from = lo + off /\ to = lo + off + len - 1
    BY <1>a
  <2>2. list[k].start <= from /\ from <= to /\ to <= EndAddress(list[k])
    BY <1>a, <2>1
  <2>3. /\ InSpace(Clip(list[k], from, to)) /\ Clip(list[k], from, to).start = from
        /\ EndAddress(Clip(list[k], from, to)) = to
        /\ \A a \in Int : \A b : Has(Clip(list[k], from, to), a, b)
             <=> from <= a /\ a <= to /\ Has(list[k], a, b)
    BY <1>1, <2>2, ClipInSpace
  <2>4. s = Clip(list[k], from, to)
    BY <1>2, <2>1
  <2>5. QED
    BY <2>1, <2>3, <2>4
<1>4. Len(s.data) = len
  <2>1. EndAddress(s) = s.start + Len(s.data) - 1
    BY <1>3, SpanInSpace
  <2>2. Len(s.data) \in Nat
    BY <1>3, LenProperties DEF InSpace
  <2>3. PICK long : long = Len(s.data)
    OBVIOUS
  <2>4. lo + off + len - 1 = lo + off + long - 1 /\ long \in Int
    BY <1>3, <2>1, <2>2, <2>3
  <2>5. long = len
    BY <1>a, <2>4
  <2>6. QED
    BY <2>3, <2>5
<1>5. \A m \in 1..Len(list) : InSpace(list[m]) /\ list[m].start \in Int /\ EndAddress(list[m]) \in Int
                        /\ list[m].start <= EndAddress(list[m])
                        /\ \A a \in Int : Covers(list[m], a)
                             <=> list[m].start <= a /\ a <= EndAddress(list[m])
  <2> SUFFICES ASSUME NEW m \in 1..Len(list), NEW r, r = list[m]
               PROVE  /\ InSpace(r) /\ r.start \in Int /\ EndAddress(r) \in Int
                      /\ r.start <= EndAddress(r)
                      /\ \A a \in Int : Covers(r, a) <=> r.start <= a /\ a <= EndAddress(r)
    OBVIOUS
  <2>1. InSpace(r)
    BY DEF AllInSpace
  <2>2. QED
    BY <2>1, SpanInSpace, MaxAddrAssumption DEF Addr
<1>6. /\ k2 \in 1..(top + 1) /\ off2 \in Nat
      /\ k2 <= top => off2 < Len(list[k2].data)
  <2>1. CASE off + len < size
    BY <1>1, <2>1
  <2>2. CASE ~(off + len < size)
    <3>1. k2 = k + 1 /\ off2 = 0
      BY <1>1, <2>2
    <3>2. k2 \in 1..Len(list) => Len(list[k2].data) > 0
      BY DEF AllInSpace, InSpace
    <3>3. QED
      BY <1>1, <3>1, <3>2
  <2>3. QED
    BY <2>1, <2>2
<1>7. k2 > top => EndAddress(s) = EndAddress(list[top])
  <2>1. HAVE k2 > top
  <2>2. off + len = size /\ k = top
    BY <1>1, <2>1
  <2>3. lo \in Int /\ off \in Int /\ len \in Int
    BY <1>1
  <2>4. lo + off + len - 1 = lo + (off + len) - 1
    BY <2>3
  <2>5. EndAddress(s) = lo + size - 1
    BY <1>3, <2>2, <2>4
  <2>6. QED
    BY <1>1, <2>2, <2>5
<1>8. ASSUME NEW a \in Addr, NEW b, NEW m \in 1..Len(list), Has(list[m], a, b)
      PROVE  Passed(list, k2, off2, a) <=> Has(s, a, b) \/ Passed(list, k, off, a)
  <2>1. PICK from, to :
          /\ from = list[m].start /\ to = EndAddress(list[m])
          /\ from \in Int /\ to \in Int /\ a \in Int /\ from <= a /\ a <= to
          /\ m \in Nat /\ m <= top
    <3>1. a \in Int /\ Covers(list[m], a)
      BY <1>8 DEF Has, Addr
    <3>2. /\ list[m].start \in Int /\ EndAddress(list[m]) \in Int
          /\ list[m].start <= a /\ a <= EndAddress(list[m])
      BY <1>5, <3>1
    <3>3. m \in Nat /\ m <= top
      BY <1>1
    <3>4. QED
      BY <3>1, <3>2, <3>3
  <2>2. PICK nx : nx = IF k + 1 <= top THEN list[k + 1].start ELSE 0
    OBVIOUS
  <2>3. /\ nx \in Int
        /\ k + 1 <= top => lo + size < nx
        /\ k < m => k + 1 <= top /\ nx <= from
    <3>1. CASE k + 1 <= top
      <4>1. k + 1 \in 1..Len(list) /\ nx = list[k + 1].start
        BY <1>1, <2>2, <3>1
      <4>2. nx \in Int /\ EndAddress(list[k + 1]) \in Int /\ nx <= EndAddress(list[k + 1])
        BY <1>5, <4>1
      <4>3. EndAddress(list[k]) + 1 < nx
        <5>1. k < k + 1 /\ k \in 1..Len(list)
          OBVIOUS
        <5>2. EndAddress(list[k]) + 1 < list[k + 1].start
          BY <4>1, <5>1 DEF Separated
        <5>3. QED
          BY <4>1, <5>2
      <4>4. lo + size < nx
        <5>1. PICK e : e = EndAddress(list[k])
          OBVIOUS
        <5>2. e = lo + size - 1 /\ e + 1 < nx
          BY <1>a, <4>3, <5>1
        <5>3. QED
          BY <1>a, <4>2, <5>2
      <4>5. k + 1 < m => EndAddress(list[k + 1]) + 1 < from
        BY <2>1, <4>1 DEF Separated
      <4>6. k < m => nx <= from
        <5>1. CASE m = k + 1
          BY <2>1, <4>1, <4>2, <5>1
        <5>2. CASE k + 1 < m
          BY <2>1, <4>2, <4>5, <5>2
        <5>3. QED
          BY <1>1, <2>1, <5>1, <5>2
      <4>7. QED
        BY <3>1, <4>2, <4>4, <4>6
    <3>2. CASE ~(k + 1 <= top)
      <4>1. ~(k < m)
        BY <1>1, <2>1, <3>2
      <4>2. nx \in Int
        BY <2>2, <3>2
      <4>3. QED
        BY <3>2, <4>1, <4>2
    <3>3. QED
      BY <3>1, <3>2
  <2>4. /\ off + len < size => (Passed(list, k2, off2, a) <=> a < lo + off + len)
        /\ ~(off + len < size) => (Passed(list, k2, off2, a) <=> k + 1 > top \/ a < nx)
    <3>1. CASE off + len < size
      <4>1. k2 = k /\ off2 = off + len /\ ~(k > Len(list)) /\ list[k].start = lo
        BY <1>1, <3>1
      <4>2. Passed(list, k2, off2, a) <=> a < lo + (off + len)
        BY <4>1 DEF Passed
      <4>3. lo + (off + len) = lo + off + len
        BY <1>1
      <4>4. QED
        BY <3>1, <4>2, <4>3
    <3>2. CASE ~(off + len < size)
      <4>1. k2 = k + 1 /\ off2 = 0 /\ Len(list) = top
        BY <1>1, <3>2
      <4>2. Passed(list, k2, off2, a) <=> k + 1 > top \/ a < list[k + 1].start + 0
        BY <4>1 DEF Passed
      <4>3. k + 1 <= top => list[k + 1].start + 0 = nx
        <5>1. HAVE k + 1 <= top
        <5>2. list[k + 1].start = nx
          BY <2>2, <5>1
        <5>3. QED
          BY <2>3, <5>2
      <4>4. k + 1 > top \/ k + 1 <= top
        BY <1>1
      <4>5. QED
        BY <3>2, <4>2, <4>3, <4>4
    <3>3. QED
      BY <3>1, <3>2
  <2>5. Passed(list, k, off, a) <=> a < lo + off
    BY <1>1 DEF Passed
  <2>6. Has(s, a, b) <=> lo + off <= a /\ a <= lo + off + len - 1 /\ Has(list[k], a, b)
    BY <1>3, <2>1
  <2>7. /\ m < k => to + 1 < lo
        /\ m > k => lo + size - 1 + 1 < from
        /\ m = k => from = lo /\ to = lo + size - 1 /\ Has(list[k], a, b)
    <3>1. m < k => to + 1 < lo
      BY <1>1, <2>1 DEF Separated
    <3>2. k < m => lo + size - 1 + 1 < from
      BY <1>1, <2>1 DEF Separated
    <3>3. m = k => from = lo /\ to = lo + size - 1 /\ Has(list[k], a, b)
      BY <1>1, <1>8, <2>1
    <3>4. QED
      BY <1>1, <2>1, <3>1, <3>2, <3>3
  <2>8. /\ lo \in Int /\ size \in Nat /\ off \in Nat /\ len \in Nat /\ len > 0
        /\ off + len <= size /\ k \in Nat /\ m \in Nat /\ a \in Int
        /\ from \in Int /\ to \in Int /\ from <= a /\ a <= to /\ top \in Nat /\ m <= top
    BY <1>1, <2>1
  <2>9. CASE m = k
    <3>1. Has(s, a, b) <=> lo + off <= a /\ a <= lo + off + len - 1
      BY <2>6, <2>7, <2>9
    <3>2. Passed(list, k2, off2, a) <=> a < lo + off + len
      <4>1. from = lo /\ to = lo + size - 1
        BY <2>7, <2>9
      <4>2. CASE off + len < size
        BY <2>4, <4>2
      <4>3. CASE ~(off + len < size)
        BY <2>8, <2>3, <2>4, <4>1, <4>3
      <4>4. QED
        BY <4>2, <4>3
    <3>3. QED
      BY <2>5, <2>8, <3>1, <3>2
  <2>10. CASE m < k
    <3>1. a < lo
      BY <2>7, <2>8, <2>10
    <3>2. Passed(list, k, off, a)
      BY <2>5, <2>8, <3>1
    <3>3. Passed(list, k2, off2, a)
      BY <2>8, <2>3, <2>4, <3>1
    <3>4. QED
      BY <3>2, <3>3
  <2>11. CASE m > k
    <3>1. lo + size < a /\ k < m
      BY <2>7, <2>8, <2>11
    <3>2. ~Passed(list, k, off, a)
      BY <2>5, <2>8, <3>1
    <3>3. ~Has(s, a, b)
      BY <2>6, <2>8, <3>1
    <3>4. ~Passed(list, k2, off2, a)
      BY <2>8, <2>3, <2>4, <3>1
    <3>5. QED
      BY <3>2, <3>3, <3>4
  <2>12. QED
    BY <2>8, <2>9, <2>10, <2>11
<1>9. ASSUME NEW a \in Addr, NEW b
      PROVE  Holds(list, a, b) /\ Passed(list, k2, off2, a)
                <=> \/ Has(s, a, b)
                    \/ /\ ~Covers(s, a)
                       /\ Holds(list, a, b) /\ Passed(list, k, off, a)
  <2>1. Has(s, a, b) => Holds(list, a, b)
    <3>1. a \in Int
      BY DEF Addr
    <3>2. Has(s, a, b) => Has(list[k], a, b)
      BY <1>3, <3>1
    <3>3. QED
      BY <3>2 DEF Holds
  <2>2. Passed(list, k, off, a) => ~Covers(s, a)
    <3>1. Passed(list, k, off, a) => a < lo + off
      BY <1>1 DEF Passed
    <3>2. a \in Int /\ lo + off \in Int
      BY <1>1, MaxAddrAssumption DEF Addr
    <3>3. Covers(s, a) => s.start <= a
      BY <1>3, <3>2, SpanInSpace
    <3>4. s.start = lo + off
      BY <1>3
    <3>5. QED
      BY <3>1, <3>2, <3>3, <3>4
  <2>3. Holds(list, a, b) =>
          (Passed(list, k2, off2, a) <=> Has(s, a, b) \/ Passed(list, k, off, a))
    BY <1>8 DEF Holds
  <2>4. QED
    BY <2>1, <2>2, <2>3
<1>10. EndAddress(s) <= EndAddress(list[k])
  BY <1>a, <1>3
<1>11. QED
  BY <1>1, <1>3, <1>4, <1>6, <1>7, <1>9, <1>10

\* Nothing has been passed at the start, everything at the end.
LEMMA PassedEnds ==
  ASSUME NEW list \in ListType, AllInSpace(list), Separated(list), NEW a \in Addr, NEW b
  PROVE  /\ ~(Holds(list, a, b) /\ Passed(list, 1, 0, a))
         /\ \A k, off : k > Len(list) => Passed(list, k, off, a)
<1>1. Len(list) \in Nat
  BY LenProperties DEF ListType
<1>2. ASSUME Holds(list, a, b), Passed(list, 1, 0, a)
      PROVE  FALSE
  <2>1. PICK m \in 1..Len(list) : Has(list[m], a, b)
    BY <1>2 DEF Holds
  <2>2. list[1].start <= list[m].start /\ list[1].start \in Int /\ list[m].start \in Int
    <3>1. 1 \in 1..Len(list) /\ \A i \in 1..Len(list) :
             list[i].start \in Int /\ EndAddress(list[i]) \in Int
             /\ list[i].start <= EndAddress(list[i])
      BY <1>1, SpanInSpace DEF AllInSpace, Addr
    <3>2. CASE m = 1
      BY <3>1, <3>2
    <3>3. CASE 1 < m
      BY <3>1, <3>3 DEF Separated
    <3>4. QED
      BY <1>1, <3>2, <3>3
  <2>3. list[m].start <= a
    BY <2>1 DEF Has, Covers
  <2>4. QED
    BY <1>1, <1>2, <2>1, <2>2, <2>3 DEF Passed, Addr
<1>3. QED
  BY <1>2 DEF Passed

\* The record of a line, behind an extended address record of that base.
RecordAbove(base, l) == [start |-> base + l.addr, data |-> l.data]

\* A line more in the text.
OneMore(u, t, l) ==
  /\ u \in Seq(TextLine) /\ Len(u) = Len(t) + 1 /\ Len(t) \in Nat
  /\ u[Len(u)] = l /\ \A e \in 1..Len(t) : u[e] = t[e]

IntelMore(u, t, l, s) ==
  /\ BaseAfter(u, Len(u)) =
       IF IsRecord(l, {"segment", "linear"})
         THEN l.field * (IF l.type = "segment" THEN Para ELSE Bank)
         ELSE BaseAfter(t, Len(t))
  /\ \A a, b : IntelSays(u, 1, Len(u), a, b)
       <=> IF IsRecord(l, {"data"})
             THEN Has(s, a, b) \/ (~Covers(s, a) /\ IntelSays(t, 1, Len(t), a, b))
             ELSE IntelSays(t, 1, Len(t), a, b)
  /\ LinesInSpace(t) /\ (IsRecord(l, {"data"}) => InSpace(s)) => LinesInSpace(u)

SRecMore(u, t, l, s) ==
  \A a, b : SRecSays(u, Len(u), a, b)
    <=> IF IsDataRecord(l)
          THEN Has(s, a, b) \/ (~Covers(s, a) /\ SRecSays(t, Len(t), a, b))
          ELSE SRecSays(t, Len(t), a, b)

LEMMA EmitLine ==
  ASSUME NEW t \in Seq(TextLine), NEW l \in TextLine, NEW u, u = Append(t, l),
         NEW s, s = RecordAbove(BaseAfter(t, Len(t)), l),
         BaseAfter(t, Len(t)) \in Nat
  PROVE  OneMore(u, t, l) /\ IntelMore(u, t, l, s)
<1>1. PICK k \in Nat : k = Len(t)
  BY LenProperties
<1>2. /\ u \in Seq(TextLine) /\ Len(u) = k + 1 /\ u[k + 1] = l
      /\ \A e \in 1..k : u[e] = t[e]
  BY <1>1, AppendProperties
<1>3. BaseAfter(u, k) = BaseAfter(t, k)
  BY <1>2, BaseSame
<1>4. BaseAfter(u, k + 1) =
        IF IsRecord(l, {"segment", "linear"})
          THEN l.field * (IF l.type = "segment" THEN Para ELSE Bank)
          ELSE BaseAfter(t, k)
  BY <1>2, <1>3, BaseStep
<1>5. \A a, b : IntelSays(u, 1, k, a, b) <=> IntelSays(t, 1, k, a, b)
  BY <1>2, IntelSaysSame
<1>6. IsRecord(l, {"data"}) => IntelRecord(u, 1, k + 1) = s
  <2>1. HAVE IsRecord(l, {"data"})
  <2>2. l.addr \in Nat /\ (k + 1) - 1 = k
    BY <2>1, LineFacts
  <2>3. (BaseAfter(t, k) + l.addr) * 1 = BaseAfter(t, k) + l.addr
    BY <1>1, <2>2
  <2>4. QED
    BY <1>1, <1>2, <1>3, <2>2, <2>3 DEF IntelRecord, RecordAbove
<1>7. ASSUME NEW a, NEW b
      PROVE  IntelSays(u, 1, k + 1, a, b)
        <=> IF IsRecord(l, {"data"})
              THEN Has(s, a, b) \/ (~Covers(s, a) /\ IntelSays(t, 1, k, a, b))
              ELSE IntelSays(t, 1, k, a, b)
  <2>1. IntelSays(u, 1, k + 1, a, b)
          <=> IF IsRecord(u[k + 1], {"data"})
                THEN \/ Has(IntelRecord(u, 1, k + 1), a, b)
                     \/ ~Covers(IntelRecord(u, 1, k + 1), a) /\ IntelSays(u, 1, k, a, b)
                ELSE IntelSays(u, 1, k, a, b)
    BY <1>1, IntelSaysStep
  <2>2. QED
    BY <1>2, <1>5, <1>6, <2>1
<1>8. ASSUME LinesInSpace(t), IsRecord(l, {"data"}) => InSpace(s),
             NEW e \in IntelLines(u, k + 1)
      PROVE  InSpace(IntelRecord(u, 1, e))
  <2>1. e \in 1..(k + 1) /\ IsRecord(u[e], {"data"})
    BY DEF IntelLines
  <2>2. CASE e = k + 1
    BY <1>2, <1>6, <1>8, <2>1, <2>2
  <2>3. CASE e \in 1..k
    <3>1. e \in IntelLines(t, k)
      BY <1>2, <2>1, <2>3 DEF IntelLines
    <3>2. IntelRecord(u, 1, e) = IntelRecord(t, 1, e)
      <4>1. ASSUME NEW factor, NEW d \in 1..k
            PROVE  IntelRecord(u, factor, d) = IntelRecord(t, factor, d)
        <5>1. StartsAs(u, t, k)
          BY <1>1, <1>2 DEF StartsAs
        <5>2. QED
          BY <5>1, RecordSame
      <4>2. QED
        BY <2>3, <4>1
    <3>3. QED
      BY <1>1, <1>8, <3>1, <3>2 DEF LinesInSpace
  <2>4. QED
    BY <1>1, <2>1, <2>2, <2>3
<1>9. OneMore(u, t, l)
  BY <1>1, <1>2 DEF OneMore
<1>10. LinesInSpace(t) /\ (IsRecord(l, {"data"}) => InSpace(s)) => LinesInSpace(u)
  BY <1>1, <1>2, <1>8 DEF LinesInSpace
<1>11. IntelMore(u, t, l, s)
  BY <1>1, <1>2, <1>4, <1>7, <1>10 DEF IntelMore
<1>12. QED
  BY <1>9, <1>11

LEMMA EmitSRecord ==
  ASSUME NEW t \in Seq(TextLine), NEW l \in TextLine, NEW u, u = Append(t, l),
         NEW s, s = [start |-> l.addr, data |-> l.data]
  PROVE  OneMore(u, t, l) /\ SRecMore(u, t, l, s)
<1>1. PICK k \in Nat : k = Len(t)
  BY LenProperties
<1>2. /\ u \in Seq(TextLine) /\ Len(u) = k + 1 /\ u[k + 1] = l
      /\ \A e \in 1..k : u[e] = t[e]
  BY <1>1, AppendProperties
<1>3. \A a, b : SRecSays(u, k, a, b) <=> SRecSays(t, k, a, b)
  BY <1>2, SRecSaysSame
<1>4. SRecRecord(u, k + 1) = s
  BY <1>2 DEF SRecRecord
<1>5. ASSUME NEW a, NEW b
      PROVE  SRecSays(u, k + 1, a, b)
        <=> IF IsDataRecord(l)
              THEN Has(s, a, b) \/ (~Covers(s, a) /\ SRecSays(t, k, a, b))
              ELSE SRecSays(t, k, a, b)
  <2>1. SRecSays(u, k + 1, a, b)
          <=> IF IsDataRecord(u[k + 1])
                THEN \/ Has(SRecRecord(u, k + 1), a, b)
                     \/ ~Covers(SRecRecord(u, k + 1), a) /\ SRecSays(u, k, a, b)
                ELSE SRecSays(u, k, a, b)
    BY <1>1, SRecSaysStep
  <2>2. QED
    BY <1>2, <1>3, <1>4, <2>1
<1>6. OneMore(u, t, l)
  BY <1>1, <1>2 DEF OneMore
<1>7. SRecMore(u, t, l, s)
  BY <1>1, <1>2, <1>5 DEF SRecMore
<1>8. QED
  BY <1>6, <1>7

LEMMA EmitOne ==
  ASSUME NEW t \in Seq(TextLine), NEW l
  PROVE  t \o <<l>> = Append(t, l)
OBVIOUS

LEMMA EmitTwo ==
  ASSUME NEW t \in Seq(TextLine), NEW l, NEW d
  PROVE  t \o <<l, d>> = Append(Append(t, l), d)
OBVIOUS

-----------------------------------------------------------------------------
(* The writers start *)

LEMMA LastOf ==
  ASSUME NEW list \in ListType, AllInSpace(list)
  PROVE  /\ LastAddress(list) \in Addr /\ LastAddress(list) \in Int
         /\ LastAddress(list) <= MaxAddr
         /\ list # <<>> => /\ Len(list) \in 1..Len(list)
                           /\ LastAddress(list) = EndAddress(list[Len(list)])
         /\ LastAddress(list) = IF list = <<>> THEN 0 ELSE EndAddress(Last(list))
<1>1. Len(list) \in Nat /\ (list # <<>> => Len(list) > 0)
  BY LenProperties, EmptySeq DEF ListType
<1>2. list # <<>> => EndAddress(list[Len(list)]) \in Addr
  BY <1>1, SpanInSpace DEF AllInSpace
<1>3. QED
  BY <1>1, <1>2, MaxAddrAssumption DEF LastAddress, Last, Addr

LEMMA TypeFits ==
  ASSUME NEW list \in ListType, AllInSpace(list), NEW o \in SRecOptions
  PROVE  /\ RecordType(list, o) \in SRecTypes
         /\ TypeReaches(list, RecordType(list, o))
              <=> o.type = None \/ LastAddress(list) <= SRecTop[o.type]
<1>1. o.type \in SRecTypes \/ o.type = None
  BY CountAssumption
<1>2. LastAddress(list) <= SRecTop["S3"]
  BY LastOf, FormatAssumption
<1>3. CASE o.type = None
  BY <1>2, <1>3 DEF RecordType, SmallestType, TypeReaches, SRecTypes
<1>4. CASE o.type \in SRecTypes
  BY <1>4, NoneAssumption DEF RecordType, TypeReaches
<1>5. QED
  BY <1>1, <1>3, <1>4

\* Where every writer starts.
LEMMA WriterStarts ==
  ASSUME NEW list \in ListType, AllInSpace(list), Separated(list),
         written'.list = list, source' = list, n' = 1, offset' = 0, pos' = 0, parsed' = <<>>
  PROVE  /\ WriterPlace'
         /\ \A a, b, factor : ~IntelSays(<<>>, factor, 0, a, b)
         /\ \A a, b : ~SRecSays(<<>>, 0, a, b)
         /\ \A a \in Addr, b \in Byte : ~(Holds(list, a, b) /\ Passed(list, 1, 0, a))
         /\ LinesInSpace(<<>>) /\ BaseAfter(<<>>, 0) = 0
<1>1. Len(list) \in Nat
  BY LenProperties DEF ListType
<1>2. 1 <= Len(list) => 0 < Len(list[1].data)
  BY <1>1, LenProperties DEF AllInSpace, InSpace
<1>3. WriterPlace'
  BY <1>1, <1>2 DEF WriterPlace
<1>4. LinesInSpace(<<>>)
  <2>1. Len(<<>>) = 0 /\ IntelLines(<<>>, 0) = {}
    BY DEF IntelLines
  <2>2. QED
    BY <2>1 DEF LinesInSpace
<1>5. QED
  BY <1>3, <1>4, SaidNothing, BaseFirst, PassedEnds

LEMMA WriteIntelStep ==
  ASSUME IInv, WriteIntel
  PROVE  IInv'
<1>1. PICK o \in IntelOptions, list \in {Normalized(segments)} :
        /\ list = Normalized(segments)
        /\ StartWriteIntel(list, o)
        /\ written' = [format |-> "ihex", options |-> o, list |-> list]
  BY DEF WriteIntel
<1>2. TypeOK /\ scale' = scale
  BY DEF IInv, WriteIntel, ihexVars
<1>3. list \in ListType /\ AllInSpace(list) /\ Separated(list)
  BY <1>1, <1>2, NormalizedReads DEF TypeOK
<1>4. /\ written' # NoFile /\ written'.format = "ihex" /\ written'.options = o
      /\ written'.list = list
  BY <1>1, <1>3, NoneAssumption
<1>5. /\ phase' = "write_ihex" /\ text' = <<>> /\ source' = list /\ n' = 1 /\ offset' = 0
      /\ options' = o /\ pos' = 0 /\ parsed' = <<>> /\ segments' = segments
      /\ writtenExtended' = None
  BY <1>1 DEF StartWriteIntel
<1>6. TypeOK'
  BY <1>2, <1>5 DEF TypeOK, Phases
<1>7. ReadInv'
  BY <1>4, <1>5 DEF ReadInv, ForeignRead, Foreign
<1>8. /\ WriterPlace'
      /\ \A a, b : ~IntelSays(<<>>, 1, 0, a, b)
      /\ \A a \in Addr, b \in Byte : ~(Holds(list, a, b) /\ Passed(list, 1, 0, a))
      /\ LinesInSpace(<<>>) /\ BaseAfter(<<>>, 0) = 0
  BY <1>3, <1>4, <1>5, WriterStarts
<1>9. Len(<<>>) = 0 /\ ~(1 > Len(list) /\ list # <<>>)
  BY <1>3, LenProperties, EmptySeq DEF ListType
<1>10. WritingIntel'
  BY <1>4, <1>5, <1>8, <1>9 DEF WritingIntel
<1>11. WrittenInv'
  BY <1>3, <1>4, <1>5, <1>10 DEF WrittenInv
<1>12. WriterInv'
  BY <1>4 DEF WriterInv
<1>13. QED
  BY <1>6, <1>7, <1>11, <1>12 DEF IInv

LEMMA WriteSRecStep ==
  ASSUME IInv, WriteSRec
  PROVE  IInv'
<1>1. PICK o \in SRecOptions, list \in {Normalized(segments)} :
        /\ list = Normalized(segments)
        /\ StartWriteSRec(list, o)
        /\ written' = [format |-> "srec", options |-> o, list |-> list]
  BY DEF WriteSRec
<1>2. TypeOK /\ scale' = scale
  BY DEF IInv, WriteSRec, ihexVars
<1>3. list \in ListType /\ AllInSpace(list) /\ Separated(list)
  BY <1>1, <1>2, NormalizedReads DEF TypeOK
<1>4. /\ written' # NoFile /\ written'.format = "srec" /\ written'.options = o
      /\ written'.list = list
  BY <1>1, <1>3, NoneAssumption
<1>5. /\ phase' = IF TypeReaches(list, RecordType(list, o)) THEN "write_srec" ELSE "write_error"
      /\ text' = <<>> /\ source' = list /\ n' = 1 /\ offset' = 0
      /\ options' = [o EXCEPT !.type = RecordType(list, o)]
      /\ pos' = 0 /\ parsed' = <<>> /\ segments' = segments
  BY <1>1 DEF StartWriteSRec
<1>6. TypeOK'
  BY <1>2, <1>5 DEF TypeOK, Phases
<1>7. ReadInv'
  BY <1>4, <1>5 DEF ReadInv, ForeignRead, Foreign
<1>8. /\ WriterPlace'
      /\ \A a, b : ~SRecSays(<<>>, 0, a, b)
      /\ \A a \in Addr, b \in Byte : ~(Holds(list, a, b) /\ Passed(list, 1, 0, a))
  BY <1>3, <1>4, <1>5, WriterStarts
<1>9. options'.type = RecordType(list, o)
  BY <1>5, CountAssumption
<1>10. Encodable' <=> TypeReaches(list, RecordType(list, o))
  BY <1>3, <1>4, LastOf, TypeFits DEF Encodable
<1>11. phase' = "write_srec" => WritingSRec'
  BY <1>4, <1>5, <1>8, <1>9 DEF WritingSRec
<1>12. WrittenInv'
  BY <1>3, <1>4, <1>5, <1>10, <1>11 DEF WrittenInv
<1>13. WriterInv'
  BY <1>4 DEF WriterInv
<1>14. QED
  BY <1>6, <1>7, <1>12, <1>13 DEF IInv

-----------------------------------------------------------------------------
(* A line of a writer *)

LEMMA LeastOfThree ==
  ASSUME NEW x \in Int, NEW y \in Int, NEW z \in Int, x > 0, y > 0, z > 0
  PROVE  /\ Min({x, y, z}) \in Int /\ Min({x, y, z}) > 0
         /\ Min({x, y, z}) <= x /\ Min({x, y, z}) <= y /\ Min({x, y, z}) <= z
<1>1. Min({x, y, z}) \in {x, y, z} /\ \A i \in {x, y, z} : Min({x, y, z}) <= i
  BY MinOf, 0 \in Int
<1>2. QED
  BY <1>1

LEMMA WhatRemains ==
  ASSUME offset \in Nat, NEW per \in Nat, per > 0
  PROVE  Remaining(per) \in Int /\ Remaining(per) > 0 /\ Remaining(per) <= per
BY DivisionFacts DEF Remaining

\* The byte that is written next.
LEMMA WritePlace ==
  ASSUME WriterPlace, source \in ListType, AllInSpace(source), Separated(source), n <= Len(source)
  PROVE  /\ n \in 1..Len(source) /\ n \in Int /\ Len(source) \in Nat
         /\ offset \in Nat /\ Len(source[n].data) \in Nat /\ offset < Len(source[n].data)
         /\ source[n].start \in Addr /\ WriteAddr \in Nat /\ WriteAddr = source[n].start + offset
         /\ WriteAddr <= EndAddress(source[n])
         /\ EndAddress(source[n]) <= LastAddress(source)
<1>1. /\ Len(source) \in Nat /\ n \in 1..(Len(source) + 1)
      /\ offset \in Nat /\ offset < Len(source[n].data)
  BY LenProperties DEF WriterPlace, ListType
<1>2. n \in 1..Len(source)
  BY <1>1
<1>3. /\ InSpace(source[n]) /\ Len(source[n].data) \in Nat
      /\ source[n].start \in Addr /\ EndAddress(source[n]) \in Addr
      /\ EndAddress(source[n]) = source[n].start + Len(source[n].data) - 1
  BY <1>2, SpanInSpace, LenProperties DEF AllInSpace, InSpace
<1>4. WriteAddr \in Nat /\ WriteAddr <= EndAddress(source[n])
  BY <1>1, <1>3 DEF WriteAddr, Addr
<1>5. LastAddress(source) = EndAddress(source[Len(source)])
  BY <1>2, <1>1, EmptySeq DEF LastAddress
<1>6. EndAddress(source[n]) <= EndAddress(source[Len(source)])
  <2>1. CASE n = Len(source)
    BY <1>3, <2>1 DEF Addr
  <2>2. CASE n < Len(source)
    <3>1. Len(source) \in 1..Len(source)
      BY <1>1, <1>2
    <3>2. EndAddress(source[n]) + 1 < source[Len(source)].start
      BY <1>2, <2>2, <3>1 DEF Separated
    <3>3. /\ source[Len(source)].start \in Int /\ EndAddress(source[Len(source)]) \in Int
          /\ source[Len(source)].start <= EndAddress(source[Len(source)])
      BY <3>1, SpanInSpace DEF AllInSpace, Addr
    <3>4. QED
      BY <1>3, <3>2, <3>3 DEF Addr
  <2>3. QED
    BY <1>1, <1>2, <2>1, <2>2
<1>7. QED
  BY <1>1, <1>2, <1>3, <1>4, <1>5, <1>6 DEF WriteAddr

LEMMA WroteChunk ==
  ASSUME WriterPlace, source \in ListType, AllInSpace(source), Separated(source),
         n <= Len(source), NEW len \in Nat, len > 0, offset + len <= Len(source[n].data),
         Written(len), source' = source, pos' = pos, parsed' = parsed, written' = written,
         NEW s, s = [start |-> WriteAddr, data |-> ChunkOf(len)]
  PROVE  /\ InSpace(s) /\ Len(s.data) = len /\ s.data \in Seq(Byte)
         /\ EndAddress(s) = WriteAddr + len - 1 /\ EndAddress(s) <= LastAddress(source)
         /\ WriterPlace'
         /\ n' > Len(source) => EndAddress(s) = LastAddress(source)
         /\ \A a \in Addr : \A b :
              Holds(source, a, b) /\ Passed(source, n', offset', a)
                <=> \/ Has(s, a, b)
                    \/ /\ ~Covers(s, a)
                       /\ Holds(source, a, b) /\ Passed(source, n, offset, a)
<1>1. /\ n \in 1..Len(source) /\ n \in Int /\ Len(source) \in Nat
      /\ offset \in Nat /\ source[n].start \in Addr /\ WriteAddr = source[n].start + offset
      /\ WriteAddr \in Nat
      /\ EndAddress(source[n]) <= LastAddress(source) /\ EndAddress(source[n]) \in Addr
  BY WritePlace, SpanInSpace DEF AllInSpace
<1>2. IsChunk(source, n, offset, len, n', offset', s)
  <2>1. s = [start |-> source[n].start + offset,
             data |-> SubSeq(source[n].data, offset + 1, offset + len)]
    BY <1>1 DEF ChunkOf
  <2>2. IF offset + len < Len(source[n].data) THEN offset' = offset + len /\ n' = n
                                             ELSE offset' = 0 /\ n' = n + 1
    BY DEF Written
  <2>3. QED
    BY <2>1, <2>2 DEF IsChunk
<1>3. /\ InSpace(s) /\ Len(s.data) = len
      /\ s.start = source[n].start + offset /\ EndAddress(s) = s.start + len - 1
      /\ EndAddress(s) <= EndAddress(source[n])
      /\ n' \in 1..(Len(source) + 1) /\ offset' \in Nat
      /\ n' <= Len(source) => offset' < Len(source[n'].data)
      /\ n' > Len(source) => EndAddress(s) = EndAddress(source[Len(source)])
      /\ \A a \in Addr : \A b :
           Holds(source, a, b) /\ Passed(source, n', offset', a)
             <=> \/ Has(s, a, b)
                 \/ /\ ~Covers(s, a)
                    /\ Holds(source, a, b) /\ Passed(source, n, offset, a)
  BY <1>1, <1>2, PassedStep
<1>4. WriterPlace'
  BY <1>3 DEF WriterPlace
<1>5. LastAddress(source) = EndAddress(source[Len(source)]) /\ LastAddress(source) \in Int
  BY <1>1, EmptySeq, LastOf DEF LastAddress
<1>6. EndAddress(s) = WriteAddr + len - 1 /\ EndAddress(s) <= LastAddress(source)
  <2>1. PICK from, e, end, la : /\ from = s.start /\ e = EndAddress(s)
                                /\ end = EndAddress(source[n]) /\ la = LastAddress(source)
    OBVIOUS
  <2>2. from = WriteAddr /\ e = from + len - 1 /\ e <= end /\ end <= la
    BY <1>1, <1>3, <2>1
  <2>3. from \in Nat /\ end \in Int /\ la \in Int
    BY <1>1, <1>5, <2>1, <2>2, MaxAddrAssumption DEF Addr
  <2>4. QED
    BY <2>1, <2>2, <2>3
<1>7. s.data \in Seq(Byte)
  BY <1>3 DEF InSpace
<1>8. QED
  BY <1>3, <1>4, <1>5, <1>6, <1>7

\* What holds after every line that a writer writes.
LEMMA WriterStep ==
  ASSUME IInv, written # NoFile, written' = written, segments' = segments, pos = 0,
         pos' = pos, scale' = scale, text' \in Seq(TextLine),
         phase' \in {"write_ihex", "write_srec", "write_error", "idle"},
         phase' = "write_ihex" => WritingIntel',
         phase' = "write_srec" => WritingSRec' /\ Encodable',
         phase' = "write_error" => ~Encodable',
         phase' = "idle" => Encodable' /\ (IntelWritten' \/ SRecWritten')
  PROVE  IInv'
<1>1. TypeOK'
  <2>1. Len(text') \in Nat
    BY LenProperties
  <2>2. QED
    BY <2>1 DEF IInv, TypeOK, Phases
<1>2. ReadInv' /\ WriterInv'
  BY DEF ReadInv, ForeignRead, Foreign, WriterInv
<1>3. phase' = "idle" => Rereading'
  BY DEF Rereading, ReadBack
<1>4. /\ written.list \in ListType /\ AllInSpace(written.list) /\ Separated(written.list)
  BY DEF IInv, WrittenInv
<1>5. phase' \notin {"binary", "read_ihex", "read_srec", "read_error"}
  OBVIOUS
<1>6. WrittenInv'
  BY <1>3, <1>4, <1>5 DEF WrittenInv
<1>7. QED
  BY <1>1, <1>2, <1>6 DEF IInv

-----------------------------------------------------------------------------
(* write_srec *)

LEMMA SRecOptionsHold ==
  ASSUME WritingSRec, source \in ListType, AllInSpace(source)
  PROVE  /\ options.type \in SRecTypes /\ SRecTop[options.type] \in Addr
         /\ AddrLen(options.type) \in Nat
         /\ SRecPerLineOf(options) = SRecPerLineOf(written.options)
         /\ SRecPerLineOf(options) \in 1..(ByteRange - 1) /\ ByteRange \in Nat
<1>1. /\ written.options \in SRecOptions /\ source = written.list
      /\ options = [written.options EXCEPT !.type = RecordType(written.list, written.options)]
  BY DEF WritingSRec, WriterPlace
<1>2. written.options \in [perLine : 0..(ByteRange - 1), type : SRecTypes \union {None}]
  BY <1>1, CountAssumption
<1>3. /\ options.type = RecordType(source, written.options)
      /\ options.perLine = written.options.perLine
      /\ options.perLine \in 0..(ByteRange - 1)
  BY <1>1, <1>2
<1>4. options.type \in SRecTypes
  BY <1>1, <1>3, TypeFits
<1>5. ByteRange \in Nat
  BY CountAssumption, MaxAddrAssumption
<1>6. AddrLen(options.type) \in Nat
  BY <1>4 DEF AddrLen, SRecTypes
<1>7. SRecPerLineOf(options) \in 1..(ByteRange - 1)
  BY <1>3, <1>5, CountAssumption DEF SRecPerLineOf
<1>8. SRecTop[options.type] \in Addr
  BY <1>4, FormatAssumption
<1>9. QED
  BY <1>3, <1>4, <1>5, <1>6, <1>7, <1>8 DEF SRecPerLineOf

LEMMA WriteSRecordStep ==
  ASSUME IInv, WriteSRecord, scale' = scale, written' = written
  PROVE  IInv'
<1>1. /\ phase = "write_srec" /\ phase' = phase /\ n <= Len(source)
      /\ segments' = segments /\ pos' = pos /\ parsed' = parsed
      /\ source' = source /\ options' = options
  BY DEF WriteSRecord, Writing, readVars
<1>2. /\ written # NoFile /\ WritingSRec /\ Encodable /\ text \in Seq(TextLine)
      /\ written.list \in ListType /\ AllInSpace(written.list) /\ Separated(written.list)
  BY <1>1 DEF IInv, WriterInv, WrittenInv, TypeOK
<1>3. /\ WriterPlace /\ source = written.list /\ pos = 0
      /\ source \in ListType /\ AllInSpace(source) /\ Separated(source)
  BY <1>2 DEF WritingSRec, WriterPlace
<1>4. PICK per : per = SRecPerLineOf(options)
  OBVIOUS
<1>5. /\ per \in 1..(ByteRange - 1) /\ ByteRange \in Nat /\ per \in Nat /\ per > 0
      /\ options.type \in SRecTypes /\ SRecTop[options.type] \in Addr
      /\ AddrLen(options.type) \in Nat
  BY <1>2, <1>3, <1>4, SRecOptionsHold
<1>6. PICK len :
        /\ len = Min({Remaining(per), Len(source[n].data) - offset})
        /\ Emit(<<[mark |-> "S", type |-> options.type, addr |-> AddressField(options.type),
                   count |-> (AddrLen(options.type) + len + 1) % ByteRange,
                   data |-> ChunkOf(len)]>>)
        /\ Written(len)
  BY <1>4 DEF WriteSRecord
<1>7. /\ offset \in Nat /\ Len(source[n].data) \in Nat /\ offset < Len(source[n].data)
      /\ WriteAddr \in Nat /\ WriteAddr <= EndAddress(source[n])
      /\ EndAddress(source[n]) <= LastAddress(source) /\ n \in 1..Len(source)
  BY <1>1, <1>3, WritePlace
<1>8. len \in Nat /\ len > 0 /\ len <= per /\ offset + len <= Len(source[n].data)
  <2>1. Remaining(per) \in Int /\ Remaining(per) > 0 /\ Remaining(per) <= per
    BY <1>5, <1>7, WhatRemains
  <2>2. PICK left : left = Len(source[n].data) - offset
    OBVIOUS
  <2>3. left \in Int /\ left > 0
    BY <1>7, <2>2
  <2>4. len = IF Remaining(per) <= left THEN Remaining(per) ELSE left
    BY <1>6, <2>1, <2>2, <2>3, MinOfTwo
  <2>5. len \in Int /\ len > 0 /\ len <= per /\ len <= left
    BY <1>5, <2>1, <2>3, <2>4
  <2>6. QED
    BY <1>7, <2>2, <2>5
<1>9. PICK s : s = [start |-> WriteAddr, data |-> ChunkOf(len)]
  OBVIOUS
<1>10. /\ InSpace(s) /\ Len(s.data) = len /\ s.data \in Seq(Byte)
       /\ WriterPlace'
       /\ \A a \in Addr : \A b :
            Holds(source, a, b) /\ Passed(source, n', offset', a)
              <=> \/ Has(s, a, b)
                  \/ /\ ~Covers(s, a)
                     /\ Holds(source, a, b) /\ Passed(source, n, offset, a)
  BY <1>1, <1>3, <1>6, <1>8, <1>9, WroteChunk
<1>11. AddressField(options.type) = WriteAddr /\ WriteAddr \in Addr
  <2>1. LastAddress(source) <= SRecTop[options.type] /\ LastAddress(source) \in Addr
    BY <1>2, <1>3, LastOf DEF WritingSRec, TypeReaches
  <2>2. EndAddress(source[n]) \in Addr
    BY <1>3, <1>7, SpanInSpace DEF AllInSpace
  <2>3. WriteAddr < SRecTop[options.type] + 1 /\ SRecTop[options.type] + 1 \in Nat
        /\ WriteAddr \in Addr
    <3>1. PICK w, e, la, top : /\ w = WriteAddr /\ e = EndAddress(source[n])
                               /\ la = LastAddress(source) /\ top = SRecTop[options.type]
      OBVIOUS
    <3>2. w \in Nat /\ w <= e /\ e <= la /\ la <= top /\ e \in Addr /\ la \in Addr
      BY <1>7, <2>1, <2>2, <3>1
    <3>3. top \in Addr
      BY <1>5, <3>1
    <3>4. w < top + 1 /\ top + 1 \in Nat /\ w \in Addr
      BY <3>2, <3>3, MaxAddrAssumption DEF Addr
    <3>5. QED
      BY <3>1, <3>4
  <2>4. QED
    BY <1>7, <2>3, SmallRemainder DEF AddressField
<1>12. PICK l : l = [mark |-> "S", type |-> options.type, addr |-> WriteAddr,
                     count |-> (AddrLen(options.type) + len + 1) % ByteRange,
                     data |-> ChunkOf(len)]
  OBVIOUS
<1>13. /\ l.mark = "S" /\ l.type = options.type /\ l.addr = WriteAddr /\ l.data = ChunkOf(len)
       /\ l.count = (AddrLen(options.type) + len + 1) % ByteRange
       /\ s.data = l.data /\ s = [start |-> l.addr, data |-> l.data]
  BY <1>9, <1>12
<1>14. l \in TextLine /\ IsDataRecord(l)
  <2>1. l.count \in Nat
    BY <1>5, <1>8, <1>13, CountAssumption, DivisionFacts
  <2>2. l.data \in RecordData
    BY <1>5, <1>8, <1>10, <1>13 DEF RecordData
  <2>3. l \in [mark : {"S"}, type : SRecTypes, count : Nat, addr : Addr, data : RecordData]
    BY <1>5, <1>11, <1>12, <1>13, <2>1, <2>2
  <2>4. QED
    BY <1>5, <1>13, <2>3 DEF TextLine, IsDataRecord
<1>15. SRecLine(l, options)
  <2>1. AddrLen(l.type) + Len(l.data) + 1 = AddrLen(options.type) + len + 1
    BY <1>10, <1>13
  <2>2. Len(l.data) \in 1..per
    BY <1>5, <1>8, <1>10, <1>13
  <2>3. l.addr + Len(l.data) - 1 <= MaxAddr
    BY <1>10, <1>13 DEF InSpace
  <2>4. QED
    BY <1>4, <1>5, <1>13, <2>1, <2>2, <2>3 DEF SRecLine
<1>16. text' = Append(text, l)
  BY <1>2, <1>6, <1>11, <1>12, <1>14, AppendProperties, ConcatProperties DEF Emit
<1>17. /\ text' \in Seq(TextLine) /\ Len(text') = Len(text) + 1
       /\ text'[Len(text')] = l /\ \A e \in 1..Len(text) : text'[e] = text[e]
       /\ \A a, b : SRecSays(text', Len(text'), a, b)
            <=> IF IsDataRecord(l)
                  THEN Has(s, a, b) \/ (~Covers(s, a) /\ SRecSays(text, Len(text), a, b))
                  ELSE SRecSays(text, Len(text), a, b)
  <2>1. PICK u : u = text'
    OBVIOUS
  <2>2. text \in Seq(TextLine) /\ l \in TextLine /\ u = Append(text, l)
    BY <1>2, <1>14, <1>16, <2>1
  <2>3. s = [start |-> l.addr, data |-> l.data]
    BY <1>13
  <2>4. OneMore(u, text, l) /\ SRecMore(u, text, l, s)
    BY <2>2, <2>3, EmitSRecord
  <2>5. QED
    BY <2>1, <2>4 DEF OneMore, SRecMore
<1>18. \A k \in 1..Len(text') : SRecLine(text'[k], options)
  <2>1. PICK u, q : u = text' /\ q = Len(text)
    OBVIOUS
  <2>2. q \in Nat /\ \A k \in 1..q : SRecLine(text[k], options)
    BY <1>2, <2>1, LenProperties DEF WritingSRec
  <2>3. Len(u) = q + 1 /\ u[q + 1] = l /\ \A e \in 1..q : u[e] = text[e]
    BY <1>17, <2>1
  <2>4. \A k \in 1..Len(u) : k \in 1..q \/ k = q + 1
    BY <2>2, <2>3
  <2> HIDE DEF SRecLine
  <2>5. \A k \in 1..Len(u) : SRecLine(u[k], options)
    BY <1>15, <2>2, <2>3, <2>4
  <2>6. QED
    BY <2>1, <2>5
<1>19. \A a \in Addr, b \in Byte :
         SRecSays(text', Len(text'), a, b)
           <=> Holds(source, a, b) /\ Passed(source, n', offset', a)
  BY <1>2, <1>10, <1>14, <1>17 DEF WritingSRec
<1>20. WritingSRec'
  BY <1>1, <1>2, <1>10, <1>18, <1>19 DEF WritingSRec
<1>21. Encodable'
  BY <1>2 DEF Encodable
<1>22. QED
  BY <1>1, <1>2, <1>3, <1>17, <1>20, <1>21, WriterStep

LEMMA WriteTerminatorStep ==
  ASSUME IInv, WriteTerminator, scale' = scale, written' = written
  PROVE  IInv'
<1>1. /\ phase = "write_srec" /\ phase' = "idle" /\ n > Len(source)
      /\ segments' = segments /\ pos' = pos /\ text' = text \o <<[mark |-> "S", type |-> "other"]>>
  BY DEF WriteTerminator, readVars, Emit
<1>2. /\ written # NoFile /\ WritingSRec /\ Encodable /\ text \in Seq(TextLine)
      /\ written.list \in ListType /\ AllInSpace(written.list) /\ Separated(written.list)
  BY <1>1 DEF IInv, WriterInv, WrittenInv, TypeOK
<1>3. /\ source = written.list /\ pos = 0
  BY <1>2 DEF WritingSRec, WriterPlace
<1>4. PICK l : l = [mark |-> "S", type |-> "other"]
  OBVIOUS
<1>5. l \in TextLine /\ ~IsDataRecord(l)
  BY <1>4 DEF TextLine, IsDataRecord, SRecTypes
<1>6. text' = Append(text, l)
  BY <1>1, <1>2, <1>4, <1>5, AppendProperties, ConcatProperties
<1>7. PICK s : s = [start |-> l.addr, data |-> l.data]
  OBVIOUS
<1>8. /\ text' \in Seq(TextLine) /\ Len(text') = Len(text) + 1
      /\ text'[Len(text')] = l /\ \A e \in 1..Len(text) : text'[e] = text[e]
      /\ \A a, b : SRecSays(text', Len(text'), a, b) <=> SRecSays(text, Len(text), a, b)
  <2>1. PICK u : u = text'
    OBVIOUS
  <2>2. text \in Seq(TextLine) /\ l \in TextLine /\ u = Append(text, l)
    BY <1>2, <1>5, <1>6, <2>1
  <2>3. OneMore(u, text, l) /\ SRecMore(u, text, l, s)
    BY <1>7, <2>2, EmitSRecord
  <2>4. QED
    BY <1>5, <2>1, <2>3 DEF OneMore, SRecMore
<1>9. SRecPerLineOf(options) = SRecPerLineOf(written.options)
  BY <1>2, <1>3, SRecOptionsHold
<1>10. \A k \in 1..(Len(text') - 1) : SRecLine(text'[k], written.options)
  BY <1>2, <1>8, <1>9, LenProperties DEF WritingSRec, SRecLine
<1>11. \A a \in Addr, b \in Byte :
         SRecSays(text', Len(text'), a, b) <=> Holds(written.list, a, b)
  BY <1>1, <1>2, <1>3, <1>8, PassedEnds DEF WritingSRec
<1>12. SRecWritten'
  BY <1>2, <1>4, <1>8, <1>10, <1>11, LenProperties DEF SRecWritten, WritingSRec
<1>13. Encodable'
  BY <1>2 DEF Encodable
<1>14. QED
  BY <1>1, <1>2, <1>3, <1>8, <1>12, <1>13, WriterStep

-----------------------------------------------------------------------------
(* write_intel_hex *)

LEMMA IntelOptionsHold ==
  ASSUME NEW o \in IntelOptions
  PROVE  /\ o.mode \in {"auto", "segment", "linear"}
         /\ IntelPerLineOf(o) \in 1..(ByteRange - 1) /\ IntelPerLineOf(o) \in Nat
         /\ IntelPerLineOf(o) > 0 /\ ByteRange \in Nat
<1>1. o \in [perLine : 0..(ByteRange - 1), mode : {"auto", "segment", "linear"}]
  BY CountAssumption
<1>2. ByteRange \in Nat
  BY CountAssumption, MaxAddrAssumption
<1>3. IntelPerLineOf(o) \in 1..(ByteRange - 1)
  BY <1>1, <1>2, CountAssumption DEF IntelPerLineOf
<1>4. QED
  BY <1>1, <1>2, <1>3

LEMMA IntelChunk ==
  ASSUME WritingIntel, source \in ListType, AllInSpace(source), Separated(source),
         n <= Len(source)
  PROVE  /\ IntelChunkLen \in Nat /\ IntelChunkLen > 0
         /\ IntelChunkLen <= IntelPerLineOf(options)
         /\ WriteAddr % Bank \in Nat /\ (WriteAddr % Bank) + IntelChunkLen <= Bank
         /\ offset + IntelChunkLen <= Len(source[n].data)
<1>1. /\ offset \in Nat /\ Len(source[n].data) \in Nat /\ offset < Len(source[n].data)
      /\ WriteAddr \in Nat
  BY WritePlace DEF WritingIntel
<1>2. PICK per : per = IntelPerLineOf(options)
  OBVIOUS
<1>3. per \in Nat /\ per > 0
  BY <1>2, IntelOptionsHold DEF WritingIntel
<1>4. Bank \in Nat /\ Bank > 0
  BY FormatAssumption
<1>5. WriteAddr % Bank \in Nat /\ WriteAddr % Bank < Bank
  BY <1>1, <1>4, DivisionFacts
<1>6. Remaining(per) \in Int /\ Remaining(per) > 0 /\ Remaining(per) <= per
  BY <1>1, <1>3, WhatRemains
<1>7. PICK room, left : room = Bank - (WriteAddr % Bank) /\ left = Len(source[n].data) - offset
  OBVIOUS
<1>8. room \in Int /\ room > 0 /\ left \in Int /\ left > 0
  BY <1>1, <1>4, <1>5, <1>7
<1>9. IntelChunkLen = Min({Remaining(per), room, left})
  BY <1>2, <1>7 DEF IntelChunkLen
<1>10. /\ IntelChunkLen \in Int /\ IntelChunkLen > 0
       /\ IntelChunkLen <= Remaining(per) /\ IntelChunkLen <= room /\ IntelChunkLen <= left
  BY <1>6, <1>8, <1>9, LeastOfThree
<1>11. IntelChunkLen <= per
  BY <1>3, <1>6, <1>10
<1>12. (WriteAddr % Bank) + IntelChunkLen <= Bank
  BY <1>4, <1>5, <1>7, <1>10
<1>13. offset + IntelChunkLen <= Len(source[n].data)
  BY <1>1, <1>7, <1>10
<1>14. QED
  BY <1>2, <1>5, <1>10, <1>11, <1>12, <1>13

\* The first address of the bank of the next byte.
BankStart == (WriteAddr \div Bank) * Bank

LEMMA BaseInForce ==
  ASSUME WritingIntel, source \in ListType, AllInSpace(source), Separated(source),
         n <= Len(source)
  PROVE  /\ LineMode \in {"segment", "linear"} /\ NeededField \in Nat
         /\ BankStart \in Nat /\ WriteAddr = BankStart + (WriteAddr % Bank)
         /\ NeededField * (IF LineMode = "segment" THEN Para ELSE Bank) = BankStart
         /\ ~ShouldEmit => BaseAfter(text, Len(text)) = BankStart
         /\ options.mode = "segment" => LineMode = "segment"
<1>1. WriteAddr \in Nat
  BY WritePlace DEF WritingIntel
<1>2. Bank \in Nat /\ Bank > 0 /\ Para \in Nat /\ Para > 0 /\ Bank % Para = 0
  BY FormatAssumption
<1>3. PICK q, r : q = WriteAddr \div Bank /\ r = Bank \div Para
  OBVIOUS
<1>4. q \in Nat /\ WriteAddr % Bank \in Nat /\ WriteAddr = Bank * q + (WriteAddr % Bank)
  BY <1>1, <1>2, <1>3, DivisionFacts
<1>5. r \in Nat /\ Bank = Para * r
  <2>1. r \in Nat /\ Bank = Para * r + (Bank % Para)
    BY <1>2, <1>3, DivisionFacts
  <2>2. Para * r \in Nat
    BY <1>2, <2>1
  <2>3. QED
    BY <1>2, <2>1, <2>2
<1>6. options.mode \in {"auto", "segment", "linear"}
  BY IntelOptionsHold DEF WritingIntel
<1>7. LineMode \in {"segment", "linear"} /\ (options.mode = "segment" => LineMode = "segment")
  BY <1>6 DEF LineMode, AutoMode
<1>8. NeededField = IF LineMode = "linear" THEN q ELSE q * r
  BY <1>3 DEF NeededField
<1>9. BankStart = q * Bank /\ BankStart \in Nat
  <2>1. BankStart = q * Bank
    BY <1>3 DEF BankStart
  <2>2. q * Bank \in Nat
    BY <1>2, <1>4
  <2>3. QED
    BY <2>1, <2>2
<1>10. NeededField \in Nat
  BY <1>4, <1>5, <1>8
<1>11. WriteAddr = BankStart + (WriteAddr % Bank)
  BY <1>2, <1>4, <1>9
<1>12. NeededField * (IF LineMode = "segment" THEN Para ELSE Bank) = BankStart
  <2>1. (q * r) * Para = q * (Para * r)
    BY <1>2, <1>4, <1>5
  <2>2. CASE LineMode = "segment"
    BY <1>5, <1>8, <1>9, <2>1, <2>2
  <2>3. CASE LineMode = "linear"
    BY <1>8, <1>9, <2>3
  <2>4. QED
    BY <1>7, <2>2, <2>3
<1>13. ASSUME ~ShouldEmit
       PROVE  BaseAfter(text, Len(text)) = BankStart
  <2>1. BaseAfter(text, Len(text)) =
          IF writtenExtended = None THEN 0
          ELSE writtenExtended * (IF writtenMode = "segment" THEN Para ELSE Bank)
    BY DEF WritingIntel
  <2>2. CASE writtenExtended = NeededField /\ writtenMode = LineMode
    BY <1>10, <1>12, <2>1, <2>2, NoneAssumption
  <2>3. CASE ImpliedBase
    <3>1. BaseAfter(text, Len(text)) = 0
      BY <2>1, <2>3 DEF ImpliedBase
    <3>2. q = 0
      <4>1. CASE LineMode = "segment"
        BY <1>1, <1>2, <1>3, <2>3, <4>1, SmallRemainder DEF ImpliedBase
      <4>2. CASE LineMode = "linear"
        BY <1>8, <2>3, <4>2 DEF ImpliedBase
      <4>3. QED
        BY <1>7, <4>1, <4>2
    <3>3. QED
      BY <1>2, <1>9, <3>1, <3>2
  <2>4. QED
    BY <1>13, <2>2, <2>3 DEF ShouldEmit
<1>14. QED
  BY <1>7, <1>9, <1>10, <1>11, <1>12, <1>13

\* A chunk that starts where a segment address reaches ends there.
LEMMA WithinSegmentTop ==
  ASSUME NEW a \in Nat, NEW len \in Nat, len > 0, (a % Bank) + len <= Bank, a <= SegmentTop
  PROVE  a + len - 1 <= SegmentTop
<1>1. Bank \in Nat /\ Bank > 0 /\ Para \in Nat
  BY FormatAssumption
<1>2. PICK q, r : q = a \div Bank /\ r = a % Bank
  OBVIOUS
<1>3. q \in Nat /\ r \in Nat /\ a = Bank * q + r
  BY <1>1, <1>2, DivisionFacts
<1>4. SegmentTop = Bank * Para - 1 /\ Bank * Para \in Int /\ Bank * q \in Int
  BY <1>1, <1>3 DEF SegmentTop
<1>5. q < Para
  <2>1. SUFFICES ASSUME q >= Para
                 PROVE  FALSE
    BY <1>1, <1>3
  <2>2. PICK d : d = q - Para
    OBVIOUS
  <2>3. d \in Nat /\ q = Para + d
    BY <1>1, <1>3, <2>1, <2>2
  <2>4. Bank * q = Bank * Para + Bank * d /\ Bank * d \in Nat
    BY <1>1, <2>3
  <2>5. QED
    BY <1>3, <1>4, <2>4
<1>6. Bank * q + Bank <= Bank * Para
  <2>1. PICK d : d = Para - q - 1
    OBVIOUS
  <2>2. d \in Nat /\ Para = q + 1 + d
    BY <1>1, <1>3, <1>5, <2>1
  <2>3. Bank * Para = Bank * q + Bank + Bank * d /\ Bank * d \in Nat
    BY <1>1, <1>3, <2>2
  <2>4. QED
    BY <1>1, <1>4, <2>3
<1>7. QED
  BY <1>1, <1>2, <1>3, <1>4, <1>6

\* Text t, with or without a new extended address record at its end, says what
\* has been written.
WroteUpTo(t) ==
  /\ t \in Seq(TextLine)
  /\ \A k \in 1..Len(t) : IntelLine(t[k], options)
  /\ LinesInSpace(t)
  /\ \A a \in Addr, b \in Byte :
       IntelSays(t, 1, Len(t), a, b) <=> Holds(source, a, b) /\ Passed(source, n, offset, a)

InForce(base, field, mode) ==
  /\ field = None \/ field \in Nat
  /\ field # None => mode \in {"segment", "linear"}
  /\ base = IF field = None THEN 0 ELSE field * (IF mode = "segment" THEN Para ELSE Bank)

LEMMA DataWritten ==
  ASSUME IInv, phase = "write_ihex", phase' = "write_ihex", n <= Len(source), ~Unreachable,
         NEW t, WroteUpTo(t), BaseAfter(t, Len(t)) = BankStart,
         InForce(BankStart, writtenExtended', writtenMode'),
         NEW len, len = IntelChunkLen, Written(len), text' = Append(t, DataLine(len)),
         Unchanged, written' = written, scale' = scale
  PROVE  IInv'
<1>1. /\ segments' = segments /\ pos' = pos /\ parsed' = parsed
      /\ source' = source /\ options' = options
  BY DEF Unchanged, readVars
<1>2. /\ written # NoFile /\ WritingIntel
      /\ written.list \in ListType /\ AllInSpace(written.list) /\ Separated(written.list)
  BY DEF IInv, WriterInv, WrittenInv
<1>3. /\ WriterPlace /\ source = written.list /\ pos = 0
      /\ source \in ListType /\ AllInSpace(source) /\ Separated(source)
      /\ options \in IntelOptions
  BY <1>2 DEF WritingIntel, WriterPlace
<1>4. /\ len \in Nat /\ len > 0 /\ len <= IntelPerLineOf(options)
      /\ WriteAddr % Bank \in Nat /\ (WriteAddr % Bank) + len <= Bank
      /\ offset + len <= Len(source[n].data)
  BY <1>2, <1>3, IntelChunk
<1>5. /\ BankStart \in Nat /\ WriteAddr = BankStart + (WriteAddr % Bank)
      /\ options.mode = "segment" => LineMode = "segment"
  BY <1>2, <1>3, BaseInForce
<1>6. WriteAddr \in Nat
  BY <1>3, WritePlace
<1>7. PICK s : s = [start |-> WriteAddr, data |-> ChunkOf(len)]
  OBVIOUS
<1>8. /\ InSpace(s) /\ Len(s.data) = len /\ s.data \in Seq(Byte)
      /\ EndAddress(s) = WriteAddr + len - 1 /\ EndAddress(s) <= LastAddress(source)
      /\ WriterPlace'
      /\ n' > Len(source) => EndAddress(s) = LastAddress(source)
      /\ \A a \in Addr : \A b :
           Holds(source, a, b) /\ Passed(source, n', offset', a)
             <=> \/ Has(s, a, b)
                 \/ /\ ~Covers(s, a)
                    /\ Holds(source, a, b) /\ Passed(source, n, offset, a)
  BY <1>1, <1>3, <1>4, <1>7, WroteChunk
<1>9. PICK l : l = DataLine(len)
  OBVIOUS
<1>10. /\ l.mark = ":" /\ l.type = "data" /\ l.addr = WriteAddr % Bank /\ l.data = s.data
       /\ l = [mark |-> ":", type |-> "data", addr |-> WriteAddr % Bank, data |-> s.data]
  BY <1>7, <1>9 DEF DataLine
<1>11. IntelPerLineOf(options) \in 1..(ByteRange - 1) /\ ByteRange \in Nat
  BY <1>3, IntelOptionsHold
<1>12. l \in TextLine /\ IsRecord(l, {"data"}) /\ ~IsRecord(l, {"segment", "linear"})
  <2>1. s.data \in RecordData
    BY <1>4, <1>8, <1>11 DEF RecordData
  <2>2. l \in [mark : {":"}, type : {"data"}, addr : Nat, data : RecordData]
    BY <1>4, <1>10, <2>1
  <2>3. QED
    BY <1>10, <2>2 DEF TextLine, IsRecord
<1>13. IntelLine(l, options)
  <2>1. Len(l.data) = len /\ l.addr + Len(l.data) <= Bank
    BY <1>4, <1>8, <1>10
  <2>2. Len(l.data) \in 1..IntelPerLineOf(options)
    BY <1>4, <1>11, <2>1
  <2>3. QED
    BY <1>12, <2>1, <2>2 DEF IntelLine
<1>14. s = RecordAbove(BaseAfter(t, Len(t)), l)
  BY <1>5, <1>7, <1>10 DEF RecordAbove
<1>15. PICK u : u = text'
  OBVIOUS
<1>16. OneMore(u, t, l) /\ IntelMore(u, t, l, s)
  <2>1. t \in Seq(TextLine) /\ u = Append(t, l) /\ BaseAfter(t, Len(t)) \in Nat
    BY <1>5, <1>9, <1>15 DEF WroteUpTo
  <2>2. QED
    BY <1>12, <1>14, <2>1, EmitLine
<1>17. u \in Seq(TextLine) /\ BaseAfter(u, Len(u)) = BankStart /\ LinesInSpace(u)
  BY <1>8, <1>12, <1>16 DEF OneMore, IntelMore, WroteUpTo
<1>18. \A k \in 1..Len(u) : IntelLine(u[k], options)
  BY <1>13, <1>16 DEF OneMore, WroteUpTo
<1>19. \A a \in Addr, b \in Byte :
         IntelSays(u, 1, Len(u), a, b) <=> Holds(source, a, b) /\ Passed(source, n', offset', a)
  BY <1>8, <1>12, <1>16 DEF IntelMore, WroteUpTo
<1>20. options.mode = "segment" /\ n' > Len(source) => LastAddress(source) <= SegmentTop
  <2>1. HAVE options.mode = "segment" /\ n' > Len(source)
  <2>2. WriteAddr <= SegmentTop
    <3>1. SegmentTop \in Int
      BY FormatAssumption DEF SegmentTop
    <3>2. QED
      BY <1>5, <1>6, <2>1, <3>1 DEF Unreachable
  <2>3. WriteAddr + len - 1 <= SegmentTop
    BY <1>4, <1>6, <2>2, WithinSegmentTop
  <2>4. QED
    BY <1>8, <2>1, <2>3
<1>21. options.mode = "segment" /\ n' > Len(source) /\ source # <<>>
         => EndAddress(source[Len(source)]) <= SegmentTop
  BY <1>20 DEF LastAddress
<1>22. WritingIntel'
  BY <1>1, <1>2, <1>3, <1>8, <1>15, <1>17, <1>18, <1>19, <1>21 DEF WritingIntel, InForce
<1>23. QED
  BY <1>1, <1>2, <1>3, <1>15, <1>17, <1>22, WriterStep

LEMMA WriteLineStep ==
  ASSUME IInv, WriteLine, scale' = scale, written' = written
  PROVE  IInv'
<1>1. PICK len : /\ len = IntelChunkLen
                 /\ Emit(<<DataLine(len)>>) /\ Written(len)
  BY DEF WriteLine
<1>2. /\ phase = "write_ihex" /\ phase' = "write_ihex" /\ n <= Len(source)
      /\ ~Unreachable /\ ~ShouldEmit /\ Unchanged
      /\ writtenExtended' = writtenExtended /\ writtenMode' = writtenMode
  BY DEF WriteLine, Writing, emittedVars
<1>3. /\ WritingIntel /\ text \in Seq(TextLine)
      /\ source \in ListType /\ AllInSpace(source) /\ Separated(source)
  BY <1>2 DEF IInv, TypeOK, WriterInv, WrittenInv, WritingIntel, WriterPlace
<1>4. BaseAfter(text, Len(text)) = BankStart
  BY <1>2, <1>3, BaseInForce
<1>5. WroteUpTo(text) /\ InForce(BankStart, writtenExtended', writtenMode')
  BY <1>2, <1>3, <1>4 DEF WroteUpTo, InForce, WritingIntel
<1>6. text' = Append(text, DataLine(len))
  <2>1. text' = text \o <<DataLine(len)>>
    BY <1>1 DEF Emit
  <2>2. QED
    BY <1>3, <2>1, EmitOne
<1>7. QED
  BY <1>1, <1>2, <1>4, <1>5, <1>6, DataWritten

LEMMA WriteExtendedAndLineStep ==
  ASSUME IInv, WriteExtendedAndLine, scale' = scale, written' = written
  PROVE  IInv'
<1>1. PICK len : /\ len = IntelChunkLen
                 /\ Emit(<<ExtendedLine, DataLine(len)>>) /\ Written(len)
  BY DEF WriteExtendedAndLine
<1>2. /\ phase = "write_ihex" /\ phase' = "write_ihex" /\ n <= Len(source)
      /\ ~Unreachable /\ Unchanged
      /\ writtenExtended' = NeededField /\ writtenMode' = LineMode
  BY DEF WriteExtendedAndLine, Writing
<1>3. /\ WritingIntel /\ text \in Seq(TextLine)
      /\ source \in ListType /\ AllInSpace(source) /\ Separated(source)
  BY <1>2 DEF IInv, TypeOK, WriterInv, WrittenInv, WritingIntel, WriterPlace
<1>4. /\ LineMode \in {"segment", "linear"} /\ NeededField \in Nat
      /\ NeededField * (IF LineMode = "segment" THEN Para ELSE Bank) = BankStart
  BY <1>2, <1>3, BaseInForce
<1>5. InForce(BankStart, writtenExtended', writtenMode')
  BY <1>2, <1>4, NoneAssumption DEF InForce
<1>6. PICK l : l = ExtendedLine
  OBVIOUS
<1>7. /\ l.mark = ":" /\ l.type = LineMode /\ l.field = NeededField
      /\ l \in [mark : {":"}, type : {"segment", "linear"}, field : Nat \union {None}]
  BY <1>4, <1>6 DEF ExtendedLine
<1>8. l \in TextLine /\ IsRecord(l, {"segment", "linear"}) /\ ~IsRecord(l, {"data"})
  BY <1>4, <1>7 DEF TextLine, IsRecord
<1>9. PICK t : t = Append(text, l)
  OBVIOUS
<1>10. PICK s : s = RecordAbove(BaseAfter(text, Len(text)), l)
  OBVIOUS
<1>11. BaseAfter(text, Len(text)) \in Nat
  BY <1>3, FormatAssumption DEF WritingIntel
<1>12. OneMore(t, text, l) /\ IntelMore(t, text, l, s)
  BY <1>3, <1>8, <1>9, <1>10, <1>11, EmitLine
<1>13. BaseAfter(t, Len(t)) = BankStart
  BY <1>4, <1>7, <1>8, <1>12 DEF IntelMore
<1>14. WroteUpTo(t)
  <2>1. t \in Seq(TextLine)
    BY <1>12 DEF OneMore
  <2>2. IntelLine(l, options)
    BY <1>4, <1>7, <1>8 DEF IntelLine
  <2>3. \A k \in 1..Len(t) : IntelLine(t[k], options)
    BY <1>3, <1>12, <2>2 DEF OneMore, WritingIntel
  <2>4. LinesInSpace(t)
    BY <1>3, <1>8, <1>12 DEF IntelMore, WritingIntel
  <2>5. \A a \in Addr, b \in Byte :
          IntelSays(t, 1, Len(t), a, b) <=> Holds(source, a, b) /\ Passed(source, n, offset, a)
    BY <1>3, <1>8, <1>12 DEF IntelMore, WritingIntel
  <2>6. QED
    BY <2>1, <2>3, <2>4, <2>5 DEF WroteUpTo
<1>15. text' = Append(t, DataLine(len))
  <2>1. PICK d : d = DataLine(len)
    OBVIOUS
  <2>2. text' = text \o <<l, d>>
    BY <1>1, <1>6, <2>1 DEF Emit
  <2>3. QED
    BY <1>3, <1>9, <2>1, <2>2, EmitTwo
<1>16. QED
  BY <1>1, <1>2, <1>5, <1>13, <1>14, <1>15, DataWritten

LEMMA RefuseAddressStep ==
  ASSUME IInv, RefuseAddress, scale' = scale, written' = written
  PROVE  IInv'
<1>1. /\ phase = "write_ihex" /\ phase' = "write_error" /\ n <= Len(source)
      /\ Unreachable /\ text' = text /\ segments' = segments /\ pos' = pos
  BY DEF RefuseAddress, Writing, Unchanged, readVars
<1>2. /\ written # NoFile /\ WritingIntel /\ text \in Seq(TextLine)
      /\ written.list \in ListType /\ AllInSpace(written.list) /\ Separated(written.list)
  BY <1>1 DEF IInv, WriterInv, WrittenInv, TypeOK
<1>3. /\ WriterPlace /\ source = written.list /\ pos = 0 /\ options = written.options
      /\ written.format = "ihex" /\ options \in IntelOptions
  BY <1>2 DEF WritingIntel, WriterPlace
<1>4. LineMode = "segment" /\ WriteAddr > SegmentTop
  BY <1>1 DEF Unreachable
<1>5. options.mode = "segment"
  BY <1>3, <1>4, IntelOptionsHold DEF LineMode, AutoMode
<1>6. LastAddress(source) > SegmentTop
  <2>1. /\ WriteAddr \in Nat /\ WriteAddr <= EndAddress(source[n])
        /\ EndAddress(source[n]) <= LastAddress(source) /\ EndAddress(source[n]) \in Addr
    BY <1>1, <1>2, <1>3, WritePlace, SpanInSpace DEF AllInSpace
  <2>2. SegmentTop \in Int /\ LastAddress(source) \in Int
    BY <1>2, <1>3, FormatAssumption, LastOf DEF SegmentTop
  <2>3. QED
    BY <1>4, <2>1, <2>2 DEF Addr
<1>7. ~Encodable'
  <2>1. SegmentTop \in Int /\ LastAddress(source) \in Int
    BY <1>2, <1>3, FormatAssumption, LastOf DEF SegmentTop
  <2>2. LastAddress(source) = IF source = <<>> THEN 0 ELSE EndAddress(Last(source))
    BY <1>2, <1>3, LastOf
  <2>3. QED
    BY <1>3, <1>5, <1>6, <2>1, <2>2 DEF Encodable
<1>8. QED
  BY <1>1, <1>2, <1>3, <1>7, WriterStep

LEMMA WriteEofStep ==
  ASSUME IInv, WriteEof, scale' = scale, written' = written
  PROVE  IInv'
<1>1. /\ phase = "write_ihex" /\ phase' = "idle" /\ n > Len(source)
      /\ segments' = segments /\ pos' = pos
      /\ text' = text \o <<[mark |-> ":", type |-> "eof"]>>
  BY DEF WriteEof, Unchanged, readVars, Emit
<1>2. /\ written # NoFile /\ WritingIntel /\ text \in Seq(TextLine)
      /\ written.list \in ListType /\ AllInSpace(written.list) /\ Separated(written.list)
  BY <1>1 DEF IInv, WriterInv, WrittenInv, TypeOK
<1>3. /\ source = written.list /\ pos = 0 /\ options = written.options
      /\ written.format = "ihex" /\ options \in IntelOptions
  BY <1>2 DEF WritingIntel, WriterPlace
<1>4. PICK l : l = [mark |-> ":", type |-> "eof"]
  OBVIOUS
<1>5. /\ l \in TextLine /\ ~IsRecord(l, {"data"}) /\ ~IsRecord(l, {"segment", "linear"})
      /\ IsRecord(l, {"eof"})
  BY <1>4 DEF TextLine, IsRecord
<1>6. PICK u : u = text'
  OBVIOUS
<1>7. u = Append(text, l)
  BY <1>1, <1>2, <1>4, <1>6, EmitOne
<1>8. PICK s : s = RecordAbove(BaseAfter(text, Len(text)), l)
  OBVIOUS
<1>9. BaseAfter(text, Len(text)) \in Nat
  BY <1>2, FormatAssumption DEF WritingIntel
<1>10. OneMore(u, text, l) /\ IntelMore(u, text, l, s)
  BY <1>2, <1>5, <1>7, <1>8, <1>9, EmitLine
<1>11. \A k \in 1..(Len(u) - 1) : IntelLine(u[k], options)
  BY <1>2, <1>10 DEF OneMore, WritingIntel
<1>12. LinesInSpace(u)
  BY <1>2, <1>5, <1>10 DEF IntelMore, WritingIntel
<1>13. \A a \in Addr, b \in Byte : IntelSays(u, 1, Len(u), a, b) <=> Holds(source, a, b)
  <2>1. \A a \in Addr, b \in Byte : IntelSays(u, 1, Len(u), a, b) <=> IntelSays(text, 1, Len(text), a, b)
    BY <1>5, <1>10 DEF IntelMore
  <2>2. \A a \in Addr : Passed(source, n, offset, a)
    BY <1>1 DEF Passed
  <2>3. QED
    BY <1>2, <2>1, <2>2 DEF WritingIntel
<1>14. Len(u) > 0 /\ IsRecord(u[Len(u)], {"eof"})
  BY <1>5, <1>10 DEF OneMore
<1>15. IntelWritten'
  BY <1>3, <1>6, <1>11, <1>12, <1>13, <1>14 DEF IntelWritten
<1>16. Encodable'
  <2>1. SegmentTop \in Int /\ 0 <= SegmentTop
    <3>1. Bank * Para > 0 /\ Bank * Para \in Int
      BY FormatAssumption
    <3>2. QED
      BY <3>1 DEF SegmentTop
  <2>2. options.mode = "segment" /\ source # <<>> => EndAddress(Last(source)) <= SegmentTop
    BY <1>1, <1>2 DEF WritingIntel, Last
  <2>3. QED
    BY <1>3, <2>1, <2>2 DEF Encodable
<1>17. text' \in Seq(TextLine)
  BY <1>6, <1>10 DEF OneMore
<1>18. QED
  BY <1>1, <1>2, <1>3, <1>15, <1>16, <1>17, WriterStep

-----------------------------------------------------------------------------
(* The theorems *)

LEMMA FilesInSpace ==
  ASSUME NEW list \in Files
  PROVE  list \in ListType /\ AllInSpace(list)
BY InputAssumption, StoredList

LEMMA InitInv ==
  ASSUME Init
  PROVE  IInv
<1>1. segments \in ListType /\ AllInSpace(segments)
  BY FilesInSpace, EmptyList DEF Init
<1>2. text \in Seq(TextLine)
  <2>1. CASE text = <<>>
    BY <2>1
  <2>2. CASE text \in Texts
    BY <2>2, InputAssumption
  <2>3. QED
    BY <2>1, <2>2 DEF Init
<1>3. pos = 0 /\ pos \in 0..Len(text)
  BY <1>2, LenProperties DEF Init
<1>4. phase = "idle" /\ scale = 1 /\ written = NoFile
  BY DEF Init, IntelReaderIdle
<1>5. TypeOK
  BY <1>1, <1>2, <1>3, <1>4 DEF TypeOK, Phases
<1>6. ReadInv
  BY <1>3, <1>4 DEF ReadInv, ForeignRead
<1>7. QED
  BY <1>4, <1>5, <1>6 DEF IInv, WrittenInv, WriterInv

LEMMA NextInv ==
  ASSUME IInv, Next
  PROVE  IInv'
<1>1. CASE ParseAuto \/ Parse16Bit
  BY <1>1, ParseStep
<1>2. CASE WriteIntel
  BY <1>2, WriteIntelStep
<1>3. CASE WriteSRec
  BY <1>3, WriteSRecStep
<1>4. CASE IntelReaderNext /\ UNCHANGED <<emittedVars, written>>
  BY <1>4, IntelReaderStep
<1>5. CASE SRecReaderNext /\ UNCHANGED <<ihexVars, emittedVars, written>>
  BY <1>5, SRecReaderStep
<1>6. CASE IntelWriterNext /\ UNCHANGED <<ihexVars, written>>
  <2>1. scale' = scale /\ written' = written
    BY <1>6 DEF ihexVars
  <2>2. WriteLine \/ WriteExtendedAndLine \/ RefuseAddress \/ WriteEof
    BY <1>6 DEF IntelWriterNext
  <2>3. QED
    BY <2>1, <2>2, WriteLineStep, WriteExtendedAndLineStep, RefuseAddressStep, WriteEofStep
<1>7. CASE SRecWriterNext /\ UNCHANGED <<ihexVars, emittedVars, written>>
  <2>1. scale' = scale /\ written' = written
    BY <1>7 DEF ihexVars
  <2>2. WriteSRecord \/ WriteTerminator
    BY <1>7 DEF SRecWriterNext
  <2>3. QED
    BY <2>1, <2>2, WriteSRecordStep, WriteTerminatorStep
<1>8. QED
  BY <1>1, <1>2, <1>3, <1>4, <1>5, <1>6, <1>7 DEF Next

LEMMA StutterInv ==
  ASSUME IInv, vars' = vars
  PROVE  IInv'
<1>1. /\ phase' = phase /\ segments' = segments /\ text' = text /\ pos' = pos
      /\ parsed' = parsed /\ source' = source /\ n' = n /\ offset' = offset
      /\ options' = options /\ scale' = scale /\ current' = current
      /\ extended' = extended /\ eofSeen' = eofSeen /\ recordSeen' = recordSeen
      /\ writtenExtended' = writtenExtended /\ writtenMode' = writtenMode
      /\ written' = written
  BY DEF vars
<1>2. TypeOK'
  BY <1>1 DEF IInv, TypeOK
<1>3. ReadingIntel <=> ReadingIntel'
  BY <1>1 DEF ReadingIntel
<1>4. ReadingSRec <=> ReadingSRec'
  BY <1>1 DEF ReadingSRec
<1>5. ForeignRead <=> ForeignRead'
  BY <1>1, SameText DEF ForeignRead, Foreign
<1>6. WritingIntel <=> WritingIntel'
  BY <1>1 DEF WritingIntel, WriterPlace
<1>7. WritingSRec <=> WritingSRec'
  BY <1>1 DEF WritingSRec, WriterPlace
<1>8. (Rereading <=> Rereading') /\ (Encodable <=> Encodable')
  BY <1>1, SameText DEF Rereading, ReadBack, Encodable
<1>9. QED
  BY <1>1, <1>2, <1>3, <1>4, <1>5, <1>6, <1>7, <1>8
     DEF IInv, ReadInv, WrittenInv, WriterInv

\* The inductive invariant.
THEOREM ConversionInv ==
  Spec => []IInv
<1>1. Init => IInv
  BY InitInv
<1>2. IInv /\ [Next]_vars => IInv'
  BY NextInv, StutterInv
<1>3. QED
  BY <1>1, <1>2, PTL DEF Spec

\* At every line the reader has gathered what the records so far say
\* (intel_hex.rs:112-172).
THEOREM ReadsWhatRecordsSay ==
  Spec => []ReadsAsRecords
<1>1. IInv => ReadsAsRecords
  <2>1. SUFFICES ASSUME IInv, phase = "read_ihex", NoEmptyRecord, NEW a \in Addr
                 PROVE  ReadByte(PushCurrent, a) = SaidAt(pos, a)
    BY DEF ReadsAsRecords
  <2>2. /\ IntelKnows(text, scale, pos, extended, eofSeen, recordSeen)
        /\ IntelGathers(text, scale, pos, parsed, current)
        /\ pos \in Nat /\ a \in Int
    BY <2>1, LenProperties DEF IInv, ReadInv, ReadingIntel, TypeOK, Addr
  <2>3. PICK list : list = PushCurrent
    OBVIOUS
  <2>4. list = Gathered(parsed, current) /\ DataLines(pos) = IntelLines(text, pos)
    BY <2>3 DEF PushCurrent, Gathered, DataLines, IntelLines
  <2>5. list \in ListType
    BY <2>2, <2>4, AppendProperties DEF Gathered, IntelGathers, ListType, Loose, SegRecord
  <2>6. /\ AllInSpace(list)
        /\ \A b \in Byte : LastWins(list, Len(list), a, b) <=> IntelSays(text, scale, pos, a, b)
    BY <2>1, <2>2, <2>4 DEF IntelGathers, NoEmptyRecord, ReadsAs
  <2>7. ASSUME NEW k \in IntelLines(text, pos)
        PROVE  /\ RecordAt(k) = IntelRecord(text, scale, k)
               /\ RecordAt(k) = IntelRecords(text, scale, pos)[k]
               /\ Loose(RecordAt(k)) /\ k \in 1..pos
    <3>1. k \in 1..pos /\ IsRecord(text[k], {"data"})
      BY DEF IntelLines
    <3>2. BaseAt(k) = BaseAfter(text, k - 1)
      BY DEF BaseAt, BaseAfter, ExtendedIn
    <3>3. RecordAt(k) = IntelRecord(text, scale, k)
      BY <3>2 DEF RecordAt, IntelRecord
    <3>4. Loose(IntelRecord(text, scale, k))
      BY <2>2, <3>1 DEF IntelKnows, IntelGood, IsRecord
    <3>5. QED
      BY <3>1, <3>3, <3>4 DEF IntelRecords
  <2>8. PICK covering : covering = { k \in IntelLines(text, pos) : Covers(RecordAt(k), a) }
    OBVIOUS
  <2>9. SaidAt(pos, a) =
          IF covering = {} THEN None ELSE ByteAt(RecordAt(Max(covering)), a)
    BY <2>4, <2>8 DEF SaidAt
  <2>10. CASE covering = {}
    <3>1. \A b : ~IntelSays(text, scale, pos, a, b)
      BY <2>7, <2>8, <2>10 DEF IntelSays, Said, Has
    <3>2. \A m \in 1..Len(list) : ~Covers(list[m], a)
      BY <2>2, <2>5, <2>6, <3>1, ReadIsLastWins
    <3>3. QED
      BY <2>2, <2>3, <2>5, <2>6, <2>9, <2>10, <3>2, ReadIsLastWins
  <2>11. CASE covering # {}
    <3>1. covering \in SUBSET (1..pos)
      BY <2>7, <2>8
    <3>2. PICK k : k = Max(covering)
      OBVIOUS
    <3>3. k \in covering /\ \A j \in covering : j <= k
      BY <2>2, <2>11, <3>1, <3>2, MaxUpTo
    <3>4. PICK b : b = ByteAt(RecordAt(k), a)
      OBVIOUS
    <3>5. Has(RecordAt(k), a, b)
      BY <2>8, <3>3, <3>4 DEF Has
    <3>6. b \in Byte
      <4>1. RecordAt(k) \in SegRecord
        BY <2>7, <2>8, <3>3 DEF Loose
      <4>2. /\ RecordAt(k).start \in Int /\ RecordAt(k).data \in Seq(Byte)
            /\ Len(RecordAt(k).data) \in Nat
        BY <4>1, LenProperties DEF SegRecord, Addr
      <4>3. a - RecordAt(k).start + 1 \in 1..Len(RecordAt(k).data)
        BY <2>2, <3>5, <4>2 DEF Has, Covers
      <4>4. QED
        BY <3>4, <4>2, <4>3, ElementOfSeq DEF ByteAt
    <3>7. IntelSays(text, scale, pos, a, b)
      <4>1. k \in IntelLines(text, pos) /\ Has(IntelRecords(text, scale, pos)[k], a, b)
        BY <2>7, <2>8, <3>3, <3>5
      <4>2. ASSUME NEW j \in IntelLines(text, pos), j > k
            PROVE  ~Covers(IntelRecords(text, scale, pos)[j], a)
        <5>1. j \notin covering
          BY <2>7, <3>1, <3>3, <4>2
        <5>2. QED
          BY <2>7, <2>8, <5>1
      <4>3. QED
        BY <4>1, <4>2 DEF IntelSays, Said
    <3>8. LastWins(list, Len(list), a, b)
      BY <2>6, <3>6, <3>7
    <3>9. \E m \in 1..Len(list) : Covers(list[m], a)
      BY <3>8 DEF LastWins, Has
    <3>10. ReadByte(list, a) = b
      BY <2>2, <2>5, <2>6, <3>8, <3>9, ReadIsLastWins
    <3>11. QED
      BY <2>3, <2>9, <2>11, <3>2, <3>4, <3>10
  <2>12. QED
    BY <2>10, <2>11
<1>2. QED
  BY <1>1, ConversionInv, PTL

\* Every data record that is written holds a byte, and stays inside its line
\* and its bank (intel_hex.rs:304-317).
THEOREM WritesInsideBanks ==
  Spec => []RecordsInBank
<1>1. IInv => RecordsInBank
  <2>1. SUFFICES ASSUME IInv, phase = "write_ihex", NEW k \in DOMAIN text, IsData(text[k])
                 PROVE  /\ Len(text[k].data) \in 1..IntelPerLineOf(options)
                        /\ text[k].addr + Len(text[k].data) <= Bank
    BY DEF RecordsInBank
  <2>2. WritingIntel /\ k \in 1..Len(text)
    BY <2>1, LinesOf DEF IInv, TypeOK, WriterInv, WrittenInv
  <2>3. IntelLine(text[k], options)
    BY <2>2 DEF WritingIntel
  <2>4. QED
    BY <2>1, <2>3 DEF IntelLine, IsRecord, IsData
<1>2. QED
  BY <1>1, ConversionInv, PTL

\* A text from elsewhere is read if and only if it is whole (intel_hex.rs:51-185,
\* srec.rs:38-136).
THEOREM ReadsWholeFilesOnly ==
  Spec => []AcceptsWholeFiles
<1>1. IInv => AcceptsWholeFiles
  <2>1. SUFFICES ASSUME IInv, Foreign, phase = "read_error" \/ (phase = "idle" /\ pos = Len(text))
                 PROVE  (phase = "idle") <=> IF IsIntelHex THEN WholeIntelHex ELSE WholeSRec
    BY DEF AcceptsWholeFiles
  <2>2. TypeOK /\ text \in Seq(TextLine) /\ text # <<>>
    BY <2>1 DEF IInv, TypeOK, Foreign
  <2>3. Len(text) \in Nat /\ Len(text) > 0
    BY <2>2, LenProperties, EmptySeq
  <2>4. (phase = "idle") <=> IF IsIntelHex THEN IntelWhole(text, scale) ELSE SRecWhole(text)
    BY <2>1, <2>3 DEF IInv, ReadInv, ForeignRead
  <2>5. (WholeIntelHex <=> IntelWhole(text, scale)) /\ (WholeSRec <=> SRecWhole(text))
    BY <2>2, WholeIntel, WholeSRecord DEF TypeOK
  <2>6. QED
    BY <2>4, <2>5
<1>2. QED
  BY <1>1, ConversionInv, PTL

\* What a writer takes reads back as the file that was written, and a writer
\* refuses what its mode or type does not reach (file.rs:28-63,
\* intel_hex.rs:243-322, srec.rs:148-205).
THEOREM RoundTripKeepsImage ==
  Spec => []ImageKept
<1>1. IInv => ImageKept
  <2>1. SUFFICES ASSUME IInv, written # NoFile, CountsFit
                 PROVE  KeptByRoundTrip
    BY DEF ImageKept
  <2>2. phase \in Phases /\ WrittenInv
    BY <2>1 DEF IInv, TypeOK
  <2>3. CASE phase \in {"write_ihex", "write_srec"}
    BY <2>3 DEF KeptByRoundTrip, ReadBack
  <2>4. CASE phase = "write_error"
    BY <2>1, <2>2, <2>4 DEF WrittenInv, KeptByRoundTrip
  <2>5. CASE phase \in {"idle", "binary", "read_ihex", "read_srec", "read_error"}
    BY <2>1, <2>2, <2>5 DEF WrittenInv, Rereading, KeptByRoundTrip
  <2>6. QED
    BY <2>2, <2>3, <2>4, <2>5 DEF Phases
<1>2. QED
  BY <1>1, ConversionInv, PTL

=============================================================================
