---------------------------- MODULE MCConversion ----------------------------
(***************************************************************************)
(* Four banks of four addresses; segment mode reaches two of them, S1 one  *)
(* and S2 two.  Texts are every order of a few lines, and records placed   *)
(* by each kind of base; files have runs that fill, cross and touch banks  *)
(* and lines.                                                              *)
(***************************************************************************)
EXTENDS Conversion

Seg(start, data) == [start |-> start, data |-> data]

Data(addr, data) == [mark |-> ":", type |-> "data", addr |-> addr, data |-> data]
Rec(type) == [mark |-> ":", type |-> type]
Base(type, field) == [mark |-> ":", type |-> type, field |-> field]
Mark(m) == [mark |-> m]
SRecord(type, count, addr, data) ==
  [mark |-> "S", type |-> type, count |-> count, addr |-> addr, data |-> data]
SLine(type) == [mark |-> "S", type |-> type]

MCTop == [S1 |-> 3, S2 |-> 7, S3 |-> 15]

MCByte == 1..6

SeqsUpTo(S, k) == UNION { [1..m -> S] : m \in 0..k }

Placing ==
  { Base("linear", 1), Base("linear", 3), Base("segment", 1), Base("segment", None),
    Data(0, <<1, 2>>), Data(2, <<3>>), Data(3, <<4, 5>>), Data(1, <<>>) }

AnyLine ==
  { Data(3, <<1, 2>>), Base("linear", 3), Rec("eof"), Rec("start"), Rec("unknown"),
    Rec("broken"), Mark("text"), Mark("hexlike"), Mark("blank"), Mark("binary"),
    SLine("other") }

SLines ==
  { SRecord("S1", 5, 2, <<1, 2>>), SRecord("S1", 6, 2, <<1, 2>>), SRecord("S2", 5, 7, <<3>>),
    SRecord("S3", 7, 14, <<4, 5>>), SRecord("S3", 7, 15, <<4, 5>>), SRecord("S3", 5, 15, <<>>),
    SLine("other"), SLine("unknown"), SLine("broken"), Mark("blank"), Mark("text") }

MCTexts ==
  { s \o <<Rec("eof")>> : s \in [1..4 -> Placing] }
  \union SeqsUpTo(AnyLine, 3)
  \union SeqsUpTo(SLines, 3)

Runs(first) ==
  { Seg(a, [k \in 1..len |-> first + k]) : a \in Addr, len \in {1, 3, 5} }

MCFiles ==
  { <<>> }
  \union { <<s>> : s \in { s \in Runs(0) : FitsAt(s.start, Len(s.data)) } }
  \union { <<s, t>> : s \in { Seg(a, <<1, 2, 3>>) : a \in 0..13 },
                      t \in { Seg(2, <<6>>), Seg(4, <<5, 6>>), Seg(6, <<4, 5, 6>>), Seg(12, <<6>>) } }

MCIntelOptions == [perLine : {0, 3, 5}, mode : {"auto", "segment", "linear"}]

MCSRecOptions == [perLine : {0, 1}, type : {None, "S1", "S2"}]

LongLines == [perLine : {5}, type : {None}]

=============================================================================
