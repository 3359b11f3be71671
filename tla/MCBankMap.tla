----------------------------- MODULE MCBankMap -----------------------------
(***************************************************************************)
(* Quarters of two addresses, and twice as many banks as a bank number can *)
(* tell apart.  One segment of any start and of one to three bytes, or two *)
(* of which the second is in a window.                                     *)
(***************************************************************************)
EXTENDS BankMap

Run(start, len) == [start |-> start, data |-> [k \in 1..len |-> "x"]]

MCByte == {"x"}

Single == { s \in { Run(a, len) : a \in Addr, len \in 1..3 } : FitsAt(s.start, Len(s.data)) }

MCFiles ==
  { <<>> } \union { <<s>> : s \in Single }
  \union { <<s, t>> : s \in Single, t \in { Run(2, 1), Run(6, 2), Run(12, 1) } }

MCOptions ==
  [kind : {"banked"}, min : {0, 1}, max : {0, 1}, linear : {0, 13, MaxAddr},
   low : {4, MaxAddr}, high : {6, MaxAddr}]
  \union [kind : {"star08"}, min : {0}, max : {BankCount - 1}, linear : {16},
          low : {18}, high : {0}]

=============================================================================
