-------------------------- MODULE MCNormalizeLoop --------------------------
(***************************************************************************)
(* Every list of at most MaxSegs segments over a small address space.  The *)
(* k-th byte of the n-th segment is 10n + k, so that two bytes of the      *)
(* input are never confused.                                               *)
(***************************************************************************)
EXTENDS NormalizeLoop

CONSTANT MaxSegs

Shapes == { sh \in Addr \X (1..MaxAddr) : FitsAt(sh[1], sh[2]) }

Tagged(shapes) ==
  [n \in DOMAIN shapes |->
     [start |-> shapes[n][1],
      data  |-> [k \in 1..shapes[n][2] |-> 10 * n + k]]]

MCByte == { 10 * n + k : n \in 1..MaxSegs, k \in 1..MaxAddr }

MCInputs == { Tagged(f) : f \in UNION { [1..n -> Shapes] : n \in 0..MaxSegs } }

=============================================================================
