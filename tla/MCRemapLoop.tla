---------------------------- MODULE MCRemapLoop ----------------------------
(***************************************************************************)
(* One segment of any start and length, or two that may overlap, remapped  *)
(* with windows and banks of one to three bytes over eight addresses.      *)
(***************************************************************************)
EXTENDS RemapLoop

Shapes == { sh \in Addr \X (1..MaxAddr) : FitsAt(sh[1], sh[2]) }

Tagged(shapes) ==
  [k \in DOMAIN shapes |->
     [start |-> shapes[k][1],
      data  |-> [m \in 1..shapes[k][2] |-> 10 * k + m]]]

MCByte == { 10 * k + m : k \in 1..2, m \in 1..MaxAddr }

Second == { sh \in Shapes : sh[1] \in {0, 3} /\ sh[2] \in {1, 4} }

MCFiles ==
  { <<>> } \union { Tagged(<<sh>>) : sh \in Shapes }
  \union { Tagged(<<sh, tail>>) : sh \in { x \in Shapes : x[2] <= 3 }, tail \in Second }

MCOptions ==
  [start : {1, 2}, end : {5, MaxAddr}, linear : {0, 3}, size : 1..3, inc : 1..3]
  \union [start : {2}, end : {1, 6}, linear : {0}, size : {0, 2}, inc : {0, 2}]

=============================================================================
