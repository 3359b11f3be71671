--------------------------- MODULE MCChecksumLoop ---------------------------
(***************************************************************************)
(* Lists of up to two runs of data, the first and the last address among   *)
(* them; forced ranges that lie in a gap, reach over data or past the last *)
(* address; limits, excluded ranges out of order and a target.             *)
(***************************************************************************)
EXTENDS ChecksumLoop

Bytes(start, end) == FromStartEnd(start, end)

MCByte == 0..2

\* Different bytes at neighbouring addresses.
Run(start, end) == [start |-> start, data |-> [k \in 1..(end - start + 1) |-> (start + k) % 3]]

Spans == { <<a, b>> \in Addr \X Addr : a <= b /\ b - a < MaxAddr }

MCNormals ==
  { <<>> } \union { <<Run(s[1], s[2])>> : s \in Spans }
  \union { <<Run(s[1], s[2]), Run(t[1], t[2])>> :
             s \in { x \in Spans : x[2] <= 2 }, t \in { x \in Spans : x[1] >= 4 } }

Forced(start, end, pattern) == [range |-> Bytes(start, end), pattern |-> pattern]

MCOptions ==
  [alg : {"ByteSumBe", "WordSumBe"}, reversed : {FALSE},
   range : {None, Bytes(1, 4), FromStartLength(2, MaxAddr)},
   forced : {None, Forced(2, 3, <<>>), Forced(0, 5, <<0, 2>>), Forced(1, 6, <<2, 0, 1>>),
             [range |-> FromStartLength(4, MaxAddr), pattern |-> <<1>>]},
   exclude : {<<>>, <<Bytes(3, 3)>>, <<Bytes(5, 6), Bytes(0, 1)>>}]

MCTargets == {None, Bytes(1, 2), Bytes(6, 7)}

=============================================================================
