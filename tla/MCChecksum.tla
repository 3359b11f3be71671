----------------------------- MODULE MCChecksum -----------------------------
(***************************************************************************)
(* One to three jobs of every algorithm and target on files of one or two  *)
(* runs, with overlaps; limits and excluded ranges that keep a later       *)
(* target out, forced ranges over the gap and past the last address.       *)
(***************************************************************************)
EXTENDS Checksum

Bytes(start, end) == FromStartEnd(start, end)
Seg(start, data) == [start |-> start, data |-> data]

MCByte == 0..2

MCFiles ==
  { <<>>, <<Seg(2, <<1, 2>>)>>, <<Seg(3, <<2, 1, 2>>)>>, <<Seg(8, <<1, 1>>)>>, <<Seg(5, <<2>>)>>,
    <<Seg(2, <<1, 2>>), Seg(6, <<0, 1>>)>>, <<Seg(2, <<2, 1, 0, 2>>), Seg(3, <<1, 1>>)>> }

Target(kind, at) == [kind |-> kind, at |-> at]

MCTargets ==
  { Target(k, None) : k \in {"None", "Append", "Prepend", "OverwriteEnd"} }
  \union { Target("Address", a) : a \in {0, 4, MaxAddr} }

Plain(alg, range, exclude) ==
  [alg |-> alg, reversed |-> FALSE, range |-> range, forced |-> None, exclude |-> exclude]

\* Every algorithm and both byte orders, for a single job.
SingleOptions ==
  [alg : {"ByteSumBe", "ByteSumLe", "ByteSumTwosComplement", "WordSumBe", "WordSumLe",
          "WordSumBeTwosComplement", "WordSumLeTwosComplement", "ModularSum"},
   reversed : BOOLEAN, range : {None, Bytes(2, 5)},
   forced : {None, [range |-> Bytes(3, 7), pattern |-> <<1, 2>>],
             [range |-> Bytes(2, 3), pattern |-> <<>>],
             [range |-> FromStartLength(8, 4), pattern |-> <<2>>]},
   exclude : {<<>>, <<Bytes(6, 6), Bytes(3, 3)>>}]

ChainOptions ==
  { Plain(sum[1], sum[2], ex) :
      sum \in { <<"ByteSumBe", None>>, <<"ByteSumBe", Bytes(2, 5)>>, <<"WordSumLe", None>> },
      ex \in {<<>>, <<Bytes(0, 1)>>, <<Bytes(3, 5)>>} }

\* A job that writes nothing changes nothing for the others.
ChainJobs ==
  [options : ChainOptions, target : MCTargets \ {Target("None", None)}]

MCJobLists ==
  [1..1 -> [options : SingleOptions, target : MCTargets]]
  \union [1..2 -> ChainJobs]
  \union { <<f[1], f[2], f[1]>> : f \in { g \in [1..2 -> ChainJobs] :
             g[1].options.alg = "ByteSumBe" /\ g[2].options.exclude # <<>> } }

=============================================================================
