----------------------------- MODULE MCHexFile -----------------------------
(***************************************************************************)
(* Calls with every start address, runs of one and two bytes, ranges that  *)
(* overlap, touch, come out of order or reach past the address space,      *)
(* patterns of none, one and two bytes, and files to merge whose segments  *)
(* are out of order.                                                       *)
(***************************************************************************)
EXTENDS HexFile

Seg(start, data) == [start |-> start, data |-> data]
Bytes(start, end) == FromStartEnd(start, end)

MCByte == {"a", "b", Zero}

MCSegs == { Seg(x, d) : x \in Addr, d \in { <<"a">>, <<"b", "a">> } }

Storable == { s \in MCSegs : FitsAt(s.start, Len(s.data)) }

PastTheEnd == FromStartLength(2, MaxAddr)

KeepOrCut ==
  { <<>>, <<Bytes(1, 1)>>, <<Bytes(2, 4)>>, <<Bytes(2, 3), Bytes(1, 2)>>,
    <<Bytes(4, 4), Bytes(0, 1)>>, <<Bytes(1, 2), PastTheEnd>> }

ToFill ==
  { <<Bytes(1, 1)>>, <<Bytes(1, 4)>>, <<Bytes(0, MaxAddr)>>, <<Bytes(2, 3), Bytes(1, 2)>>,
    <<Bytes(1, 2), PastTheEnd>> }

ToMerge ==
  { <<Seg(0, <<"b", "a">>), Seg(3, <<"b">>)>>, <<Seg(4, <<"a">>), Seg(2, <<"b">>)>> }

MCCalls ==
  [op : {"append_segment", "prepend_segment"}, seg : Storable]
  \union [op : {"write_bytes"}, seg : {Seg(2, <<>>), Seg(2, <<"b">>), Seg(3, <<"b", "a">>)}]
  \union [op : {"normalized"}]
  \union [op : {"filter_ranges", "cut_ranges"}, ranges : KeepOrCut]
  \union [op : {"fill_ranges"}, ranges : ToFill, pattern : {<<"a", "b">>},
          overwrite : BOOLEAN]
  \union [op : {"fill_ranges"}, ranges : {<<Bytes(0, 2)>>, <<PastTheEnd>>},
          pattern : {<<>>}, overwrite : BOOLEAN]
  \union [op : {"fill_gaps"}, byte : {"a"}, limit : {2, MaxAddr}]
  \union { [op |-> "merge", other |-> o, image |-> Image(o), ranges |-> r,
            offset |-> k, mode |-> m] :
             o \in ToMerge, r \in {<<>>, <<Bytes(0, 2)>>}, k \in {0, 1},
             m \in {"Overwrite", "Preserve"} }
  \union { [op |-> "merge", other |-> o, image |-> Image(o), ranges |-> <<>>,
            offset |-> -1, mode |-> "Preserve"] : o \in ToMerge }
  \union [op : {"offset_addresses"}, offset : {-1, 2}]

\* These calls are ones the promise of the sparse image is for.
ASSUME MergesAreUnambiguous == MergesUnambiguous

=============================================================================
