--------------------------- MODULE MCMergeOverlap ---------------------------
(***************************************************************************)
(* A file that holds one byte is merged with one whose own segments        *)
(* overlap, so that their order matters.                                   *)
(***************************************************************************)
EXTENDS HexFile

Seg(start, data) == [start |-> start, data |-> data]

MCByte == {"a", "b", "c", Zero}

Overlapping == <<Seg(1, <<"a">>), Seg(1, <<"b">>)>>

MCCalls ==
  [op : {"append_segment"}, seg : {Seg(0, <<"c">>)}]
  \union [op : {"merge"}, other : {Overlapping}, image : {Image(Overlapping)},
          ranges : {<<>>}, offset : {0}, mode : {"Overwrite", "Preserve"}]

=============================================================================
