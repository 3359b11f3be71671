---------------------------- MODULE MCTransform ----------------------------
(***************************************************************************)
(* The transforms over two blocks of four addresses.  align, split and   *)
(* the dsPIC copies meet segments of "a" and "b" that overlap, touch and   *)
(* leave gaps inside a block, and ranges that are covered, partly covered  *)
(* or past the end.  Swaps and scaling meet segments of "c" and "d" that   *)
(* cut words in two, hide one another, have an odd start or length, and    *)
(* single ones below and at the large span.                                *)
(***************************************************************************)
EXTENDS HexFile

Seg(start, data) == [start |-> start, data |-> data]

Turned == {"c", "d"}

MCByte == {"a", "b", "pad", Zero} \union Turned

ToPad ==
  { Seg(1, <<"a">>), Seg(6, <<"b">>), Seg(3, <<"b", "a">>), Seg(5, <<"a", "b">>),
    Seg(0, <<"a", "b", "a", "a", "b">>) }

ToTurn ==
  { Seg(1, <<"c", "d">>), Seg(0, <<"c", "d">>), Seg(6, <<"d", "c">>),
    Seg(3, <<"c", "d", "d">>), Seg(2, <<"c", "c", "d", "c">>),
    Seg(0, <<"c", "c", "d", "c">>), Seg(0, <<"c", "c", "d", "c", "d", "d">>) }

\* Even and odd, aligned and not, and one that reaches past the last address.
ToCopy ==
  { FromStartLength(0, 2), FromStartLength(1, 2), FromStartLength(1, 3),
    FromStartLength(0, 4), FromStartLength(6, 4) }

PadCalls ==
  [op : {"append_segment"}, seg : ToPad]
  \union [op : {"align"}, alignment : {0, 3, 4}, byte : {"pad"}, length : BOOLEAN]
  \union [op : {"split"}, size : {0, 2}]
  \union [op : {"dspic_expand", "dspic_shrink"}, range : ToCopy, target : {None, 5}]
  \union [op : {"dspic_clear_ghost"},
          range : {FromStartLength(1, 4), FromStartLength(2, 3)}]

TurnCalls ==
  [op : {"append_segment"}, seg : ToTurn]
  \union [op : {"swap_word", "swap_long"}]
  \union [op : {"scale_addresses", "unscale_addresses"}, by : {0, 2}]

MCCalls == PadCalls \union TurnCalls

\* Bound: a file meets calls of one of the two kinds only.
OneKind ==
  call' # Idle =>
    \A n \in DOMAIN segments :
      (segments[n].data[1] \in Turned) <=> (call' \in TurnCalls)

\* These calls are ones the promise of the sparse image is for.
ASSUME MergesAreUnambiguous == MergesUnambiguous

=============================================================================
