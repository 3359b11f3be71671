---------------------------- MODULE MCFrontends ----------------------------
(***************************************************************************)
(* Requests whose results depend on their order: what one moves, fills,    *)
(* cuts or merges the next meets.  Settings for every phase of the run     *)
(* after the operations.  A file with overlaps, one with an odd gap, and   *)
(* one that the signature on disk does not sign.                           *)
(***************************************************************************)
EXTENDS Frontends

Seg(start, data) == [start |-> start, data |-> data]
Bytes(start, end) == FromStartEnd(start, end)
Opt(name, value) == [name |-> name, value |-> value]

MCByte == 0..2

MCSignatureBytes == <<1, 2>>

MCRecordTop == (<<"XI", 2>> :> 8) @@ (<<"XS", 0>> :> 5) @@ (<<"XS", 1>> :> 8)

\* The window at 2..3 goes to a place of each map; the bytes around it stay.
MCMapStar(op, segs) ==
  LET to == [map_star12 |-> 4, map_star12x |-> 6, map_star08 |-> 8]
  IN [n \in DOMAIN segs |->
        IF 2 <= segs[n].start /\ EndAddress(segs[n]) <= 3
          THEN [segs[n] EXCEPT !.start = @ - 2 + to[op]] ELSE segs[n]]

Overlapping == <<Seg(2, <<1, 2>>), Seg(6, <<2, 2, 1>>), Seg(5, <<0, 1>>)>>
Sparse == <<Seg(7, <<1>>), Seg(2, <<2, 1>>)>>
Other == <<Seg(3, <<2>>), Seg(4, <<1, 0>>)>>

Signed == [key |-> "key", metadata |-> TRUE]

MCDisks ==
  { [in |-> file, other |-> Other, ascii |-> <<1, 2>>, log |-> log,
     sig |-> Signature(Signed, Sparse), newsig |-> None, sum |-> None, out |-> None,
     derived |-> None, ini |-> "header", missing |-> None] @@ ("derived.ini" :> None) :
     <<file, log>> \in {<<Overlapping, <<"FileNew">>>>, <<Sparse, <<>>>>,
                        <<Sparse, <<"FileClose", "FileOpen">>>>,
                        <<Sparse, <<"Word">>>>} }

MergeOf(name, mode, offset, ranges) ==
  [options |-> <<Opt(name, <<[path |-> "other", offset |-> offset, ranges |-> ranges]>>)>>,
   call |-> [op |-> "merge", other |-> Other, offset |-> offset, ranges |-> ranges,
             mode |-> mode]]

Simple(name, op) == [options |-> <<Opt(name, TRUE)>>, call |-> [op |-> op]]

RemapWith(options) ==
  [options |-> <<Opt("REMAP", options)>>, call |-> [op |-> "remap", options |-> options]]

RemapOptions == [start |-> 2, end |-> 7, linear |-> 2, size |-> 2, inc |-> 3]

MCRequests ==
  { Simple("S12MAP", "map_star12"), Simple("S12XMAP", "map_star12x"),
    Simple("S08MAP", "map_star08"), Simple("SWAPWORD", "swap_word"),
    Simple("SWAPLONG", "swap_dword"),
    RemapWith(RemapOptions), RemapWith([RemapOptions EXCEPT !.inc = 0]),
    [options |-> <<Opt("CDSPX", <<[range |-> Bytes(2, 3), target |-> 7]>>)>>,
     call |-> [op |-> "dspic_expand", range |-> Bytes(2, 3), target |-> 7]],
    [options |-> <<Opt("CDSPS", <<[range |-> Bytes(4, 7), target |-> 2]>>)>>,
     call |-> [op |-> "dspic_shrink", range |-> Bytes(4, 7), target |-> 2]],
    [options |-> <<Opt("CDSPG", <<Bytes(5, 8)>>)>>,
     call |-> [op |-> "dspic_clear_ghost", range |-> Bytes(5, 8)]],
    [options |-> <<Opt("FP", <<2, 1>>), Opt("FR", <<Bytes(3, 6)>>)>>,
     call |-> [op |-> "fill", ranges |-> <<Bytes(3, 6)>>, pattern |-> <<2, 1>>,
               overwrite |-> FALSE]],
    [options |-> <<Opt("CR", <<Bytes(3, 5)>>)>>,
     call |-> [op |-> "cut", ranges |-> <<Bytes(3, 5)>>]],
    MergeOf("MT", "Preserve", 0, <<>>), MergeOf("MT", "Preserve", 2, <<Bytes(3, 4)>>),
    MergeOf("MO", "Overwrite", 1, <<>>),
    [options |-> <<Opt("AR", <<Bytes(4, 7)>>)>>,
     call |-> [op |-> "filter", ranges |-> <<Bytes(4, 7)>>]],
    [options |-> <<Opt("FA", TRUE)>>,
     call |-> [op |-> "fill_gaps", byte |-> Base - 1, limit |-> None]],
    [options |-> <<Opt("AD", 4), Opt("AL", TRUE)>>,
     call |-> [op |-> "align", alignment |-> 4, byte |-> Base - 1, length |-> TRUE]],
    [options |-> <<Opt("SB", 2)>>, call |-> [op |-> "split", size |-> 2]] }

FromIn == Opt("input", "in")
ToOut == Opt("o", "out")

MCSources ==
  { <<FromIn, ToOut>>, <<FromIn>>, <<ToOut>>,
    <<Opt("input", "missing"), ToOut>>,
    <<Opt("IN", [path |-> "ascii", offset |-> 3]), ToOut>>,
    <<Opt("II2", "in"), ToOut>>,
    <<Opt("IA", [path |-> "ascii", offset |-> 3]), FromIn, ToOut>>,
    <<Opt("IA", [path |-> "ascii", offset |-> 4]), FromIn, ToOut>>,
    <<Opt("IA", [path |-> "ascii", offset |-> MaxAddr]), ToOut>> }

Job(target) ==
  [options |-> [alg |-> "ByteSumBe", reversed |-> FALSE, range |-> None,
                forced |-> None, exclude |-> <<>>],
   target |-> target]

InFile(kind) == Job([kind |-> kind])
ToFile == Job([kind |-> "File", path |-> "sum"])

MCSettings ==
  { <<Opt("CS", InFile("Append"))>>, <<Opt("CS", InFile("Begin"))>>,
    <<Opt("CS", Job([kind |-> "Address", at |-> 5]))>>, <<Opt("CS", ToFile)>>,
    <<Opt("CSM", <<InFile("Append"), InFile("OverwriteEnd")>>)>>,
    <<Opt("CSM", <<ToFile, InFile("Prepend"),
                   InFile("Prepend")>>)>>,
    <<Opt("DP", [key |-> "key", metadata |-> FALSE, placement |-> None,
                 output |-> "newsig"])>>,
    <<Opt("DP", [key |-> "key", metadata |-> FALSE, placement |-> [kind |-> "Append"],
                 output |-> "newsig"])>>,
    <<Opt("DP", [key |-> "key", metadata |-> TRUE,
                 placement |-> [kind |-> "Prepend"], output |-> None])>>,
    <<Opt("SV", [key |-> "key", metadata |-> FALSE, path |-> "newsig"])>>,
    <<Opt("SV", [key |-> "key", metadata |-> TRUE, path |-> "sig"])>>,
    <<Opt("X", "XI"), Opt("type", 2)>>, <<Opt("X", "XS"), Opt("type", 0)>>,
    <<Opt("X", "XS"), Opt("type", 4)>>, <<Opt("X", "XSB")>>, <<Opt("X", "XN")>>, <<Opt("X", "XP")>>,
    <<Opt("X", "XF"), Opt("P", "ini"), Opt("AE", 4)>>, <<Opt("X", "XF")>>,
    <<Opt("L", "log")>>, <<Opt("FR", <<Bytes(4, 6)>>)>>, <<Opt("AR", <<>>)>>,
    <<Opt("input", "other")>> }

=============================================================================
