------------------------------ MODULE MCMksfs -------------------------------
(* Small images: from the smallest that mksfs accepts to one whose number   *)
(* of blocks needs two bytes.  200000 is not a multiple of any block size.  *)
EXTENDS Mksfs

MCFileSizes    == {600, 640, 768, 1024, 1280, 1536, 2048, 4096, 8192, 65536, 131072, 200000}
MCBlockOptions == {None, <<256, "B">>, <<1, "K">>, <<512, "">>, <<384, "B">>, <<128, "B">>,
                   <<50, "%">>, <<1, "X">>, <<4096, "B">>, <<1, "M">>, <<1, "G">>}
MCIndexOptions == {None, <<1, "B">>, <<300, "B">>, <<1, "K">>, <<50, "%">>, <<90, "%">>,
                   <<0, "">>, <<1, "M">>}

(* ASCII, with a colon, in Cyrillic (U+0421 is D0 A1), and too long. *)
MCLabels       == {<<>>, <<65, 66>>, <<65, 58>>, <<208, 161>>, [i \in 1..52 |-> 65]}
=============================================================================
