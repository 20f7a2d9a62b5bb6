----------------------------- MODULE MCSfsMount -----------------------------
(* Two names that are no prefixes of "free" or of each other, a directory   *)
(* and blocks of one byte.                                                  *)
EXTENDS SfsMount

CONSTANTS a, b

Two == {<<a>>, <<b>>}
Dir == {<<"d">>}

(* A first byte, and a second one: files of one and two blocks. *)
Bytewise == {<<0, 1>>, <<1, 1>>}

NameSymmetry == Permutations({a, b})
=============================================================================
