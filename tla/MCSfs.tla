------------------------------- MODULE MCSfs -------------------------------
(* Small instances of the library for TLC.  "a" and "ab" share a prefix,    *)
(* "a/b" needs the directory "a", and with FirstFile = 3 its name does not  *)
(* fit into one file entry.                                                 *)
EXTENDS SfsCorrect, SfsReaddir

CONSTANTS a, b      \* two names without a common prefix

One      == {<<a>>}
Two      == {<<a>>, <<b>>}
Nested   == {<<"a">>, <<"a", "b">>, <<"a", "/", "b">>}
Prefixed == {<<"a">>, <<"a", "b">>}

(* No call tells the two names apart. *)
NameSymmetry == Permutations({a, b})

(* Blocks have two bytes: a first byte, and a write across a block boundary *)
(* that may leave a hole before it.                                         *)
FewSpans   == {<<0, 1>>, <<1, 2>>}

(* The first bytes of the first and of the second block: what was written   *)
(* tells the two from each other, and a hole is left between them.          *)
FirstBytes == {<<0, 1>>, <<2, 1>>}
=============================================================================
