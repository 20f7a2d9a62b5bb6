----------------------------- MODULE MCSfsFuse -----------------------------
(* One file and one directory, whose names a rename may swap, or two files; *)
(* two handles.  The data area is one block.                                *)
EXTENDS SfsFuse

CONSTANTS h1, h2

Files   == {<<"f">>, <<"g">>}
OneDir  == {<<"d">>}
OneFile == {<<"f">>}
Byte    == {<<0, 1>>}

HandleSymmetry == Permutations(HandleIds)
=============================================================================
