----------------------------- MODULE MCSfsSpace -----------------------------
(* Space accounting on an index of 6 entries (START, root directory, the    *)
(* first free extent and 3 more) and 5 data blocks: enough for a file to    *)
(* have a used neighbour, a free donor elsewhere and an index that is full. *)
EXTENDS SfsSpace, TLC

CONSTANTS start, root, first, a, b, c

MCSlots == {start, root, first, a, b, c}
MCFixed == {start, root}

(* After mksfs nothing tells apart the entries a, b and c. *)
MCSymmetry == Permutations({a, b, c})
=============================================================================
