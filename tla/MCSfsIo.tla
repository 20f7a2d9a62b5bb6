------------------------------ MODULE MCSfsIo ------------------------------
(* Three data blocks, so that a read or write has a first, a whole and a    *)
(* last block, and index blocks of two entries.  The alternating patterns   *)
(* tell a byte from its neighbours.                                         *)
EXTENDS SfsIo

Alternating == {[k \in 0..(DataBlocks * BlockSize - 1) |-> (k + p) % 2] : p \in {0, 1}}
=============================================================================
