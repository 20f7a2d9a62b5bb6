----------------------------- MODULE SfsReaddir -----------------------------
(***************************************************************************)
(* The listing of a directory: sfs_readdir() searches the index, from an   *)
(* offset on, for the next file or directory whose name begins with the    *)
(* directory and a "/" and goes on without another one; the FUSE handler   *)
(* calls it until nothing is found.                                        *)
(***************************************************************************)
EXTENDS Sfs

is_leaf(rest) == \A k \in DOMAIN rest : rest[k] # "/"

(* read_file_name() and read_dir_name() read the name on into the           *)
(* continuation entries, which an entry of the model holds whole.           *)
read_file_name(ix, i) == ix[i].name

(* Mutant: the mask is the directory without the "/", as in sfs_rmdir(). *)
ReaddirBareMask(ix, p, from) ==
    FirstOf({i \in from..N :
                /\ check_file_mask(ix, i, p)
                /\ Len(read_file_name(ix, i)) # Len(p)
                /\ is_leaf(SubSeq(read_file_name(ix, i), Len(p) + 2, Len(read_file_name(ix, i))))})

(* The next entry from "from" on, 0 when there is none.  The root has the   *)
(* empty path and mask, and lists itself were it not for the length.        *)
sfs_readdir(ix, p, from) ==
    LET mask == IF p = <<>> THEN p ELSE Append(p, "/")
        Found(i) == LET name == read_file_name(ix, i)
                    IN  /\ check_file_mask(ix, i, mask)
                        /\ Len(name) # Len(p)
                        /\ is_leaf(SubSeq(name, Len(mask) + 1, Len(name)))
    IN  FirstOf({i \in from..N : Found(i)})

(* The entries that the loop of fuse_sfs_readdir() finds, in its order. *)
Listing(ix, p) ==
    LET at[k \in 0..N] ==
            IF k = 0 THEN sfs_readdir(ix, p, 1)
            ELSE IF at[k - 1] = 0 THEN 0 ELSE sfs_readdir(ix, p, at[k - 1] + 1)
    IN  [k \in 1..Cardinality({j \in 0..N : at[j] # 0}) |-> at[k - 1]]

-----------------------------------------------------------------------------
(* The directory that a path names something in, by its last "/". *)
Parent(p) == LET slashes == {k \in DOMAIN p : p[k] = "/"}
             IN  IF slashes = {} THEN <<>> ELSE SubSeq(p, 1, Max(slashes) - 1)

(* A listing shows each file and directory of the directory once, and       *)
(* nothing else: not the directory itself, not what is further down, and    *)
(* not the contents of a directory whose name only begins like it.          *)
ListsItsChildren ==
    \A d \in {i \in Slots : index[i].entry_type = "DIR_ENTRY"} :
        LET l == Listing(index, index[d].name)
        IN  /\ IsInjective(l)
            /\ Range(l) = {i \in Slots : /\ index[i].entry_type \in {"FILE_ENTRY", "DIR_ENTRY"}
                                         /\ index[i].name # <<>>
                                         /\ Parent(index[i].name) = index[d].name}
=============================================================================
