----------------------------- MODULE FileStore -----------------------------
(***************************************************************************)
(* What the file system promises its users: a tree of names, files whose   *)
(* bytes are the ones written last, and open files that outlive their      *)
(* names.  Where the bytes are kept does not appear.  Bytes that no write  *)
(* covered (behind the old end of a file that is extended) are arbitrary:  *)
(* neither sfs_write() nor sfs_truncate() fills them.  One promise is not  *)
(* kept: once no entry of the index is unused, a file whose entry is in    *)
(* the last block of the index may be lost (Lose).                         *)
(***************************************************************************)
EXTENDS Integers, Sequences, FiniteSets

CONSTANTS Inodes, FilePaths, DirPaths, Tokens, Spans, Lengths, Ancestors(_),
          AtRisk    \* the inodes of the last block of the index

VARIABLES files,   \* path -> inode
          dirs,    \* paths of directories
          body,    \* inode -> bytes, unlinked files that are open included
          full     \* whether there is no room to note another name or extent

vars == <<files, dirs, body>>

Named == {files[p] : p \in DOMAIN files}
Drop(f, x) == [y \in DOMAIN f \ {x} |-> f[y]]
Put(f, x, v) == [y \in DOMAIN f \cup {x} |-> IF y = x THEN v ELSE f[y]]

Init == /\ files = <<>> /\ dirs = {<<>>} /\ body = <<>>

HasParents(p) == Ancestors(p) \subseteq dirs

Creat(p, i) ==
    /\ p \notin DOMAIN files \cup dirs /\ HasParents(p) /\ i \notin DOMAIN body
    /\ files' = Put(files, p, i) /\ body' = Put(body, i, <<>>) /\ UNCHANGED dirs

Mkdir(p) ==
    /\ p \notin dirs /\ HasParents(p)
    /\ dirs' = dirs \cup {p} /\ UNCHANGED <<files, body>>

Rmdir(p) ==
    /\ p \in dirs
    /\ \A q \in DOMAIN files \cup dirs : p \notin Ancestors(q)
    /\ dirs' = dirs \ {p} /\ UNCHANGED <<files, body>>

Unlink(p) ==
    /\ p \in DOMAIN files
    /\ files' = Drop(files, p) /\ UNCHANGED <<dirs, body>>

Delete(i) ==
    /\ i \in DOMAIN body \ Named
    /\ body' = Drop(body, i) /\ UNCHANGED <<files, dirs>>

(* A call that covers the bytes in touched may change these, and those that *)
(* it adds to the file, and nothing else in any file.                       *)
Resize(i, len, touched) ==
    /\ i \in DOMAIN body /\ DOMAIN body' = DOMAIN body
    /\ \A j \in DOMAIN body \ {i} : body'[j] = body[j]
    /\ Len(body'[i]) = len
    /\ \A k \in (1..len) \ touched : k <= Len(body[i]) => body'[i][k] = body[i][k]

Write(i, off, size, t) ==
    LET covered == (off + 1)..(off + size)
    IN  /\ i \in DOMAIN body
        /\ Resize(i, IF off + size > Len(body[i]) THEN off + size ELSE Len(body[i]), covered)
        /\ \A k \in covered : body'[i][k] = t
        /\ UNCHANGED <<files, dirs>>

Truncate(i, len) == Resize(i, len, {}) /\ UNCHANGED <<files, dirs>>

Rename(p, q, j) ==
    /\ p \in DOMAIN files /\ q \notin DOMAIN files \cup dirs /\ HasParents(q)
    /\ j \notin DOMAIN body
    /\ files' = Put(Drop(files, p), q, j)
    /\ body' = Put(Drop(body, files[p]), j, body[files[p]])
    /\ UNCHANGED dirs

(* A file that has bytes is lost: these, and its name, if it has one. *)
Lose(i) ==
    /\ full /\ i \in AtRisk \cap DOMAIN body /\ body[i] # <<>>
    /\ files' = [p \in {q \in DOMAIN files : files[q] # i} |-> files[p]]
    /\ body' = Drop(body, i) /\ UNCHANGED dirs

Calls ==
    \/ \E p \in FilePaths : Unlink(p) \/ \E i \in Inodes : Creat(p, i)
    \/ \E p \in DirPaths : Mkdir(p) \/ Rmdir(p)
    \/ \E i \in Inodes : Delete(i)
    \/ \E i \in Inodes, s \in Spans, t \in Tokens : Write(i, s[1], s[2], t)
    \/ \E i \in Inodes, len \in Lengths : Truncate(i, len)
    \/ \E p, q \in FilePaths, j \in Inodes : Rename(p, q, j)

Next == Calls \/ \E i \in Inodes : Lose(i)

Spec == Init /\ [][Next]_vars

(* What it keeps when no file is lost. *)
LosslessSpec == Init /\ [][Calls]_vars
=============================================================================
