------------------------------- MODULE SfsLock -------------------------------
(***************************************************************************)
(* Several processes of fusesfs and one image: main() of fuse/main.c takes *)
(* a System V semaphore before it calls fuse_main().  Nothing gives it     *)
(* back but the undo of the kernel when the process ends (SEM_UNDO), which *)
(* a forked child does not inherit: hence the foreground mode.             *)
(***************************************************************************)
EXTENDS Integers

CONSTANT Processes

VARIABLES pc,     \* how far main() is in each process; "gone": not running
          sem,    \* the semaphore LOCK_IMAGE_SEM of the image
          undo    \* what the kernel takes from it when the process ends

vars == <<pc, sem, undo>>

Init == /\ pc = [p \in Processes |-> "gone"]
        /\ sem = 0
        /\ undo = [p \in Processes |-> 0]

At(p, here, there) == pc[p] = here /\ pc' = [pc EXCEPT ![p] = there]

Start(p) == At(p, "gone", "started") /\ UNCHANGED <<sem, undo>>

(* The image can be opened and the mount directory is there. *)
CheckArguments(p) == At(p, "started", "checked") /\ UNCHANGED <<sem, undo>>

(* Mutant: the kernel is not asked to undo it. *)
LockNoUndo(p) ==
    /\ sem = 0 /\ At(p, "checked", "locked")
    /\ sem' = sem + 1 /\ UNCHANGED undo

(* Both operations happen at once, or neither: "Image already uses", and    *)
(* main() exits (Die).                                                      *)
try_to_lock_image(p) ==
    /\ sem = 0 /\ At(p, "checked", "locked")
    /\ sem' = sem + 1 /\ undo' = [undo EXCEPT ![p] = 1]

(* Mutant: fuse_main() without -f goes on in a child and ends the parent. *)
MainInBackground(p) ==
    /\ At(p, "locked", "mounted")
    /\ sem' = sem - undo[p] /\ undo' = [undo EXCEPT ![p] = 0]

fuse_main(p) == At(p, "locked", "mounted") /\ UNCHANGED <<sem, undo>>

(* The process exits at one of its checks, is unmounted or is killed. *)
Die(p) == /\ pc[p] # "gone" /\ pc' = [pc EXCEPT ![p] = "gone"]
          /\ sem' = sem - undo[p] /\ undo' = [undo EXCEPT ![p] = 0]

Next == \E p \in Processes :
            \/ Start(p) \/ CheckArguments(p) \/ try_to_lock_image(p)
            \/ fuse_main(p) \/ Die(p)

Spec == Init /\ [][Next]_vars

-----------------------------------------------------------------------------
(* At most one process serves an image: however the starts and ends of      *)
(* fusesfs processes interleave, no two write to its index (try_to_lock_    *)
(* image and the option -f).                                                *)
OneServer == \A p, q \in Processes : pc[p] = "mounted" /\ pc[q] = "mounted" => p = q

(* An image is never locked by a process that is gone, so that a crash does *)
(* not keep it from being mounted again (SEM_UNDO).                         *)
NoStaleLock == sem > 0 => \E p \in Processes : pc[p] \in {"locked", "mounted"}

-----------------------------------------------------------------------------
(* What the proof of the two needs: the semaphore counts the one process    *)
(* that has passed try_to_lock_image(), and the kernel knows it.            *)
Holds(p) == pc[p] \in {"locked", "mounted"}

LockInv ==
    /\ pc \in [Processes -> {"gone", "started", "checked", "locked", "mounted"}]
    /\ undo \in [Processes -> {0, 1}]
    /\ sem \in {0, 1}
    /\ \A p \in Processes : undo[p] = 1 <=> Holds(p)
    /\ \A p \in Processes : Holds(p) => sem = 1
    /\ sem = 1 => \E p \in Processes : Holds(p)
    /\ \A p, q \in Processes : Holds(p) /\ Holds(q) => p = q
=============================================================================
