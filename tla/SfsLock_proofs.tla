--------------------------- MODULE SfsLock_proofs ---------------------------
(* For any number of processes, and any order of their starts and ends.     *)
EXTENDS SfsLock, TLAPS

(* No process has the semaphore at first. *)
LEMMA LockInit == Init => LockInv
BY DEF Init, LockInv, Holds

(* One step per action: only try_to_lock_image() and the end of a process   *)
(* change who holds the semaphore.                                          *)
LEMMA LockStep == LockInv /\ [Next]_vars => LockInv'
<1> SUFFICES ASSUME LockInv, [Next]_vars PROVE LockInv'
    OBVIOUS
<1> USE DEF LockInv, Holds
<1>1. ASSUME NEW p \in Processes, Start(p) PROVE LockInv'
      BY <1>1 DEF Start, At
<1>2. ASSUME NEW p \in Processes, CheckArguments(p) PROVE LockInv'
      BY <1>2 DEF CheckArguments, At
<1>3. ASSUME NEW p \in Processes, try_to_lock_image(p) PROVE LockInv'
      BY <1>3 DEF try_to_lock_image, At
<1>4. ASSUME NEW p \in Processes, fuse_main(p) PROVE LockInv'
      BY <1>4 DEF fuse_main, At
<1>5. ASSUME NEW p \in Processes, Die(p) PROVE LockInv'
      BY <1>5 DEF Die
<1>6. CASE UNCHANGED vars
      BY <1>6 DEF vars
<1> QED BY <1>1, <1>2, <1>3, <1>4, <1>5, <1>6 DEF Next

(* The semaphore counts its one holder in every reachable state. *)
THEOREM LockCounts == Spec => []LockInv
BY LockInit, LockStep, PTL DEF Spec

(* At most one fusesfs process serves the image (try_to_lock_image). *)
THEOREM AtMostOneServer == Spec => []OneServer
<1>1. LockInv => OneServer
      BY DEF LockInv, Holds, OneServer
<1> QED BY <1>1, LockCounts, PTL

(* No process that is gone keeps the image locked (SEM_UNDO). *)
THEOREM LocksDieWithTheirOwner == Spec => []NoStaleLock
<1>1. LockInv => NoStaleLock
      BY DEF LockInv, Holds, NoStaleLock
<1> QED BY <1>1, LockCounts, PTL
=============================================================================
