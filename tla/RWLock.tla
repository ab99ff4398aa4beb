-------------------------------- MODULE RWLock --------------------------------
(***************************************************************************)
(* The abstract reader-writer lock: what muddy::shared_mutex promises to   *)
(* the threads that call it.  The tunnel server is modelled over the same  *)
(* operators, so what SharedMutex is shown to implement here is exactly    *)
(* what the server relies on.                                              *)
(***************************************************************************)
EXTENDS RWLockOps

CONSTANT Thread

VARIABLE lock

Init == lock = FreeLock

DoEnter(t) == /\ CanEnter(lock)
              /\ t \notin lock.readers
              /\ lock' = Enter(lock, t)

DoLeave(t) == /\ Owns(lock, t)
              /\ lock' = Leave(lock)

DoShare(t) == /\ CanShare(lock)
              /\ t \notin lock.readers
              /\ lock' = Share(lock, t)

DoUnshare(t) == /\ t \in lock.readers
                /\ lock' = Unshare(lock, t)

Next == \E t \in Thread : DoEnter(t) \/ DoLeave(t) \/ DoShare(t) \/ DoUnshare(t)

Spec == Init /\ [][Next]_lock
=============================================================================
