------------------------------ MODULE RWLockOps ------------------------------
(***************************************************************************)
(* What a caller sees of muddy::shared_mutex, as operators on a lock       *)
(* value.  A lock is a record                                              *)
(*     entered : the writer that has announced itself (at most one)        *)
(*     readers : the threads that hold the lock shared                     *)
(* A writer enters first and then waits for the readers to drain, so a     *)
(* reader that comes after it has to wait: the lock prefers writers.       *)
(* SharedMutex models how the class does this; RWLock is the state machine *)
(* these operators describe, and SharedMutex implements it.                *)
(***************************************************************************)
FreeLock == [entered |-> {}, readers |-> {}]

\* lock(): the writer bit can be set only when no other writer has set it.
CanEnter(l) == l.entered = {}
Enter(l, t) == [entered |-> {t}, readers |-> l.readers]

\* lock() returns to t once it has entered and the readers are gone.
BadOwns(l, t) == l.entered = {t}   \* a mistake: the readers are forgotten
Owns(l, t) == l.entered = {t} /\ l.readers = {}

\* unlock()
Leave(l) == FreeLock

\* lock_shared() passes no writer that has entered, waiting or not.
CanShare(l) == l.entered = {}
Share(l, t) == [entered |-> l.entered, readers |-> l.readers \cup {t}]

\* unlock_shared()
Unshare(l, t) == [entered |-> l.entered, readers |-> l.readers \ {t}]
=============================================================================
