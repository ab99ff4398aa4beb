----------------------------- MODULE SharedMutex -----------------------------
(***************************************************************************)
(* muddy::shared_mutex (source/common/thread/shared_mutex.cpp): a reader-  *)
(* writer lock made of one std::mutex, two condition variables and one     *)
(* unsigned word whose top bit is "a writer has entered" and whose other   *)
(* bits count the readers.                                                 *)
(*                                                                         *)
(* Every method holds __mut_ from its first line to its return, except     *)
(* inside a wait(): an action is therefore what a method does between two  *)
(* points where __mut_ is free.  A thread that waits is in `asleep' until  *)
(* it is notified (or wakes spuriously); it then tests its loop condition  *)
(* again under __mut_.                                                     *)
(***************************************************************************)
EXTENDS Naturals, FiniteSets

CONSTANTS Thread,     \* the threads that use the lock
          MaxReaders  \* __n_readers_, the largest count the word can hold

(***************************************************************************)
(* unlock_shared wakes one thread when the count drops below its maximum:  *)
(* that is enough as long as a full lock leaves at most one thread outside *)
(* (2^31 - 1 readers in the program, which has three threads).             *)
(***************************************************************************)
ASSUME ThreadAssumption == /\ IsFiniteSet(Thread)
                           /\ MaxReaders \in Nat \ {0}
                           /\ Cardinality(Thread) <= MaxReaders + 1

VARIABLES writeEntered, \* __state_ & __write_entered_
          nReaders,     \* __state_ & __n_readers_
          pc,           \* where each thread is
          asleep        \* the threads blocked in a wait()

vars == <<writeEntered, nReaders, pc, asleep>>

\* idle: holds nothing.  lock_gate1, lock_gate2: in lock(), at a wait.
\* shared_gate1: in lock_shared(), at its wait.  writing, reading: holds it.
Where == {"idle", "lock_gate1", "lock_gate2", "writing", "shared_gate1", "reading"}

Gate1 == {t \in Thread : pc[t] \in {"lock_gate1", "shared_gate1"}}
Gate2 == {t \in Thread : pc[t] = "lock_gate2"}

Init == /\ writeEntered = FALSE
        /\ nReaders = 0
        /\ pc = [t \in Thread |-> "idle"]
        /\ asleep = {}

Goto(t, w)    == pc' = [pc EXCEPT ![t] = w] /\ asleep' = asleep
WaitAt(t, w)  == pc' = [pc EXCEPT ![t] = w] /\ asleep' = asleep \cup {t}
NotifyAll(G)  == asleep' = asleep \ G
NotifyOne(G)  == IF asleep \cap G = {} THEN asleep' = asleep
                 ELSE \E t \in asleep \cap G : asleep' = asleep \ {t}

-----------------------------------------------------------------------------
\* The operators named Bad... are not part of the specification: each is the
\* operation after it with one plausible mistake, which a property catches.

\* lock(): the code from a test of the first loop to the next wait or return.
BadTryEnter(t) ==   \* does not wait for the readers to drain
  IF writeEntered
  THEN WaitAt(t, "lock_gate1") /\ UNCHANGED <<writeEntered, nReaders>>
  ELSE writeEntered' = TRUE /\ Goto(t, "writing") /\ UNCHANGED nReaders

TryEnter(t) ==
  \/ /\ writeEntered
     /\ WaitAt(t, "lock_gate1")
     /\ UNCHANGED <<writeEntered, nReaders>>
  \/ /\ ~writeEntered
     /\ writeEntered' = TRUE
     /\ IF nReaders > 0 THEN WaitAt(t, "lock_gate2") ELSE Goto(t, "writing")
     /\ UNCHANGED nReaders

Lock(t)      == pc[t] = "idle" /\ TryEnter(t)
WakeLock1(t) == pc[t] = "lock_gate1" /\ t \notin asleep /\ TryEnter(t)

\* lock(): a test of the second loop.
WakeLock2(t) ==
  /\ pc[t] = "lock_gate2"
  /\ t \notin asleep
  /\ IF nReaders > 0 THEN WaitAt(t, "lock_gate2") ELSE Goto(t, "writing")
  /\ UNCHANGED <<writeEntered, nReaders>>

BadTryLock(t) ==    \* looks at the writer bit only
  /\ pc[t] = "idle"
  /\ ~writeEntered
  /\ writeEntered' = TRUE
  /\ Goto(t, "writing")
  /\ UNCHANGED nReaders

\* try_lock() that returns true; one that returns false changes nothing.
TryLock(t) ==
  /\ pc[t] = "idle"
  /\ ~writeEntered /\ nReaders = 0
  /\ writeEntered' = TRUE
  /\ Goto(t, "writing")
  /\ UNCHANGED nReaders

BadUnlock1(t) ==    \* notify_one instead of notify_all
  /\ pc[t] = "writing"
  /\ writeEntered' = FALSE /\ nReaders' = 0
  /\ pc' = [pc EXCEPT ![t] = "idle"]
  /\ NotifyOne(Gate1)

BadUnlock0(t) ==    \* no notification at all
  /\ pc[t] = "writing"
  /\ writeEntered' = FALSE /\ nReaders' = 0
  /\ Goto(t, "idle")

Unlock(t) ==
  /\ pc[t] = "writing"
  /\ writeEntered' = FALSE
  /\ nReaders' = 0
  /\ pc' = [pc EXCEPT ![t] = "idle"]
  /\ NotifyAll(Gate1)

-----------------------------------------------------------------------------
BadShareFull(t) ==     \* forgets the limit on the count
  \/ writeEntered /\ WaitAt(t, "shared_gate1") /\ UNCHANGED nReaders
  \/ ~writeEntered /\ nReaders' = nReaders + 1 /\ Goto(t, "reading")

BadShareBarge(t) ==    \* passes a writer that waits for the readers
  \/ nReaders = MaxReaders /\ WaitAt(t, "shared_gate1") /\ UNCHANGED nReaders
  \/ nReaders # MaxReaders /\ nReaders' = nReaders + 1 /\ Goto(t, "reading")

\* lock_shared(): the code from a test of its loop to the next wait or return.
TryShare(t) ==
  \/ /\ writeEntered \/ nReaders = MaxReaders
     /\ WaitAt(t, "shared_gate1")
     /\ UNCHANGED nReaders
  \/ /\ ~writeEntered /\ nReaders # MaxReaders
     /\ nReaders' = nReaders + 1
     /\ Goto(t, "reading")

LockShared(t) == /\ pc[t] = "idle"
                 /\ TryShare(t)
                 /\ UNCHANGED writeEntered

WakeShared(t) == /\ pc[t] = "shared_gate1"
                 /\ t \notin asleep
                 /\ TryShare(t)
                 /\ UNCHANGED writeEntered

\* try_lock_shared() that returns true.
TryLockShared(t) ==
  /\ pc[t] = "idle"
  /\ ~writeEntered /\ nReaders # MaxReaders
  /\ nReaders' = nReaders + 1
  /\ Goto(t, "reading")
  /\ UNCHANGED writeEntered

BadUnlockShared(t) ==  \* wakes the first gate where the second is meant
  /\ pc[t] = "reading"
  /\ nReaders' = nReaders - 1
  /\ pc' = [pc EXCEPT ![t] = "idle"]
  /\ NotifyOne(Gate1)
  /\ UNCHANGED writeEntered

UnlockShared(t) ==
  /\ pc[t] = "reading"
  /\ nReaders' = nReaders - 1
  /\ pc' = [pc EXCEPT ![t] = "idle"]
  /\ CASE writeEntered /\ nReaders' = 0 -> NotifyOne(Gate2)
       [] ~writeEntered /\ nReaders' = MaxReaders - 1 -> NotifyOne(Gate1)
       [] OTHER -> asleep' = asleep
  /\ UNCHANGED writeEntered

\* A wait() may return without a notification.
SpuriousWake(t) == /\ t \in asleep
                   /\ asleep' = asleep \ {t}
                   /\ UNCHANGED <<writeEntered, nReaders, pc>>

-----------------------------------------------------------------------------
Release(t) == Unlock(t) \/ UnlockShared(t)
Wake(t)    == WakeLock1(t) \/ WakeLock2(t) \/ WakeShared(t)
Call(t)    == Lock(t) \/ TryLock(t) \/ LockShared(t) \/ TryLockShared(t)

Next == \E t \in Thread : Call(t) \/ Wake(t) \/ Release(t) \/ SpuriousWake(t)

Spec == Init /\ [][Next]_vars

\* The guards of the program release what they hold, and a thread that has
\* been woken runs.  No thread has to call, and no wait() wakes by itself.
FairSpec == Spec /\ \A t \in Thread : WF_vars(Wake(t)) /\ WF_vars(Release(t))

-----------------------------------------------------------------------------
TypeOK ==
  /\ writeEntered \in BOOLEAN
  /\ nReaders \in 0 .. MaxReaders
  /\ pc \in [Thread -> Where]
  /\ asleep \subseteq Gate1 \cup Gate2

Readers == {t \in Thread : pc[t] = "reading"}
Entered == {t \in Thread : pc[t] \in {"lock_gate2", "writing"}}

\* Mutual exclusion of shared_mutex: while lock() has returned to a thread and
\* it has not called unlock(), no other thread holds the lock in any mode.
Exclusion ==
  \A t, u \in Thread :
    t # u /\ pc[t] = "writing" => pc[u] \notin {"writing", "reading"}

\* The word __state_ says who holds the lock: the reader bits count the readers
\* and the writer bit is set exactly while one thread is past the first gate.
\* unlock() writes 0 to the whole word, so this fails if it can wipe a reader.
StateEncodesHolders ==
  /\ nReaders = Cardinality(Readers)
  /\ Cardinality(Entered) = IF writeEntered THEN 1 ELSE 0

\* No lost wakeup: a thread is left asleep at a gate only while the condition
\* it waits for is false (readers inside at the second gate; at the first one
\* a writer that has entered, or a full reader count).
NoLostWakeup ==
  /\ Gate2 \cap asleep # {} => nReaders > 0
  /\ Gate1 \cap asleep # {} => \/ writeEntered
                               \/ nReaders = MaxReaders

\* A writer that has closed the first gate gets the lock: readers cannot starve
\* it, because lock_shared() lets nobody in after it.
WriterGetsIn == \A t \in Thread : (pc[t] = "lock_gate2") ~> (pc[t] = "writing")

\* A thread waits in lock() or lock_shared() for ever only when others keep on
\* releasing the lock and taking it before it: no thread is simply forgotten.
OnlyBargingStarves ==
  \A t \in Thread :
    <>[](t \in Gate1) => []<><<\E u \in Thread : Release(u)>>_vars

-----------------------------------------------------------------------------
\* The abstract lock that the state of this one stands for.
RW == INSTANCE RWLock WITH lock <- [entered |-> Entered, readers |-> Readers]

\* shared_mutex implements the abstract reader-writer lock of RWLock.
ImplementsRWLock == RW!Spec
=============================================================================
