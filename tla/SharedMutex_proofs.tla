-------------------------- MODULE SharedMutex_proofs --------------------------
(***************************************************************************)
(* Proofs about SharedMutex, for any finite set of threads and any limit   *)
(* on the readers that ThreadAssumption allows.                            *)
(***************************************************************************)
EXTENDS SharedMutex, FiniteSetTheorems, TLAPS

\* The word __state_ in terms of sets: TypeOK and Exclusion are not inductive
\* without it, because unlock() clears the whole word and unlock_shared()
\* subtracts from it without looking who holds the lock.
Word ==
  /\ nReaders = Cardinality(Readers)
  /\ writeEntered = (Entered # {})
  /\ \A t, u \in Entered : t = u
  /\ \A t \in Thread : pc[t] = "writing" => nReaders = 0

Inv == TypeOK /\ Word

\* The sets of threads are finite, with the count their size.
LEMMA ReadersFinite == IsFiniteSet(Readers) /\ Cardinality(Readers) \in Nat
  BY ThreadAssumption, FS_Subset, FS_CardinalityType DEF Readers

\* The word counts no reader exactly when there is none.
LEMMA NoReaders == Word => (nReaders = 0 <=> Readers = {})
  BY ReadersFinite, FS_EmptySet DEF Word

\* A thread that starts reading is counted, if it was not reading before.
LEMMA OneMore == ASSUME NEW t \in Thread, t \notin Readers
                 PROVE  Cardinality(Readers \cup {t}) = Cardinality(Readers) + 1
  BY ReadersFinite, FS_AddElement

\* A thread that stops reading is no longer counted.
LEMMA OneLess == ASSUME NEW t \in Readers
                 PROVE  Cardinality(Readers \ {t}) = Cardinality(Readers) - 1
  BY ReadersFinite, FS_RemoveElement

LEMMA InitInv == Init => Inv
  <1> SUFFICES ASSUME Init PROVE Inv
    OBVIOUS
  <1>1. Readers = {} /\ Entered = {}
    BY DEF Init, Readers, Entered
  <1>2. Cardinality(Readers) = 0
    BY <1>1, FS_EmptySet
  <1>3. TypeOK
    <2>1. writeEntered \in BOOLEAN /\ asleep \subseteq Gate1 \cup Gate2
      BY DEF Init
    <2>2. nReaders \in 0 .. MaxReaders
      BY ThreadAssumption DEF Init
    <2>3. pc \in [Thread -> Where]
      BY DEF Init, Where
    <2> QED
      BY <2>1, <2>2, <2>3 DEF TypeOK
  <1>4. Word
    BY <1>1, <1>2 DEF Init, Word
  <1> QED
    BY <1>3, <1>4 DEF Inv

\* lock(), from its call or after a wakeup at the first gate.
LEMMA TryEnterInv ==
  ASSUME Inv, NEW t \in Thread, pc[t] \in {"idle", "lock_gate1"}, t \notin asleep,
         TryEnter(t)
  PROVE  Inv'
  <1> USE DEF Inv
  <1>1. Readers' = Readers
    BY DEF TypeOK, TryEnter, WaitAt, Goto, Readers
  <1>2. CASE writeEntered
    <2>1. Entered' = Entered
      BY <1>2 DEF TypeOK, TryEnter, WaitAt, Entered
    <2>2. TypeOK'
      BY <1>2 DEF TypeOK, TryEnter, WaitAt, Where, Gate1, Gate2
    <2>3. Word'
      BY <1>1, <1>2, <2>1 DEF TypeOK, Word, TryEnter, WaitAt
    <2> QED
      BY <2>2, <2>3
  <1>3. CASE ~writeEntered
    <2>1. Entered' = {t}
      BY <1>3 DEF TypeOK, TryEnter, WaitAt, Goto, Entered, Word
    <2>2. TypeOK'
      <3>1. writeEntered' \in BOOLEAN /\ nReaders' \in 0 .. MaxReaders
        BY <1>3 DEF TypeOK, TryEnter
      <3>2. pc' \in [Thread -> Where]
        BY <1>3 DEF TypeOK, TryEnter, WaitAt, Goto, Where
      <3>3. asleep' \subseteq Gate1' \cup Gate2'
        BY <1>3 DEF TypeOK, TryEnter, WaitAt, Goto, Gate1, Gate2
      <3> QED
        BY <3>1, <3>2, <3>3 DEF TypeOK
    <2>3. writeEntered' /\ nReaders' = nReaders
      BY <1>3 DEF TryEnter
    <2>4. ASSUME NEW u \in Thread, pc'[u] = "writing" PROVE nReaders' = 0
      <3>1. CASE u = t
        BY <1>3, <2>4, <3>1 DEF TypeOK, TryEnter, WaitAt, Goto
      <3>2. CASE u # t
        BY <1>3, <2>4, <3>2 DEF TypeOK, TryEnter, WaitAt, Goto, Word
      <3> QED
        BY <3>1, <3>2
    <2>5. Word'
      BY <1>1, <2>1, <2>3, <2>4 DEF Word
    <2> QED
      BY <2>2, <2>5
  <1> QED
    BY <1>2, <1>3 DEF TypeOK

\* lock(), after a wakeup at the second gate.
LEMMA WakeLock2Inv ==
  ASSUME Inv, NEW t \in Thread, WakeLock2(t) PROVE Inv'
  <1> USE DEF Inv
  <1>1. Readers' = Readers /\ Entered' = Entered
    BY DEF TypeOK, WakeLock2, WaitAt, Goto, Readers, Entered
  <1>2. TypeOK'
    BY DEF TypeOK, WakeLock2, WaitAt, Goto, Where, Gate1, Gate2
  <1>3. ASSUME NEW u \in Thread, pc'[u] = "writing" PROVE nReaders' = 0
    BY <1>3 DEF TypeOK, WakeLock2, WaitAt, Goto, Word
  <1>4. Word'
    BY <1>1, <1>3 DEF Word, WakeLock2
  <1> QED
    BY <1>2, <1>4

LEMMA TryLockInv ==
  ASSUME Inv, NEW t \in Thread, TryLock(t) PROVE Inv'
  <1> USE DEF Inv
  <1>1. Readers' = Readers /\ Entered' = {t}
    BY DEF TypeOK, TryLock, Goto, Readers, Entered, Word
  <1>2. TypeOK'
    BY DEF TypeOK, TryLock, Goto, Where, Gate1, Gate2
  <1>3. Word'
    BY <1>1 DEF Word, TryLock
  <1> QED
    BY <1>2, <1>3

\* unlock(): the word becomes 0, which is right because nobody else is inside.
LEMMA UnlockInv ==
  ASSUME Inv, NEW t \in Thread, Unlock(t) PROVE Inv'
  <1> USE DEF Inv
  <1>1. nReaders = 0
    BY DEF Word, Unlock
  <1>2. Entered = {t}
    BY DEF Word, Unlock, Entered
  <1>3. Readers' = Readers /\ Entered' = {}
    BY <1>2 DEF TypeOK, Unlock, Readers, Entered
  <1>4. TypeOK'
    <2>1. writeEntered' \in BOOLEAN
      BY DEF Unlock
    <2>2. nReaders' \in 0 .. MaxReaders
      BY ThreadAssumption DEF Unlock
    <2>3. pc' \in [Thread -> Where]
      BY DEF TypeOK, Unlock, Where
    <2>4. asleep' \subseteq Gate1' \cup Gate2'
      BY DEF TypeOK, Unlock, NotifyAll, Gate1, Gate2
    <2> QED
      BY <2>1, <2>2, <2>3, <2>4 DEF TypeOK
  <1>5. ASSUME NEW u \in Thread, pc'[u] = "writing" PROVE nReaders' = 0
    BY DEF Unlock
  <1>6. Word'
    BY <1>1, <1>3, <1>5 DEF Word, Unlock
  <1> QED
    BY <1>4, <1>6

\* lock_shared() and try_lock_shared() that let t in.
LEMMA ReadInv ==
  ASSUME Inv, NEW t \in Thread, pc[t] \in {"idle", "shared_gate1"}, t \notin asleep,
         ~writeEntered, nReaders # MaxReaders, nReaders' = nReaders + 1,
         Goto(t, "reading"), UNCHANGED writeEntered
  PROVE  Inv'
  <1> USE DEF Inv
  <1>1. Readers' = Readers \cup {t} /\ t \notin Readers
    BY DEF TypeOK, Goto, Readers
  <1>2. Entered' = Entered
    BY DEF TypeOK, Goto, Entered
  <1>3. nReaders' = Cardinality(Readers')
    BY <1>1, OneMore DEF Word
  <1>4. Entered = {}
    BY DEF Word
  <1>5. TypeOK'
    BY ThreadAssumption DEF TypeOK, Goto, Where, Gate1, Gate2
  <1>6. ASSUME NEW u \in Thread PROVE pc'[u] # "writing"
    BY <1>2, <1>4 DEF Entered
  <1>7. Word'
    BY <1>2, <1>3, <1>6 DEF Word
  <1> QED
    BY <1>5, <1>7

\* lock_shared() that waits.
LEMMA ShareWaitInv ==
  ASSUME Inv, NEW t \in Thread, pc[t] \in {"idle", "shared_gate1"},
         WaitAt(t, "shared_gate1"), UNCHANGED <<writeEntered, nReaders>>
  PROVE  Inv'
  <1> USE DEF Inv
  <1>1. Readers' = Readers /\ Entered' = Entered
    BY DEF TypeOK, WaitAt, Readers, Entered
  <1>2. TypeOK'
    BY DEF TypeOK, WaitAt, Where, Gate1, Gate2
  <1>3. Word'
    BY <1>1 DEF Word, TypeOK, WaitAt
  <1> QED
    BY <1>2, <1>3

LEMMA UnlockSharedInv ==
  ASSUME Inv, NEW t \in Thread, UnlockShared(t) PROVE Inv'
  <1> USE DEF Inv
  <1>1. Readers' = Readers \ {t} /\ t \in Readers
    BY DEF TypeOK, UnlockShared, Readers
  <1>2. Entered' = Entered
    BY DEF TypeOK, UnlockShared, Entered
  <1>3. nReaders' = Cardinality(Readers') /\ nReaders' = nReaders - 1
    BY <1>1, OneLess DEF Word, UnlockShared
  <1>4. nReaders # 0
    BY <1>1, NoReaders
  <1>5. asleep' \subseteq asleep
    BY DEF UnlockShared, NotifyOne
  <1>6. TypeOK'
    <2>1. nReaders' \in 0 .. MaxReaders
      BY <1>3, <1>4, ThreadAssumption DEF TypeOK
    <2>2. pc' \in [Thread -> Where]
      BY DEF TypeOK, UnlockShared, Where
    <2>3. asleep' \subseteq Gate1' \cup Gate2'
      BY <1>5 DEF TypeOK, UnlockShared, Gate1, Gate2
    <2> QED
      BY <2>1, <2>2, <2>3 DEF TypeOK, UnlockShared
  <1>7. ASSUME NEW u \in Thread PROVE pc'[u] # "writing"
    BY <1>4 DEF TypeOK, UnlockShared, Word
  <1>8. Word'
    BY <1>2, <1>3, <1>7 DEF Word, UnlockShared
  <1> QED
    BY <1>6, <1>8

LEMMA SpuriousWakeInv ==
  ASSUME Inv, NEW t \in Thread, SpuriousWake(t) PROVE Inv'
  <1>1. Readers' = Readers /\ Entered' = Entered /\ Gate1' = Gate1 /\ Gate2' = Gate2
    BY DEF SpuriousWake, Readers, Entered, Gate1, Gate2
  <1> QED
    BY <1>1 DEF Inv, TypeOK, Word, SpuriousWake

LEMMA NextInv == Inv /\ [Next]_vars => Inv'
  <1> SUFFICES ASSUME Inv, [Next]_vars PROVE Inv'
    OBVIOUS
  <1>1. ASSUME NEW t \in Thread, Call(t) PROVE Inv'
    <2>1. CASE Lock(t)
      BY <2>1, TryEnterInv DEF Lock, Inv, TypeOK, Gate1, Gate2
    <2>2. CASE TryLock(t)
      BY <2>2, TryLockInv
    <2>3. CASE LockShared(t)
      BY <2>3, ReadInv, ShareWaitInv DEF LockShared, TryShare, Inv, TypeOK, Gate1, Gate2
    <2>4. CASE TryLockShared(t)
      BY <2>4, ReadInv DEF TryLockShared, Inv, TypeOK, Gate1, Gate2
    <2> QED
      BY <1>1, <2>1, <2>2, <2>3, <2>4 DEF Call
  <1>2. ASSUME NEW t \in Thread, Wake(t) PROVE Inv'
    <2>1. CASE WakeLock1(t)
      BY <2>1, TryEnterInv DEF WakeLock1
    <2>2. CASE WakeLock2(t)
      BY <2>2, WakeLock2Inv
    <2>3. CASE WakeShared(t)
      BY <2>3, ReadInv, ShareWaitInv DEF WakeShared, TryShare
    <2> QED
      BY <1>2, <2>1, <2>2, <2>3 DEF Wake
  <1>3. ASSUME NEW t \in Thread, Release(t) PROVE Inv'
    BY <1>3, UnlockInv, UnlockSharedInv DEF Release
  <1>4. ASSUME NEW t \in Thread, SpuriousWake(t) PROVE Inv'
    BY <1>4, SpuriousWakeInv
  <1>5. CASE UNCHANGED vars
    <2>1. Readers' = Readers /\ Entered' = Entered /\ Gate1' = Gate1 /\ Gate2' = Gate2
      BY <1>5 DEF vars, Readers, Entered, Gate1, Gate2
    <2> QED
      BY <1>5, <2>1 DEF vars, Inv, TypeOK, Word
  <1> QED
    BY <1>1, <1>2, <1>3, <1>4, <1>5 DEF Next

LEMMA SpecInv == Spec => []Inv
  BY InitInv, NextInv, PTL DEF Spec

-----------------------------------------------------------------------------
\* shared_mutex keeps its word, its threads and its wait sets well formed.
THEOREM TypeCorrect == Spec => []TypeOK
  BY SpecInv, PTL DEF Inv

\* Mutual exclusion: a thread that lock() has returned to is alone inside.
THEOREM MutualExclusion == Spec => []Exclusion
  <1>1. Inv => Exclusion
    <2> SUFFICES ASSUME Inv, NEW t \in Thread, NEW u \in Thread,
                        t # u, pc[t] = "writing"
                 PROVE  pc[u] \notin {"writing", "reading"}
      BY DEF Exclusion
    <2>1. t \in Entered /\ nReaders = 0
      BY DEF Inv, Word, Entered
    <2>2. u \notin Entered
      BY <2>1 DEF Inv, Word
    <2>3. u \notin Readers
      BY <2>1, NoReaders DEF Inv
    <2> QED
      BY <2>2, <2>3 DEF Entered, Readers
  <1> QED
    BY <1>1, SpecInv, PTL

\* The word __state_ always encodes who holds the lock.
THEOREM WordCorrect == Spec => []StateEncodesHolders
  <1>1. Inv => StateEncodesHolders
    <2> SUFFICES ASSUME Inv PROVE StateEncodesHolders
      OBVIOUS
    <2>1. CASE writeEntered
      <3>1. PICK t \in Entered : Entered = {t}
        BY <2>1 DEF Inv, Word
      <3> QED
        BY <2>1, <3>1, FS_Singleton DEF Inv, Word, StateEncodesHolders
    <2>2. CASE ~writeEntered
      <3>1. Entered = {}
        BY <2>2 DEF Inv, Word
      <3>2. Cardinality(Entered) = 0
        BY <3>1, FS_EmptySet
      <3> QED
        BY <2>2, <3>2 DEF Inv, Word, StateEncodesHolders
    <2> QED
      BY <2>1, <2>2 DEF Inv, TypeOK
  <1> QED
    BY <1>1, SpecInv, PTL

-----------------------------------------------------------------------------
\* When the count is at its limit, at most one thread is not reading: this is
\* where ThreadAssumption is needed, and why notify_one() is enough.
LEMMA OneOutside ==
  ASSUME Inv, nReaders = MaxReaders, NEW a \in Thread \ Readers, NEW b \in Thread \ Readers
  PROVE  a = b
  <1> SUFFICES ASSUME a # b PROVE FALSE
    OBVIOUS
  <1> DEFINE S == Readers \cup {a}
             T == S \cup {b}
  <1>1. IsFiniteSet(S) /\ Cardinality(S) = MaxReaders + 1
    BY ReadersFinite, FS_AddElement DEF Inv, Word
  <1>2. Cardinality(T) = Cardinality(S) + 1
    BY <1>1, FS_AddElement, b \notin S
  <1>3. T \subseteq Thread
    BY DEF Readers
  <1>4. Cardinality(T) <= Cardinality(Thread)
    BY <1>3, ThreadAssumption, FS_Subset
  <1>5. Cardinality(Thread) \in Nat
    BY ThreadAssumption, FS_CardinalityType
  <1> QED
    BY <1>1, <1>2, <1>4, <1>5, ThreadAssumption

\* What the gates hold: no writer waits at the second gate before the bit is
\* set, and never two.
LEMMA GateFacts ==
  ASSUME Inv
  PROVE  /\ Gate2 \subseteq Entered
         /\ ~writeEntered => Gate2 = {}
         /\ \A t, u \in Gate2 : t = u
         /\ Gate1 \subseteq Thread \ Readers
  BY DEF Inv, Word, Entered, Readers, Gate1, Gate2

\* The step in which a wakeup could get lost.
LEMMA UnlockSharedWakes ==
  ASSUME Inv, NoLostWakeup, NEW t \in Thread, UnlockShared(t) PROVE NoLostWakeup'
  <1>1. Gate1' = Gate1 /\ Gate2' = Gate2
    BY DEF Inv, TypeOK, UnlockShared, Gate1, Gate2
  <1>2. nReaders' = nReaders - 1 /\ nReaders' \in Nat /\ writeEntered' = writeEntered
    <2>1. nReaders' = nReaders - 1 /\ writeEntered' = writeEntered
      BY DEF UnlockShared
    <2>2. Inv'
      BY UnlockSharedInv
    <2>3. nReaders' \in Nat
      BY <2>2, ThreadAssumption DEF Inv, TypeOK
    <2> QED
      BY <2>1, <2>3
  <1>3. CASE writeEntered /\ nReaders' = 0
    <2>1. NotifyOne(Gate2)
      BY <1>3 DEF UnlockShared
    <2>2. Gate2 \cap asleep' = {}
      BY <2>1, GateFacts DEF NotifyOne
    <2> QED
      BY <1>1, <1>3, <2>2 DEF NoLostWakeup, UnlockShared
  <1>4. CASE ~writeEntered /\ nReaders' = MaxReaders - 1
    <2>1. NotifyOne(Gate1)
      BY <1>4 DEF UnlockShared
    <2>2. nReaders = MaxReaders
      BY <1>2, <1>4, ThreadAssumption DEF Inv, TypeOK
    <2>3. \A x, y \in Gate1 : x = y
      BY <2>2, OneOutside, GateFacts
    <2>4. Gate1 \cap asleep' = {}
      BY <2>1, <2>3 DEF NotifyOne
    <2> QED
      BY <1>1, <1>4, <2>4, GateFacts DEF NoLostWakeup, UnlockShared
  <1>5. CASE writeEntered /\ nReaders' # 0
    <2>1. nReaders' > 0
      <3>1. nReaders' \in Nat /\ nReaders' # 0
        BY <1>2, <1>5
      <3> QED
        BY <3>1
    <2>2. writeEntered'
      BY <1>2, <1>5
    <2> QED
      BY <2>1, <2>2 DEF NoLostWakeup
  <1>6. CASE ~writeEntered /\ nReaders' # MaxReaders - 1
    <2>1. asleep' = asleep
      BY <1>6 DEF UnlockShared
    <2>2. nReaders # MaxReaders
      BY <1>2, <1>6
    <2>3. Gate1 \cap asleep = {} /\ Gate2 = {}
      BY <1>6, <2>2, GateFacts DEF NoLostWakeup
    <2> QED
      BY <1>1, <2>1, <2>3 DEF NoLostWakeup
  <1> QED
    BY <1>3, <1>4, <1>5, <1>6

LEMMA OthersWake ==
  ASSUME Inv, NoLostWakeup, NEW t \in Thread,
         Call(t) \/ Wake(t) \/ Unlock(t) \/ SpuriousWake(t)
  PROVE  NoLostWakeup'
  <1>0. nReaders \in Nat
    BY ThreadAssumption DEF Inv, TypeOK
  <1> USE DEF NoLostWakeup
  <1>1. ASSUME TryEnter(t), pc[t] \in {"idle", "lock_gate1"} PROVE NoLostWakeup'
    <2>1. writeEntered'
      BY <1>1 DEF TryEnter
    <2>2. (Gate2 \cap asleep)' \subseteq Gate2 \cap asleep \/ nReaders' > 0
      BY <1>0, <1>1 DEF TryEnter, WaitAt, Goto, Inv, TypeOK, Gate2
    <2>3. nReaders' = nReaders
      BY <1>1 DEF TryEnter
    <2> QED
      BY <2>1, <2>2, <2>3
  <1>2. ASSUME WakeLock2(t) PROVE NoLostWakeup'
    <2>1. nReaders' = nReaders /\ writeEntered' = writeEntered
      BY <1>2 DEF WakeLock2
    <2>2. (Gate2 \cap asleep)' \subseteq Gate2 \cap asleep \/ nReaders' > 0
      BY <1>0, <1>2 DEF WakeLock2, WaitAt, Goto, Inv, TypeOK, Gate2
    <2>3. (Gate1 \cap asleep)' \subseteq Gate1 \cap asleep
      BY <1>2 DEF WakeLock2, WaitAt, Goto, Inv, TypeOK, Gate1
    <2> QED
      BY <2>1, <2>2, <2>3
  <1>3. ASSUME TryLock(t) PROVE NoLostWakeup'
    <2>1. writeEntered' /\ Gate2' = Gate2 /\ asleep' = asleep /\ nReaders' = nReaders
      BY <1>3 DEF TryLock, Goto, Inv, TypeOK, Gate2
    <2> QED
      BY <2>1
  <1>4. ASSUME TryShare(t), pc[t] \in {"idle", "shared_gate1"}, UNCHANGED writeEntered
        PROVE  NoLostWakeup'
    <2>1. Gate2' \cap asleep' = Gate2 \cap asleep
      BY <1>4 DEF TryShare, WaitAt, Goto, Inv, TypeOK, Gate2
    <2>2. nReaders' \in {nReaders, nReaders + 1}
      BY <1>4 DEF TryShare
    <2>3. Gate1' \cap asleep' \subseteq Gate1 \cap asleep
            \/ (writeEntered' \/ nReaders' = MaxReaders)
      BY <1>4 DEF TryShare, WaitAt, Goto, Inv, TypeOK, Gate1
    <2>4. Gate1' \cap asleep' = {} \/ writeEntered' \/ nReaders' = MaxReaders
      BY <1>4, <2>3 DEF TryShare
    <2> QED
      BY <1>0, <2>1, <2>2, <2>4
  <1>5. ASSUME Unlock(t) PROVE NoLostWakeup'
    <2>1. Gate1' \cap asleep' = {}
      BY <1>5 DEF Unlock, NotifyAll, Inv, TypeOK, Gate1
    <2>2. Gate2' = {}
      BY <1>5, GateFacts DEF Unlock, Inv, TypeOK, Word, Entered, Gate2
    <2> QED
      BY <2>1, <2>2
  <1>6. ASSUME SpuriousWake(t) PROVE NoLostWakeup'
    <2>1. /\ asleep' \subseteq asleep /\ Gate1' = Gate1 /\ Gate2' = Gate2
          /\ UNCHANGED <<writeEntered, nReaders>>
      BY <1>6 DEF SpuriousWake, Gate1, Gate2
    <2> QED
      BY <2>1
  <1>7. ASSUME TryLockShared(t) PROVE NoLostWakeup'
    BY <1>4, <1>7 DEF TryLockShared, TryShare
  <1> QED
    BY <1>1, <1>2, <1>3, <1>4, <1>5, <1>6, <1>7
    DEF Call, Wake, Lock, WakeLock1, LockShared, WakeShared

\* No wakeup is lost in any of the interleavings of the methods, whatever the
\* number of threads, as long as they do not exceed the reader limit by two.
THEOREM WakeupsArrive == Spec => []NoLostWakeup
  <1>1. Init => NoLostWakeup
    BY DEF Init, NoLostWakeup
  <1>2. Inv /\ NoLostWakeup /\ [Next]_vars => NoLostWakeup'
    <2> SUFFICES ASSUME Inv, NoLostWakeup, [Next]_vars PROVE NoLostWakeup'
      OBVIOUS
    <2>1. CASE Next
      BY <2>1, UnlockSharedWakes, OthersWake DEF Next, Release
    <2>2. CASE UNCHANGED vars
      BY <2>2 DEF vars, NoLostWakeup, Gate1, Gate2
    <2> QED
      BY <2>1, <2>2
  <1> QED
    BY <1>1, <1>2, SpecInv, PTL DEF Spec

-----------------------------------------------------------------------------
\* The lock value this state stands for.
AbsLock == [entered |-> Entered, readers |-> Readers]

LEMMA StepRefines ==
  ASSUME Inv, [Next]_vars PROVE [RW!Next]_AbsLock
  <1> USE DEF Inv
  <1>1. ASSUME NEW t \in Thread, TryEnter(t), pc[t] \in {"idle", "lock_gate1"}
        PROVE  RW!DoEnter(t) \/ UNCHANGED AbsLock
    <2>1. Readers' = Readers /\ t \notin Readers
      BY <1>1 DEF TypeOK, TryEnter, WaitAt, Goto, Readers
    <2>2. CASE writeEntered
      <3>1. Entered' = Entered
        BY <1>1, <2>2 DEF TypeOK, TryEnter, WaitAt, Entered
      <3> QED
        BY <2>1, <3>1 DEF AbsLock
    <2>3. CASE ~writeEntered
      <3>1. Entered = {}
        BY <2>3 DEF Word
      <3>2. Entered' = {t}
        BY <1>1, <2>3, <3>1 DEF TypeOK, TryEnter, WaitAt, Goto, Entered
      <3> QED
        BY <2>1, <3>1, <3>2 DEF AbsLock, RW!DoEnter, RW!CanEnter, RW!Enter
    <2> QED
      BY <2>2, <2>3 DEF TypeOK
  <1>2. ASSUME NEW t \in Thread, WakeLock2(t) PROVE UNCHANGED AbsLock
    <2>1. Entered' = Entered /\ Readers' = Readers
      BY <1>2 DEF TypeOK, WakeLock2, WaitAt, Goto, Entered, Readers
    <2> QED
      BY <2>1 DEF AbsLock
  <1>3. ASSUME NEW t \in Thread, TryLock(t) PROVE RW!DoEnter(t)
    <2>1. Entered = {} /\ Entered' = {t} /\ Readers' = Readers /\ t \notin Readers
      BY <1>3 DEF TypeOK, Word, TryLock, Goto, Entered, Readers
    <2> QED
      BY <2>1 DEF AbsLock, RW!DoEnter, RW!CanEnter, RW!Enter
  <1>4. ASSUME NEW t \in Thread, Unlock(t) PROVE RW!DoLeave(t)
    <2>1. Entered = {t} /\ nReaders = 0
      BY <1>4 DEF Word, Unlock, Entered
    <2>2. Readers = {}
      BY <2>1, NoReaders
    <2>3. Entered' = {} /\ Readers' = {}
      BY <1>4, <2>1, <2>2 DEF TypeOK, Unlock, Entered, Readers
    <2> QED
      BY <2>1, <2>2, <2>3 DEF AbsLock, RW!DoLeave, RW!Owns, RW!Leave, RW!FreeLock
  <1>5. ASSUME NEW t \in Thread, pc[t] \in {"idle", "shared_gate1"}, TryShare(t),
               UNCHANGED writeEntered
        PROVE  RW!DoShare(t) \/ UNCHANGED AbsLock
    <2>1. Entered' = Entered /\ t \notin Readers
      BY <1>5 DEF TypeOK, TryShare, WaitAt, Goto, Entered, Readers
    <2>2. CASE WaitAt(t, "shared_gate1")
      <3>1. Readers' = Readers
        BY <1>5, <2>2 DEF TypeOK, WaitAt, Readers
      <3> QED
        BY <2>1, <3>1 DEF AbsLock
    <2>3. CASE ~writeEntered /\ Goto(t, "reading")
      <3>1. Entered = {}
        BY <2>3 DEF Word
      <3>2. Readers' = Readers \cup {t}
        BY <2>3 DEF TypeOK, Goto, Readers
      <3> QED
        BY <2>1, <3>1, <3>2 DEF AbsLock, RW!DoShare, RW!CanShare, RW!Share
    <2> QED
      BY <1>5, <2>2, <2>3 DEF TryShare
  <1>6. ASSUME NEW t \in Thread, TryLockShared(t)
        PROVE  RW!DoShare(t) \/ UNCHANGED AbsLock
    BY <1>5, <1>6 DEF TryLockShared, TryShare
  <1>7. ASSUME NEW t \in Thread, UnlockShared(t) PROVE RW!DoUnshare(t)
    <2>1. /\ Entered' = Entered /\ Readers' = Readers \ {t}
          /\ t \in Readers
      BY <1>7 DEF TypeOK, UnlockShared, Entered, Readers
    <2> QED
      BY <2>1 DEF AbsLock, RW!DoUnshare, RW!Unshare
  <1>8. ASSUME UNCHANGED pc PROVE UNCHANGED AbsLock
    BY <1>8 DEF AbsLock, Entered, Readers
  <1>9. ASSUME NEW t \in Thread, Call(t) PROVE [RW!Next]_AbsLock
    BY <1>1, <1>3, <1>5, <1>6, <1>9 DEF Call, Lock, LockShared, RW!Next
  <1>10. ASSUME NEW t \in Thread, Wake(t) PROVE [RW!Next]_AbsLock
    BY <1>1, <1>2, <1>5, <1>10 DEF Wake, WakeLock1, WakeShared, RW!Next
  <1>11. ASSUME NEW t \in Thread, Release(t) PROVE [RW!Next]_AbsLock
    BY <1>4, <1>7, <1>11 DEF Release, RW!Next
  <1> QED
    BY <1>8, <1>9, <1>10, <1>11 DEF Next, SpuriousWake, vars

\* shared_mutex implements the abstract reader-writer lock, so whatever is shown
\* of the server over RWLockOps holds of the server over shared_mutex.
THEOREM Refinement == Spec => ImplementsRWLock
  <1>1. Init => RW!Init
    <2> SUFFICES ASSUME Init PROVE RW!Init
      OBVIOUS
    <2>1. Entered = {} /\ Readers = {}
      BY DEF Init, Entered, Readers
    <2> QED
      BY <2>1 DEF RW!Init, RW!FreeLock
  <1>2. Inv /\ [Next]_vars => [RW!Next]_AbsLock
    BY StepRefines
  <1> QED
    BY <1>1, <1>2, SpecInv, PTL DEF Spec, ImplementsRWLock, RW!Spec, AbsLock
=============================================================================
