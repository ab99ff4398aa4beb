---------------------- MODULE TunnelServerTable_proofs ----------------------
(***************************************************************************)
(* TunnelServer implements SessionTable: three threads, two indices and    *)
(* the locks between them look to the clients like one table of sessions.  *)
(* And its two indices agree with the heap: no object is lost, dict.mac    *)
(* has sessions only, and what a client is told of its session is so.      *)
(***************************************************************************)
EXTENDS TunnelServerPool_proofs

AbsTable == [k \in Identity |-> IF dictId[k] = NoObject THEN NoSession
                                ELSE SessionOf(dictId[k])]

\* An object of the heap is a session, and two identities are two objects.
LEMMA SessionType ==
  ASSUME Inv, NEW o \in Heap
  PROVE  SessionOf(o) \in ClientView /\ SessionOf(o) # NoSession
  <1>1. info[o] \in Info
    BY HeapType DEF Inv
  <1>2. SessionOf(o) \in ClientView
    BY <1>1 DEF SessionOf, Info, ClientView
  <1> QED
    BY <1>2, ServerAssumption DEF NoSession

LEMMA OpenIds == ASSUME Inv PROVE {k \in Identity : AbsTable[k] # NoSession} = IdsInUse
  BY SessionType DEF AbsTable, IdsInUse, Inv, IdsPoint

LEMMA OwnObject ==
  ASSUME Inv, NEW j \in IdsInUse, NEW k \in IdsInUse, dictId[j] = dictId[k] PROVE j = k
  BY DEF Inv, IdsPoint

\* A step that changes no session that is in the table.
LEMMA TableStutters ==
  ASSUME Inv, UNCHANGED dictId, \A o \in Heap : info'[o] = info[o]
  PROVE  UNCHANGED AbsTable
  BY DEF AbsTable, SessionOf, Inv, IdsPoint, IdsInUse

LEMMA StartRefines ==
  ASSUME Inv, VipAccounting, StartInsert PROVE [ST!Next]_AbsTable
  <1>0. PICK o, k : o = net.obj /\ k = info[o].identity
    OBVIOUS
  <1>1. /\ dictId' = InsertIfAbsent(dictId, k, o) /\ info' = info
        /\ o \in Heap /\ info[o] \in Info /\ k \in Identity
    BY <1>0, HeapType DEF StartInsert, Inv, NetPoints, Starting, Info
  <1>2. CASE dictId[k] # NoObject
    BY <1>1, <1>2, TableStutters DEF InsertIfAbsent
  <1>3. CASE dictId[k] = NoObject
    <2>1. \A x \in Identity : dictId'[x] = IF x = k THEN o ELSE dictId[x]
      BY <1>1, <1>3 DEF InsertIfAbsent, Inv, TypeOK
    <2>2. o # NoObject /\ SessionOf(o)' = SessionOf(o)
      BY <1>1, HeapType DEF SessionOf, Inv
    <2>3. \A x \in Identity : x # k => AbsTable'[x] = AbsTable[x]
      BY <1>1, <2>1 DEF AbsTable, SessionOf
    <2>4. AbsTable'[k] = SessionOf(o)
      BY <1>1, <2>1, <2>2 DEF AbsTable
    <2>5. AbsTable' = [AbsTable EXCEPT ![k] = SessionOf(o)]
      BY <2>3, <2>4 DEF AbsTable
    <2>6. k \notin {x \in Identity : AbsTable[x] # NoSession}
      BY <1>3, OpenIds DEF IdsInUse
    <2>7. SessionOf(o) \in ST!Session
      BY <1>1, SessionType DEF ST!Session, ClientView
    <2>8. \A x \in IdsInUse : info[dictId[x]].ip # info[o].ip
      BY <1>0, <1>1 DEF Inv, IdsPoint, NetPoints, Starting, VipAccounting, IdsInUse, StartInsert
    <2>9. \A x \in IdsInUse : AbsTable[x].ip = info[dictId[x]].ip
      BY DEF AbsTable, SessionOf, IdsInUse
    <2>10. SessionOf(o).ip \notin {AbsTable[x].ip : x \in IdsInUse}
      BY <2>8, <2>9 DEF SessionOf
    <2>11. ST!Start(k)
      BY <2>5, <2>6, <2>7, <2>10, OpenIds DEF ST!Start, ST!Open, AbsTable
    <2> QED
      BY <1>1, <2>11 DEF ST!Next
  <1> QED
    BY <1>2, <1>3

LEMMA HeartbeatRefines ==
  ASSUME Inv, HbUpdate PROVE [ST!Next]_AbsTable
  <1>0. PICK o, k, p : o = net.obj /\ k = net.d.identity /\ p = net.d.peer
    OBVIOUS
  <1>1. k \in IdsInUse /\ dictId[k] = o /\ net.d \in Datagram
    BY <1>0 DEF HbUpdate, Inv, NetPoints, HbHasObject
  <1>2. p \in Peer /\ o \in Object /\ k \in Identity
    BY <1>0, <1>1, DatagramType DEF Inv, IdsPoint, Heap
  <1>3. /\ dictId' = dictId
        /\ \A x \in Object : x # o => info'[x] = info[x]
        /\ info'[o] = Touched(info[o], p)
    BY <1>0, <1>2 DEF HbUpdate, Inv, TypeOK
  <1>4. \A x \in IdsInUse : x # k => dictId[x] # o /\ dictId[x] \in Object
    BY <1>1, OwnObject DEF Inv, IdsPoint, Heap
  <1>5. \A x \in Identity : x # k => AbsTable'[x] = AbsTable[x]
    BY <1>3, <1>4 DEF AbsTable, SessionOf, IdsInUse
  <1>6. AbsTable[k] = SessionOf(o) /\ AbsTable'[k] = SessionOf(o)'
    BY <1>1, <1>3 DEF AbsTable, IdsInUse
  <1>7. AbsTable'[k] = [ip |-> AbsTable[k].ip, mac |-> AbsTable[k].mac,
                        address |-> p, age |-> 0]
    BY <1>3, <1>6 DEF SessionOf, Touched
  <1>8. AbsTable' = [AbsTable EXCEPT
          ![k] = [ip |-> AbsTable[k].ip, mac |-> AbsTable[k].mac, address |-> p, age |-> 0]]
    BY <1>5, <1>7 DEF AbsTable
  <1>9. ST!Heartbeat(k)
    BY <1>1, <1>2, <1>8, OpenIds DEF ST!Heartbeat, ST!Open, AbsTable
  <1> QED
    BY <1>2, <1>9 DEF ST!Next

LEMMA ExpireRefines ==
  ASSUME Inv, NEW k \in Identity, PollRemove(k) PROVE [ST!Next]_AbsTable
  <1>0. PICK o : o = dictId[k]
    OBVIOUS
  <1>1. k \in IdsInUse /\ info[o].age = Timeout
    BY <1>0 DEF PollRemove, Inv, Sweeping, IsExpired
  <1>2. /\ \A x \in Identity : dictId'[x] = IF x = k THEN NoObject ELSE dictId[x]
        /\ \A x \in Object : x # o => info'[x] = info[x]
    BY <1>0 DEF PollRemove, Inv, TypeOK
  <1>3. \A x \in IdsInUse : x # k => dictId[x] # o /\ dictId[x] \in Object
    BY <1>0, <1>1, OwnObject DEF Inv, IdsPoint, Heap
  <1>4. \A x \in Identity : x # k => AbsTable'[x] = AbsTable[x]
    BY <1>2, <1>3 DEF AbsTable, SessionOf, IdsInUse
  <1>5. AbsTable'[k] = NoSession
    BY <1>2 DEF AbsTable, NoSession
  <1>6. AbsTable' = [AbsTable EXCEPT ![k] = NoSession]
    BY <1>4, <1>5 DEF AbsTable
  <1>7. AbsTable[k].age = Timeout
    BY <1>0, <1>1 DEF AbsTable, SessionOf, IdsInUse
  <1>8. ST!Expire(k)
    BY <1>1, <1>6, <1>7, OpenIds DEF ST!Expire, ST!Open, AbsTable
  <1> QED
    BY <1>8 DEF ST!Next

LEMMA TickRefines ==
  ASSUME Inv, Tick PROVE [ST!Next]_AbsTable
  <1>1. dictId' = dictId /\ \A o \in Heap : info'[o] = Older(info[o])
    BY DEF Tick, Heap
  <1>2. ASSUME NEW k \in IdsInUse PROVE AbsTable'[k] = ST!Aged(AbsTable[k])
    <2>1. dictId[k] \in Heap /\ k \in Identity /\ dictId[k] # NoObject
      BY DEF Inv, IdsPoint, IdsInUse
    <2>2. AbsTable[k] = SessionOf(dictId[k]) /\ AbsTable'[k] = SessionOf(dictId[k])'
      BY <1>1, <2>1 DEF AbsTable
    <2>3. info'[dictId[k]] = Older(info[dictId[k]])
      BY <1>1, <2>1
    <2> QED
      BY <1>1, <2>2, <2>3 DEF SessionOf, Older, ST!Aged
  <1>3. \A k \in Identity \ IdsInUse : AbsTable'[k] = NoSession
    BY <1>1 DEF AbsTable, IdsInUse, NoSession
  <1>4. AbsTable' = [k \in Identity |-> IF k \in IdsInUse THEN ST!Aged(AbsTable[k])
                                        ELSE NoSession]
    BY <1>2, <1>3 DEF AbsTable
  <1>5. ST!Tick
    BY <1>4, OpenIds DEF ST!Tick, ST!Open, AbsTable
  <1> QED
    BY <1>5 DEF ST!Next

LEMMA StepRefines ==
  ASSUME Inv, VipAccounting, [Next]_vars PROVE [ST!Next]_AbsTable
  <1>1. ASSUME NEW d \in Datagram, RecvStart(d) PROVE [ST!Next]_AbsTable
    <2>1. dictId' = dictId /\ \A o \in Heap : info'[o] = info[o]
      BY <1>1 DEF RecvStart, Inv, TypeOK, Heap
    <2> QED
      BY <2>1, TableStutters
  <1>2. CASE UNCHANGED <<info, dictId>>
    BY <1>2, TableStutters
  <1>3. \/ UNCHANGED <<info, dictId>> \/ StartInsert \/ HbUpdate \/ Tick
        \/ (\E d \in Datagram : RecvStart(d)) \/ (\E k \in Identity : PollRemove(k))
    BY DEF Next, Recv, NetStep, VethStep, PollStep, RecvIgnored, RecvWrongVersion,
       RecvStartNoAddress, RecvLookup, StartLock, LookupLock, LookupFails, HbFind,
       HbLockInfo, HbOwnInfo, RelayFind, RelayWrite, VethRead, VethLock, VethBroadcast,
       VethUnicast, VethDrop, VethLockInfo, VethSend, VethDone, PollWake, PollLock,
       PollStart, PollDone, table, vars
  <1> QED
    BY <1>1, <1>2, <1>3, StartRefines, HeartbeatRefines, ExpireRefines, TickRefines

\* Whatever the threads do and in whatever order, what the clients see of the
\* server is a table of sessions: unique virtual addresses, changed by nothing
\* but time and their own heartbeats, ended only by silence.
THEOREM Refinement == Spec => ImplementsSessionTable
  <1>1. Init => ST!Init
    BY DEF Init, ST!Init, NoSession
  <1>2. Inv /\ VipAccounting /\ [Next]_vars => [ST!Next]_AbsTable
    BY StepRefines
  <1> QED
    BY <1>1, <1>2, SpecInv, AddressesConserved, PTL
    DEF Spec, ImplementsSessionTable, ST!Spec, AbsTable

-----------------------------------------------------------------------------
(***************************************************************************)
(* While random() returns unused identities, every object is a session of  *)
(* dict.id or the one session that is being started.                       *)
(***************************************************************************)

\* The session that is being started has an identity of its own.
NewIsFresh ==
  net.pc \in Starting =>
    dictId[info[net.obj].identity] = NoObject /\ info[net.obj].address = net.d.peer

Indexed == NoLeak /\ MacIndexSound /\ NewIsFresh

\* A step that leaves both indices alone, and the identity, the interface and the
\* address of the objects that matter.
LEMMA IndexedKept ==
  ASSUME Inv, Indexed, UNCHANGED <<dictId, dictMac>>, Heap' = Heap,
         \A o \in Heap : info'[o].identity = info[o].identity /\ info'[o].mac = info[o].mac,
         net'.obj = net.obj \/ net.pc \in HbHasObject \/ net.obj = NoObject
  PROVE  NoLeak' /\ MacIndexSound'
  <1>1. MacIndexSound'
    BY DEF Indexed, MacIndexSound, MacsInUse
  <1>2. ASSUME NEW o \in Heap PROVE net'.obj = o \/ dictId[info[o].identity] = o
    <2>1. CASE net.obj = o
      <3>1. net'.obj = net.obj \/ net.pc \in HbHasObject
        BY <2>1, HeapType DEF Inv
      <3>2. ASSUME net.pc \in HbHasObject PROVE dictId[info[o].identity] = o
        BY <2>1, <3>2 DEF Inv, NetPoints, IdsPoint
      <3> QED
        BY <2>1, <3>1, <3>2
    <2>2. CASE net.obj # o
      BY <2>2 DEF Indexed, NoLeak
    <2> QED
      BY <2>1, <2>2
  <1>3. NoLeak'
    BY <1>2 DEF NoLeak
  <1> QED
    BY <1>1, <1>3

LEMMA RecvStartIndexed ==
  ASSUME FreshIdentity, Inv, Indexed, NEW d \in Datagram, RecvStart(d) PROVE Indexed'
  <1>1. PICK o \in Object \ Heap, k \in Identity :
          /\ FreshIdentity => k \notin {info[x].identity : x \in Heap}
          /\ info' = [info EXCEPT ![o] =
               [ip |-> Allocated(pool), mac |-> d.mac, address |-> d.peer,
                identity |-> k, age |-> 0]]
          /\ net' = NetAt("start_lock", d, o)
    BY DEF RecvStart
  <1>2. UNCHANGED <<dictId, dictMac>> /\ net.obj = NoObject
    BY DEF RecvStart, Inv, NetPoints, Starting, HbHasObject
  <1>3. /\ \A x \in Object : x # o => info'[x] = info[x]
        /\ info'[o] = [ip |-> Allocated(pool), mac |-> d.mac, address |-> d.peer,
                       identity |-> k, age |-> 0]
    BY <1>1 DEF Inv, TypeOK
  <1>4. info'[o] \in Info
    BY <1>3, AllocateType, DatagramType, ServerAssumption DEF RecvStart, Inv, TypeOK, Info
  <1>5. Heap' = Heap \cup {o} /\ \A x \in Heap : x \in Object /\ info'[x] = info[x]
    BY <1>3, <1>4, ServerAssumption DEF Heap
  <1>6. NoLeak'
    <2> SUFFICES ASSUME NEW x \in Heap' PROVE net'.obj = x \/ dictId[info'[x].identity] = x
      BY <1>2 DEF NoLeak
    <2>1. CASE x = o
      BY <1>1, <2>1 DEF NetAt
    <2>2. CASE x \in Heap
      BY <1>2, <1>5, <2>2, HeapType DEF Inv, Indexed, NoLeak
    <2> QED
      BY <1>5, <2>1, <2>2
  <1>7. MacIndexSound'
    BY <1>2, <1>5 DEF Indexed, MacIndexSound, MacsInUse
  <1>8. dictId[k] = NoObject
    BY <1>1 DEF Inv, IdsPoint, IdsInUse
  <1>9. NewIsFresh'
    BY <1>1, <1>2, <1>3, <1>8 DEF NewIsFresh, NetAt
  <1> QED
    BY <1>6, <1>7, <1>9 DEF Indexed

LEMMA StartInsertIndexed ==
  ASSUME Inv, Indexed, StartInsert PROVE Indexed' /\ SessionInfoTruthful'
  <1> DEFINE o == net.obj
             i == info[o]
  <1>1. /\ dictId' = InsertIfAbsent(dictId, i.identity, o)
        /\ dictMac' = InsertIfAbsent(dictMac, i.mac, o)
        /\ net' = NetIdle /\ info' = info /\ net.pc \in Starting
        /\ output' = {SessionInfoTo(net.d.peer, i.identity, i.ip)}
    BY DEF StartInsert, Put, Starting
  <1>2. o \in Heap /\ o # NoObject /\ Heap' = Heap /\ i \in Info
    BY <1>1, HeapType DEF Inv, NetPoints, Heap
  <1>3. i.identity \in Identity /\ dictId[i.identity] = NoObject /\ i.address = net.d.peer
    BY <1>1, <1>2 DEF Indexed, NewIsFresh, Info
  <1>4. \A k \in Identity : dictId'[k] = IF k = i.identity THEN o ELSE dictId[k]
    BY <1>1, <1>3 DEF InsertIfAbsent, Inv, TypeOK
  <1>5. \A m \in Mac : \/ dictMac'[m] = dictMac[m]
                       \/ dictMac'[m] = o /\ i.mac = m
    BY <1>1 DEF InsertIfAbsent, Inv, TypeOK
  <1>6. \A x \in Heap : info[x].identity \in Identity
    BY HeapType DEF Inv, Info
  <1>7. ASSUME NEW x \in Heap PROVE dictId'[info[x].identity] = x
    <2>1. CASE x = o
      BY <1>4, <1>3, <2>1
    <2>2. CASE x # o
      <3>1. dictId[info[x].identity] = x /\ x # NoObject
        BY <2>2, HeapType DEF Indexed, NoLeak, Inv
      <3>2. info[x].identity # i.identity
        BY <1>3, <3>1
      <3> QED
        BY <1>4, <1>6, <3>1, <3>2
    <2> QED
      BY <2>1, <2>2
  <1>8. NoLeak'
    BY <1>1, <1>2, <1>7 DEF NoLeak
  <1>9. MacIndexSound'
    <2> SUFFICES ASSUME NEW m \in Mac, dictMac'[m] # NoObject
                 PROVE  dictMac'[m] \in Heap /\ info[dictMac'[m]].mac = m
      BY <1>1, <1>2, <1>7 DEF MacIndexSound, MacsInUse
    <2>1. CASE dictMac'[m] = dictMac[m]
      BY <2>1 DEF Inv, MacsPoint, MacsInUse
    <2>2. CASE dictMac'[m] = o /\ i.mac = m
      BY <1>2, <2>2
    <2> QED
      BY <1>5, <2>1, <2>2
  <1>10. NewIsFresh'
    BY <1>1 DEF NewIsFresh, NetIdle, Starting
  <1>11. SessionInfoTruthful'
    <2>1. dictId'[i.identity] = o
      BY <1>3, <1>4
    <2>2. i.identity \in IdsInUse'
      BY <1>2, <1>3, <2>1 DEF IdsInUse
    <2> QED
      BY <1>1, <1>3, <2>1, <2>2 DEF SessionInfoTruthful, SessionInfoTo
  <1> QED
    BY <1>8, <1>9, <1>10, <1>11 DEF Indexed

LEMMA HbUpdateIndexed ==
  ASSUME Inv, Indexed, HbUpdate PROVE Indexed'
  <1>1. net.obj \in Heap /\ net.d \in Datagram
    BY DEF HbUpdate, Inv, NetPoints, HbHasObject, IdsPoint
  <1>2. \A x \in Object : info'[x] = IF x = net.obj THEN Touched(info[x], net.d.peer)
                                     ELSE info[x]
    BY DEF HbUpdate, Inv, TypeOK
  <1>3. Touched(info[net.obj], net.d.peer) \in Info
    BY <1>1, HeapType, DatagramType, ServerAssumption DEF Inv, Touched, Info
  <1>4. Heap' = Heap
    BY <1>1, <1>2, <1>3, ServerAssumption DEF Heap
  <1>5. ASSUME NEW x \in Heap
        PROVE  info'[x].identity = info[x].identity /\ info'[x].mac = info[x].mac
    <2>1. info'[x] = Touched(info[x], net.d.peer) \/ info'[x] = info[x]
      BY <1>2 DEF Heap
    <2> QED
      BY <2>1 DEF Touched
  <1>6. UNCHANGED <<dictId, dictMac>> /\ net.pc \in HbHasObject
    BY DEF HbUpdate, HbHasObject
  <1>7. NewIsFresh'
    BY DEF HbUpdate, NewIsFresh, NetIdle, Starting
  <1> QED
    BY <1>4, <1>5, <1>6, <1>7, IndexedKept DEF Indexed

LEMMA PollRemoveIndexed ==
  ASSUME Inv, Indexed, NEW k \in Identity, PollRemove(k) PROVE Indexed'
  <1>0. PICK o : o = dictId[k]
    OBVIOUS
  <1>1. k \in IdsInUse /\ o \in Heap /\ info[o].identity = k /\ info[o] \in Info
    BY <1>0, HeapType DEF PollRemove, Inv, Sweeping, IdsPoint
  <1>2. /\ \A x \in Identity : dictId'[x] = IF x = k THEN NoObject ELSE dictId[x]
        /\ \A m \in Mac : dictMac'[m] = IF m = info[o].mac THEN NoObject ELSE dictMac[m]
        /\ \A x \in Object : info'[x] = IF x = o THEN NoInfo ELSE info[x]
        /\ net' = net
    BY <1>0 DEF PollRemove, Inv, TypeOK
  <1>3. Heap' = Heap \ {o}
    BY <1>2 DEF Heap
  <1>4. ASSUME NEW x \in Heap, x # o, dictId[info[x].identity] = x
        PROVE  dictId'[info[x].identity] = x /\ info'[x] = info[x]
    <2>1. info[x].identity # k /\ info[x].identity \in Identity
      BY <1>0, <1>4, HeapType DEF Inv, Info
    <2> QED
      BY <1>2, <1>4, <2>1 DEF Heap
  <1>5. \A x \in Heap : x # o => info'[x] = info[x]
    BY <1>2 DEF Heap
  <1>6. NoLeak'
    BY <1>2, <1>3, <1>4, <1>5 DEF Indexed, NoLeak
  <1>7. MacIndexSound'
    <2> SUFFICES ASSUME NEW m \in Mac, dictMac'[m] # NoObject
                 PROVE  LET x == dictMac'[m] IN
                          x \in Heap' /\ info'[x].mac = m /\ dictId'[info'[x].identity] = x
      BY DEF MacIndexSound, MacsInUse
    <2>1. m # info[o].mac /\ dictMac'[m] = dictMac[m]
      BY <1>2
    <2>2. /\ dictMac[m] \in Heap /\ info[dictMac[m]].mac = m
          /\ dictId[info[dictMac[m]].identity] = dictMac[m]
      BY <2>1 DEF Indexed, MacIndexSound, MacsInUse
    <2> QED
      BY <1>3, <1>4, <2>1, <2>2
  <1>8. NewIsFresh'
    <2> SUFFICES ASSUME net.pc \in Starting
                 PROVE  /\ dictId'[info'[net.obj].identity] = NoObject
                        /\ info'[net.obj].address = net.d.peer
      BY <1>2 DEF NewIsFresh
    <2>1. net.obj \in Heap /\ net.obj # o
      BY <1>0 DEF Inv, NetPoints
    <2>2. info'[net.obj] = info[net.obj] /\ info[net.obj].identity \in Identity
      BY <1>5, <2>1, HeapType DEF Inv, Info
    <2> QED
      BY <1>2, <2>2 DEF Indexed, NewIsFresh
  <1> QED
    BY <1>6, <1>7, <1>8 DEF Indexed

LEMMA TickIndexed ==
  ASSUME Inv, Indexed, Tick PROVE Indexed'
  <1>1. /\ \A x \in Object : info'[x] = IF x \in Heap THEN Older(info[x]) ELSE NoInfo
        /\ UNCHANGED <<dictId, dictMac, net>>
    BY DEF Tick
  <1>2. \A x \in Heap : Older(info[x]) \in Info
    BY HeapType, ServerAssumption DEF Inv, Older, Info
  <1>3. Heap' = Heap
    BY <1>1, <1>2, ServerAssumption DEF Heap
  <1>4. ASSUME NEW x \in Heap
        PROVE  /\ info'[x].identity = info[x].identity /\ info'[x].mac = info[x].mac
               /\ info'[x].address = info[x].address
    <2>1. info'[x] = Older(info[x])
      BY <1>1 DEF Heap
    <2> QED
      BY <2>1 DEF Older
  <1>5. NewIsFresh'
    <2> SUFFICES ASSUME net.pc \in Starting
                 PROVE  /\ dictId[info'[net.obj].identity] = NoObject
                        /\ info'[net.obj].address = net.d.peer
      BY <1>1 DEF NewIsFresh
    <2>1. net.obj \in Heap
      BY DEF Inv, NetPoints
    <2> QED
      BY <1>4, <2>1 DEF Indexed, NewIsFresh
  <1> QED
    BY <1>1, <1>3, <1>4, <1>5, IndexedKept DEF Indexed

\* Every other step leaves the table alone; it starts no session and ends the
\* start of none.
LEMMA OtherIndexed ==
  ASSUME Inv, Indexed, UNCHANGED table,
         \/ net' = net
         \/ net.pc \notin Starting /\ net'.pc \notin Starting
         \/ StartLock
  PROVE  Indexed'
  <1>1. Heap' = Heap /\ info' = info /\ UNCHANGED <<dictId, dictMac>>
    BY DEF table, Heap
  <1>2. CASE net' = net
    BY <1>1, <1>2, IndexedKept DEF Indexed, NewIsFresh
  <1>3. CASE net.pc \notin Starting /\ net'.pc \notin Starting
    <2>1. net.pc \in HbHasObject \/ net.obj = NoObject
      BY <1>3 DEF Inv, NetPoints
    <2>2. NewIsFresh'
      BY <1>3 DEF NewIsFresh
    <2> QED
      BY <1>1, <2>1, <2>2, IndexedKept DEF Indexed
  <1>4. CASE StartLock
    <2>1. net'.obj = net.obj /\ net'.d = net.d /\ net.pc \in Starting
      BY <1>4 DEF StartLock, NetGoto, NetAt, Starting
    <2>2. NewIsFresh'
      BY <1>1, <2>1 DEF Indexed, NewIsFresh
    <2> QED
      BY <1>1, <2>1, <2>2, IndexedKept DEF Indexed
  <1> QED
    BY <1>2, <1>3, <1>4

\* An answer other than that of StartInsert is no SessionInfo.
NoSessionInfo == \A m \in output : m.type # kSessionInfo

LEMMA IndexedStep ==
  ASSUME FreshIdentity, Inv, Indexed, SessionInfoTruthful, [Next]_vars
  PROVE  Indexed' /\ SessionInfoTruthful'
  <1>1. CASE UNCHANGED vars
    <2>1. UNCHANGED <<table, net, output>>
      BY <1>1 DEF vars, table
    <2> QED
      BY <2>1, OtherIndexed DEF SessionInfoTruthful, table, IdsInUse
  <1>2. CASE StartInsert
    BY <1>2, StartInsertIndexed
  <1>3. ASSUME Next, ~StartInsert PROVE SessionInfoTruthful'
    <2>1. \/ output' = {}
          \/ \E p, c : output' = {ErrorTo(p, c)}
          \/ \E p : output' = {FrameTo(p)} \/ output' = {FrameToVeth(p)}
      BY <1>3 DEF Next, Recv, NetStep, VethStep, PollStep, RecvIgnored, RecvWrongVersion,
         RecvStartNoAddress, RecvStart, RecvLookup, StartLock, LookupLock, LookupFails,
         HbFind, HbLockInfo, HbOwnInfo, HbUpdate, RelayFind, RelayWrite, VethRead,
         VethLock, VethBroadcast, VethUnicast, VethDrop, VethLockInfo, VethSend, VethDone,
         PollWake, PollLock, PollStart, PollRemove, PollDone, Tick, Put, Silent
    <2>2. NoSessionInfo'
      BY <2>1 DEF NoSessionInfo, ErrorTo, FrameTo, FrameToVeth, kSessionInfo, kErrorDetail,
         kRelayData
    <2> QED
      BY <2>2 DEF NoSessionInfo, SessionInfoTruthful
  <1>4. ASSUME NEW d \in Datagram, RecvStart(d) PROVE Indexed'
    BY <1>4, RecvStartIndexed
  <1>5. ASSUME NEW d \in Datagram,
               \/ RecvIgnored(d) \/ RecvWrongVersion(d) \/ RecvStartNoAddress(d)
               \/ RecvLookup(d)
        PROVE  Indexed'
    <2>1. /\ UNCHANGED table
          /\ net' = net \/ (net.pc \notin Starting /\ net'.pc \notin Starting)
      BY <1>5 DEF RecvIgnored, RecvWrongVersion, RecvStartNoAddress, RecvLookup, NetAt, Starting
    <2> QED
      BY <2>1, OtherIndexed
  <1>6. ASSUME StartLock PROVE Indexed'
    BY <1>6, OtherIndexed DEF StartLock
  <1>7. ASSUME \/ LookupLock \/ LookupFails \/ HbFind \/ HbLockInfo \/ HbOwnInfo
               \/ RelayFind \/ RelayWrite
        PROVE  Indexed'
    <2>1. UNCHANGED table /\ net.pc \notin Starting /\ net'.pc \notin Starting
      BY <1>7 DEF LookupLock, LookupFails, HbFind, HbLockInfo, HbOwnInfo, RelayFind,
         RelayWrite, NetGoto, NetAt, NetIdle, Starting
    <2> QED
      BY <2>1, OtherIndexed
  <1>8. ASSUME HbUpdate PROVE Indexed'
    BY <1>8, HbUpdateIndexed
  <1>9. ASSUME VethStep \/ \E f \in Frame : VethRead(f) PROVE Indexed'
    <2>1. UNCHANGED <<table, net>>
      BY <1>9 DEF VethStep, VethRead, VethLock, VethBroadcast, VethUnicast, VethDrop,
         VethLockInfo, VethSend, VethDone
    <2> QED
      BY <2>1, OtherIndexed
  <1>10. ASSUME NEW k \in Identity, PollRemove(k) PROVE Indexed'
    BY <1>10, PollRemoveIndexed
  <1>11. ASSUME PollWake \/ PollLock \/ PollStart \/ PollDone PROVE Indexed'
    <2>1. UNCHANGED <<table, net>>
      BY <1>11 DEF PollWake, PollLock, PollStart, PollDone
    <2> QED
      BY <2>1, OtherIndexed
  <1>12. ASSUME Tick PROVE Indexed'
    BY <1>12, TickIndexed
  <1> QED
    BY <1>1, <1>2, <1>3, <1>4, <1>5, <1>6, <1>7, <1>8, <1>9, <1>10, <1>11, <1>12
    DEF Next, Recv, NetStep, PollStep

LEMMA SpecIndexed ==
  ASSUME FreshIdentity PROVE Spec => [](Indexed /\ SessionInfoTruthful)
  <1>1. Init => Indexed /\ SessionInfoTruthful
    BY DEF Init, Indexed, NoLeak, MacIndexSound, NewIsFresh, SessionInfoTruthful, Heap,
       MacsInUse, NetIdle, Starting
  <1>2. Inv /\ (Indexed /\ SessionInfoTruthful) /\ [Next]_vars => (Indexed /\ SessionInfoTruthful)'
    BY IndexedStep
  <1> QED
    BY <1>1, <1>2, SpecInv, PTL DEF Spec

-----------------------------------------------------------------------------
\* While random() returns unused identities, no object is forgotten: a sweep finds
\* it under its identity, unless its handshake is still under way.
THEOREM SessionsReachable == ASSUME FreshIdentity PROVE Spec => []NoLeak
  BY SpecIndexed, PTL DEF Indexed

\* dict.mac never leads to anything but a session of dict.id with that address, so
\* a frame is not sent to a session that has ended.
THEOREM MacIndexHoldsSessions == ASSUME FreshIdentity PROVE Spec => []MacIndexSound
  BY SpecIndexed, PTL DEF Indexed

\* A client that is told it has a session has it: the table holds it, with the
\* virtual address of the answer and the endpoint the request came from.
THEOREM AnswersAreTrue == ASSUME FreshIdentity PROVE Spec => []SessionInfoTruthful
  BY SpecIndexed, PTL
=============================================================================
