-------------------------- MODULE TunnelServer_proofs --------------------------
(***************************************************************************)
(* Proofs about TunnelServer, for any number of clients, identities,       *)
(* addresses, objects and frames.  The inductive invariant says where the  *)
(* locks are (Locking), what the pointers point to (Pointing) and what the *)
(* sweep has decided (Sweeping).                                           *)
(***************************************************************************)
EXTENDS TunnelServer, TLAPS

HbHasObject == {"hb_lock_info", "hb_own_info", "hb_update"}
Starting    == {"start_lock", "start_insert"}

\* The lock on the table is held by the threads whose program counters say so.
Locking ==
  /\ ("net" \in dictLock.readers) = NetReads
  /\ ("veth" \in dictLock.readers) = VethReads
  /\ "poll" \notin dictLock.readers
  /\ ("net" \in dictLock.entered) = (net.pc = "start_insert")
  /\ ("poll" \in dictLock.entered) = (poll.pc \in {"own", "sweep"})
  /\ "veth" \notin dictLock.entered
  /\ \A t, u \in dictLock.entered : t = u
  /\ poll.pc = "sweep" => dictLock.readers = {}

LEMMA LockingInit == Init => Locking
  BY DEF Init, Locking, NetIdle, VethIdle, PollIdle, FreeLock, NetReads, VethReads

\* The net thread gives its shared lock on the table back.
LEMMA NetLeaves ==
  ASSUME TypeOK, Locking, net.pc \in {"hb_find", "relay_find", "hb_update"},
         net'.pc \in {"recv", "relay_write"}, UNCHANGED <<veth, poll>>,
         dictLock' = Unshare(dictLock, "net")
  PROVE  Locking'
  <1>1. dictLock'.readers = dictLock.readers \ {"net"} /\ dictLock'.entered = dictLock.entered
    BY DEF Unshare, TypeOK, Lock
  <1>2. ~NetReads' /\ VethReads' = VethReads /\ poll' = poll
    BY DEF NetReads, VethReads
  <1>3. net.pc # "start_insert" /\ net'.pc # "start_insert"
    OBVIOUS
  <1>4. "net" \notin dictLock'.readers /\ ("veth" \in dictLock'.readers) = VethReads'
    BY <1>1, <1>2 DEF Locking
  <1>5. "poll" \notin dictLock'.readers /\ (poll'.pc = "sweep" => dictLock'.readers = {})
    BY <1>1, <1>2 DEF Locking
  <1>6. ("net" \in dictLock'.entered) = (net'.pc = "start_insert")
    BY <1>1, <1>3 DEF Locking
  <1> QED
    BY <1>1, <1>2, <1>4, <1>5, <1>6 DEF Locking, NetReads

\* A step preserves Locking when what it does to the table's lock agrees with
\* the move of the one thread that takes it.
LEMMA LockingStep == TypeOK /\ Locking /\ [Next]_vars => Locking'
  <1> SUFFICES ASSUME TypeOK, Locking, [Next]_vars PROVE Locking'
    OBVIOUS
  <1>1. ASSUME NEW d \in Datagram,
               \/ RecvIgnored(d) \/ RecvWrongVersion(d) \/ RecvStartNoAddress(d)
               \/ RecvStart(d) \/ RecvLookup(d)
        PROVE  Locking'
    <2>1. \/ UNCHANGED net
          \/ /\ net.pc = "recv"
             /\ net'.pc \in {"start_lock", "hb_lock", "relay_lock"}
      <3>1. CASE RecvIgnored(d) \/ RecvWrongVersion(d) \/ RecvStartNoAddress(d)
        BY <3>1 DEF RecvIgnored, RecvWrongVersion, RecvStartNoAddress
      <3>2. CASE RecvStart(d)
        BY <3>2 DEF RecvStart, NetAt
      <3>3. CASE RecvLookup(d)
        BY <3>3 DEF RecvLookup, NetAt
      <3> QED
        BY <1>1, <3>1, <3>2, <3>3
    <2>2. UNCHANGED <<dictLock, veth, poll>>
      BY <1>1 DEF RecvIgnored, RecvWrongVersion, RecvStartNoAddress, RecvStart,
         RecvLookup, locks
    <2> QED
      BY <2>1, <2>2 DEF Locking, NetReads, VethReads,
       TypeOK, Lock, Thread
  <1>2. CASE StartLock
    BY <1>2 DEF StartLock, EnterDict, CanEnter, Enter, NetGoto, NetAt, Locking, NetReads, VethReads,
       TypeOK, Lock, Thread
  <1>3. CASE StartInsert
    BY <1>3 DEF StartInsert, OwnsDict, Owns, LeaveDict, Leave, FreeLock, NetIdle,
       Locking, NetReads, VethReads,
       TypeOK, Lock, Thread
  <1>4. CASE LookupLock
    BY <1>4 DEF LookupLock, ShareDict, CanShare, Share, NetGoto, NetAt, Locking, NetReads, VethReads,
       TypeOK, Lock, Thread
  <1>5. CASE LookupFails \/ RelayFind
    <2>1. /\ net.pc \in {"hb_find", "relay_find"}
          /\ net'.pc \in {"recv", "relay_write"}
          /\ UNCHANGED <<veth, poll>>
          /\ dictLock' = Unshare(dictLock, "net")
      BY <1>5 DEF LookupFails, RelayFind, UnshareDict, NetGoto, NetAt, NetIdle
    <2> QED
      BY <2>1, NetLeaves, TypeOK, Locking
  <1>6. CASE HbUpdate
    <2>1. /\ net.pc = "hb_update" /\ net'.pc = "recv"
          /\ UNCHANGED <<veth, poll>>
          /\ dictLock' = Unshare(dictLock, "net")
      BY <1>6 DEF HbUpdate, UnshareDict, NetIdle
    <2> QED
      BY <2>1, NetLeaves, TypeOK, Locking
  <1>7. CASE HbFind \/ HbLockInfo \/ HbOwnInfo \/ RelayWrite
    BY <1>7 DEF HbFind, HbLockInfo, HbOwnInfo, RelayWrite, NetGoto, NetAt, NetIdle, locks,
       Locking, NetReads, VethReads,
       TypeOK, Lock, Thread
  <1>8. ASSUME NEW f \in Frame, VethRead(f) PROVE Locking'
    BY <1>8 DEF VethRead, VethAt, locks, Locking, NetReads, VethReads,
       TypeOK, Lock, Thread
  <1>9. CASE VethLock
    BY <1>9 DEF VethLock, ShareDict, CanShare, Share, VethAt, Locking, NetReads, VethReads,
       TypeOK, Lock, Thread
  <1>10. CASE VethBroadcast \/ VethUnicast \/ VethSend
    BY <1>10 DEF VethBroadcast, VethUnicast, VethSend, VethAt, locks, Locking, NetReads, VethReads,
       TypeOK, Lock, Thread
  <1>11. CASE VethDrop \/ VethDone
    BY <1>11 DEF VethDrop, VethDone, UnshareDict, Unshare, VethIdle, Locking, NetReads, VethReads,
       TypeOK, Lock, Thread
  <1>12. ASSUME NEW m \in Mac, VethLockInfo(m) PROVE Locking'
    BY <1>12 DEF VethLockInfo, VethAt, Locking, NetReads, VethReads,
       TypeOK, Lock, Thread
  <1>13. CASE PollWake
    BY <1>13 DEF PollWake, PollAt, locks, Locking, NetReads, VethReads,
       TypeOK, Lock, Thread
  <1>14. CASE PollLock
    BY <1>14 DEF PollLock, PollAt, EnterDict, CanEnter, Enter, Locking, NetReads, VethReads,
       TypeOK, Lock, Thread
  <1>15. CASE PollStart
    BY <1>15 DEF PollStart, PollAt, OwnsDict, Owns, locks, Locking, NetReads, VethReads,
       TypeOK, Lock, Thread
  <1>16. ASSUME NEW k \in Identity, PollRemove(k) PROVE Locking'
    BY <1>16 DEF PollRemove, PollAt, locks, Locking, NetReads, VethReads,
       TypeOK, Lock, Thread
  <1>17. CASE PollDone
    BY <1>17 DEF PollDone, LeaveDict, Leave, FreeLock, PollIdle, Locking, NetReads, VethReads,
       TypeOK, Lock, Thread
  <1>18. CASE Tick \/ UNCHANGED vars
    BY <1>18 DEF Tick, vars, locks, Locking, NetReads, VethReads,
       TypeOK, Lock, Thread
  <1> QED
    BY <1>1, <1>2, <1>3, <1>4, <1>5, <1>6, <1>7, <1>8, <1>9, <1>10, <1>11,
       <1>12, <1>13, <1>14, <1>15, <1>16, <1>17, <1>18
    DEF Next, Recv, NetStep, VethStep, PollStep

-----------------------------------------------------------------------------
\* What the pool hands out is an address, and it stays a pool.
LEMMA AllocateType ==
  ASSUME NEW p \in PoolType, CanAllocate(p)
  PROVE  Allocated(p) \in Address /\ AfterAllocate(p) \in PoolType
  <1>1. p.current \in Lower .. Upper /\ p.free \in Seq(Address)
    BY DEF PoolType
  <1>2. CASE p.current < Upper
    <2>1. p.current \in HostAddress /\ p.current + 1 \in Lower .. Upper
      BY <1>1, <1>2, RangeAssumption DEF HostAddress
    <2> QED
      BY <1>1, <1>2, <2>1 DEF Allocated, AfterAllocate, PoolType, Address
  <1>3. CASE ~(p.current < Upper)
    <2>1. p.free # << >>
      BY <1>3 DEF CanAllocate
    <2>2. Len(p.free) \in 1 .. Len(p.free)
      BY <1>1, <2>1
    <2>3. p.free[Len(p.free)] \in Address
      BY <1>1, <2>2
    <2>4. SubSeq(p.free, 1, Len(p.free) - 1) \in Seq(Address)
      BY <1>1, <2>2
    <2> QED
      BY <1>1, <1>3, <2>3, <2>4 DEF Allocated, AfterAllocate, PoolType
  <1> QED
    BY <1>2, <1>3

LEMMA ReleaseType ==
  ASSUME NEW p \in PoolType, NEW a \in Address PROVE AfterRelease(p, a) \in PoolType
  BY DEF PoolType, AfterRelease

-----------------------------------------------------------------------------
\* Both indices point to objects of the heap that carry the key.
IdsPoint  == \A k \in IdsInUse : dictId[k] \in Heap /\ info[dictId[k]].identity = k
MacsPoint == \A m \in MacsInUse : dictMac[m] \in Heap /\ info[dictMac[m]].mac = m

\* A new object is in no index yet; the one a heartbeat has found still is.
NetPoints ==
  /\ net.pc \in Starting =>
       /\ net.obj \in Heap
       /\ \A k \in Identity : dictId[k] # net.obj
       /\ \A m \in Mac : dictMac[m] # net.obj
  /\ net.pc \in HbHasObject => /\ net.d.identity \in IdsInUse
                               /\ dictId[net.d.identity] = net.obj
  /\ net.pc \notin Starting \cup HbHasObject => net.obj = NoObject
  /\ net.pc # "recv" => net.d \in Datagram

VethPoints ==
  /\ veth.todo \subseteq MacsInUse
  /\ veth.pc \notin {"loop", "send"} => veth.todo = {}
  /\ veth.pc = "send" => \E m \in MacsInUse : dictMac[m] = veth.obj
  /\ veth.pc # "send" => veth.obj = NoObject

\* What the sweep has chosen is still there and still expired.
Sweeping ==
  /\ poll.pc # "sweep" => poll.doomed = {}
  /\ \A k \in poll.doomed : k \in IdsInUse /\ IsExpired(k)

Inv == /\ TypeOK /\ Locking
       /\ IdsPoint /\ MacsPoint /\ NetPoints /\ VethPoints /\ Sweeping

LEMMA InitInv == Init => Inv
  <1> SUFFICES ASSUME Init PROVE Inv
    OBVIOUS
  <1>1. pool \in PoolType
    BY RangeAssumption DEF Init, PoolType, NewPool
  <1>2. TypeOK
    BY <1>1, ServerAssumption DEF Init, TypeOK, NetIdle, VethIdle, PollIdle, NetPc,
       VethPc, PollPc, MaybeObject, FreeLock, Lock
  <1>3. IdsPoint /\ MacsPoint
    BY DEF Init, IdsPoint, MacsPoint, IdsInUse, MacsInUse
  <1>4. NetPoints /\ VethPoints /\ Sweeping
    BY DEF Init, NetPoints, VethPoints, Sweeping, NetIdle, VethIdle, PollIdle,
       Starting, HbHasObject
  <1> QED
    BY <1>2, <1>3, <1>4, LockingInit DEF Inv

\* Where the threads go, as far as types are concerned.
LEMMA DatagramType ==
  ASSUME NEW d \in Datagram PROVE d.peer \in Peer /\ d.identity \in Identity /\ d.mac \in Mac
  BY ServerAssumption

LEMMA HeapType ==
  ASSUME TypeOK, NEW o \in Heap PROVE o \in Object /\ info[o] \in Info /\ o # NoObject
  BY ServerAssumption DEF TypeOK, Heap

LEMMA NetType ==
  ASSUME NEW w \in NetPc, NEW d \in Datagram \cup {NoDatagram}, NEW o \in MaybeObject
  PROVE  NetAt(w, d, o) \in [pc : NetPc, d : Datagram \cup {NoDatagram}, obj : MaybeObject]
  BY DEF NetAt

LEMMA TypeStep == Inv /\ [Next]_vars => TypeOK'
  <1> SUFFICES ASSUME Inv, [Next]_vars PROVE TypeOK'
    OBVIOUS
  <1> USE DEF Inv
  <1>1. ASSUME NEW d \in Datagram,
               RecvIgnored(d) \/ RecvWrongVersion(d) \/ RecvStartNoAddress(d)
        PROVE  TypeOK'
    BY <1>1 DEF RecvIgnored, RecvWrongVersion, RecvStartNoAddress, TypeOK, table, locks
  <1>2. ASSUME NEW d \in Datagram, RecvStart(d) PROVE TypeOK'
    <2>1. PICK o \in Object \ Heap, k \in Identity :
            /\ info' = [info EXCEPT ![o] =
                 [ip |-> Allocated(pool), mac |-> d.mac, address |-> d.peer,
                  identity |-> k, age |-> 0]]
            /\ net' = NetAt("start_lock", d, o)
      BY <1>2 DEF RecvStart
    <2>2. Allocated(pool) \in Address /\ pool' \in PoolType
      BY <1>2, AllocateType DEF RecvStart, TypeOK
    <2>3. [ip |-> Allocated(pool), mac |-> d.mac, address |-> d.peer,
           identity |-> k, age |-> 0] \in Info
      BY <2>2, DatagramType, ServerAssumption DEF Info
    <2>4. info' \in [Object -> Info \cup {NoInfo}]
      BY <2>1, <2>3 DEF TypeOK
    <2>5. net' \in [pc : NetPc, d : Datagram \cup {NoDatagram}, obj : MaybeObject]
      BY <2>1 DEF NetAt, NetPc, MaybeObject
    <2> QED
      BY <1>2, <2>2, <2>4, <2>5 DEF RecvStart, TypeOK, locks
  <1>3. ASSUME NEW d \in Datagram, RecvLookup(d) PROVE TypeOK'
    <2>1. net' \in [pc : NetPc, d : Datagram \cup {NoDatagram}, obj : MaybeObject]
      BY <1>3 DEF RecvLookup, NetAt, NetPc, MaybeObject
    <2> QED
      BY <1>3, <2>1 DEF RecvLookup, TypeOK, table, locks
  <1>4. ASSUME StartLock \/ LookupLock \/ LookupFails \/ HbFind \/ HbLockInfo
                 \/ HbOwnInfo \/ RelayFind \/ RelayWrite
        PROVE  TypeOK'
    <2>1. net' \in [pc : NetPc, d : Datagram \cup {NoDatagram}, obj : MaybeObject]
      BY <1>4 DEF StartLock, LookupLock, LookupFails, HbFind, HbLockInfo, HbOwnInfo,
         RelayFind, RelayWrite, NetGoto, NetAt, NetIdle, NetPc, MaybeObject, TypeOK,
         NetPoints, Starting, HbHasObject, IdsInUse
    <2>2. dictLock' \in Lock /\ infoLock' \in [Object -> Lock]
      BY <1>4 DEF StartLock, LookupLock, LookupFails, HbFind, HbLockInfo, HbOwnInfo,
         RelayFind, RelayWrite, EnterDict, ShareDict, UnshareDict, Enter, Share,
         Unshare, locks, TypeOK, Lock, Thread
    <2> QED
      BY <1>4, <2>1, <2>2 DEF StartLock, LookupLock, LookupFails, HbFind, HbLockInfo,
         HbOwnInfo, RelayFind, RelayWrite, TypeOK, table
  <1>5. CASE StartInsert
    <2>1. net.obj \in Object
      BY <1>5 DEF StartInsert, NetPoints, Starting, Heap
    <2>2. dictId' \in [Identity -> MaybeObject] /\ dictMac' \in [Mac -> MaybeObject]
      BY <1>5, <2>1 DEF StartInsert, InsertIfAbsent, TypeOK, MaybeObject
    <2>3. dictLock' \in Lock
      BY <1>5 DEF StartInsert, LeaveDict, Leave, FreeLock, Lock
    <2>4. net' \in [pc : NetPc, d : Datagram \cup {NoDatagram}, obj : MaybeObject]
      BY <1>5 DEF StartInsert, NetIdle, NetPc, MaybeObject
    <2> QED
      BY <1>5, <2>2, <2>3, <2>4 DEF StartInsert, TypeOK
  <1>6. CASE HbUpdate
    <2>1. net.obj \in Heap /\ net.d \in Datagram
      BY <1>6 DEF HbUpdate, NetPoints, HbHasObject, IdsPoint
    <2>2. Touched(info[net.obj], net.d.peer) \in Info
      BY <2>1, HeapType, DatagramType, ServerAssumption DEF Touched, Info
    <2>3. info' \in [Object -> Info \cup {NoInfo}]
      BY <1>6, <2>2 DEF HbUpdate, TypeOK
    <2>4. dictLock' \in Lock /\ infoLock' \in [Object -> Lock]
      BY <1>6 DEF HbUpdate, UnshareDict, Unshare, Leave, FreeLock, TypeOK, Lock, Thread
    <2>5. net' \in [pc : NetPc, d : Datagram \cup {NoDatagram}, obj : MaybeObject]
      BY <1>6 DEF HbUpdate, NetIdle, NetPc, MaybeObject
    <2> QED
      BY <1>6, <2>3, <2>4, <2>5 DEF HbUpdate, TypeOK
  <1>7. ASSUME NEW f \in Frame, VethRead(f) PROVE TypeOK'
    <2>1. veth' \in [pc : VethPc, dst : Mac, todo : SUBSET Mac, obj : MaybeObject]
      BY <1>7, ServerAssumption DEF VethRead, VethAt, VethPc, MaybeObject, TypeOK
    <2> QED
      BY <1>7, <2>1 DEF VethRead, TypeOK, table, locks
  <1>8. ASSUME VethStep PROVE TypeOK'
    <2>1. veth' \in [pc : VethPc, dst : Mac, todo : SUBSET Mac, obj : MaybeObject]
      BY <1>8, ServerAssumption DEF VethStep, VethLock, VethBroadcast, VethUnicast,
         VethDrop, VethLockInfo, VethSend, VethDone, VethIdle, VethAt, VethPc,
         MaybeObject, MacsInUse, TypeOK
    <2>2. dictLock' \in Lock
      <3>1. CASE VethLock
        BY <3>1 DEF VethLock, ShareDict, Share, TypeOK, Lock, Thread
      <3>2. CASE VethDrop \/ VethDone
        BY <3>2 DEF VethDrop, VethDone, UnshareDict, Unshare, TypeOK, Lock, Thread
      <3> QED
        BY <1>8, <3>1, <3>2 DEF VethStep, VethBroadcast, VethUnicast, VethLockInfo,
           VethSend, locks, TypeOK
    <2>3. ASSUME NEW m \in Mac, VethLockInfo(m) PROVE infoLock' \in [Object -> Lock]
      BY <2>3 DEF VethLockInfo, Share, TypeOK, Lock, Thread
    <2>4. infoLock' \in [Object -> Lock]
      <3>1. CASE VethSend
        BY <3>1 DEF VethSend, Unshare, TypeOK, Lock, Thread
      <3> QED
        BY <1>8, <2>3, <3>1 DEF VethStep, VethLock, VethBroadcast, VethUnicast, VethDrop,
           VethDone, locks, TypeOK
    <2> QED
      BY <1>8, <2>1, <2>2, <2>4 DEF VethStep, VethLock, VethBroadcast, VethUnicast, VethDrop,
         VethLockInfo, VethSend, VethDone, TypeOK, table
  <1>9. CASE PollWake \/ PollLock \/ PollStart \/ PollDone
    <2>1. poll' \in [pc : PollPc, doomed : SUBSET Identity]
      BY <1>9 DEF PollWake, PollLock, PollStart, PollDone, PollIdle, PollAt, PollPc, IdsInUse
    <2>2. dictLock' \in Lock
      BY <1>9 DEF PollWake, PollLock, PollStart, PollDone, EnterDict, LeaveDict, Enter,
         Leave, FreeLock, locks, TypeOK, Lock, Thread
    <2> QED
      BY <1>9, <2>1, <2>2 DEF PollWake, PollLock, PollStart, PollDone, TypeOK, table, locks
  <1>10. ASSUME NEW k \in Identity, PollRemove(k) PROVE TypeOK'
    <2> DEFINE o == dictId[k]
    <2>1. o \in Heap
      BY <1>10 DEF PollRemove, Sweeping, IdsPoint
    <2>2. pool' \in PoolType
      BY <1>10, <2>1, HeapType, ReleaseType DEF PollRemove, TypeOK, Info
    <2>3. /\ dictId' \in [Identity -> MaybeObject]
          /\ dictMac' \in [Mac -> MaybeObject]
          /\ info' \in [Object -> Info \cup {NoInfo}]
      BY <1>10 DEF PollRemove, TypeOK, MaybeObject
    <2>4. poll' \in [pc : PollPc, doomed : SUBSET Identity]
      BY <1>10 DEF PollRemove, PollAt, PollPc, TypeOK
    <2> QED
      BY <1>10, <2>2, <2>3, <2>4 DEF PollRemove, TypeOK, locks
  <1>11. CASE Tick
    <2>1. ASSUME NEW o \in Heap PROVE Older(info[o]) \in Info
      <3>1. info[o] \in Info
        BY HeapType
      <3> QED
        BY <3>1, ServerAssumption DEF Older, Info
    <2>2. info' \in [Object -> Info \cup {NoInfo}]
      BY <1>11, <2>1 DEF Tick
    <2> QED
      BY <1>11, <2>2 DEF Tick, TypeOK, locks
  <1>12. CASE UNCHANGED vars
    BY <1>12 DEF vars, TypeOK
  <1> QED
    BY <1>1, <1>2, <1>3, <1>4, <1>5, <1>6, <1>7, <1>8, <1>9, <1>10, <1>11, <1>12
    DEF Next, Recv, NetStep, PollStep

-----------------------------------------------------------------------------
Points == IdsPoint /\ MacsPoint /\ NetPoints /\ VethPoints /\ Sweeping

\* A step that leaves the table alone can only disturb what the thread that
\* moves says of itself.
LEMMA TableSame ==
  ASSUME Inv, UNCHANGED table
  PROVE  /\ IdsPoint' /\ MacsPoint'
         /\ IdsInUse' = IdsInUse /\ MacsInUse' = MacsInUse
         /\ net' = net => NetPoints'
         /\ veth' = veth => VethPoints'
         /\ poll' = poll => Sweeping'
  <1>1. /\ Heap' = Heap /\ info' = info /\ dictId' = dictId /\ dictMac' = dictMac
        /\ IdsInUse' = IdsInUse /\ MacsInUse' = MacsInUse
    BY DEF table, Heap, IdsInUse, MacsInUse
  <1> QED
    BY <1>1 DEF Inv, IdsPoint, MacsPoint, NetPoints, VethPoints, Sweeping, IsExpired

\* The same for a step that changes objects but neither frees nor renames one.
LEMMA ObjectsKept ==
  ASSUME Inv, UNCHANGED <<dictId, dictMac>>, Heap \subseteq Heap',
         \A o \in Heap : info'[o].identity = info[o].identity /\ info'[o].mac = info[o].mac
  PROVE  /\ IdsPoint' /\ MacsPoint'
         /\ IdsInUse' = IdsInUse /\ MacsInUse' = MacsInUse
         /\ net' = net => NetPoints'
         /\ veth' = veth => VethPoints'
  <1>1. IdsInUse' = IdsInUse /\ MacsInUse' = MacsInUse
    BY DEF IdsInUse, MacsInUse
  <1>2. IdsPoint' /\ MacsPoint'
    BY <1>1 DEF Inv, IdsPoint, MacsPoint
  <1>3. net' = net => NetPoints'
    BY <1>1 DEF Inv, NetPoints
  <1>4. veth' = veth => VethPoints'
    BY <1>1 DEF Inv, VethPoints
  <1> QED
    BY <1>1, <1>2, <1>3, <1>4

\* While the sweep is on, nobody else is inside the table.
LEMMA SweepAlone == ASSUME Inv, poll.pc = "sweep" PROVE ~NetReads /\ ~VethReads
  BY DEF Inv, Locking

LEMMA RecvStartPoints ==
  ASSUME Inv, NEW d \in Datagram, RecvStart(d) PROVE Points'
  <1>1. PICK o \in Object \ Heap, k \in Identity :
          /\ info' = [info EXCEPT ![o] =
               [ip |-> Allocated(pool), mac |-> d.mac, address |-> d.peer,
                identity |-> k, age |-> 0]]
          /\ net' = NetAt("start_lock", d, o)
    BY DEF RecvStart
  <1>2. UNCHANGED <<dictId, dictMac, veth, poll>>
    BY DEF RecvStart
  <1>3. /\ \A x \in Heap : info'[x] = info[x]
        /\ info'[o] = [ip |-> Allocated(pool), mac |-> d.mac, address |-> d.peer,
                       identity |-> k, age |-> 0]
    BY <1>1 DEF Inv, TypeOK, Heap
  <1>4. info'[o] \in Info
    BY <1>3, AllocateType, DatagramType, ServerAssumption DEF RecvStart, Inv, TypeOK, Info
  <1>5. Heap \subseteq Heap' /\ o \in Heap'
    BY <1>3, <1>4, ServerAssumption DEF Heap
  <1>6. IdsPoint' /\ MacsPoint' /\ VethPoints' /\ IdsInUse' = IdsInUse
    BY <1>2, <1>3, <1>5, ObjectsKept
  <1>7. (\A x \in Identity : dictId[x] # o) /\ (\A m \in Mac : dictMac[m] # o)
    BY ServerAssumption DEF Inv, IdsPoint, MacsPoint, IdsInUse, MacsInUse
  <1>8. NetPoints'
    BY <1>1, <1>2, <1>5, <1>7 DEF NetPoints, NetAt, Starting, HbHasObject
  <1>9. Sweeping'
    BY <1>2, <1>3, <1>6 DEF Inv, Sweeping, IsExpired, IdsPoint
  <1> QED
    BY <1>6, <1>8, <1>9 DEF Points

LEMMA StartInsertPoints ==
  ASSUME Inv, StartInsert PROVE Points'
  <1> DEFINE o == net.obj
             i == info[o]
  <1>1. /\ dictId' = InsertIfAbsent(dictId, i.identity, o)
        /\ dictMac' = InsertIfAbsent(dictMac, i.mac, o)
        /\ net' = NetIdle
        /\ UNCHANGED <<info, veth, poll>>
    BY DEF StartInsert
  <1>2. o \in Heap /\ o # NoObject /\ Heap' = Heap
    BY <1>1, HeapType DEF StartInsert, Inv, NetPoints, Starting, Heap
  <1>3. \A k \in Identity : \/ dictId'[k] = dictId[k]
                            \/ dictId'[k] = o /\ i.identity = k /\ dictId[k] = NoObject
    BY <1>1 DEF InsertIfAbsent, Inv, TypeOK
  <1>4. \A m \in Mac : \/ dictMac'[m] = dictMac[m]
                       \/ dictMac'[m] = o /\ i.mac = m /\ dictMac[m] = NoObject
    BY <1>1 DEF InsertIfAbsent, Inv, TypeOK
  <1>5. IdsPoint'
    BY <1>1, <1>2, <1>3 DEF Inv, IdsPoint, IdsInUse
  <1>6. MacsPoint'
    BY <1>1, <1>2, <1>4 DEF Inv, MacsPoint, MacsInUse
  <1>7. NetPoints'
    BY <1>1 DEF NetPoints, NetIdle, Starting, HbHasObject
  <1>8. MacsInUse \subseteq MacsInUse' /\ \A m \in MacsInUse : dictMac'[m] = dictMac[m]
    BY <1>4, <1>2 DEF MacsInUse
  <1>9. VethPoints'
    BY <1>1, <1>8 DEF Inv, VethPoints
  <1>10. poll.pc # "sweep"
    BY DEF StartInsert, Inv, Locking
  <1>11. Sweeping'
    BY <1>1, <1>10 DEF Inv, Sweeping
  <1> QED
    BY <1>5, <1>6, <1>7, <1>9, <1>11 DEF Points

LEMMA HbUpdatePoints ==
  ASSUME Inv, HbUpdate PROVE Points'
  <1>1. net.obj \in Heap /\ net.d \in Datagram
    BY DEF HbUpdate, Inv, NetPoints, HbHasObject, IdsPoint
  <1>2. Touched(info[net.obj], net.d.peer) \in Info
    BY <1>1, HeapType, DatagramType, ServerAssumption DEF Inv, Touched, Info
  <1>3. info' = [info EXCEPT ![net.obj] = Touched(info[net.obj], net.d.peer)]
    BY DEF HbUpdate
  <1>4. \A x \in Object : info'[x] = IF x = net.obj THEN Touched(info[x], net.d.peer)
                                     ELSE info[x]
    BY <1>3 DEF Inv, TypeOK
  <1>5. Heap \subseteq Heap'
    BY <1>2, <1>4, ServerAssumption DEF Heap
  <1>6. ASSUME NEW x \in Heap
        PROVE  info'[x].identity = info[x].identity /\ info'[x].mac = info[x].mac
    <2>1. x \in Object
      BY DEF Heap
    <2>2. CASE x = net.obj
      <3>1. info'[x] = Touched(info[x], net.d.peer)
        BY <1>4, <2>1, <2>2
      <3> QED
        BY <3>1 DEF Touched
    <2>3. CASE x # net.obj
      BY <1>4, <2>1, <2>3
    <2> QED
      BY <2>2, <2>3
  <1>7. IdsPoint' /\ MacsPoint' /\ VethPoints'
    BY <1>5, <1>6, ObjectsKept DEF HbUpdate
  <1>8. NetPoints'
    BY DEF HbUpdate, NetIdle, NetPoints, Starting, HbHasObject
  <1>9. poll.pc # "sweep"
    BY SweepAlone DEF HbUpdate, NetReads
  <1>10. Sweeping'
    BY <1>9 DEF HbUpdate, Inv, Sweeping
  <1> QED
    BY <1>7, <1>8, <1>10 DEF Points

LEMMA PollRemovePoints ==
  ASSUME Inv, NEW k \in Identity, PollRemove(k) PROVE Points'
  <1> DEFINE o == dictId[k]
  <1>1. k \in IdsInUse /\ o \in Heap /\ info[o].identity = k /\ info[o] \in Info
    BY HeapType DEF PollRemove, Inv, Sweeping, IdsPoint
  <1>2. /\ dictMac' = [dictMac EXCEPT ![info[o].mac] = NoObject]
        /\ dictId' = [dictId EXCEPT ![k] = NoObject]
        /\ info' = [info EXCEPT ![o] = NoInfo]
        /\ poll' = PollAt("sweep", poll.doomed \ {k})
        /\ UNCHANGED <<net, veth>>
    BY DEF PollRemove
  <1>3. \A x \in Object \ {o} : info'[x] = info[x]
    BY <1>2 DEF Inv, TypeOK
  <1>4. Heap \ {o} \subseteq Heap'
    BY <1>3 DEF Heap
  <1>5. \A x \in Identity : dictId'[x] = IF x = k THEN NoObject ELSE dictId[x]
    BY <1>2 DEF Inv, TypeOK
  <1>6. \A m \in Mac : dictMac'[m] = IF m = info[o].mac THEN NoObject ELSE dictMac[m]
    BY <1>2 DEF Inv, TypeOK
  <1>7. \A x \in IdsInUse : x # k => dictId[x] # o
    BY <1>1 DEF Inv, IdsPoint
  <1>8. \A m \in MacsInUse : m # info[o].mac => dictMac[m] # o
    BY DEF Inv, MacsPoint
  <1>9. IdsPoint'
    BY <1>3, <1>4, <1>5, <1>7 DEF Inv, IdsPoint, IdsInUse, Heap
  <1>10. MacsPoint'
    BY <1>3, <1>4, <1>6, <1>8 DEF Inv, MacsPoint, MacsInUse, Heap
  <1>11. ~NetReads /\ ~VethReads
    BY SweepAlone DEF PollRemove
  <1>12. NetPoints'
    <2>1. net.pc \notin HbHasObject
      BY <1>11 DEF NetReads, HbHasObject
    <2>2. net.pc \in Starting => net.obj \in Heap \ {o} /\ net.obj # NoObject
      BY HeapType DEF Inv, NetPoints
    <2>3. net.pc \in Starting => /\ \A x \in Identity : dictId'[x] # net.obj
                                 /\ \A m \in Mac : dictMac'[m] # net.obj
      BY <1>5, <1>6, <2>2 DEF Inv, NetPoints
    <2> QED
      BY <1>2, <1>4, <2>1, <2>2, <2>3 DEF Inv, NetPoints
  <1>13. VethPoints'
    BY <1>2, <1>11 DEF Inv, VethPoints, VethReads
  <1>14. Sweeping'
    <2>1. poll'.pc = "sweep" /\ poll'.doomed = poll.doomed \ {k}
      BY <1>2 DEF PollAt
    <2>2. ASSUME NEW x \in poll'.doomed PROVE x \in IdsInUse' /\ IsExpired(x)'
      <3>1. x \in IdsInUse /\ x # k /\ IsExpired(x)
        BY <2>1, <2>2 DEF Inv, Sweeping
      <3>2. dictId'[x] = dictId[x] /\ dictId[x] # o /\ dictId[x] \in Object
        BY <1>5, <1>7, <3>1 DEF IdsInUse, Inv, IdsPoint, Heap
      <3> QED
        BY <1>3, <3>1, <3>2 DEF IdsInUse, IsExpired
    <2> QED
      BY <2>1, <2>2 DEF Sweeping
  <1> QED
    BY <1>9, <1>10, <1>12, <1>13, <1>14 DEF Points

LEMMA TickPoints ==
  ASSUME Inv, Tick PROVE Points'
  <1>1. /\ \A x \in Object : info'[x] = IF x \in Heap THEN Older(info[x]) ELSE NoInfo
        /\ UNCHANGED <<dictId, dictMac, net, veth, poll>>
    BY DEF Tick
  <1>2. \A x \in Heap : Older(info[x]) \in Info
    BY HeapType, ServerAssumption DEF Inv, Older, Info
  <1>3. Heap \subseteq Heap'
    BY <1>1, <1>2, ServerAssumption DEF Heap
  <1>4. ASSUME NEW x \in Heap
        PROVE  /\ info'[x].identity = info[x].identity /\ info'[x].mac = info[x].mac
               /\ info[x].age = Timeout => info'[x].age = Timeout
    <2>1. info'[x] = Older(info[x])
      BY <1>1 DEF Heap
    <2>2. Timeout \in Nat
      BY ServerAssumption
    <2> QED
      BY <2>1, <2>2 DEF Older
  <1>5. IdsPoint' /\ MacsPoint' /\ NetPoints' /\ VethPoints' /\ IdsInUse' = IdsInUse
    BY <1>1, <1>3, <1>4, ObjectsKept
  <1>6. Sweeping'
    BY <1>1, <1>4, <1>5 DEF Inv, Sweeping, IsExpired, IdsPoint
  <1> QED
    BY <1>5, <1>6 DEF Points

\* Every other step moves one thread and leaves the table alone.
LEMMA NetPointsStep ==
  ASSUME Inv, UNCHANGED table,
         \/ \E d \in Datagram : \/ RecvIgnored(d) \/ RecvWrongVersion(d)
                                \/ RecvStartNoAddress(d) \/ RecvLookup(d)
         \/ StartLock \/ LookupLock \/ LookupFails \/ HbFind \/ HbLockInfo \/ HbOwnInfo
         \/ RelayFind \/ RelayWrite
  PROVE  NetPoints'
  <1>1. ASSUME NEW d \in Datagram,
               \/ RecvIgnored(d) \/ RecvWrongVersion(d)
               \/ RecvStartNoAddress(d) \/ RecvLookup(d)
        PROVE  NetPoints'
    <2>1. CASE RecvLookup(d)
      BY <2>1 DEF RecvLookup, NetAt, NetPoints, Starting, HbHasObject
    <2>2. CASE RecvIgnored(d) \/ RecvWrongVersion(d) \/ RecvStartNoAddress(d)
      BY <2>2, TableSame DEF RecvIgnored, RecvWrongVersion, RecvStartNoAddress
    <2> QED
      BY <1>1, <2>1, <2>2
  <1>2. ASSUME NEW w \in NetPc, NetGoto(w), net.pc # "recv",
               (w \in Starting) = (net.pc \in Starting),
               (w \in HbHasObject) = (net.pc \in HbHasObject)
        PROVE  NetPoints'
    <2>1. net'.pc = w /\ net'.d = net.d /\ net'.obj = net.obj
      BY <1>2 DEF NetGoto, NetAt
    <2>2. UNCHANGED <<dictId, dictMac>> /\ Heap' = Heap /\ IdsInUse' = IdsInUse
      BY DEF table, Heap, IdsInUse
    <2> QED
      BY <1>2, <2>1, <2>2 DEF Inv, NetPoints
  <1>3. ASSUME net' = NetIdle PROVE NetPoints'
    BY <1>3 DEF NetIdle, NetPoints, Starting, HbHasObject
  <1>4. CASE StartLock
    BY <1>2, <1>4 DEF StartLock, NetPc, Starting, HbHasObject
  <1>5. CASE LookupLock
    BY <1>2, <1>5 DEF LookupLock, NetPc, Starting, HbHasObject
  <1>6. CASE HbFind
    <2>1. net' = NetAt("hb_lock_info", net.d, dictId[net.d.identity]) /\ net.d \in Datagram
      BY <1>6 DEF HbFind, Inv, NetPoints
    <2>2. net.d.identity \in IdsInUse' /\ dictId' = dictId
      BY <1>6 DEF HbFind, table, IdsInUse
    <2> QED
      BY <2>1, <2>2 DEF NetAt, NetPoints, Starting, HbHasObject
  <1>7. CASE HbLockInfo
    BY <1>2, <1>7 DEF HbLockInfo, NetPc, Starting, HbHasObject
  <1>8. CASE HbOwnInfo
    BY <1>2, <1>8 DEF HbOwnInfo, NetPc, Starting, HbHasObject
  <1>9. CASE RelayFind
    BY <1>2, <1>9 DEF RelayFind, NetPc, Starting, HbHasObject
  <1>10. CASE LookupFails \/ RelayWrite
    BY <1>3, <1>10 DEF LookupFails, RelayWrite
  <1> QED
    BY <1>1, <1>4, <1>5, <1>6, <1>7, <1>8, <1>9, <1>10

LEMMA VethPointsStep ==
  ASSUME Inv, UNCHANGED table, VethStep \/ \E f \in Frame : VethRead(f)
  PROVE  VethPoints'
  <1>1. MacsInUse' = MacsInUse /\ dictMac' = dictMac
    BY DEF MacsInUse, table
  <1>2. ASSUME NEW f \in Frame, VethRead(f) PROVE VethPoints'
    BY <1>1, <1>2 DEF VethRead, VethAt, Inv, VethPoints
  <1>3. CASE VethLock \/ VethBroadcast \/ VethUnicast
    BY <1>1, <1>3 DEF VethLock, VethBroadcast, VethUnicast, VethAt, VethPoints
  <1>4. CASE VethDrop \/ VethDone
    BY <1>4 DEF VethDrop, VethDone, VethIdle, VethPoints
  <1>5. ASSUME NEW m \in Mac, VethLockInfo(m) PROVE VethPoints'
    BY <1>1, <1>5 DEF VethLockInfo, VethAt, Inv, VethPoints
  <1>6. CASE VethSend
    BY <1>1, <1>6 DEF VethSend, VethAt, Inv, VethPoints
  <1> QED
    BY <1>2, <1>3, <1>4, <1>5, <1>6 DEF VethStep

LEMMA SweepingStep ==
  ASSUME Inv, UNCHANGED table, PollWake \/ PollLock \/ PollStart \/ PollDone
  PROVE  Sweeping'
  <1>1. IdsInUse' = IdsInUse /\ dictId' = dictId /\ info' = info
    BY DEF IdsInUse, table
  <1>2. CASE PollStart
    BY <1>1, <1>2 DEF PollStart, PollAt, Sweeping, IsExpired
  <1>3. CASE PollWake \/ PollLock \/ PollDone
    BY <1>3 DEF PollWake, PollLock, PollDone, PollAt, PollIdle, Sweeping
  <1> QED
    BY <1>2, <1>3

LEMMA PointsStep == Inv /\ [Next]_vars => Points'
  <1> SUFFICES ASSUME Inv, [Next]_vars PROVE Points'
    OBVIOUS
  <1> USE DEF Points
  <1>1. ASSUME NEW d \in Datagram, RecvStart(d) PROVE Points'
    BY <1>1, RecvStartPoints
  <1>2. ASSUME \/ \E d \in Datagram : \/ RecvIgnored(d) \/ RecvWrongVersion(d)
                                      \/ RecvStartNoAddress(d) \/ RecvLookup(d)
               \/ StartLock \/ LookupLock \/ LookupFails \/ HbFind \/ HbLockInfo
               \/ HbOwnInfo \/ RelayFind \/ RelayWrite
        PROVE  Points'
    <2>1. UNCHANGED <<table, veth, poll>>
      BY <1>2 DEF RecvIgnored, RecvWrongVersion, RecvStartNoAddress, RecvLookup,
         StartLock, LookupLock, LookupFails, HbFind, HbLockInfo, HbOwnInfo, RelayFind,
         RelayWrite
    <2> QED
      BY <1>2, <2>1, NetPointsStep, TableSame
  <1>3. ASSUME VethStep \/ \E f \in Frame : VethRead(f) PROVE Points'
    <2>1. UNCHANGED <<table, net, poll>>
      BY <1>3 DEF VethStep, VethRead, VethLock, VethBroadcast, VethUnicast, VethDrop,
         VethLockInfo, VethSend, VethDone
    <2> QED
      BY <1>3, <2>1, VethPointsStep, TableSame
  <1>4. ASSUME PollWake \/ PollLock \/ PollStart \/ PollDone PROVE Points'
    <2>1. UNCHANGED <<table, net, veth>>
      BY <1>4 DEF PollWake, PollLock, PollStart, PollDone
    <2> QED
      BY <1>4, <2>1, SweepingStep, TableSame
  <1>5. CASE UNCHANGED vars
    BY <1>5, TableSame DEF vars, table
  <1> QED
    BY <1>1, <1>2, <1>3, <1>4, <1>5, StartInsertPoints, HbUpdatePoints, PollRemovePoints,
       TickPoints
    DEF Next, Recv, NetStep, PollStep

LEMMA SpecInv == Spec => []Inv
  <1>1. Inv /\ [Next]_vars => Inv'
    BY TypeStep, LockingStep, PointsStep DEF Inv, Points
  <1> QED
    BY <1>1, InitInv, PTL DEF Spec

-----------------------------------------------------------------------------
\* The pool, the table, the locks and the threads stay well formed.
THEOREM TypeCorrect == Spec => []TypeOK
  BY SpecInv, PTL DEF Inv

\* No thread and neither index ever keeps a pointer to an object that the sweep
\* has deleted.
THEOREM NoUseAfterFree == Spec => []NoDangling
  <1>1. Inv => NoDangling
    <2> SUFFICES ASSUME Inv PROVE NoDangling
      OBVIOUS
    <2>1. ASSUME NEW k \in Identity, dictId[k] # NoObject PROVE dictId[k] \in Heap
      BY <2>1 DEF Inv, IdsPoint, IdsInUse
    <2>2. ASSUME NEW m \in Mac, dictMac[m] # NoObject PROVE dictMac[m] \in Heap
      BY <2>2 DEF Inv, MacsPoint, MacsInUse
    <2>3. veth.todo \subseteq Mac
      BY DEF Inv, TypeOK
    <2>4. net.obj # NoObject => net.obj \in Heap
      BY DEF Inv, NetPoints, IdsPoint
    <2>5. veth.obj # NoObject => veth.obj \in Heap
      BY DEF Inv, VethPoints, MacsPoint
    <2>6. poll.doomed \subseteq IdsInUse
      BY DEF Inv, Sweeping
    <2> QED
      BY <2>1, <2>2, <2>3, <2>4, <2>5, <2>6 DEF NoDangling, Referenced
  <1> QED
    BY <1>1, SpecInv, PTL

\* A session is erased only while its client has been silent for the timeout.
THEOREM EvictionIsJust == Spec => EvictionJust
  <1>1. ASSUME Inv, [Next]_vars
        PROVE  [\A k \in IdsInUse :
                  dictId'[k] = NoObject => info[dictId[k]].age = Timeout]_vars
    <2> SUFFICES ASSUME Next, NEW k \in IdsInUse, dictId'[k] = NoObject PROVE IsExpired(k)
      BY <1>1 DEF IsExpired
    <2>1. k \in Identity /\ dictId[k] # NoObject
      BY DEF IdsInUse
    <2>2. ASSUME NEW x \in Identity, PollRemove(x) PROVE IsExpired(k)
      <3>1. x = k
        BY <1>1, <2>1, <2>2 DEF PollRemove, Inv, TypeOK
      <3> QED
        BY <1>1, <2>2, <3>1 DEF PollRemove, Inv, Sweeping
    <2>3. CASE StartInsert
      BY <1>1, <2>1, <2>3 DEF StartInsert, InsertIfAbsent, Inv, TypeOK
    <2>4. CASE dictId' = dictId
      BY <2>1, <2>4
    <2>5. \/ dictId' = dictId \/ StartInsert \/ \E x \in Identity : PollRemove(x)
      BY DEF Next, Recv, NetStep, VethStep, PollStep, RecvIgnored, RecvWrongVersion,
         RecvStartNoAddress, RecvStart, RecvLookup, StartLock, LookupLock, LookupFails,
         HbFind, HbLockInfo, HbOwnInfo, HbUpdate, RelayFind, RelayWrite, VethRead,
         VethLock, VethBroadcast, VethUnicast, VethDrop, VethLockInfo, VethSend,
         VethDone, PollWake, PollLock, PollStart, PollDone, Tick, table
    <2> QED
      BY <2>2, <2>3, <2>4, <2>5
  <1> QED
    BY <1>1, SpecInv, PTL DEF Spec, EvictionJust

-----------------------------------------------------------------------------
\* The lock of an object is held by a heartbeat about it and by a frame on its
\* way to it, never by both at the point where the address is used.
Updating == {"hb_own_info", "hb_update"}
InfoLocking ==
  \A o \in Object :
    /\ infoLock[o].entered = IF net.pc \in Updating /\ net.obj = o THEN {"net"} ELSE {}
    /\ infoLock[o].readers = IF veth.pc = "send" /\ veth.obj = o THEN {"veth"} ELSE {}
    /\ net.pc = "hb_update" /\ net.obj = o => infoLock[o].readers = {}

LEMMA InfoLockingStep == Inv /\ InfoLocking /\ [Next]_vars => InfoLocking'
  <1> SUFFICES ASSUME Inv, InfoLocking, [Next]_vars PROVE InfoLocking'
    OBVIOUS
  <1>0. /\ net.pc \in HbHasObject => net.obj \in Object
        /\ veth.pc = "send" => veth.obj \in Object
        /\ \A m \in MacsInUse : dictMac[m] \in Object
        /\ infoLock \in [Object -> Lock]
    BY DEF Inv, TypeOK, NetPoints, IdsPoint, VethPoints, MacsPoint, Heap
  <1>1. ASSUME UNCHANGED <<infoLock, veth>>,
               UNCHANGED net \/ (net.pc \notin Updating /\ net'.pc \notin Updating)
        PROVE  InfoLocking'
    BY <1>1 DEF InfoLocking, Updating
  <1>2. ASSUME UNCHANGED <<infoLock, net>>, veth.pc # "send", veth'.pc # "send"
        PROVE  InfoLocking'
    BY <1>2 DEF InfoLocking
  <1>3. CASE HbLockInfo
    BY <1>0, <1>3 DEF HbLockInfo, Enter, NetGoto, NetAt, InfoLocking, Updating,
       HbHasObject, Lock
  <1>4. CASE HbOwnInfo
    BY <1>4 DEF HbOwnInfo, Owns, NetGoto, NetAt, InfoLocking, Updating, locks
  <1>5. CASE HbUpdate
    BY <1>0, <1>5 DEF HbUpdate, Leave, FreeLock, NetIdle, InfoLocking, Updating,
       HbHasObject
  <1>6. ASSUME NEW m \in Mac, VethLockInfo(m) PROVE InfoLocking'
    <2>1. dictMac[m] \in Object
      BY <1>0, <1>6 DEF VethLockInfo, Inv, VethPoints
    <2> QED
      BY <1>0, <1>6, <2>1 DEF VethLockInfo, CanShare, Share, VethAt, InfoLocking,
         Updating, Lock
  <1>7. CASE VethSend
    BY <1>0, <1>7 DEF VethSend, Unshare, VethAt, InfoLocking, Updating, Lock
  <1>8. ASSUME NEW d \in Datagram,
               \/ RecvIgnored(d) \/ RecvWrongVersion(d) \/ RecvStartNoAddress(d)
               \/ RecvStart(d) \/ RecvLookup(d)
        PROVE  InfoLocking'
    <2>1. UNCHANGED <<infoLock, veth>>
      BY <1>8 DEF RecvIgnored, RecvWrongVersion, RecvStartNoAddress, RecvStart,
         RecvLookup, locks
    <2>2. UNCHANGED net \/ (net.pc \notin Updating /\ net'.pc \notin Updating)
      BY <1>8 DEF RecvIgnored, RecvWrongVersion, RecvStartNoAddress, RecvStart,
         RecvLookup, NetAt, Updating
    <2> QED
      BY <1>1, <2>1, <2>2
  <1>9. CASE StartLock \/ StartInsert \/ LookupLock \/ LookupFails \/ HbFind
               \/ RelayFind \/ RelayWrite
    <2>1. UNCHANGED <<infoLock, veth>>
      BY <1>9 DEF StartLock, StartInsert, LookupLock, LookupFails, HbFind, RelayFind,
         RelayWrite, locks
    <2>2. net.pc \notin Updating /\ net'.pc \notin Updating
      BY <1>9 DEF StartLock, StartInsert, LookupLock, LookupFails, HbFind, RelayFind,
         RelayWrite, NetGoto, NetAt, NetIdle, Updating
    <2> QED
      BY <1>1, <2>1, <2>2
  <1>10. ASSUME VethLock \/ VethBroadcast \/ VethUnicast \/ VethDrop \/ VethDone
                  \/ \E f \in Frame : VethRead(f)
         PROVE  InfoLocking'
    <2>1. UNCHANGED <<infoLock, net>> /\ veth.pc # "send" /\ veth'.pc # "send"
      BY <1>10 DEF VethLock, VethBroadcast, VethUnicast, VethDrop, VethDone, VethRead,
         VethAt, VethIdle, locks
    <2> QED
      BY <1>2, <2>1
  <1>11. ASSUME PollWake \/ PollStep \/ Tick \/ UNCHANGED vars PROVE InfoLocking'
    <2>1. UNCHANGED <<infoLock, veth, net>>
      BY <1>11 DEF PollWake, PollStep, PollLock, PollStart, PollRemove, PollDone, Tick,
         locks, vars
    <2> QED
      BY <1>1, <2>1
  <1> QED
    BY <1>3, <1>4, <1>5, <1>6, <1>7, <1>8, <1>9, <1>10, <1>11
    DEF Next, Recv, NetStep, VethStep

\* No data race on the table or on the address and time of a session.
THEOREM NoDataRace == Spec => []RaceFree
  <1>1. Init => InfoLocking
    BY DEF Init, InfoLocking, FreeLock, NetIdle, VethIdle, Updating
  <1>2. Inv /\ InfoLocking => RaceFree
    <2> SUFFICES ASSUME Inv, InfoLocking PROVE RaceFree
      OBVIOUS
    <2>1. poll.pc = "sweep" => ~NetReads /\ ~VethReads
      BY SweepAlone
    <2>2. ~(net.pc = "hb_update" /\ veth.pc = "send" /\ net.obj = veth.obj)
      BY DEF InfoLocking, Inv, NetPoints, IdsPoint, HbHasObject, Heap
    <2> QED
      BY <2>1, <2>2 DEF RaceFree
  <1> QED
    BY <1>1, <1>2, InfoLockingStep, SpecInv, PTL DEF Spec
=============================================================================
