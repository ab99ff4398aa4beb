----------------------------- MODULE TunnelServer -----------------------------
(***************************************************************************)
(* The tunnel server (source/tunnel/TunnelServer.cpp): three threads over  *)
(* one table of sessions and one pool of virtual addresses.                *)
(*   net  : handleNetworkDatagram, one datagram after the other            *)
(*   veth : handleVirtualEthernet, one frame after the other               *)
(*   poll : removeZombieClient, a sweep every 15 seconds                   *)
(* The table has two indices over the same ClientInfo objects, dict.id and *)
(* dict.mac, behind the reader-writer lock dict.mutex; each object has a   *)
(* lock of its own for its address and its `alive' time.                   *)
(*                                                                         *)
(* An action is the code of one thread between two points where another    *)
(* thread can see the difference: taking or giving back a lock.  `output'  *)
(* is what the last step gave to the socket or to the virtual interface.   *)
(***************************************************************************)
EXTENDS AddressPool, FiniteSets, RWLockOps, Packet

CONSTANTS Object,      \* the ClientInfo objects operator new can return
          Identity,    \* the values random() can return for an identity
          Peer,        \* the remote addresses (IP and port)
          Mac,         \* the MAC addresses
          GroupMac,    \* those whose first octet is odd
          Vmac,        \* the address of the server's virtual interface
          Timeout,     \* 45 seconds, in ticks
          Datagram,    \* the datagrams that can arrive
          Frame,       \* the frames the virtual interface can deliver
          FreshIdentity, \* TRUE: random() never returns an identity in use
          NoObject, NoInfo, NoDatagram

Info == [ip : Address, mac : Mac, address : Peer, identity : Identity,
         age : 0 .. Timeout]

\* What a client knows of it.
ClientView == [ip : Address, mac : Mac, address : Peer, age : 0 .. Timeout]

ASSUME ServerAssumption ==
  /\ GroupMac \subseteq Mac /\ Vmac \in Mac
  /\ Timeout \in Nat \ {0}
  /\ Datagram \subseteq [peer : Peer, size : Nat, version : Nat, type : Nat,
                         length : Nat, identity : Identity, mac : Mac]
  /\ Frame \subseteq [size : Nat, dst : Mac]
  /\ FreshIdentity \in BOOLEAN
  /\ NoObject \notin Object /\ NoDatagram \notin Datagram
  /\ NoInfo \notin Info \cup ClientView

VARIABLES pool,      \* the address pool (pool.mutex is held in one step)
          info,      \* [Object -> Info or NoInfo]: the heap
          dictId,    \* dict.id: [Identity -> Object or NoObject]
          dictMac,   \* dict.mac: [Mac -> Object or NoObject]
          dictLock,  \* dict.mutex
          infoLock,  \* ClientInfo::mutex of every object
          net, veth, poll, \* where each thread is, and its local variables
          output     \* what the last step sent or wrote

vars == <<pool, info, dictId, dictMac, dictLock, infoLock, net, veth, poll, output>>
table == <<info, dictId, dictMac>>
locks == <<dictLock, infoLock>>

Heap       == {o \in Object : info[o] # NoInfo}
IdsInUse   == {k \in Identity : dictId[k] # NoObject}
MacsInUse  == {m \in Mac : dictMac[m] # NoObject}

NetIdle  == [pc |-> "recv", d |-> NoDatagram, obj |-> NoObject]
VethIdle == [pc |-> "read", dst |-> Vmac, todo |-> {}, obj |-> NoObject]
PollIdle == [pc |-> "sleep", doomed |-> {}]

Init ==
  /\ pool = NewPool
  /\ info = [o \in Object |-> NoInfo]
  /\ dictId = [k \in Identity |-> NoObject]
  /\ dictMac = [m \in Mac |-> NoObject]
  /\ dictLock = FreeLock
  /\ infoLock = [o \in Object |-> FreeLock]
  /\ net = NetIdle /\ veth = VethIdle /\ poll = PollIdle
  /\ output = {}

Put(m)  == output' = {m}
Silent  == output' = {}

\* dict.mutex, as thread t uses it.
ShareDict(t)   == CanShare(dictLock) /\ dictLock' = Share(dictLock, t)
UnshareDict(t) == dictLock' = Unshare(dictLock, t)
EnterDict(t)   == CanEnter(dictLock) /\ dictLock' = Enter(dictLock, t)
OwnsDict(t)    == Owns(dictLock, t)
LeaveDict      == dictLock' = Leave(dictLock)

NetAt(w, d, o)  == [pc |-> w, d |-> d, obj |-> o]
NetGoto(w)      == net' = NetAt(w, net.d, net.obj)
VethAt(w, m, M, o) == [pc |-> w, dst |-> m, todo |-> M, obj |-> o]
PollAt(w, K)    == [pc |-> w, doomed |-> K]

-----------------------------------------------------------------------------
(***************************************************************************)
(* net: handleNetworkDatagram and the handlers it calls.                   *)
(***************************************************************************)
RecvIgnored(d) ==
  /\ net.pc = "recv" /\ Ignored(d)
  /\ Silent
  /\ UNCHANGED <<pool, table, locks, net, veth, poll>>

RecvWrongVersion(d) ==
  /\ net.pc = "recv" /\ Framed(d) /\ ~RightVersion(d)
  /\ Put(ErrorTo(d.peer, kWrongVersion))
  /\ UNCHANGED <<pool, table, locks, net, veth, poll>>

\* startSession when allocateAddress() returns 0: the client gets no answer.
RecvStartNoAddress(d) ==
  /\ net.pc = "recv" /\ Accepted(d) /\ IsStartSession(d)
  /\ ~CanAllocate(pool)
  /\ Silent
  /\ UNCHANGED <<pool, table, locks, net, veth, poll>>

\* startSession up to the lock: the new object is not in the table yet.
RecvStart(d) ==
  /\ net.pc = "recv" /\ Accepted(d) /\ IsStartSession(d)
  /\ CanAllocate(pool)
  /\ \E o \in Object \ Heap, k \in Identity :
       /\ FreshIdentity => k \notin {info[x].identity : x \in Heap}
       /\ info' = [info EXCEPT ![o] =
            [ip |-> Allocated(pool), mac |-> d.mac, address |-> d.peer,
             identity |-> k, age |-> 0]]
       /\ net' = NetAt("start_lock", d, o)
  /\ pool' = AfterAllocate(pool)
  /\ Silent
  /\ UNCHANGED <<dictId, dictMac, locks, veth, poll>>

StartLock ==
  /\ net.pc = "start_lock"
  /\ EnterDict("net")
  /\ NetGoto("start_insert")
  /\ Silent
  /\ UNCHANGED <<pool, table, infoLock, veth, poll>>

\* std::unordered_map::insert leaves an entry that is there as it is.
InsertIfAbsent(f, k, o) == IF f[k] = NoObject THEN [f EXCEPT ![k] = o] ELSE f

\* The operators named Bad... are not part of the specification: each is the
\* operation after it with one plausible mistake, which a property catches.

\* An address that is taken is refused, and the object forgotten.
BadStartInsert1 ==
  /\ net.pc = "start_insert" /\ OwnsDict("net")
  /\ LET i == info[net.obj] IN
       /\ dictMac' = InsertIfAbsent(dictMac, i.mac, net.obj)
       /\ IF dictMac[i.mac] = NoObject
          THEN dictId' = InsertIfAbsent(dictId, i.identity, net.obj)
          ELSE UNCHANGED dictId
       /\ Put(SessionInfoTo(net.d.peer, i.identity, i.ip))
  /\ LeaveDict
  /\ net' = NetIdle
  /\ UNCHANGED <<pool, info, infoLock, veth, poll>>

\* The client is answered with the identity in its own header.
BadStartInsert2 ==
  /\ net.pc = "start_insert" /\ OwnsDict("net")
  /\ LET i == info[net.obj] IN
       /\ dictId' = InsertIfAbsent(dictId, i.identity, net.obj)
       /\ dictMac' = InsertIfAbsent(dictMac, i.mac, net.obj)
       /\ Put(SessionInfoTo(net.d.peer, net.d.identity, i.ip))
  /\ LeaveDict
  /\ net' = NetIdle
  /\ UNCHANGED <<pool, info, infoLock, veth, poll>>

StartInsert ==
  /\ net.pc = "start_insert"
  /\ OwnsDict("net")
  /\ LET i == info[net.obj] IN
       /\ dictId' = InsertIfAbsent(dictId, i.identity, net.obj)
       /\ dictMac' = InsertIfAbsent(dictMac, i.mac, net.obj)
       /\ Put(SessionInfoTo(net.d.peer, i.identity, i.ip))
  /\ LeaveDict
  /\ net' = NetIdle
  /\ UNCHANGED <<pool, info, infoLock, veth, poll>>

RecvLookup(d) ==
  /\ net.pc = "recv" /\ Accepted(d)
  /\ \/ IsHeartbeat(d) /\ net' = NetAt("hb_lock", d, NoObject)
     \/ IsRelayData(d) /\ net' = NetAt("relay_lock", d, NoObject)
  /\ Silent
  /\ UNCHANGED <<pool, table, locks, veth, poll>>

LookupLock ==
  /\ \/ net.pc = "hb_lock" /\ NetGoto("hb_find")
     \/ net.pc = "relay_lock" /\ NetGoto("relay_find")
  /\ ShareDict("net")
  /\ Silent
  /\ UNCHANGED <<pool, table, infoLock, veth, poll>>

\* handleHeartbeat and relayData for an identity that is not in dict.id.
LookupFails ==
  /\ net.pc \in {"hb_find", "relay_find"}
  /\ net.d.identity \notin IdsInUse
  /\ Put(ErrorTo(net.d.peer, kRestartSession))
  /\ UnshareDict("net")
  /\ net' = NetIdle
  /\ UNCHANGED <<pool, table, infoLock, veth, poll>>

HbFind ==
  /\ net.pc = "hb_find"
  /\ net.d.identity \in IdsInUse
  /\ net' = NetAt("hb_lock_info", net.d, dictId[net.d.identity])
  /\ Silent
  /\ UNCHANGED <<pool, table, locks, veth, poll>>

HbLockInfo ==
  /\ net.pc = "hb_lock_info"
  /\ CanEnter(infoLock[net.obj])
  /\ infoLock' = [infoLock EXCEPT ![net.obj] = Enter(@, "net")]
  /\ NetGoto("hb_own_info")
  /\ Silent
  /\ UNCHANGED <<pool, table, dictLock, veth, poll>>

HbOwnInfo ==
  /\ net.pc = "hb_own_info"
  /\ Owns(infoLock[net.obj], "net")
  /\ NetGoto("hb_update")
  /\ Silent
  /\ UNCHANGED <<pool, table, locks, veth, poll>>

Touched(i, peer) == [ip |-> i.ip, mac |-> i.mac, address |-> peer,
                     identity |-> i.identity, age |-> 0]

\* alive and address are written; both locks are given back.
HbUpdate ==
  /\ net.pc = "hb_update"
  /\ info' = [info EXCEPT ![net.obj] = Touched(@, net.d.peer)]
  /\ infoLock' = [infoLock EXCEPT ![net.obj] = Leave(@)]
  /\ UnshareDict("net")
  /\ net' = NetIdle
  /\ Silent
  /\ UNCHANGED <<pool, dictId, dictMac, veth, poll>>

\* relayData gives the lock back before it looks at the frame.
RelayFind ==
  /\ net.pc = "relay_find"
  /\ net.d.identity \in IdsInUse
  /\ UnshareDict("net")
  /\ NetGoto("relay_write")
  /\ Silent
  /\ UNCHANGED <<pool, table, infoLock, veth, poll>>

RelayWrite ==
  /\ net.pc = "relay_write"
  /\ IF net.d.mac \in GroupMac \cup {Vmac}
       THEN Put(FrameToVeth(net.d.mac)) ELSE Silent
  /\ net' = NetIdle
  /\ UNCHANGED <<pool, table, locks, veth, poll>>

NetStep == \/ StartLock \/ StartInsert \/ LookupLock \/ LookupFails
           \/ HbFind \/ HbLockInfo \/ HbOwnInfo \/ HbUpdate
           \/ RelayFind \/ RelayWrite

Recv == \E d \in Datagram : \/ RecvIgnored(d) \/ RecvWrongVersion(d)
                            \/ RecvStartNoAddress(d) \/ RecvStart(d)
                            \/ RecvLookup(d)

-----------------------------------------------------------------------------
(***************************************************************************)
(* veth: handleVirtualEthernet, broadcastEthernetFrame and                 *)
(* unicastEthernetFrame.  `todo' is what is left of the loop over dict.mac.*)
(***************************************************************************)
VethRead(f) ==
  /\ veth.pc = "read"
  /\ IF f.size < EthernetHeaderSize THEN UNCHANGED veth
     ELSE veth' = VethAt("lock", f.dst, {}, NoObject)
  /\ Silent
  /\ UNCHANGED <<pool, table, locks, net, poll>>

VethLock ==
  /\ veth.pc = "lock"
  /\ ShareDict("veth")
  /\ veth' = VethAt("find", veth.dst, {}, NoObject)
  /\ Silent
  /\ UNCHANGED <<pool, table, infoLock, net, poll>>

VethBroadcast ==
  /\ veth.pc = "find" /\ veth.dst \in GroupMac
  /\ veth' = VethAt("loop", veth.dst, MacsInUse, NoObject)
  /\ Silent
  /\ UNCHANGED <<pool, table, locks, net, poll>>

VethUnicast ==
  /\ veth.pc = "find" /\ veth.dst \in MacsInUse \ GroupMac
  /\ veth' = VethAt("loop", veth.dst, {veth.dst}, NoObject)
  /\ Silent
  /\ UNCHANGED <<pool, table, locks, net, poll>>

\* "Unicast destination invalid, packet dropped"
VethDrop ==
  /\ veth.pc = "find" /\ veth.dst \notin MacsInUse \cup GroupMac
  /\ UnshareDict("veth")
  /\ veth' = VethIdle
  /\ Silent
  /\ UNCHANGED <<pool, table, infoLock, net, poll>>

VethLockInfo(m) ==
  /\ veth.pc = "loop" /\ m \in veth.todo
  /\ CanShare(infoLock[dictMac[m]])
  /\ infoLock' = [infoLock EXCEPT ![dictMac[m]] = Share(@, "veth")]
  /\ veth' = VethAt("send", veth.dst, veth.todo \ {m}, dictMac[m])
  /\ Silent
  /\ UNCHANGED <<pool, table, dictLock, net, poll>>

VethSend ==
  /\ veth.pc = "send"
  /\ Put(FrameTo(info[veth.obj].address))
  /\ infoLock' = [infoLock EXCEPT ![veth.obj] = Unshare(@, "veth")]
  /\ veth' = VethAt("loop", veth.dst, veth.todo, NoObject)
  /\ UNCHANGED <<pool, table, dictLock, net, poll>>

\* The shared lock on the table is not given back.
BadVethDone ==
  /\ veth.pc = "loop" /\ veth.todo = {}
  /\ veth' = VethIdle
  /\ Silent
  /\ UNCHANGED <<pool, table, locks, net, poll>>

VethDone ==
  /\ veth.pc = "loop" /\ veth.todo = {}
  /\ UnshareDict("veth")
  /\ veth' = VethIdle
  /\ Silent
  /\ UNCHANGED <<pool, table, infoLock, net, poll>>

VethStep == \/ VethLock \/ VethBroadcast \/ VethUnicast \/ VethDrop
            \/ (\E m \in Mac : VethLockInfo(m)) \/ VethSend \/ VethDone

-----------------------------------------------------------------------------
(***************************************************************************)
(* poll: removeZombieClient.  `doomed' are the entries of dict.id that are *)
(* 45 seconds old at the time `now', which is read once per sweep.         *)
(***************************************************************************)
PollWake ==
  /\ poll.pc = "sleep"
  /\ poll' = PollAt("lock", {})
  /\ Silent
  /\ UNCHANGED <<pool, table, locks, net, veth>>

PollLock ==
  /\ poll.pc = "lock"
  /\ EnterDict("poll")
  /\ poll' = PollAt("own", {})
  /\ Silent
  /\ UNCHANGED <<pool, table, infoLock, net, veth>>

BadIsExpired1(k) == info[dictId[k]].age >= Timeout - 1   \* too early
BadIsExpired2(k) == info[dictId[k]].age > Timeout        \* never

IsExpired(k) == info[dictId[k]].age = Timeout

PollStart ==
  /\ poll.pc = "own"
  /\ OwnsDict("poll")
  /\ poll' = PollAt("sweep", {k \in IdsInUse : IsExpired(k)})
  /\ Silent
  /\ UNCHANGED <<pool, table, locks, net, veth>>

\* The entry of dict.mac is left behind.
BadPollRemove1(k) ==
  /\ poll.pc = "sweep" /\ k \in poll.doomed
  /\ dictId' = [dictId EXCEPT ![k] = NoObject]
  /\ pool' = AfterRelease(pool, info[dictId[k]].ip)
  /\ info' = [info EXCEPT ![dictId[k]] = NoInfo]
  /\ poll' = PollAt("sweep", poll.doomed \ {k})
  /\ Silent
  /\ UNCHANGED <<dictMac, locks, net, veth>>

\* The virtual address is not given back.
BadPollRemove2(k) ==
  /\ poll.pc = "sweep" /\ k \in poll.doomed
  /\ dictMac' = [dictMac EXCEPT ![info[dictId[k]].mac] = NoObject]
  /\ dictId' = [dictId EXCEPT ![k] = NoObject]
  /\ info' = [info EXCEPT ![dictId[k]] = NoInfo]
  /\ poll' = PollAt("sweep", poll.doomed \ {k})
  /\ Silent
  /\ UNCHANGED <<pool, locks, net, veth>>

\* One turn of the loop.  dict.mac is erased by address, whatever session the
\* entry stands for.
PollRemove(k) ==
  /\ poll.pc = "sweep" /\ k \in poll.doomed
  /\ LET o == dictId[k] IN
       /\ dictMac' = [dictMac EXCEPT ![info[o].mac] = NoObject]
       /\ dictId' = [dictId EXCEPT ![k] = NoObject]
       /\ pool' = AfterRelease(pool, info[o].ip)
       /\ info' = [info EXCEPT ![o] = NoInfo]
  /\ poll' = PollAt("sweep", poll.doomed \ {k})
  /\ Silent
  /\ UNCHANGED <<locks, net, veth>>

PollDone ==
  /\ poll.pc = "sweep" /\ poll.doomed = {}
  /\ LeaveDict
  /\ poll' = PollIdle
  /\ Silent
  /\ UNCHANGED <<pool, table, infoLock, net, veth>>

PollStep == PollLock \/ PollStart \/ (\E k \in Identity : PollRemove(k)) \/ PollDone

-----------------------------------------------------------------------------
\* std::time() advances.  45 ticks and more are the same to the server.
Older(i) == [ip |-> i.ip, mac |-> i.mac, address |-> i.address,
             identity |-> i.identity,
             age |-> IF i.age < Timeout THEN i.age + 1 ELSE i.age]

Tick ==
  /\ \E o \in Heap : info[o].age < Timeout
  /\ info' = [o \in Object |-> IF o \in Heap THEN Older(info[o]) ELSE NoInfo]
  /\ Silent
  /\ UNCHANGED <<pool, dictId, dictMac, locks, net, veth, poll>>

Next == \/ Recv \/ NetStep
        \/ (\E f \in Frame : VethRead(f)) \/ VethStep
        \/ PollWake \/ PollStep
        \/ Tick

Spec == Init /\ [][Next]_vars

\* The threads run and time passes; no datagram and no frame has to arrive.
\* The sweep sleeps 15 seconds between two turns, so a thread it has kept out
\* and woken by its unlock() gets the lock before one of the next sweeps.
Fairness == /\ WF_vars(NetStep) /\ WF_vars(VethStep) /\ WF_vars(PollStep)
            /\ SF_vars(StartLock) /\ SF_vars(LookupLock) /\ SF_vars(VethLock)
            /\ WF_vars(PollWake) /\ WF_vars(Tick)

FairSpec == Spec /\ Fairness

-----------------------------------------------------------------------------
NetPc  == {"recv", "start_lock", "start_insert", "hb_lock", "hb_find",
           "hb_lock_info", "hb_own_info", "hb_update",
           "relay_lock", "relay_find", "relay_write"}
VethPc == {"read", "lock", "find", "loop", "send"}
PollPc == {"sleep", "lock", "own", "sweep"}
Thread == {"net", "veth", "poll"}
Lock   == [entered : SUBSET Thread, readers : SUBSET Thread]
MaybeObject == Object \cup {NoObject}

TypeOK ==
  /\ pool \in PoolType
  /\ info \in [Object -> Info \cup {NoInfo}]
  /\ dictId \in [Identity -> MaybeObject]
  /\ dictMac \in [Mac -> MaybeObject]
  /\ dictLock \in Lock
  /\ infoLock \in [Object -> Lock]
  /\ net \in [pc : NetPc, d : Datagram \cup {NoDatagram}, obj : MaybeObject]
  /\ veth \in [pc : VethPc, dst : Mac, todo : SUBSET Mac, obj : MaybeObject]
  /\ poll \in [pc : PollPc, doomed : SUBSET Identity]

\* The objects some pointer still reaches: through either index, or in a local
\* variable of a thread.
Referenced ==
  ({dictId[k] : k \in Identity} \cup {dictMac[m] : m \in Mac}
     \cup {dictMac[m] : m \in veth.todo} \cup {net.obj, veth.obj}) \ {NoObject}

\* removeZombieClient deletes an object only when neither an index nor another
\* thread can still use it (its dict.mac entry goes with it, and the pointers
\* the other threads hold are protected by the shared lock).
NoDangling == Referenced \subseteq Heap /\ poll.doomed \subseteq IdsInUse

\* Every virtual address ever handed out is in exactly one place: once in the
\* stack of returned addresses, or in one object.  Allocation happens before
\* startSession takes the table's lock and release during a sweep.
VipAccounting ==
  /\ Issued(pool) = Freed(pool) \cup {info[o].ip : o \in Heap}
  /\ Freed(pool) \cap {info[o].ip : o \in Heap} = {}
  /\ \A i, j \in 1 .. Len(pool.free) : pool.free[i] = pool.free[j] => i = j
  /\ \A o, x \in Heap : info[o].ip = info[x].ip => o = x

\* No data race: a sweep never overlaps a reader of the table, and a heartbeat
\* never writes the address the veth thread is sending to.
NetReads  == net.pc \in {"hb_find", "hb_lock_info", "hb_own_info", "hb_update", "relay_find"}
VethReads == veth.pc \in {"find", "loop", "send"}
RaceFree ==
  /\ poll.pc = "sweep" => ~NetReads /\ ~VethReads
  /\ ~(net.pc = "hb_update" /\ veth.pc = "send" /\ net.obj = veth.obj)

\* A session disappears from dict.id only if it is silent for the whole timeout
\* at the moment it is erased: no heartbeat slips in between the comparison
\* with `now' and the removal.
EvictionJust ==
  [][\A k \in IdsInUse :
       dictId'[k] = NoObject => info[dictId[k]].age = Timeout]_vars

\* The ClientInfo of a session that has been answered stays reachable by its
\* identity until it is deleted, so a sweep can free it.  (Only while random()
\* returns unused identities.)
NoLeak == \A o \in Heap : net.obj = o \/ dictId[info[o].identity] = o

\* dict.mac holds sessions of dict.id only, each under its own address.
MacIndexSound ==
  \A m \in MacsInUse : LET o == dictMac[m] IN
    o \in Heap /\ info[o].mac = m /\ dictId[info[o].identity] = o

\* When a client is told it has a session, the session with that identity is
\* its own: it has that virtual address and the client's address.
SessionInfoTruthful ==
  \A m \in output : m.type = kSessionInfo =>
    /\ m.identity \in IdsInUse
    /\ info[dictId[m.identity]].ip = m.address
    /\ info[dictId[m.identity]].address = m.to

\* "Unicast destination invalid": a frame is dropped only when no session of
\* dict.id belongs to its destination.
DropOnlyIfInvalid ==
  veth.pc = "find" /\ veth.dst \notin MacsInUse \cup GroupMac
    => \A k \in IdsInUse : info[dictId[k]].mac # veth.dst

-----------------------------------------------------------------------------
NoSession == NoInfo
SessionOf(o) == [ip |-> info[o].ip, mac |-> info[o].mac,
                 address |-> info[o].address, age |-> info[o].age]
ST == INSTANCE SessionTable WITH
        session <- [k \in Identity |-> IF dictId[k] = NoObject THEN NoSession
                                       ELSE SessionOf(dictId[k])]

\* The three threads together implement the table of sessions.
ImplementsSessionTable == ST!Spec

\* And a session whose client stays silent is removed in the end.
ImplementsFairSessionTable == ST!FairSpec

\* Every thread comes back to its blocking call: no handler waits for ever for
\* a lock, and no two threads wait for each other.
ThreadsReturn ==
  /\ (net.pc # "recv") ~> (net.pc = "recv")
  /\ (veth.pc # "read") ~> (veth.pc = "read")
  /\ (poll.pc # "sleep") ~> (poll.pc = "sleep")

\* When clients fall silent the pool recovers: an exhausted range of virtual
\* addresses becomes available again and again.
PoolRecovers == <>[][~HbUpdate]_vars => []<>CanAllocate(pool)
=============================================================================
