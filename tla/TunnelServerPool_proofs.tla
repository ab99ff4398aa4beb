---------------------- MODULE TunnelServerPool_proofs ----------------------
(***************************************************************************)
(* The virtual addresses of TunnelServer: no sequence of handshakes,       *)
(* heartbeats and sweeps loses one or hands one out twice.                 *)
(***************************************************************************)
EXTENDS TunnelServer_proofs

\* Two host-order addresses with the same octets are the same.
LEMMA HtonlInjective ==
  ASSUME NEW m \in HostAddress, NEW n \in HostAddress, Htonl(m) = Htonl(n)
  PROVE  m = n
  <1>1. /\ m \in Nat /\ n \in Nat /\ m <= 2147483647 /\ n <= 2147483647
    BY RangeAssumption DEF HostAddress
  <1>2. /\ (m \div 16777216) % 256 = (n \div 16777216) % 256
        /\ (m \div 65536) % 256 = (n \div 65536) % 256
        /\ (m \div 256) % 256 = (n \div 256) % 256
        /\ m % 256 = n % 256
    BY DEF Htonl
  <1> QED
    BY <1>1, <1>2, SMTT(60)

\* A new address of the range was never handed out, and now it was.
LEMMA FreshAddress ==
  ASSUME NEW p \in PoolType, p.current < Upper
  PROVE  /\ Allocated(p) \notin Issued(p)
         /\ Issued(AfterAllocate(p)) = Issued(p) \cup {Allocated(p)}
         /\ AfterAllocate(p).free = p.free
  <1>1. p.current \in Lower .. Upper /\ p.current \in HostAddress
    BY RangeAssumption DEF PoolType, HostAddress
  <1>2. Lower .. p.current - 1 \subseteq HostAddress
    BY <1>1, RangeAssumption DEF HostAddress
  <1>3. Allocated(p) = Htonl(p.current)
    BY DEF Allocated
  <1>4. AfterAllocate(p) = [current |-> p.current + 1, free |-> p.free]
    BY DEF AfterAllocate
  <1>5. ASSUME NEW n \in Lower .. p.current - 1 PROVE Htonl(n) # Htonl(p.current)
    BY <1>1, <1>2, HtonlInjective, RangeAssumption
  <1>6. Lower .. (p.current + 1) - 1 = (Lower .. p.current - 1) \cup {p.current}
    BY <1>1, RangeAssumption
  <1>7. Issued(AfterAllocate(p)) = Issued(p) \cup {Allocated(p)}
    BY <1>3, <1>4, <1>6 DEF Issued
  <1> QED
    BY <1>3, <1>4, <1>5, <1>7 DEF Issued

Distinct(s) == \A i, j \in 1 .. Len(s) : s[i] = s[j] => i = j

\* The address on top of the stack is taken off it, and only that one.
LEMMA RecycledAddress ==
  ASSUME NEW p \in PoolType, ~(p.current < Upper), p.free # << >>, Distinct(p.free)
  PROVE  /\ Allocated(p) \in Freed(p)
         /\ Issued(AfterAllocate(p)) = Issued(p)
         /\ Freed(AfterAllocate(p)) = Freed(p) \ {Allocated(p)}
         /\ Distinct(AfterAllocate(p).free)
  <1> DEFINE s == p.free
             n == Len(s)
             t == SubSeq(s, 1, n - 1)
  <1>1. s \in Seq(Address) /\ n \in Nat /\ n >= 1
    BY DEF PoolType
  <1>2. Allocated(p) = s[n] /\ AfterAllocate(p) = [current |-> p.current, free |-> t]
    BY DEF Allocated, AfterAllocate
  <1>3. Len(t) = n - 1 /\ \A i \in 1 .. n - 1 : t[i] = s[i]
    BY <1>1
  <1> HIDE DEF t
  <1>4. Freed(AfterAllocate(p)) = {s[i] : i \in 1 .. n - 1}
    BY <1>2, <1>3 DEF Freed
  <1>5. {s[i] : i \in 1 .. n - 1} = {s[i] : i \in 1 .. n} \ {s[n]}
    BY <1>1 DEF Distinct
  <1>6. Distinct(t)
    BY <1>1, <1>3 DEF Distinct
  <1>7. Allocated(p) \in Freed(p)
    BY <1>1, <1>2 DEF Freed
  <1>8. Freed(AfterAllocate(p)) = Freed(p) \ {Allocated(p)}
    BY <1>2, <1>4, <1>5 DEF Freed
  <1> QED
    BY <1>2, <1>6, <1>7, <1>8 DEF Issued

\* An address given back joins the stack.
LEMMA ReleasedAddress ==
  ASSUME NEW p \in PoolType, NEW a \in Address, a \notin Freed(p), Distinct(p.free)
  PROVE  /\ Issued(AfterRelease(p, a)) = Issued(p)
         /\ Freed(AfterRelease(p, a)) = Freed(p) \cup {a}
         /\ Distinct(AfterRelease(p, a).free)
  <1> DEFINE s == p.free
             n == Len(s)
             t == Append(s, a)
  <1>1. s \in Seq(Address) /\ n \in Nat
    BY DEF PoolType
  <1>2. AfterRelease(p, a) = [current |-> p.current, free |-> t]
    BY DEF AfterRelease
  <1>3. Len(t) = n + 1 /\ t[n + 1] = a /\ \A i \in 1 .. n : t[i] = s[i]
    BY <1>1
  <1> HIDE DEF t
  <1>4. 1 .. n + 1 = (1 .. n) \cup {n + 1}
    BY <1>1
  <1>5. Freed(AfterRelease(p, a)) = Freed(p) \cup {a}
    BY <1>2, <1>3, <1>4 DEF Freed
  <1>6. \A i \in 1 .. n : s[i] # a
    BY DEF Freed
  <1>7. Distinct(t)
    BY <1>1, <1>3, <1>4, <1>6 DEF Distinct
  <1> QED
    BY <1>2, <1>5, <1>7 DEF Issued

\* Steps that neither allocate nor release.
LEMMA VipSame ==
  ASSUME VipAccounting, UNCHANGED pool, Heap' = Heap, \A o \in Heap : info'[o].ip = info[o].ip
  PROVE  VipAccounting'
  <1>1. {info[o].ip : o \in Heap}' = {info[o].ip : o \in Heap}
    OBVIOUS
  <1> QED
    BY <1>1 DEF VipAccounting

LEMMA VipRecvStart ==
  ASSUME Inv, VipAccounting, NEW d \in Datagram, RecvStart(d) PROVE VipAccounting'
  <1> DEFINE a == Allocated(pool)
             Ips == {info[o].ip : o \in Heap}
  <1>1. PICK o \in Object \ Heap, k \in Identity :
          info' = [info EXCEPT ![o] =
               [ip |-> Allocated(pool), mac |-> d.mac, address |-> d.peer,
                identity |-> k, age |-> 0]]
    BY DEF RecvStart
  <1>2. pool \in PoolType /\ CanAllocate(pool) /\ pool' = AfterAllocate(pool)
    BY DEF RecvStart, Inv, TypeOK
  <1>3. info'[o].ip = a /\ \A x \in Object \ {o} : info'[x] = info[x]
    BY <1>1 DEF Inv, TypeOK
  <1>4. info'[o] \in Info
    BY <1>1, <1>2, AllocateType, DatagramType, ServerAssumption DEF Inv, TypeOK, Info
  <1>5. Heap' = Heap \cup {o}
    BY <1>3, <1>4, ServerAssumption DEF Heap
  <1>6. Ips' = Ips \cup {a}
    <2>1. \A x \in Heap : info'[x] = info[x]
      BY <1>3 DEF Heap
    <2> QED
      BY <1>3, <1>5, <2>1
  <1>7. a \notin Ips
    <2>1. CASE pool.current < Upper
      BY <1>2, <2>1, FreshAddress DEF VipAccounting
    <2>2. CASE ~(pool.current < Upper)
      BY <1>2, <2>2, RecycledAddress DEF VipAccounting, CanAllocate, Distinct
    <2> QED
      BY <2>1, <2>2
  <1>8. \A x, y \in Heap' : info'[x].ip = info'[y].ip => x = y
    <2>1. \A x \in Heap : info'[x] = info[x] /\ info[x].ip # a
      BY <1>3, <1>7 DEF Heap
    <2> QED
      BY <1>3, <1>5, <2>1 DEF VipAccounting
  <1>9. CASE pool.current < Upper
    <2>1. /\ Issued(pool') = Issued(pool) \cup {a} /\ a \notin Issued(pool)
          /\ pool'.free = pool.free
      BY <1>2, <1>9, FreshAddress
    <2>2. Freed(pool') = Freed(pool)
      BY <2>1 DEF Freed
    <2>3. Issued(pool') = Freed(pool') \cup Ips'
      BY <1>6, <2>1, <2>2 DEF VipAccounting
    <2>4. Freed(pool') \cap Ips' = {}
      <3>1. Freed(pool) \cap Ips = {} /\ a \notin Freed(pool)
        BY <2>1 DEF VipAccounting
      <3> QED
        BY <1>6, <2>2, <3>1
    <2>5. Distinct(pool'.free)
      BY <2>1 DEF VipAccounting, Distinct
    <2> QED
      BY <1>8, <2>3, <2>4, <2>5 DEF VipAccounting, Distinct
  <1>10. CASE ~(pool.current < Upper)
    <2>1. /\ a \in Freed(pool) /\ Issued(pool') = Issued(pool)
          /\ Freed(pool') = Freed(pool) \ {a} /\ Distinct(pool'.free)
      BY <1>2, <1>10, RecycledAddress DEF VipAccounting, CanAllocate, Distinct
    <2>2. Issued(pool') = Freed(pool') \cup Ips'
      BY <1>6, <2>1 DEF VipAccounting
    <2>3. Freed(pool') \cap Ips' = {}
      BY <1>6, <2>1 DEF VipAccounting
    <2> QED
      BY <1>8, <2>1, <2>2, <2>3 DEF VipAccounting, Distinct
  <1> QED
    BY <1>9, <1>10

LEMMA VipPollRemove ==
  ASSUME Inv, VipAccounting, NEW k \in Identity, PollRemove(k) PROVE VipAccounting'
  <1> DEFINE o == dictId[k]
             a == info[o].ip
             Ips == {info[x].ip : x \in Heap}
  <1>1. o \in Heap /\ info[o] \in Info /\ o \in Object
    BY HeapType DEF PollRemove, Inv, Sweeping, IdsPoint
  <1>2. a \in Address /\ pool' = AfterRelease(pool, a) /\ pool \in PoolType
    BY <1>1 DEF PollRemove, Inv, TypeOK, Info
  <1>3. info' = [info EXCEPT ![o] = NoInfo]
    BY DEF PollRemove
  <1>4. Heap' = Heap \ {o} /\ \A x \in Heap' : info'[x] = info[x]
    BY <1>1, <1>3 DEF Inv, TypeOK, Heap
  <1>5. Ips' = Ips \ {a}
    BY <1>1, <1>4 DEF VipAccounting
  <1>6. /\ Issued(pool') = Issued(pool) /\ Freed(pool') = Freed(pool) \cup {a}
        /\ Distinct(pool'.free)
    BY <1>1, <1>2, ReleasedAddress DEF VipAccounting, Distinct
  <1>7. \A x, y \in Heap' : info'[x].ip = info'[y].ip => x = y
    BY <1>4 DEF VipAccounting
  <1> QED
    BY <1>1, <1>5, <1>6, <1>7 DEF VipAccounting, Distinct

LEMMA VipStep == Inv /\ VipAccounting /\ [Next]_vars => VipAccounting'
  <1> SUFFICES ASSUME Inv, VipAccounting, [Next]_vars PROVE VipAccounting'
    OBVIOUS
  <1>1. CASE HbUpdate
    <2>1. net.obj \in Heap /\ net.obj \in Object
      BY <1>1, HeapType DEF HbUpdate, Inv, NetPoints, HbHasObject, IdsPoint
    <2>2. Inv' /\ info' = [info EXCEPT ![net.obj] = Touched(info[net.obj], net.d.peer)]
      BY <1>1, TypeStep, LockingStep, PointsStep DEF HbUpdate, Inv, Points
    <2>3. Touched(info[net.obj], net.d.peer) \in Info
      BY <1>1, <2>1, HeapType, DatagramType, ServerAssumption
      DEF HbUpdate, Inv, NetPoints, Touched, Info
    <2>4. Heap' = Heap
      BY <2>1, <2>2, <2>3, ServerAssumption DEF Inv, TypeOK, Heap
    <2>5. info'[net.obj].ip = info[net.obj].ip
      BY <2>1, <2>2 DEF Touched, Inv, TypeOK
    <2>6. \A o \in Heap : info'[o].ip = info[o].ip
      BY <2>2, <2>5 DEF Inv, TypeOK, Heap
    <2> QED
      BY <1>1, <2>4, <2>6, VipSame DEF HbUpdate
  <1>2. CASE Tick
    <2>1. \A o \in Heap : info'[o] = Older(info[o]) /\ Older(info[o]) \in Info
      BY <1>2, HeapType, ServerAssumption DEF Tick, Inv, Older, Info, Heap
    <2>2. Heap' = Heap
      BY <1>2, <2>1, ServerAssumption DEF Tick, Heap
    <2>3. ASSUME NEW o \in Heap PROVE info'[o].ip = info[o].ip
      <3>1. info'[o] = Older(info[o])
        BY <2>1
      <3> QED
        BY <3>1 DEF Older
    <2> QED
      BY <1>2, <2>2, <2>3, VipSame DEF Tick
  <1>3. CASE UNCHANGED <<pool, info>>
    BY <1>3, VipSame DEF Heap
  <1>4. \/ UNCHANGED <<pool, info>> \/ HbUpdate \/ Tick
        \/ (\E d \in Datagram : RecvStart(d)) \/ (\E k \in Identity : PollRemove(k))
    BY DEF Next, Recv, NetStep, VethStep, PollStep, RecvIgnored, RecvWrongVersion,
       RecvStartNoAddress, RecvLookup, StartLock, StartInsert, LookupLock, LookupFails,
       HbFind, HbLockInfo, HbOwnInfo, RelayFind, RelayWrite, VethRead, VethLock,
       VethBroadcast, VethUnicast, VethDrop, VethLockInfo, VethSend, VethDone, PollWake,
       PollLock, PollStart, PollDone, table, vars
  <1> QED
    BY <1>1, <1>2, <1>3, <1>4, VipRecvStart, VipPollRemove

\* Every virtual address ever handed out is either in the stack, once, or in
\* exactly one object: none is lost and none is in two places.
THEOREM AddressesConserved == Spec => []VipAccounting
  <1>1. Init => VipAccounting
    <2> SUFFICES ASSUME Init PROVE VipAccounting
      OBVIOUS
    <2>1. Heap = {} /\ pool = [current |-> Lower, free |-> << >>]
      BY DEF Init, Heap, NewPool
    <2>2. Issued(pool) = {} /\ Freed(pool) = {}
      BY <2>1, RangeAssumption DEF Issued, Freed
    <2> QED
      BY <2>1, <2>2 DEF VipAccounting
  <1> QED
    BY <1>1, VipStep, SpecInv, PTL DEF Spec
=============================================================================
