----------------------------- MODULE AddressPool -----------------------------
(***************************************************************************)
(* TunnelServer::AddressPool: the virtual addresses the server hands out.  *)
(* A pool is a record                                                      *)
(*     current : the next address never handed out yet, in host order      *)
(*     free    : the stack of returned addresses, in network order, its    *)
(*               top at the end of the sequence                            *)
(* An address is taken from the stack only after the range is used up.     *)
(***************************************************************************)
EXTENDS Naturals, Sequences

CONSTANTS Lower, Upper   \* pool.current as constructed, and pool.upper

ASSUME RangeAssumption == /\ Lower \in Nat \ {0}
                          /\ Upper \in Nat
                          /\ Lower <= Upper
                          /\ Upper <= 2147483647

\* htonl: an in_addr_t as the four octets it occupies in memory.
Htonl(n) == << (n \div 16777216) % 256, (n \div 65536) % 256,
               (n \div 256) % 256, n % 256 >>

HostAddress == Lower .. Upper - 1
Address     == {Htonl(n) : n \in HostAddress}

NewPool == [current |-> Lower, free |-> << >>]

\* allocateAddress() returns 0 when there is neither a new nor a freed address.
CanAllocate(p) == p.current < Upper \/ p.free # << >>

\* What allocateAddress() returns otherwise, and the pool it leaves behind.
\* (The Bad... operators are the mistakes the properties must catch.)
Allocated(p) == IF p.current < Upper THEN Htonl(p.current) ELSE p.free[Len(p.free)]
BadAfterAllocate1(p) == [p EXCEPT !.current = @ + 1]   \* even from the stack
BadAfterAllocate2(p) ==                                \* top() without pop()
  IF p.current < Upper THEN [p EXCEPT !.current = @ + 1] ELSE p
AfterAllocate(p) ==
  IF p.current < Upper THEN [current |-> p.current + 1, free |-> p.free]
  ELSE [current |-> p.current, free |-> SubSeq(p.free, 1, Len(p.free) - 1)]

\* releaseAddress(a)
AfterRelease(p, a) == [current |-> p.current, free |-> Append(p.free, a)]

-----------------------------------------------------------------------------
PoolType == [current : Lower .. Upper, free : Seq(Address)]

\* The addresses handed out at least once, and those given back.
Issued(p) == {Htonl(n) : n \in Lower .. p.current - 1}
Freed(p)  == {p.free[i] : i \in 1 .. Len(p.free)}
=============================================================================
