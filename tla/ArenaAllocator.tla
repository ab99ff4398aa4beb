---------------------------- MODULE ArenaAllocator ----------------------------
(***************************************************************************)
(* ArenaAllocator (include/muddy/common/mm/ArenaAllocator.hpp): objects of *)
(* one size cut from arenas.  Each thread has an allocator (single()); an  *)
(* object may be released by any thread, and goes back to the allocator    *)
(* its first word names: to `local', a list of that thread alone, or by a  *)
(* compare-and-exchange loop to `global', which its thread empties with    *)
(* one exchange.  Arenas come from AlignedAllocator, as the Windows build  *)
(* makes them (AlignedAllocator_win32.cpp).  Addresses are numbers.        *)
(***************************************************************************)
EXTENDS Naturals, FiniteSets

CONSTANTS Allocator,   \* the allocators, one of each thread
          Shape,       \* [size, alignment]: tObjectSize and tAlignment
          ArenaSize, PageSize, WordSize,
          Base,        \* where VirtualAlloc may reserve an arena
          Data         \* a first word that is no allocator's address

Null == 0

ASSUME ArenaAssumption ==
  /\ ArenaSize \in Nat \ {0} /\ PageSize \in Nat \ {0} /\ WordSize \in Nat \ {0}
  /\ ArenaSize % PageSize = 0
  /\ \A b \in Base : b \in Nat /\ b % PageSize = 0 /\ b # Null
  /\ \A s \in Shape : /\ s.size \in Nat /\ s.size >= WordSize
                      /\ s.alignment \in Nat \ {0}
  \* Allocators are not in the arenas.
  /\ \A a \in Allocator \cup {Data} : a \notin Nat
  /\ Data \notin Allocator

VARIABLES shape,
          arenas,    \* [base, at]: reserved at base, used at `at'
          local, global,
          word,      \* the first word of each object that was laid out
          inUse,     \* objects the program has
          pc,        \* "idle", "exchanged" (in allocate), "push" (in release), or
                     \* "crashed", when memory that is nobody's has been used
          node, to   \* release: the object to push, and whose list it goes to

lists == <<local, global, word>>
vars  == <<shape, arenas, lists, inUse, pc, node, to>>

Init ==
  /\ shape \in Shape
  /\ arenas = {}
  /\ local = [a \in Allocator |-> Null]
  /\ global = [a \in Allocator |-> Null]
  /\ word = <<>>
  /\ inUse = {}
  /\ pc = [a \in Allocator |-> "idle"]
  /\ node = [a \in Allocator |-> Null]
  /\ to = [a \in Allocator |-> a]

-----------------------------------------------------------------------------
\* tpl::align
Align(x, n) == ((x + n - 1) \div n) * n

\* AlignedAllocator::allocate, of ArenaSize octets aligned to ArenaSize, when
\* what it reserves is at base.
Aligned(base) == (base \div ArenaSize) * ArenaSize + ArenaSize

\* VirtualAlloc reserves room for that, of which nobody else has any.
Room == 2 * ArenaSize
CanReserve(base) == \A r \in arenas : base + Room <= r.base \/ r.base + Room <= base

\* Where append()'s loop would put objects, if it did not end: begin is aligned,
\* and so each time moves by the same number of octets.
First(arena) == Align(arena + WordSize, shape.alignment)
Stride       == Align(shape.size, shape.alignment)
Begin(arena) == {First(arena) + k * Stride : k \in 0 .. ArenaSize}

\* A mistake: the object's size is forgotten in the loop's condition.
BadLaidOut(arena) == {b \in Begin(arena) : b < arena + ArenaSize}

\* The objects of an arena, the one append() pushes last, and each one's first
\* word then: the one pushed before it.
LaidOut(arena) == {b \in Begin(arena) : b < arena + ArenaSize - shape.size}
Top(arena)     == CHOOSE b \in LaidOut(arena) : b + Stride \notin LaidOut(arena)
Linked(arena)  == [b \in LaidOut(arena) |-> IF b = First(arena) THEN Null ELSE b - Stride]

Crash == pc' = [a \in Allocator |-> "crashed"]

-----------------------------------------------------------------------------
(***************************************************************************)
(* allocate                                                                *)
(***************************************************************************)
\* The first object of a's list, which begins at p when links are w.
Take(a, p, w) ==
  /\ inUse' = inUse \cup {p}
  /\ local' = [local EXCEPT ![a] = w[p]]
  /\ pc' = [pc EXCEPT ![a] = "idle"]

AllocateLocal(a) ==
  /\ pc[a] \in {"idle", "exchanged"} /\ local[a] # Null
  /\ Take(a, local[a], word)
  /\ UNCHANGED <<shape, arenas, global, word, node, to>>

Exchange(a) ==
  /\ pc[a] = "idle" /\ local[a] = Null
  /\ local' = [local EXCEPT ![a] = global[a]]
  /\ global' = [global EXCEPT ![a] = Null]
  /\ pc' = [pc EXCEPT ![a] = "exchanged"]
  /\ UNCHANGED <<shape, arenas, word, inUse, node, to>>

\* A new arena; one that is too small for an object leaves local null, which
\* is then read from.
AppendArena(a, base) ==
  /\ pc[a] = "exchanged" /\ local[a] = Null
  /\ CanReserve(base)
  /\ arenas' = arenas \cup {[base |-> base, at |-> Aligned(base)]}
  /\ LET at == Aligned(base) IN
       IF LaidOut(at) = {} THEN Crash /\ UNCHANGED <<word, inUse, local>>
       ELSE /\ word' = [b \in DOMAIN word \cup LaidOut(at) |->
                          IF b \in LaidOut(at) THEN Linked(at)[b] ELSE word[b]]
            /\ Take(a, Top(at), Linked(at))
  /\ UNCHANGED <<shape, global, node, to>>

\* VirtualAlloc() failed: the exception leaves allocate().
AppendThrows(a) ==
  /\ pc[a] = "exchanged" /\ local[a] = Null
  /\ pc' = [pc EXCEPT ![a] = "idle"]
  /\ UNCHANGED <<shape, arenas, lists, inUse, node, to>>

\* The program writes to its object.  What it leaves in the first word is its own
\* affair: any allocator's address, or anything else.  append() writes the allocator's
\* address to the first word of the arena, which is no object's and which nothing reads,
\* so until the program writes, an object's first word is the link it had in a list.
Construct(a, b) ==
  /\ pc[a] = "idle" /\ b \in inUse
  /\ \E w \in Allocator \cup {Data} : word' = [word EXCEPT ![b] = w]
  /\ UNCHANGED <<shape, arenas, local, global, inUse, pc, node, to>>

-----------------------------------------------------------------------------
(***************************************************************************)
(* release                                                                 *)
(***************************************************************************)
\* A mistake: the link is written only when there is an object to link to.
BadReleaseLocal(a, p) ==
  /\ pc[a] = "idle" /\ p \in inUse /\ word[p] = a
  /\ word' = IF local[a] = Null THEN word ELSE [word EXCEPT ![p] = local[a]]
  /\ local' = [local EXCEPT ![a] = p]
  /\ inUse' = inUse \ {p}
  /\ UNCHANGED <<shape, arenas, global, pc, node, to>>

ReleaseLocal(a, p) ==
  /\ pc[a] = "idle" /\ p \in inUse /\ word[p] = a
  /\ word' = [word EXCEPT ![p] = local[a]]
  /\ local' = [local EXCEPT ![a] = p]
  /\ inUse' = inUse \ {p}
  /\ UNCHANGED <<shape, arenas, global, pc, node, to>>

ReleaseGlobal(a, p) ==
  /\ pc[a] = "idle" /\ p \in inUse /\ word[p] \in Allocator \ {a}
  /\ to' = [to EXCEPT ![a] = word[p]]
  /\ node' = [node EXCEPT ![a] = p]
  /\ word' = [word EXCEPT ![p] = global[word[p]]]
  /\ inUse' = inUse \ {p}
  /\ pc' = [pc EXCEPT ![a] = "push"]
  /\ UNCHANGED <<shape, arenas, local, global>>

\* release() is over, and its variables with it.
Pushed(a) == /\ pc' = [pc EXCEPT ![a] = "idle"]
             /\ node' = [node EXCEPT ![a] = Null]
             /\ to' = [to EXCEPT ![a] = a]

\* A mistake: the head that was loaded is not compared with.
BadPush(a) ==
  /\ pc[a] = "push"
  /\ global' = [global EXCEPT ![to[a]] = node[a]]
  /\ Pushed(a)
  /\ UNCHANGED <<shape, arenas, local, word, inUse>>

\* compare_exchange_weak with the head in node->next succeeds.
Push(a) ==
  /\ pc[a] = "push" /\ global[to[a]] = word[node[a]]
  /\ global' = [global EXCEPT ![to[a]] = node[a]]
  /\ Pushed(a)
  /\ UNCHANGED <<shape, arenas, local, word, inUse>>

\* It fails, and loads the head anew.  (When it fails for no reason, nothing changes.)
PushFails(a) ==
  /\ pc[a] = "push"
  /\ word' = [word EXCEPT ![node[a]] = global[to[a]]]
  /\ UNCHANGED <<shape, arenas, local, global, inUse, pc, node, to>>

\* The first word is taken for an allocator's address and is none: it is what the
\* program wrote, or the link that nobody has overwritten.
ReleaseCrashes(a, p) ==
  /\ pc[a] = "idle" /\ p \in inUse /\ word[p] \notin Allocator
  /\ Crash
  /\ UNCHANGED <<shape, arenas, lists, inUse, node, to>>

-----------------------------------------------------------------------------
Step(a) == \/ AllocateLocal(a) \/ Exchange(a) \/ (\E base \in Base : AppendArena(a, base))
           \/ AppendThrows(a) \/ Push(a) \/ PushFails(a)
           \/ (\E p \in inUse : Construct(a, p) \/ ReleaseCrashes(a, p))
           \/ (\E p \in inUse : ReleaseLocal(a, p) \/ ReleaseGlobal(a, p))

Next == \E a \in Allocator : Step(a)

Spec == Init /\ [][Next]_vars

-----------------------------------------------------------------------------
Object == DOMAIN word

\* The objects of the list that begins at p, if there are any.
Closed(S) == \A b \in S : word[b] \in Object => word[b] \in S
Chain(p)  == {b \in Object : \A S \in SUBSET Object : p \in S \cup {Null} /\ Closed(S) => b \in S}

\* Every object is in one place: in the program's hands, on one list, or on its
\* way to one; no race of a push with another or with the exchange loses or
\* doubles it.  (ArenaAllocator.hpp:45-70)
InOnePlace ==
  (\A a \in Allocator : pc[a] # "crashed") => \A b \in Object :
    Cardinality({a \in Allocator : b \in Chain(local[a])})
    + Cardinality({a \in Allocator : b \in Chain(global[a])})
    + Cardinality({a \in Allocator : pc[a] = "push" /\ node[a] = b})
    + (IF b \in inUse THEN 1 ELSE 0) = 1

\* Whatever the program writes to the objects it has, and whenever: every list runs
\* through free objects only, from link to link, and ends in null, so allocate()
\* takes no word of the program for its next object.  (ArenaAllocator.hpp:45-70)
FreeLists ==
  (\A a \in Allocator : pc[a] # "crashed") =>
    \A a \in Allocator : \A b \in Chain(local[a]) \cup Chain(global[a]) :
      b \notin inUse /\ word[b] \in Object \cup {Null}

\* Every object is aligned and lies within what was reserved for its arena, behind
\* the arena's own word, and no two objects overlap.
\* (ArenaAllocator.hpp:73-84, align.hpp:9-12, AlignedAllocator_win32.cpp:8-15)
ObjectsFit ==
  /\ \A b \in Object : b % shape.alignment = 0 /\
       \E r \in arenas : /\ b >= r.at + WordSize
                         /\ b + shape.size <= r.at + ArenaSize
                         /\ r.base <= r.at /\ r.at + ArenaSize <= r.base + Room
  /\ \A b, c \in Object : b < c => b + shape.size <= c
=============================================================================
