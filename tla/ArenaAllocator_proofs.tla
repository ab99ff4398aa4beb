------------------------ MODULE ArenaAllocator_proofs ------------------------
(***************************************************************************)
(* Proofs about ArenaAllocator, for any set of threads, any arena size,    *)
(* and every place VirtualAlloc may reserve.                               *)
(***************************************************************************)
EXTENDS ArenaAllocator, FiniteSetTheorems, WellFoundedInduction, TLAPS

USE DEF lists, vars

-----------------------------------------------------------------------------
\* Numbers.

\* A set of numbers that has 0, and with each number the next, has them all.
LEMMA Induct ==
  ASSUME NEW T, 0 \in T, \A n \in Nat : n \in T => n + 1 \in T
  PROVE  \A n \in Nat : n \in T
  <1> SUFFICES ASSUME Nat \ T # {} PROVE FALSE
    OBVIOUS
  <1>1. PICK m \in Nat \ T : \A k \in Nat \ T : ~(<<k, m>> \in OpToRel(<, Nat))
    <2>1. Nat \ T \subseteq Nat
      OBVIOUS
    <2> QED
      BY <2>1, NatLessThanWellFounded, WFMin
  <1>2. \A k \in Nat \ T : ~(k < m)
    <2> SUFFICES ASSUME NEW k \in Nat \ T, k < m PROVE FALSE
      OBVIOUS
    <2>1. <<k, m>> \in OpToRel(<, Nat)
      BY DEF OpToRel
    <2> QED
      BY <1>1, <2>1
  <1>3. m # 0
    OBVIOUS
  <1>4. m - 1 \in Nat /\ m - 1 < m /\ (m - 1) + 1 = m
    BY <1>3
  <1>5. m - 1 \in T
    BY <1>2, <1>4
  <1> QED
    BY <1>4, <1>5

\* Products and remainders.
LEMMA Times ==
  ASSUME NEW n \in Nat \ {0}, NEW q \in Nat
  PROVE  q * n \in Nat /\ (q > 0 => q * n >= n) /\ (q + 1) * n = q * n + n
  OBVIOUS

LEMMA DivMod ==
  ASSUME NEW n \in Nat \ {0}, NEW x \in Nat
  PROVE  /\ x \div n \in Nat /\ x % n \in Nat
         /\ x % n < n /\ x = (x \div n) * n + (x % n)
  OBVIOUS

\* A quotient and a remainder are determined.
LEMMA Quotient ==
  ASSUME NEW n \in Nat \ {0}, NEW q \in Nat, NEW d \in Nat, NEW x \in Nat, NEW y \in Nat,
         x < n, y < n, q * n + x = d * n + y
  PROVE  q = d
  <1>1. q * n \in Nat /\ d * n \in Nat
    BY Times
  <1>2. ~(q < d)
    <2> SUFFICES ASSUME q < d PROVE FALSE
      OBVIOUS
    <2>1. PICK k \in Nat : d = q + k /\ k > 0
      <3>1. d - q \in Nat /\ d = q + (d - q) /\ d - q > 0
        OBVIOUS
      <3> QED
        BY <3>1
    <2>2. d * n = q * n + k * n /\ k * n >= n /\ k * n \in Nat
      BY <2>1, Times
    <2> QED
      BY <1>1, <2>2
  <1>3. ~(d < q)
    <2> SUFFICES ASSUME d < q PROVE FALSE
      OBVIOUS
    <2>1. PICK k \in Nat : q = d + k /\ k > 0
      <3>1. q - d \in Nat /\ q = d + (q - d) /\ q - d > 0
        OBVIOUS
      <3> QED
        BY <3>1
    <2>2. q * n = d * n + k * n /\ k * n >= n /\ k * n \in Nat
      BY <2>1, Times
    <2> QED
      BY <1>1, <2>2
  <1> QED
    BY <1>2, <1>3

LEMMA Multiple ==
  ASSUME NEW n \in Nat \ {0}, NEW q \in Nat
  PROVE  (q * n) % n = 0
  <1>1. q * n \in Nat
    BY Times
  <1>2. PICK d \in Nat, m \in Nat : m < n /\ q * n = d * n + m /\ m = (q * n) % n
    BY <1>1, DivMod
  <1>3. q * n + 0 = d * n + m /\ 0 < n
    BY <1>1, <1>2
  <1>4. q = d
    BY <1>2, <1>3, Quotient
  <1>5. q * n = q * n + m
    BY <1>2, <1>4
  <1>6. m = 0
    BY <1>1, <1>5
  <1> QED
    BY <1>2, <1>6

\* What is aligned stays so when an aligned number is added.
LEMMA AlignShift ==
  ASSUME NEW n \in Nat \ {0}, NEW p \in Nat, NEW x \in Nat
  PROVE  Align(p * n + x, n) = p * n + Align(x, n)
  <1>1. PICK y \in Nat : y = x + n - 1
    OBVIOUS
  <1>2. PICK m \in Nat : m = p * n
    BY Times
  <1>3. m + x + n - 1 = m + y /\ m + y \in Nat
    BY <1>1
  <1>4. PICK e \in Nat, f \in Nat : e = y \div n /\ f < n /\ y = e * n + f
    BY DivMod
  <1>5. PICK d \in Nat, g \in Nat : d = (m + y) \div n /\ g < n /\ m + y = d * n + g
    BY <1>3, DivMod
  <1>6. (p + e) * n = m + e * n /\ e * n \in Nat /\ d * n \in Nat
    BY <1>2, Times
  <1>7. d = p + e
    <2>1. (p + e) * n + f = d * n + g
      BY <1>4, <1>5, <1>6
    <2>2. p + e \in Nat
      OBVIOUS
    <2> QED
      BY <1>4, <1>5, <2>1, <2>2, Quotient
  <1>8. Align(x, n) = e * n
    BY <1>1, <1>4 DEF Align
  <1>9. Align(m + x, n) = d * n
    BY <1>3, <1>5 DEF Align
  <1> QED
    BY <1>2, <1>6, <1>7, <1>8, <1>9

\* tpl::align
LEMMA Alignment ==
  ASSUME NEW n \in Nat \ {0}, NEW x \in Nat
  PROVE  /\ Align(x, n) \in Nat /\ x <= Align(x, n)
         /\ \E q \in Nat : Align(x, n) = q * n
  <1>1. x + n - 1 \in Nat
    OBVIOUS
  <1>2. /\ (x + n - 1) \div n \in Nat
        /\ x + n - 1 < ((x + n - 1) \div n) * n + n
    BY <1>1, DivMod
  <1>3. ((x + n - 1) \div n) * n \in Nat
    BY <1>2, Times
  <1>4. Align(x, n) = ((x + n - 1) \div n) * n
    BY DEF Align
  <1>5. x <= Align(x, n) /\ Align(x, n) \in Nat
    BY <1>2, <1>3, <1>4
  <1>6. \E q \in Nat : Align(x, n) = q * n
    BY <1>2, <1>4
  <1> QED
    BY <1>5, <1>6

\* AlignedAllocator::allocate
LEMMA AlignedArena ==
  ASSUME NEW base \in Nat
  PROVE  /\ Aligned(base) \in Nat
         /\ base <= Aligned(base) /\ Aligned(base) <= base + ArenaSize
  <1>1. ArenaSize \in Nat \ {0}
    BY ArenaAssumption
  <1>2. /\ base \div ArenaSize \in Nat /\ base % ArenaSize \in Nat
        /\ base % ArenaSize < ArenaSize /\ base = (base \div ArenaSize) * ArenaSize + (base % ArenaSize)
    BY <1>1, DivMod
  <1>3. (base \div ArenaSize) * ArenaSize \in Nat
    BY <1>1, <1>2, Times
  <1> QED
    BY <1>1, <1>2, <1>3 DEF Aligned

-----------------------------------------------------------------------------
(***************************************************************************)
(* Where objects are.  Stride and First depend on the shape only.          *)
(***************************************************************************)
At(arena, k) == First(arena) + k * Stride

LEMMA Strides ==
  ASSUME shape \in Shape, NEW arena \in Nat
  PROVE  /\ Stride \in Nat \ {0} /\ shape.size <= Stride /\ shape.size \in Nat
         /\ First(arena) \in Nat /\ arena + WordSize <= First(arena) /\ First(arena) # 0
         /\ \A k \in Nat : /\ At(arena, k) \in Nat /\ At(arena, k + 1) = At(arena, k) + Stride
                           /\ First(arena) <= At(arena, k)
                           /\ At(arena, k) % shape.alignment = 0
         /\ At(arena, 0) = First(arena)
  <1>1. /\ shape.size \in Nat /\ shape.size >= WordSize /\ WordSize \in Nat \ {0}
        /\ shape.alignment \in Nat \ {0}
    BY ArenaAssumption
  <1>2. PICK q \in Nat : Stride = q * shape.alignment /\ Stride \in Nat /\ shape.size <= Stride
    BY <1>1, Alignment DEF Stride
  <1>3. PICK p \in Nat : /\ First(arena) = p * shape.alignment
                         /\ First(arena) \in Nat /\ arena + WordSize <= First(arena)
    <2>1. arena + WordSize \in Nat
      BY <1>1
    <2> QED
      BY <1>1, <2>1, Alignment DEF First
  <1>4. ASSUME NEW k \in Nat
        PROVE  /\ At(arena, k) \in Nat /\ At(arena, k + 1) = At(arena, k) + Stride
               /\ First(arena) <= At(arena, k)
               /\ At(arena, k) % shape.alignment = 0
    <2>1. Stride \in Nat \ {0}
      BY <1>1, <1>2
    <2>2. k * Stride \in Nat /\ (k + 1) * Stride = k * Stride + Stride
      BY <2>1, Times
    <2>3. At(arena, k) = (p + k * q) * shape.alignment /\ p + k * q \in Nat
      <3>1. PICK n \in Nat \ {0} : n = shape.alignment
        BY <1>1
      <3>2. k * (q * n) = (k * q) * n /\ k * q \in Nat /\ p * n + (k * q) * n = (p + k * q) * n
        OBVIOUS
      <3> QED
        BY <1>2, <1>3, <3>1, <3>2 DEF At
    <2>4. At(arena, k) % shape.alignment = 0
      BY <1>1, <2>3, Multiple
    <2> QED
      BY <1>3, <2>2, <2>4, <1>2 DEF At
  <1>5. At(arena, 0) = First(arena)
    BY <1>2, <1>3 DEF At
  <1>6. First(arena) # 0
    BY <1>1, <1>3
  <1>7. Stride # 0
    BY <1>1, <1>2
  <1> QED
    BY <1>1, <1>2, <1>3, <1>4, <1>5, <1>6, <1>7

\* append()'s loop: begin = tpl::align(begin + tObjectSize, tAlignment).
LEMMA LoopMoves ==
  ASSUME shape \in Shape, NEW arena \in Nat, NEW k \in Nat
  PROVE  At(arena, k + 1) = Align(At(arena, k) + shape.size, shape.alignment)
  <1>1. shape.size \in Nat /\ shape.alignment \in Nat \ {0}
    BY ArenaAssumption
  <1>2. At(arena, k) \in Nat /\ At(arena, k + 1) = At(arena, k) + Stride
        /\ At(arena, k) % shape.alignment = 0
    BY Strides
  <1>3. PICK p \in Nat : At(arena, k) = p * shape.alignment
    <2>1. /\ At(arena, k) \div shape.alignment \in Nat
          /\ At(arena, k) = (At(arena, k) \div shape.alignment) * shape.alignment
                              + (At(arena, k) % shape.alignment)
      BY <1>1, <1>2, DivMod
    <2>2. (At(arena, k) \div shape.alignment) * shape.alignment \in Nat
      BY <1>1, <2>1, Times
    <2> QED
      BY <1>2, <2>1, <2>2
  <1> QED
    BY <1>1, <1>2, <1>3, AlignShift DEF Stride

\* A later object lies behind all of an earlier one.
LEMMA Later ==
  ASSUME shape \in Shape, NEW arena \in Nat, NEW j \in Nat, NEW k \in Nat, j < k
  PROVE  At(arena, j) + shape.size <= At(arena, k)
  <1>1. Stride \in Nat \ {0} /\ shape.size <= Stride /\ shape.size \in Nat /\ First(arena) \in Nat
    BY Strides
  <1>2. PICK d \in Nat : k = j + d /\ d > 0
    <2>1. k - j \in Nat /\ k = j + (k - j) /\ k - j > 0
      OBVIOUS
    <2> QED
      BY <2>1
  <1>3. k * Stride = j * Stride + d * Stride /\ d * Stride >= Stride
        /\ j * Stride \in Nat /\ d * Stride \in Nat
    BY <1>1, <1>2, Times
  <1> QED
    BY <1>1, <1>3 DEF At

\* The objects of an arena.
LEMMA Laid ==
  ASSUME shape \in Shape, NEW arena \in Nat
  PROVE  /\ LaidOut(arena) \subseteq Nat \ {Null}
         /\ \A b \in LaidOut(arena) : /\ \E k \in 0 .. ArenaSize : b = At(arena, k)
                                      /\ arena + WordSize <= b
                                      /\ b + shape.size <= arena + ArenaSize
                                      /\ b % shape.alignment = 0
         /\ \A b, c \in LaidOut(arena) : b < c => b + shape.size <= c
  <1>1. ArenaSize \in Nat /\ WordSize \in Nat \ {0}
    BY ArenaAssumption
  <1>2. ASSUME NEW b \in LaidOut(arena)
        PROVE  /\ \E k \in 0 .. ArenaSize : b = At(arena, k)
               /\ b \in Nat \ {Null}
               /\ arena + WordSize <= b
               /\ b + shape.size <= arena + ArenaSize
               /\ b % shape.alignment = 0
    <2>1. PICK k \in 0 .. ArenaSize : b = At(arena, k)
      BY DEF LaidOut, Begin, At
    <2>2. k \in Nat /\ b < arena + ArenaSize - shape.size
      BY <1>1 DEF LaidOut
    <2>3. /\ At(arena, k) \in Nat /\ First(arena) <= At(arena, k) /\ shape.size \in Nat
          /\ At(arena, k) % shape.alignment = 0
          /\ First(arena) \in Nat /\ arena + WordSize <= First(arena)
      BY <2>2, Strides
    <2> QED
      BY <1>1, <2>1, <2>2, <2>3 DEF Null
  <1>3. ASSUME NEW b \in LaidOut(arena), NEW c \in LaidOut(arena), b < c
        PROVE  b + shape.size <= c
    <2>1. PICK j \in 0 .. ArenaSize : b = At(arena, j)
      BY <1>2
    <2>2. PICK k \in 0 .. ArenaSize : c = At(arena, k)
      BY <1>2
    <2>3. j \in Nat /\ k \in Nat
      BY <1>1
    <2>4. CASE j < k
      BY <2>1, <2>2, <2>3, <2>4, Later
    <2>5. CASE k < j
      <3>1. c + shape.size <= b /\ shape.size \in Nat
        BY <2>1, <2>2, <2>3, <2>5, Later, Strides
      <3> QED
        BY <1>2, <1>3, <3>1
    <2>6. CASE j = k
      BY <1>2, <1>3, <2>1, <2>2, <2>6
    <2> QED
      BY <2>3, <2>4, <2>5, <2>6
  <1> QED
    BY <1>2, <1>3

-----------------------------------------------------------------------------
(***************************************************************************)
(* Lists, for any links w: a list is the smallest set that has its head    *)
(* and what its objects link to.                                           *)
(***************************************************************************)
ClosedIn(w, S) == \A b \in S : w[b] \in DOMAIN w => w[b] \in S
ChainIn(w, p)  == {b \in DOMAIN w : \A S \in SUBSET DOMAIN w :
                     p \in S \cup {Null} /\ ClosedIn(w, S) => b \in S}

LEMMA ChainIs == \A p : Chain(p) = ChainIn(word, p)
  BY DEF Chain, ChainIn, Closed, ClosedIn, Object

LEMMA Smallest ==
  ASSUME NEW w, NEW p, NEW S \in SUBSET DOMAIN w, p \in S \cup {Null}, ClosedIn(w, S)
  PROVE  ChainIn(w, p) \subseteq S
  BY DEF ChainIn

LEMMA ChainCloses ==
  ASSUME NEW w, NEW p \in DOMAIN w \cup {Null}
  PROVE  /\ ChainIn(w, p) \subseteq DOMAIN w
         /\ p \in ChainIn(w, p) \cup {Null}
         /\ ClosedIn(w, ChainIn(w, p))
         /\ p = Null => ChainIn(w, p) = {}
  <1>1. p \in ChainIn(w, p) \cup {Null}
    BY DEF ChainIn
  <1>2. ClosedIn(w, ChainIn(w, p))
    <2> SUFFICES ASSUME NEW b \in ChainIn(w, p), w[b] \in DOMAIN w,
                        NEW S \in SUBSET DOMAIN w, p \in S \cup {Null}, ClosedIn(w, S)
                 PROVE  w[b] \in S
      BY DEF ChainIn, ClosedIn
    <2>1. b \in S
      BY DEF ChainIn
    <2> QED
      BY <2>1 DEF ClosedIn
  <1>3. p = Null => ChainIn(w, p) = {}
    <2>1. ClosedIn(w, {})
      BY DEF ClosedIn
    <2> QED
      BY <2>1, Smallest
  <1> QED
    BY <1>1, <1>2, <1>3 DEF ChainIn

\* A list is its first object and the list that begins behind it.
LEMMA Unfold ==
  ASSUME NEW w, Null \notin DOMAIN w, NEW p \in DOMAIN w, w[p] \in DOMAIN w \cup {Null}
  PROVE  ChainIn(w, p) = {p} \cup ChainIn(w, w[p])
  <1>1. /\ ChainIn(w, p) \subseteq DOMAIN w /\ p \in ChainIn(w, p)
        /\ ClosedIn(w, ChainIn(w, p))
    BY ChainCloses
  <1>2. /\ ChainIn(w, w[p]) \subseteq DOMAIN w /\ w[p] \in ChainIn(w, w[p]) \cup {Null}
        /\ ClosedIn(w, ChainIn(w, w[p]))
    BY ChainCloses
  <1>3. ChainIn(w, p) \subseteq {p} \cup ChainIn(w, w[p])
    <2>1. ClosedIn(w, {p} \cup ChainIn(w, w[p]))
      BY <1>2 DEF ClosedIn
    <2>2. {p} \cup ChainIn(w, w[p]) \in SUBSET DOMAIN w /\ p \in {p} \cup ChainIn(w, w[p]) \cup {Null}
      BY <1>2
    <2> QED
      BY <2>1, <2>2, Smallest
  <1>4. ChainIn(w, w[p]) \subseteq ChainIn(w, p)
    <2>1. w[p] \in ChainIn(w, p) \cup {Null}
      BY <1>1 DEF ClosedIn
    <2> QED
      BY <1>1, <2>1, Smallest
  <1> QED
    BY <1>1, <1>3, <1>4

\* What follows an object of a list is on the list.
LEMMA Onwards ==
  ASSUME NEW w, NEW p \in DOMAIN w \cup {Null}, NEW b \in ChainIn(w, p),
         w[b] \in DOMAIN w \cup {Null}
  PROVE  ChainIn(w, w[b]) \subseteq ChainIn(w, p)
  <1>1. ChainIn(w, p) \in SUBSET DOMAIN w /\ ClosedIn(w, ChainIn(w, p))
    BY ChainCloses
  <1>2. w[b] \in ChainIn(w, p) \cup {Null}
    BY <1>1 DEF ClosedIn
  <1> QED
    BY <1>1, <1>2, Smallest

\* Links that are not the list's do not matter to it.
LEMMA Frame ==
  ASSUME NEW w, NEW v, DOMAIN w \subseteq DOMAIN v, Null \notin DOMAIN v,
         NEW p \in DOMAIN w \cup {Null},
         \A b \in ChainIn(w, p) : v[b] = w[b] /\ w[b] \in DOMAIN w \cup {Null}
  PROVE  ChainIn(v, p) = ChainIn(w, p)
  <1>1. /\ ChainIn(w, p) \in SUBSET DOMAIN w /\ ClosedIn(w, ChainIn(w, p))
        /\ p \in ChainIn(w, p) \cup {Null}
    BY ChainCloses
  <1>2. ChainIn(v, p) \subseteq ChainIn(w, p)
    <2>1. ClosedIn(v, ChainIn(w, p)) /\ ChainIn(w, p) \in SUBSET DOMAIN v
      BY <1>1 DEF ClosedIn
    <2> QED
      BY <1>1, <2>1, Smallest
  <1>3. ChainIn(w, p) \subseteq ChainIn(v, p)
    <2>1. ClosedIn(v, ChainIn(v, p)) /\ p \in ChainIn(v, p) \cup {Null}
      BY ChainCloses
    <2>2. ClosedIn(w, ChainIn(v, p)) /\ ChainIn(v, p) \in SUBSET DOMAIN w
      BY <1>1, <1>2, <2>1 DEF ClosedIn
    <2> QED
      BY <2>1, <2>2, Smallest
  <1> QED
    BY <1>2, <1>3

-----------------------------------------------------------------------------
(***************************************************************************)
(* Lists that share nothing.  H has their heads; B are the objects that    *)
(* are not on a list.                                                      *)
(***************************************************************************)
List == {"local", "global"} \X Allocator

Sound(w, H, B) ==
  /\ Null \notin DOMAIN w /\ B \subseteq DOMAIN w
  /\ H \in [List -> DOMAIN w \cup {Null}]
  /\ \A b \in DOMAIN w \ B : /\ w[b] \in DOMAIN w \cup {Null}
                             /\ \E l \in List : b \in ChainIn(w, H[l])
  /\ \A l \in List : \A b \in ChainIn(w, H[l]) : b \notin B /\ b \notin ChainIn(w, w[b])
  /\ \A l, m \in List : \A b \in ChainIn(w, H[l]) : b \in ChainIn(w, H[m]) => l = m

\* A list that none of the changed links is on.
LEMMA ListStays ==
  ASSUME NEW w, NEW H, NEW B, Sound(w, H, B), NEW l \in List,
         NEW v, DOMAIN w \subseteq DOMAIN v, Null \notin DOMAIN v,
         \A b \in ChainIn(w, H[l]) : v[b] = w[b]
  PROVE  /\ ChainIn(v, H[l]) = ChainIn(w, H[l])
         /\ \A b \in ChainIn(w, H[l]) : ChainIn(v, v[b]) = ChainIn(w, w[b])
  <1>1. H[l] \in DOMAIN w \cup {Null}
    BY DEF Sound
  <1>2. \A b \in ChainIn(w, H[l]) : b \in DOMAIN w /\ w[b] \in DOMAIN w \cup {Null}
    BY <1>1, ChainCloses DEF Sound
  <1>3. ChainIn(v, H[l]) = ChainIn(w, H[l])
    BY <1>1, <1>2, Frame
  <1>4. ASSUME NEW b \in ChainIn(w, H[l]) PROVE ChainIn(v, v[b]) = ChainIn(w, w[b])
    <2>1. v[b] = w[b] /\ w[b] \in DOMAIN w \cup {Null}
      BY <1>2
    <2>2. ChainIn(w, w[b]) \subseteq ChainIn(w, H[l])
      BY <1>1, <2>1, Onwards
    <2>3. ChainIn(v, w[b]) = ChainIn(w, w[b])
      BY <1>2, <2>1, <2>2, Frame
    <2> QED
      BY <2>1, <2>3
  <1> QED
    BY <1>3, <1>4

\* When all lists stay, so does what is said of them.
LEMMA SoundAgain ==
  ASSUME NEW w, NEW H, NEW B, Sound(w, H, B), NEW v, DOMAIN v = DOMAIN w,
         \A b \in DOMAIN w \ B : v[b] = w[b],
         \A l \in List : /\ ChainIn(v, H[l]) = ChainIn(w, H[l])
                        /\ \A b \in ChainIn(w, H[l]) : ChainIn(v, v[b]) = ChainIn(w, w[b])
  PROVE  Sound(v, H, B)
  <1>1. \A b \in DOMAIN v \ B : /\ v[b] \in DOMAIN v \cup {Null}
                                /\ \E l \in List : b \in ChainIn(v, H[l])
    BY DEF Sound
  <1>2. \A l \in List : \A b \in ChainIn(v, H[l]) : b \notin B /\ b \notin ChainIn(v, v[b])
    BY DEF Sound
  <1>3. \A l, m \in List : \A b \in ChainIn(v, H[l]) : b \in ChainIn(v, H[m]) => l = m
    BY DEF Sound
  <1> QED
    BY <1>1, <1>2, <1>3 DEF Sound

\* The program, or release(), writes to an object that is on no list.
LEMMA WriteOff ==
  ASSUME NEW w, NEW H, NEW B, Sound(w, H, B), NEW p \in B,
         NEW v, DOMAIN v = DOMAIN w, \A b \in DOMAIN w \ {p} : v[b] = w[b]
  PROVE  /\ Sound(v, H, B)
         /\ \A l \in List : ChainIn(v, H[l]) = ChainIn(w, H[l])
  <1>1. DOMAIN v = DOMAIN w /\ \A b \in DOMAIN w \ B : v[b] = w[b]
    OBVIOUS
  <1>2. ASSUME NEW l \in List
        PROVE  /\ ChainIn(v, H[l]) = ChainIn(w, H[l])
               /\ \A b \in ChainIn(w, H[l]) : ChainIn(v, v[b]) = ChainIn(w, w[b])
    <2>1. \A b \in ChainIn(w, H[l]) : v[b] = w[b]
      BY <1>1 DEF Sound, ChainIn
    <2>2. DOMAIN w \subseteq DOMAIN v /\ Null \notin DOMAIN v
      BY <1>1 DEF Sound
    <2> QED
      BY <2>1, <2>2, ListStays
  <1>3. Sound(v, H, B)
    BY <1>1, <1>2, SoundAgain
  <1> QED
    BY <1>2, <1>3

\* The first object is taken from a list.
LEMMA PopSound ==
  ASSUME NEW w, NEW H, NEW B, Sound(w, H, B), NEW l \in List, H[l] # Null,
         NEW G \in [List -> DOMAIN w \cup {Null}],
         G[l] = w[H[l]], \A m \in List \ {l} : G[m] = H[m]
  PROVE  /\ Sound(w, G, B \cup {H[l]})
         /\ H[l] \in DOMAIN w \ B
         /\ \A m \in List : ChainIn(w, G[m]) \subseteq ChainIn(w, H[m])
  <1>1. H[l] \in DOMAIN w /\ H[l] \in ChainIn(w, H[l]) /\ H[l] \notin B
    <2>1. H[l] \in DOMAIN w \cup {Null}
      BY DEF Sound
    <2>2. H[l] \in ChainIn(w, H[l])
      BY <2>1, ChainCloses
    <2> QED
      BY <2>1, <2>2 DEF Sound
  <1>2. w[H[l]] \in DOMAIN w \cup {Null}
    BY <1>1 DEF Sound
  <1>3. ChainIn(w, H[l]) = {H[l]} \cup ChainIn(w, w[H[l]])
    BY <1>1, <1>2, Unfold DEF Sound
  <1>4. /\ G \in [List -> DOMAIN w \cup {Null}]
        /\ G[l] = w[H[l]] /\ \A m \in List \ {l} : G[m] = H[m]
    BY <1>2 DEF Sound
  <1>5. H[l] \notin ChainIn(w, w[H[l]])
    BY <1>1 DEF Sound
  <1>6. ChainIn(w, G[l]) = ChainIn(w, H[l]) \ {H[l]}
    BY <1>3, <1>4, <1>5
  <1>7. \A m \in List \ {l} : ChainIn(w, G[m]) = ChainIn(w, H[m]) /\ H[l] \notin ChainIn(w, G[m])
    BY <1>1, <1>4 DEF Sound
  <1>8. \A m \in List : ChainIn(w, G[m]) \subseteq ChainIn(w, H[m]) /\ H[l] \notin ChainIn(w, G[m])
    BY <1>6, <1>7
  <1>9. \A b \in DOMAIN w \ (B \cup {H[l]}) : \E m \in List : b \in ChainIn(w, G[m])
    BY <1>6, <1>7 DEF Sound
  <1> QED
    BY <1>1, <1>4, <1>8, <1>9 DEF Sound

\* An object is put before a list: its link is the head, and it is the head.
LEMMA PushSound ==
  ASSUME NEW w, NEW H, NEW B, Sound(w, H, B), NEW l \in List, NEW p \in B,
         NEW v, DOMAIN v = DOMAIN w, v[p] = H[l], \A b \in DOMAIN w \ {p} : v[b] = w[b],
         NEW G \in [List -> DOMAIN w \cup {Null}],
         G[l] = p, \A m \in List \ {l} : G[m] = H[m]
  PROVE  /\ Sound(v, G, B \ {p})
         /\ ChainIn(v, G[l]) \subseteq ChainIn(w, H[l]) \cup {p}
         /\ \A m \in List \ {l} : ChainIn(v, G[m]) = ChainIn(w, H[m])
  <1>1. /\ Sound(v, H, B)
        /\ \A m \in List : ChainIn(v, H[m]) = ChainIn(w, H[m])
    BY WriteOff
  <1>2. /\ p \in DOMAIN w /\ DOMAIN v = DOMAIN w /\ v[p] = H[l] /\ p # Null /\ Null \notin DOMAIN v
        /\ H[l] \in DOMAIN v \cup {Null}
    BY DEF Sound
  <1>3. G \in [List -> DOMAIN v \cup {Null}] /\ G[l] = p /\ \A m \in List \ {l} : G[m] = H[m]
    BY <1>2 DEF Sound
  <1>4. ChainIn(v, p) = {p} \cup ChainIn(v, H[l])
    BY <1>2, Unfold
  <1>5. \A m \in List : p \notin ChainIn(v, H[m])
    BY <1>1 DEF Sound
  <1>6. \A m \in List : ChainIn(v, G[m]) = ChainIn(v, H[m]) \cup (IF m = l THEN {p} ELSE {})
    BY <1>3, <1>4
  <1>7. p \notin ChainIn(v, v[p])
    BY <1>2, <1>5
  <1>8. \A b \in DOMAIN v \ (B \ {p}) : /\ v[b] \in DOMAIN v \cup {Null}
                                        /\ \E m \in List : b \in ChainIn(v, G[m])
    <2> SUFFICES ASSUME NEW b \in DOMAIN v \ (B \ {p})
                 PROVE  /\ v[b] \in DOMAIN v \cup {Null}
                        /\ \E m \in List : b \in ChainIn(v, G[m])
      OBVIOUS
    <2>1. CASE b = p
      BY <1>2, <1>3, <1>4, <2>1
    <2>2. CASE b # p
      <3>1. v[b] \in DOMAIN v \cup {Null} /\ \E m \in List : b \in ChainIn(v, H[m])
        BY <1>1, <2>2 DEF Sound
      <3> QED
        BY <1>6, <3>1
    <2> QED
      BY <2>1, <2>2
  <1>9. ASSUME NEW m \in List, NEW b \in ChainIn(v, G[m])
        PROVE  b \notin B \ {p} /\ b \notin ChainIn(v, v[b])
    <2>1. CASE b = p
      BY <1>7, <2>1
    <2>2. CASE b # p
      <3>1. b \in ChainIn(v, H[m])
        BY <1>6, <2>2
      <3> QED
        BY <1>1, <3>1 DEF Sound
    <2> QED
      BY <2>1, <2>2
  <1>10. ASSUME NEW m \in List, NEW n \in List, NEW b \in ChainIn(v, G[m]), b \in ChainIn(v, G[n])
         PROVE  m = n
    <2>1. CASE b = p
      <3>1. \A k \in List : p \in ChainIn(v, G[k]) => k = l
        BY <1>5, <1>6
      <3> QED
        BY <1>10, <2>1, <3>1
    <2>2. CASE b # p
      <3>1. b \in ChainIn(v, H[m]) /\ b \in ChainIn(v, H[n])
        BY <1>6, <1>10, <2>2
      <3> QED
        BY <1>1, <3>1 DEF Sound
    <2> QED
      BY <2>1, <2>2
  <1>11. B \ {p} \subseteq DOMAIN v
    BY <1>1 DEF Sound
  <1>12. Sound(v, G, B \ {p})
    BY <1>2, <1>3, <1>8, <1>9, <1>10, <1>11 DEF Sound
  <1> QED
    BY <1>1, <1>6, <1>12

\* The same, of an object whose link is the head already.
LEMMA LinkSound ==
  ASSUME NEW w, NEW H, NEW B, Sound(w, H, B), NEW l \in List, NEW p \in B, w[p] = H[l],
         NEW G \in [List -> DOMAIN w \cup {Null}],
         G[l] = p, \A m \in List \ {l} : G[m] = H[m]
  PROVE  /\ Sound(w, G, B \ {p})
         /\ ChainIn(w, G[l]) \subseteq ChainIn(w, H[l]) \cup {p}
         /\ \A m \in List \ {l} : ChainIn(w, G[m]) = ChainIn(w, H[m])
  <1>1. PICK v : v = w
    OBVIOUS
  <1>2. DOMAIN v = DOMAIN w /\ v[p] = H[l] /\ \A b \in DOMAIN w \ {p} : v[b] = w[b]
    BY <1>1
  <1>3. /\ Sound(v, G, B \ {p})
        /\ ChainIn(v, G[l]) \subseteq ChainIn(w, H[l]) \cup {p}
        /\ \A m \in List \ {l} : ChainIn(v, G[m]) = ChainIn(w, H[m])
    BY <1>2, PushSound
  <1> QED
    BY <1>1, <1>3

\* One list becomes another that was empty.
LEMMA MoveSound ==
  ASSUME NEW w, NEW H, NEW B, Sound(w, H, B), NEW l \in List, NEW k \in List, l # k, H[l] = Null,
         NEW G \in [List -> DOMAIN w \cup {Null}], G[l] = H[k], G[k] = Null,
         \A m \in List \ {l, k} : G[m] = H[m]
  PROVE  /\ Sound(w, G, B)
         /\ ChainIn(w, G[l]) = ChainIn(w, H[k]) /\ ChainIn(w, G[k]) = {}
         /\ \A m \in List \ {l, k} : ChainIn(w, G[m]) = ChainIn(w, H[m])
  <1>1. ChainIn(w, Null) = {}
    BY ChainCloses
  <1>2. /\ ChainIn(w, G[l]) = ChainIn(w, H[k]) /\ ChainIn(w, G[k]) = {} /\ ChainIn(w, H[l]) = {}
        /\ \A m \in List \ {l, k} : ChainIn(w, G[m]) = ChainIn(w, H[m])
    BY <1>1
  <1>3. \A b : (\E m \in List : b \in ChainIn(w, H[m])) => \E m \in List : b \in ChainIn(w, G[m])
    <2> SUFFICES ASSUME NEW m \in List, NEW b \in ChainIn(w, H[m])
                 PROVE  \E n \in List : b \in ChainIn(w, G[n])
      OBVIOUS
    <2>1. CASE m = k
      BY <1>2, <2>1
    <2>2. CASE m # k
      BY <1>2, <2>2
    <2> QED
      BY <2>1, <2>2
  <1>4. \A m \in List : \E n \in List : ChainIn(w, G[m]) \subseteq ChainIn(w, H[n])
    BY <1>2
  <1>5. \A m \in List : \A b \in ChainIn(w, G[m]) : b \notin B /\ b \notin ChainIn(w, w[b])
    BY <1>4 DEF Sound
  <1>6. \A m, n \in List : \A b \in ChainIn(w, G[m]) : b \in ChainIn(w, G[n]) => m = n
    <2> SUFFICES ASSUME NEW m \in List, NEW n \in List, NEW b \in ChainIn(w, G[m]),
                        b \in ChainIn(w, G[n])
                 PROVE  m = n
      OBVIOUS
    <2>1. m # k /\ n # k
      BY <1>2
    <2>2. b \in ChainIn(w, H[IF m = l THEN k ELSE m]) /\ b \in ChainIn(w, H[IF n = l THEN k ELSE n])
      BY <1>2, <2>1
    <2>3. (IF m = l THEN k ELSE m) = (IF n = l THEN k ELSE n)
      BY <2>2 DEF Sound
    <2> QED
      BY <2>1, <2>3
  <1>7. \A b \in DOMAIN w \ B : /\ w[b] \in DOMAIN w \cup {Null}
                                /\ \E m \in List : b \in ChainIn(w, G[m])
    BY <1>3 DEF Sound
  <1>8. Null \notin DOMAIN w /\ B \subseteq DOMAIN w
    BY DEF Sound
  <1> QED
    BY <1>2, <1>5, <1>6, <1>7, <1>8 DEF Sound

\* A list that was empty becomes one of new objects.
LEMMA GrowSound ==
  ASSUME NEW w, NEW H, NEW B, Sound(w, H, B), NEW l \in List, H[l] = Null,
         NEW N, N \cap DOMAIN w = {}, Null \notin N,
         NEW v, DOMAIN v = DOMAIN w \cup N, \A b \in DOMAIN w : v[b] = w[b],
         \A b \in N : v[b] \in N \cup {Null} /\ b \notin ChainIn(v, v[b]),
         NEW t \in N, ChainIn(v, t) = N,
         NEW G \in [List -> DOMAIN v \cup {Null}],
         G[l] = t, \A m \in List \ {l} : G[m] = H[m]
  PROVE  /\ Sound(v, G, B)
         /\ ChainIn(v, G[l]) = N
         /\ \A m \in List \ {l} : ChainIn(v, G[m]) = ChainIn(w, H[m])
  <1>1. /\ DOMAIN w \subseteq DOMAIN v /\ Null \notin DOMAIN v /\ B \subseteq DOMAIN v
        /\ H \in [List -> DOMAIN w \cup {Null}]
    BY DEF Sound
  <1>2. G \in [List -> DOMAIN v \cup {Null}] /\ G[l] = t /\ \A m \in List \ {l} : G[m] = H[m]
    BY <1>1
  <1>3. ASSUME NEW m \in List
        PROVE  /\ ChainIn(w, H[m]) \subseteq DOMAIN w
               /\ ChainIn(v, H[m]) = ChainIn(w, H[m])
               /\ \A b \in ChainIn(w, H[m]) : ChainIn(v, v[b]) = ChainIn(w, w[b])
    <2>1. ChainIn(w, H[m]) \subseteq DOMAIN w
      BY DEF ChainIn
    <2>2. \A b \in ChainIn(w, H[m]) : v[b] = w[b]
      BY <2>1
    <2>3. Null \notin DOMAIN v /\ DOMAIN w \subseteq DOMAIN v
      BY <1>1
    <2> HIDE DEF List
    <2> QED
      BY <2>1, <2>2, <2>3, ListStays
  <1>4. ChainIn(w, H[l]) = {}
    BY ChainCloses
  <1>5. /\ ChainIn(v, G[l]) = N
        /\ \A m \in List \ {l} : ChainIn(v, G[m]) = ChainIn(w, H[m])
    BY <1>2, <1>3
  <1>6. \A b \in DOMAIN v \ B : /\ v[b] \in DOMAIN v \cup {Null}
                                /\ \E m \in List : b \in ChainIn(v, G[m])
    <2> SUFFICES ASSUME NEW b \in DOMAIN v \ B
                 PROVE  /\ v[b] \in DOMAIN v \cup {Null}
                        /\ \E m \in List : b \in ChainIn(v, G[m])
      OBVIOUS
    <2>1. CASE b \in N
      BY <1>5, <2>1
    <2>2. CASE b \notin N
      <3>1. v[b] = w[b] /\ w[b] \in DOMAIN w \cup {Null} /\ \E m \in List : b \in ChainIn(w, H[m])
        BY <2>2 DEF Sound
      <3>2. PICK m \in List : b \in ChainIn(w, H[m])
        BY <3>1
      <3>3. m # l
        BY <1>4, <3>2
      <3> QED
        BY <1>1, <1>5, <3>1, <3>2, <3>3
    <2> QED
      BY <2>1, <2>2
  <1>7. \A m \in List : \A b \in ChainIn(v, G[m]) : b \notin B /\ b \notin ChainIn(v, v[b])
    <2> SUFFICES ASSUME NEW m \in List, NEW b \in ChainIn(v, G[m])
                 PROVE  b \notin B /\ b \notin ChainIn(v, v[b])
      OBVIOUS
    <2>1. CASE m = l
      BY <1>5, <2>1 DEF Sound
    <2>2. CASE m # l
      <3>1. b \in ChainIn(w, H[m]) /\ ChainIn(v, v[b]) = ChainIn(w, w[b])
        BY <1>3, <1>5, <2>2
      <3> QED
        BY <3>1 DEF Sound
    <2> QED
      BY <2>1, <2>2
  <1>8. \A m, n \in List : \A b \in ChainIn(v, G[m]) : b \in ChainIn(v, G[n]) => m = n
    <2> SUFFICES ASSUME NEW m \in List, NEW n \in List, NEW b \in ChainIn(v, G[m]),
                        b \in ChainIn(v, G[n])
                 PROVE  m = n
      OBVIOUS
    <2>1. CASE m # l /\ n # l
      BY <1>5, <2>1 DEF Sound
    <2>2. CASE m = l /\ n # l
      BY <1>3, <1>5, <2>2
    <2>3. CASE m # l /\ n = l
      BY <1>3, <1>5, <2>3
    <2> QED
      BY <2>1, <2>2, <2>3
  <1> QED
    BY <1>1, <1>2, <1>5, <1>6, <1>7, <1>8 DEF Sound

-----------------------------------------------------------------------------
(***************************************************************************)
(* append(): the objects of a new arena are one list.                      *)
(***************************************************************************)
LEMMA LaidAt ==
  ASSUME shape \in Shape, NEW arena \in Nat, NEW k \in Nat, NEW j \in Nat, j <= k,
         At(arena, k) \in LaidOut(arena)
  PROVE  k <= ArenaSize /\ At(arena, j) \in LaidOut(arena)
  <1>1. ArenaSize \in Nat \ {0} /\ WordSize \in Nat \ {0}
    BY ArenaAssumption
  <1>2. PICK n \in 0 .. ArenaSize : At(arena, k) = At(arena, n)
    BY Laid
  <1>3. n \in Nat
    BY <1>1
  <1>4. shape.size \in Nat \ {0} /\ \A m \in Nat : At(arena, m) \in Nat
    <2>1. shape.size \in Nat /\ shape.size >= WordSize
      BY ArenaAssumption
    <2>2. \A m \in Nat : At(arena, m) \in Nat
      BY Strides
    <2> QED
      BY <1>1, <2>1, <2>2
  <1>5. n = k
    <2>1. ~(n < k)
      <3> SUFFICES ASSUME n < k PROVE FALSE
        OBVIOUS
      <3>1. At(arena, n) + shape.size <= At(arena, k)
        BY <1>3, Later
      <3> QED
        BY <1>2, <1>3, <1>4, <3>1
    <2>2. ~(k < n)
      <3> SUFFICES ASSUME k < n PROVE FALSE
        OBVIOUS
      <3>1. At(arena, k) + shape.size <= At(arena, n)
        BY <1>3, Later
      <3> QED
        BY <1>2, <1>3, <1>4, <3>1
    <2> QED
      BY <1>3, <2>1, <2>2
  <1>6. k \in 0 .. ArenaSize /\ j \in 0 .. ArenaSize
    BY <1>1, <1>5
  <1>7. At(arena, j) <= At(arena, k)
    <2>1. CASE j < k
      <3>1. At(arena, j) + shape.size <= At(arena, k)
        BY <2>1, Later
      <3> QED
        BY <1>4, <3>1
    <2>2. CASE j = k
      BY <1>4, <2>2
    <2> QED
      BY <2>1, <2>2
  <1>8. At(arena, k) < arena + ArenaSize - shape.size
    BY DEF LaidOut
  <1>9. At(arena, j) < arena + ArenaSize - shape.size
    BY <1>1, <1>4, <1>7, <1>8
  <1>10. At(arena, j) \in Begin(arena)
    BY <1>6 DEF Begin, At
  <1> QED
    BY <1>1, <1>6, <1>9, <1>10 DEF LaidOut

LEMMA TopIs ==
  ASSUME shape \in Shape, NEW arena \in Nat, LaidOut(arena) # {}
  PROVE  /\ Top(arena) \in LaidOut(arena)
         /\ Top(arena) + Stride \notin LaidOut(arena)
  <1> SUFFICES ASSUME \A b \in LaidOut(arena) : b + Stride \in LaidOut(arena)
               PROVE  FALSE
    BY DEF Top
  <1> DEFINE T == {k \in Nat : At(arena, k) \in LaidOut(arena)}
  <1>1. ArenaSize \in Nat \ {0}
    BY ArenaAssumption
  <1>2. 0 \in T
    <2>1. PICK b : b \in LaidOut(arena)
      OBVIOUS
    <2>2. PICK k \in 0 .. ArenaSize : b = At(arena, k)
      BY <2>1, Laid
    <2>3. k \in Nat /\ 0 <= k
      BY <1>1
    <2> QED
      BY <2>1, <2>2, <2>3, LaidAt
  <1>3. \A k \in Nat : k \in T => k + 1 \in T
    BY Strides
  <1>4. ArenaSize + 1 \in T
    <2> HIDE DEF T
    <2>1. \A k \in Nat : k \in T
      BY <1>2, <1>3, Induct
    <2> QED
      BY <1>1, <2>1
  <1>5. ArenaSize + 1 <= ArenaSize
    BY <1>1, <1>4, LaidAt
  <1> QED
    BY <1>1, <1>5

LEMMA NewList ==
  ASSUME shape \in Shape, NEW arena \in Nat, LaidOut(arena) # {},
         NEW v, LaidOut(arena) \subseteq DOMAIN v, Null \notin DOMAIN v,
         \A b \in LaidOut(arena) : v[b] = Linked(arena)[b]
  PROVE  /\ Top(arena) \in LaidOut(arena)
         /\ ChainIn(v, Top(arena)) = LaidOut(arena)
         /\ \A b \in LaidOut(arena) : /\ v[b] \in LaidOut(arena) \cup {Null}
                                      /\ b \notin ChainIn(v, v[b])
  <1>1. PICK N : N = LaidOut(arena)
    OBVIOUS
  <1>2. /\ Stride \in Nat \ {0} /\ First(arena) \in Nat
        /\ \A k \in Nat : /\ At(arena, k) \in Nat /\ At(arena, k + 1) = At(arena, k) + Stride
                          /\ First(arena) <= At(arena, k)
        /\ At(arena, 0) = First(arena)
    BY Strides
  <1>3. ArenaSize \in Nat \ {0} /\ N \subseteq Nat \ {Null}
        /\ \A b \in N : \E k \in Nat : b = At(arena, k)
    BY <1>1, Laid, ArenaAssumption
  <1>4. \A k \in Nat : /\ At(arena, k + 1) # First(arena)
                       /\ At(arena, k + 1) \in N =>
                            At(arena, k) \in N /\ v[At(arena, k + 1)] = At(arena, k)
    <2> TAKE k \in Nat
    <2>1. At(arena, k + 1) = At(arena, k) + Stride /\ At(arena, k) \in Nat
          /\ First(arena) <= At(arena, k)
      BY <1>2
    <2>2. At(arena, k + 1) # First(arena)
      BY <1>2, <2>1
    <2>3. ASSUME At(arena, k + 1) \in N PROVE At(arena, k) \in N
      <3>1. k + 1 \in Nat /\ k <= k + 1
        OBVIOUS
      <3> QED
        BY <1>1, <2>3, <3>1, LaidAt
    <2>4. ASSUME At(arena, k + 1) \in N PROVE v[At(arena, k + 1)] = At(arena, k)
      <3>1. v[At(arena, k + 1)] = At(arena, k + 1) - Stride
        BY <1>1, <2>2, <2>4 DEF Linked
      <3> QED
        BY <1>2, <2>1, <3>1
    <2> QED
      BY <2>2, <2>3, <2>4
  <1>5. \A b \in N : /\ v[b] \in N \cup {Null}
                     /\ v[b] # Null => v[b] < b
    <2> TAKE b \in N
    <2>1. PICK k \in Nat : b = At(arena, k)
      BY <1>3
    <2>2. CASE k = 0
      <3>1. v[b] = Null
        BY <1>1, <1>2, <2>1, <2>2 DEF Linked
      <3> QED
        BY <3>1
    <2>3. CASE k # 0
      <3>1. PICK j \in Nat : k = j + 1
        <4>1. k - 1 \in Nat /\ k = (k - 1) + 1
          BY <2>3
        <4> QED
          BY <4>1
      <3>2. At(arena, j) \in N /\ v[b] = At(arena, j) /\ b = At(arena, j) + Stride
            /\ At(arena, j) \in Nat
        BY <1>2, <1>4, <2>1, <3>1
      <3> QED
        BY <1>2, <3>2
    <2> QED
      BY <2>2, <2>3
  <1>6. Top(arena) \in N /\ Top(arena) + Stride \notin N
    BY <1>1, TopIs
  <1>7. ChainIn(v, Top(arena)) \subseteq N
    <2>1. ClosedIn(v, N) /\ N \in SUBSET DOMAIN v
      BY <1>1, <1>5 DEF ClosedIn
    <2> QED
      BY <1>6, <2>1, Smallest
  <1>8. PICK t \in Nat : Top(arena) = At(arena, t)
    BY <1>3, <1>6
  <1>9. \A j \in Nat : j <= t => At(arena, t - j) \in ChainIn(v, Top(arena))
    <2> DEFINE T == {j \in Nat : j <= t => At(arena, t - j) \in ChainIn(v, Top(arena))}
    <2>0. Top(arena) \in DOMAIN v
      BY <1>1, <1>6
    <2>1. ClosedIn(v, ChainIn(v, Top(arena))) /\ Top(arena) \in ChainIn(v, Top(arena))
      BY <2>0, ChainCloses
    <2>2. 0 \in T
      <3>1. t - 0 = t
        OBVIOUS
      <3> QED
        BY <1>8, <2>1, <3>1
    <2>3. ASSUME NEW j \in Nat, j \in T PROVE j + 1 \in T
      <3> SUFFICES ASSUME j + 1 <= t PROVE At(arena, t - (j + 1)) \in ChainIn(v, Top(arena))
        OBVIOUS
      <3>1. PICK k \in Nat : k = t - (j + 1)
        OBVIOUS
      <3>2. t - j = k + 1 /\ j <= t
        BY <3>1
      <3>3. At(arena, k + 1) \in ChainIn(v, Top(arena))
        BY <2>3, <3>2
      <3>4. At(arena, k) \in N /\ v[At(arena, k + 1)] = At(arena, k)
        BY <1>4, <1>7, <3>3
      <3>5. At(arena, k) \in ChainIn(v, Top(arena))
        BY <1>1, <2>1, <3>3, <3>4 DEF ClosedIn
      <3> QED
        BY <3>1, <3>5
    <2>4. \A j \in Nat : j \in T
      <3> HIDE DEF T
      <3> QED
        BY <2>2, <2>3, Induct
    <2> QED
      BY <2>4
  <1>10. N \subseteq ChainIn(v, Top(arena))
    <2> SUFFICES ASSUME NEW b \in N PROVE b \in ChainIn(v, Top(arena))
      OBVIOUS
    <2>1. PICK k \in Nat : b = At(arena, k)
      BY <1>3
    <2>2. k <= t
      <3> SUFFICES ASSUME ~(k <= t) PROVE FALSE
        OBVIOUS
      <3>1. t + 1 \in Nat /\ t + 1 <= k
        OBVIOUS
      <3>2. At(arena, t + 1) \in N
        BY <1>1, <2>1, <3>1, LaidAt
      <3> QED
        BY <1>2, <1>6, <1>8, <3>2
    <2>3. t - k \in Nat /\ t - k <= t /\ t - (t - k) = k
      BY <2>2
    <2> QED
      BY <1>9, <2>1, <2>3
  <1>11. ASSUME NEW b \in N PROVE b \notin ChainIn(v, v[b])
    <2> DEFINE D == {c \in N : c < b}
    <2>1. ClosedIn(v, D)
      <3> SUFFICES ASSUME NEW c \in D, v[c] \in DOMAIN v PROVE v[c] \in D
        BY DEF ClosedIn
      <3>1. c \in N /\ c < b /\ v[c] # Null
        OBVIOUS
      <3>2. v[c] \in N /\ v[c] < c
        BY <1>5, <3>1
      <3>3. c \in Nat /\ b \in Nat /\ v[c] \in Nat
        BY <1>3, <3>1, <3>2
      <3>4. v[c] < b
        BY <3>1, <3>2, <3>3
      <3> QED
        BY <3>2, <3>4
    <2>2. v[b] \in D \cup {Null}
      BY <1>5
    <2>3. D \in SUBSET DOMAIN v
      BY <1>1
    <2>4. ChainIn(v, v[b]) \subseteq D
      <3> HIDE DEF D
      <3> QED
        BY <2>1, <2>2, <2>3, Smallest
    <2> QED
      BY <1>3, <2>4
  <1> QED
    BY <1>1, <1>5, <1>6, <1>7, <1>10, <1>11

-----------------------------------------------------------------------------
(***************************************************************************)
(* Layout: arenas lie in rooms that are apart, and the objects are theirs. *)
(***************************************************************************)
Where(R) == UNION {LaidOut(r.at) : r \in R}

Placed(R) ==
  /\ R \subseteq [base : Nat, at : Nat]
  /\ \A r \in R : r.base <= r.at /\ r.at + ArenaSize <= r.base + Room
  /\ \A r, s \in R : r # s => r.base + Room <= s.base \/ s.base + Room <= r.base

Layout == shape \in Shape /\ Placed(arenas) /\ DOMAIN word = Where(arenas)

\* AppendArena adds an arena to those that are placed.
LEMMA PlacedNew ==
  ASSUME NEW R, Placed(R), NEW base \in Base,
         \A r \in R : base + Room <= r.base \/ r.base + Room <= base
  PROVE  Placed(R \cup {[base |-> base, at |-> Aligned(base)]})
  <1>1. ArenaSize \in Nat \ {0} /\ Room = ArenaSize + ArenaSize /\ base \in Nat
    BY ArenaAssumption DEF Room
  <1>2. /\ Aligned(base) \in Nat
        /\ base <= Aligned(base) /\ Aligned(base) <= base + ArenaSize
    BY <1>1, AlignedArena
  <1>3. PICK n : n = [base |-> base, at |-> Aligned(base)]
    OBVIOUS
  <1>4. /\ n \in [base : Nat, at : Nat] /\ n.base = base
        /\ n.base <= n.at /\ n.at + ArenaSize <= n.base + Room
    BY <1>1, <1>2, <1>3
  <1>5. Placed(R \cup {n})
    BY <1>4 DEF Placed
  <1> QED
    BY <1>3, <1>5

LEMMA Shapes ==
  ASSUME shape' = shape
  PROVE  /\ \A x : LaidOut(x)' = LaidOut(x)
         /\ \A R : Where(R)' = Where(R)
         /\ \A R : Placed(R)' = Placed(R)
  <1>1. \A x : LaidOut(x)' = LaidOut(x)
    BY DEF LaidOut, Begin, First, Stride, Align
  <1> QED
    BY <1>1 DEF Where, Placed

LEMMA LayoutStep ==
  ASSUME Layout, [Next]_vars
  PROVE  Layout'
  <1>1. shape' = shape
    BY DEF Next, Step, AllocateLocal, Exchange, AppendArena, AppendThrows, Construct,
           ReleaseLocal, ReleaseGlobal, Push, PushFails, ReleaseCrashes
  <1>2. CASE arenas' = arenas /\ DOMAIN word' = DOMAIN word
    BY <1>1, <1>2, Shapes DEF Layout
  <1>3. ASSUME NEW a \in Allocator, NEW base \in Base, AppendArena(a, base) PROVE Layout'
    <2>1. PICK n : n = [base |-> base, at |-> Aligned(base)]
      OBVIOUS
    <2>2. Placed(arenas \cup {n})
      BY <1>3, <2>1, PlacedNew DEF Layout, AppendArena, CanReserve
    <2>3. arenas' = arenas \cup {n} /\ n.at = Aligned(base)
      BY <1>3, <2>1 DEF AppendArena
    <2>4. DOMAIN word' = DOMAIN word \cup LaidOut(Aligned(base))
      BY <1>3 DEF AppendArena
    <2>5. DOMAIN word' = Where(arenas \cup {n})
      BY <2>3, <2>4 DEF Where, Layout
    <2> QED
      BY <1>1, <2>2, <2>3, <2>5, Shapes DEF Layout
  <1>4. ASSUME NEW a \in Allocator, Step(a), ~(\E base \in Base : AppendArena(a, base))
        PROVE  arenas' = arenas /\ DOMAIN word' = DOMAIN word
    BY <1>4 DEF Step, AllocateLocal, Exchange, AppendThrows, Construct, ReleaseLocal,
                ReleaseGlobal, Push, PushFails, ReleaseCrashes
  <1>5. CASE UNCHANGED vars
    BY <1>2, <1>5
  <1> QED
    BY <1>2, <1>3, <1>4, <1>5 DEF Next

LEMMA LayoutHolds == Spec => []Layout
  <1>1. Init => Layout
    BY DEF Init, Layout, Placed, Where
  <1>2. Layout /\ [Next]_vars => Layout'
    BY LayoutStep
  <1> QED
    BY <1>1, <1>2, PTL DEF Spec

(***************************************************************************)
(* Every object is aligned, lies within its arena's room behind the        *)
(* arena's own word, and overlaps no other, whatever the object's size and *)
(* alignment and wherever VirtualAlloc reserves: append()'s loop           *)
(* (ArenaAllocator.hpp:73-84) with the arena that                          *)
(* AlignedAllocator_win32.cpp:8-15 aligns.                                 *)
(***************************************************************************)
THEOREM ObjectsAlwaysFit == Spec => []ObjectsFit
  <1>1. Layout => ObjectsFit
    <2> SUFFICES ASSUME Layout PROVE ObjectsFit
      OBVIOUS
    <2>1. ArenaSize \in Nat \ {0} /\ Room \in Nat /\ WordSize \in Nat \ {0} /\ shape.size \in Nat
      BY ArenaAssumption DEF Room, Layout
    <2>2. \A b \in Object : \E r \in arenas : b \in LaidOut(r.at)
      BY DEF Object, Layout, Where
    <2>3. ASSUME NEW r \in arenas
          PROVE  /\ r.base \in Nat /\ r.at \in Nat /\ r.base <= r.at
                 /\ r.at + ArenaSize <= r.base + Room
      BY DEF Layout, Placed
    <2>4. ASSUME NEW r \in arenas, NEW b \in LaidOut(r.at)
          PROVE  /\ b \in Nat /\ b >= r.at + WordSize /\ b + shape.size <= r.at + ArenaSize
                 /\ b % shape.alignment = 0
      <3>1. r.at \in Nat /\ shape \in Shape
        BY <2>3 DEF Layout
      <3> QED
        BY <3>1, <2>1, Laid
    <2>5. ASSUME NEW b \in Object, NEW c \in Object, b < c PROVE b + shape.size <= c
      <3>1. PICK r \in arenas : b \in LaidOut(r.at)
        BY <2>2
      <3>2. PICK s \in arenas : c \in LaidOut(s.at)
        BY <2>2
      <3>3. CASE r = s
        <4>1. r.at \in Nat /\ shape \in Shape
          BY <2>3 DEF Layout
        <4> QED
          BY <2>5, <3>1, <3>2, <3>3, <4>1, Laid
      <3>4. CASE r # s
        <4>1. r.base + Room <= s.base \/ s.base + Room <= r.base
          BY <3>4 DEF Layout, Placed
        <4>2. /\ b \in Nat /\ b >= r.at + WordSize /\ b + shape.size <= r.at + ArenaSize
              /\ c \in Nat /\ c >= s.at + WordSize /\ c + shape.size <= s.at + ArenaSize
          BY <2>4, <3>1, <3>2
        <4>3. /\ r.base \in Nat /\ r.at \in Nat /\ r.base <= r.at
              /\ r.at + ArenaSize <= r.base + Room
              /\ s.base \in Nat /\ s.at \in Nat /\ s.base <= s.at
              /\ s.at + ArenaSize <= s.base + Room
          BY <2>3
        <4> QED
          BY <2>1, <2>5, <4>1, <4>2, <4>3
      <3> QED
        BY <3>3, <3>4
    <2> QED
      BY <2>2, <2>3, <2>4, <2>5 DEF ObjectsFit
  <1> QED
    BY <1>1, LayoutHolds, PTL

-----------------------------------------------------------------------------
(***************************************************************************)
(* The inductive invariant.  Heads are the lists' heads, Away the objects  *)
(* that are on no list.                                                    *)
(***************************************************************************)
Heads   == [l \in List |-> IF l[1] = "local" THEN local[l[2]] ELSE global[l[2]]]
Pushing == {a \in Allocator : pc[a] = "push"}
Away    == inUse \cup {node[a] : a \in Pushing}
Alive   == \A a \in Allocator : pc[a] # "crashed"

Typed ==
  /\ pc \in [Allocator -> {"idle", "exchanged", "push", "crashed"}]
  /\ ~Alive => \A a \in Allocator : pc[a] = "crashed"
  /\ local \in [Allocator -> Object \cup {Null}]
  /\ global \in [Allocator -> Object \cup {Null}]
  /\ node \in [Allocator -> Object \cup {Null}]
  /\ to \in [Allocator -> Allocator]
  /\ inUse \subseteq Object

\* release() has taken the object from the program, and from no other release().
Held ==
  /\ \A a \in Pushing : node[a] \in Object \ inUse
  /\ \A a, b \in Pushing : node[a] = node[b] => a = b

Inv == Layout /\ Typed /\ Held /\ (Alive => Sound(word, Heads, Away))

LEMMA HeadOf ==
  ASSUME NEW a \in Allocator
  PROVE  /\ <<"local", a>> \in List /\ <<"global", a>> \in List
         /\ <<"local", a>> # <<"global", a>>
         /\ <<"local", a>>[2] = a /\ <<"global", a>>[2] = a
         /\ Heads[<<"local", a>>] = local[a] /\ Heads[<<"global", a>>] = global[a]
  BY DEF Heads, List

LEMMA ListIs ==
  ASSUME NEW l \in List
  PROVE  l[2] \in Allocator /\ (l = <<"local", l[2]>> \/ l = <<"global", l[2]>>)
  BY DEF List

LEMMA LocalHead ==
  ASSUME NEW a \in Allocator, NEW x, local' = [local EXCEPT ![a] = x], global' = global,
         local \in [Allocator -> Object \cup {Null}]
  PROVE  /\ Heads'[<<"local", a>>] = x
         /\ \A l \in List \ {<<"local", a>>} : Heads'[l] = Heads[l]
  <1>1. ASSUME NEW l \in List
        PROVE  Heads'[l] = IF l = <<"local", a>> THEN x ELSE Heads[l]
    <2>1. l \in {"local", "global"} \X Allocator
      BY DEF List
    <2>2. PICK b \in Allocator : l = <<"local", b>> \/ l = <<"global", b>>
      BY <2>1
    <2>3. CASE l = <<"local", b>>
      <3>1. Heads'[l] = local'[b] /\ Heads[l] = local[b]
        BY <2>3 DEF Heads, List
      <3>2. l = <<"local", a>> <=> b = a
        BY <2>3
      <3> QED
        BY <3>1, <3>2
    <2>4. CASE l = <<"global", b>>
      <3>1. Heads'[l] = global'[b] /\ Heads[l] = global[b]
        BY <2>4 DEF Heads, List
      <3>2. l = <<"local", a>> <=> FALSE
        BY <2>4
      <3> QED
        BY <3>1, <3>2
    <2> QED
      BY <2>2, <2>3, <2>4
  <1> QED
    BY <1>1, HeadOf

LEMMA GlobalHead ==
  ASSUME NEW a \in Allocator, NEW x, global' = [global EXCEPT ![a] = x], local' = local,
         global \in [Allocator -> Object \cup {Null}]
  PROVE  /\ Heads'[<<"global", a>>] = x
         /\ \A l \in List \ {<<"global", a>>} : Heads'[l] = Heads[l]
  <1>1. ASSUME NEW l \in List
        PROVE  Heads'[l] = IF l = <<"global", a>> THEN x ELSE Heads[l]
    <2>1. l \in {"local", "global"} \X Allocator
      BY DEF List
    <2>2. PICK b \in Allocator : l = <<"local", b>> \/ l = <<"global", b>>
      BY <2>1
    <2>3. CASE l = <<"local", b>>
      <3>1. Heads'[l] = local'[b] /\ Heads[l] = local[b]
        BY <2>3 DEF Heads, List
      <3>2. l = <<"global", a>> <=> FALSE
        BY <2>3
      <3> QED
        BY <3>1, <3>2
    <2>4. CASE l = <<"global", b>>
      <3>1. Heads'[l] = global'[b] /\ Heads[l] = global[b]
        BY <2>4 DEF Heads, List
      <3>2. l = <<"global", a>> <=> b = a
        BY <2>4
      <3> QED
        BY <3>1, <3>2
    <2> QED
      BY <2>2, <2>3, <2>4
  <1> QED
    BY <1>1, HeadOf

LEMMA HeadsTyped ==
  ASSUME Typed
  PROVE  Heads \in [List -> DOMAIN word \cup {Null}]
  BY DEF Heads, List, Typed, Object

LEMMA InitInv == Init => Inv
  <1> SUFFICES ASSUME Init PROVE Inv
    OBVIOUS
  <1>1. word = <<>> /\ DOMAIN word = {}
    BY DEF Init
  <1>2. Layout
    BY <1>1 DEF Init, Layout, Placed, Where
  <1>3. Pushing = {} /\ Away = {} /\ inUse = {}
    BY DEF Init, Pushing, Away
  <1>4. Typed /\ Held
    BY <1>3 DEF Init, Typed, Held, Alive, Pushing
  <1>5. Heads \in [List -> {Null}]
    BY DEF Init, Heads, List
  <1>6. \A l \in List : ChainIn(word, Heads[l]) = {}
    BY <1>1 DEF ChainIn
  <1>8. Sound(word, Heads, Away)
    BY <1>1, <1>3, <1>5, <1>6 DEF Sound
  <1> QED
    BY <1>2, <1>4, <1>8 DEF Inv

-----------------------------------------------------------------------------
(***************************************************************************)
(* allocate                                                                *)
(***************************************************************************)
LEMMA AllocateLocalStep ==
  ASSUME Inv, Layout', NEW a \in Allocator, AllocateLocal(a)
  PROVE  Inv'
  <1>1. /\ Layout /\ Typed /\ Held /\ Alive /\ Sound(word, Heads, Away)
        /\ local[a] # Null /\ pc[a] \in {"idle", "exchanged"}
    BY DEF Inv, AllocateLocal, Typed
  <1>2. /\ word' = word /\ arenas' = arenas /\ global' = global /\ node' = node /\ to' = to
        /\ inUse' = inUse \cup {local[a]}
        /\ local' = [local EXCEPT ![a] = word[local[a]]]
        /\ pc' = [pc EXCEPT ![a] = "idle"]
    BY DEF AllocateLocal, Take
  <1>3. PICK l \in List : l = <<"local", a>> /\ Heads[l] = local[a] /\ l[2] = a
    BY HeadOf
  <1>4. /\ word[local[a]] \in DOMAIN word \cup {Null}
        /\ local[a] \in DOMAIN word \ Away
    <2>1. local[a] \in ChainIn(word, Heads[l])
      BY <1>1, <1>3, ChainCloses DEF Typed, Object
    <2> QED
      BY <1>1, <1>3, <2>1 DEF Sound, ChainIn
  <1>5. Pushing' = Pushing
    BY <1>1, <1>2 DEF Pushing, Typed
  <1>6. Away' = Away \cup {local[a]}
    BY <1>2, <1>5 DEF Away
  <1>7. word[local[a]] \in Object \cup {Null}
    BY <1>1, <1>4 DEF Sound, Object
  <1>8. Typed'
    BY <1>1, <1>2, <1>4, <1>7 DEF Typed, Alive, Object
  <1>9. Held'
    BY <1>1, <1>2, <1>4, <1>5 DEF Held, Object, Away
  <1>10. Sound(word, Heads', Away')
    <2>1. Heads' \in [List -> DOMAIN word \cup {Null}]
      BY <1>2, <1>8 DEF Heads, List, Typed, Object
    <2>2. Heads'[l] = word[Heads[l]] /\ \A m \in List \ {l} : Heads'[m] = Heads[m]
      BY <1>1, <1>2, <1>3, LocalHead DEF Typed
    <2>3. Heads[l] # Null
      BY <1>1, <1>3
    <2> HIDE DEF List
    <2> QED
      BY <1>1, <1>3, <1>6, <2>1, <2>2, <2>3, PopSound
  <1> QED
    BY <1>2, <1>8, <1>9, <1>10 DEF Inv

LEMMA ExchangeStep ==
  ASSUME Inv, Layout', NEW a \in Allocator, Exchange(a)
  PROVE  Inv'
  <1>1. /\ Layout /\ Typed /\ Held /\ Alive /\ Sound(word, Heads, Away)
        /\ local[a] = Null /\ pc[a] = "idle"
    BY DEF Inv, Exchange, Typed
  <1>2. /\ word' = word /\ arenas' = arenas /\ node' = node /\ to' = to /\ inUse' = inUse
        /\ local' = [local EXCEPT ![a] = global[a]]
        /\ global' = [global EXCEPT ![a] = Null]
        /\ pc' = [pc EXCEPT ![a] = "exchanged"]
    BY DEF Exchange
  <1>3. Pushing' = Pushing /\ Away' = Away
    BY <1>1, <1>2 DEF Pushing, Typed, Away
  <1>4. Typed'
    BY <1>1, <1>2 DEF Typed, Alive, Object
  <1>5. PICK l \in List, k \in List : l = <<"local", a>> /\ k = <<"global", a>>
    BY HeadOf
  <1>6. /\ l # k /\ Heads[l] = Null /\ Heads'[l] = Heads[k] /\ Heads'[k] = Null
        /\ \A m \in List \ {l, k} : Heads'[m] = Heads[m]
        /\ Heads' \in [List -> DOMAIN word \cup {Null}]
    <2>1. l # k /\ Heads[l] = Null
      BY <1>1, <1>5, HeadOf
    <2>2. Heads'[l] = Heads[k] /\ Heads'[k] = Null
      BY <1>1, <1>2, <1>5 DEF Heads, List, Typed
    <2>3. \A m \in List \ {l, k} : Heads'[m] = Heads[m]
      BY <1>1, <1>2, <1>5 DEF Heads, List, Typed
    <2>4. Heads' \in [List -> DOMAIN word \cup {Null}]
      BY <1>2, <1>4 DEF Heads, List, Typed, Object
    <2> QED
      BY <2>1, <2>2, <2>3, <2>4
  <1>7. Sound(word, Heads', Away)
    <2> HIDE DEF List, Heads
    <2> QED
      BY <1>1, <1>6, MoveSound
  <1>8. Held'
    BY <1>1, <1>2, <1>3 DEF Held, Object
  <1> QED
    BY <1>2, <1>3, <1>4, <1>7, <1>8 DEF Inv

LEMMA AppendThrowsStep ==
  ASSUME Inv, Layout', NEW a \in Allocator, AppendThrows(a)
  PROVE  Inv'
  <1>1. /\ pc[a] = "exchanged" /\ pc' = [pc EXCEPT ![a] = "idle"]
        /\ UNCHANGED <<word, arenas, node, to, inUse, local, global>>
    BY DEF AppendThrows
  <1>2. Typed /\ Held /\ Alive /\ Sound(word, Heads, Away)
    BY <1>1 DEF Inv, Typed
  <1>3. Pushing' = Pushing /\ Away' = Away /\ Heads' = Heads
    BY <1>1, <1>2 DEF Pushing, Typed, Away, Heads
  <1>4. Typed'
    BY <1>1, <1>2 DEF Typed, Alive, Object
  <1>5. Held' /\ Sound(word', Heads', Away')
    BY <1>1, <1>2, <1>3 DEF Held, Object
  <1> QED
    BY <1>4, <1>5 DEF Inv

LEMMA FreshObjects ==
  ASSUME Layout, NEW base \in Base, CanReserve(base)
  PROVE  LaidOut(Aligned(base)) \cap DOMAIN word = {}
  <1>1. /\ ArenaSize \in Nat \ {0} /\ WordSize \in Nat \ {0} /\ Room = ArenaSize + ArenaSize
        /\ base \in Nat /\ shape.size \in Nat /\ shape \in Shape
    BY ArenaAssumption DEF Room, Layout
  <1>2. /\ Aligned(base) \in Nat
        /\ base <= Aligned(base) /\ Aligned(base) <= base + ArenaSize
    BY <1>1, AlignedArena
  <1> SUFFICES ASSUME NEW r \in arenas, NEW b \in LaidOut(r.at), b \in LaidOut(Aligned(base))
               PROVE  FALSE
    BY DEF Layout, Where
  <1>3. /\ r.base \in Nat /\ r.at \in Nat /\ r.base <= r.at /\ r.at + ArenaSize <= r.base + Room
    BY DEF Layout, Placed
  <1>4. b \in Nat /\ r.at + WordSize <= b /\ b + shape.size <= r.at + ArenaSize
    BY <1>1, <1>3, Laid
  <1>5. Aligned(base) + WordSize <= b /\ b + shape.size <= Aligned(base) + ArenaSize
    BY <1>1, <1>2, Laid
  <1>6. base + Room <= r.base \/ r.base + Room <= base
    BY DEF CanReserve
  <1>7. CASE base + Room <= r.base
    BY <1>1, <1>2, <1>3, <1>4, <1>5, <1>7
  <1>8. CASE r.base + Room <= base
    BY <1>1, <1>2, <1>3, <1>4, <1>5, <1>8
  <1> QED
    BY <1>6, <1>7, <1>8

LEMMA AppendArenaStep ==
  ASSUME Inv, Layout', NEW a \in Allocator, NEW base \in Base, AppendArena(a, base)
  PROVE  Inv'
  <1>1. /\ Layout /\ Typed /\ Held /\ Alive /\ Sound(word, Heads, Away)
        /\ local[a] = Null /\ pc[a] = "exchanged" /\ CanReserve(base) /\ shape \in Shape
    BY DEF Inv, AppendArena, Typed, Layout
  <1>2. PICK at : at = Aligned(base)
    OBVIOUS
  <1>3. PICK n : n = [base |-> base, at |-> at]
    OBVIOUS
  <1>4. /\ shape' = shape /\ global' = global /\ node' = node /\ to' = to
        /\ arenas' = arenas \cup {n} /\ n.at = at
    BY <1>2, <1>3 DEF AppendArena
  <1>6. at \in Nat
    BY <1>2, AlignedArena, ArenaAssumption
  <1>7. CASE LaidOut(at) = {}
    <2>1. /\ word' = word /\ inUse' = inUse /\ local' = local
          /\ pc' = [b \in Allocator |-> "crashed"]
      BY <1>2, <1>7 DEF AppendArena, Crash
    <2>2. Pushing' = {} /\ ~Alive' /\ Heads' = Heads
      BY <1>4, <2>1 DEF Pushing, Alive, Heads
    <2>3. Typed'
      BY <1>1, <1>4, <2>1 DEF Typed, Object
    <2>4. Held'
      BY <2>2 DEF Held
    <2> QED
      BY <2>2, <2>3, <2>4 DEF Inv
  <1>8. CASE LaidOut(at) # {}
    <2>1. /\ inUse' = inUse \cup {Top(at)}
          /\ local' = [local EXCEPT ![a] = Linked(at)[Top(at)]]
          /\ pc' = [pc EXCEPT ![a] = "idle"]
      BY <1>2, <1>8 DEF AppendArena, Take
    <2>2. /\ DOMAIN word' = DOMAIN word \cup LaidOut(at)
          /\ \A b \in LaidOut(at) : word'[b] = Linked(at)[b]
          /\ \A b \in DOMAIN word \ LaidOut(at) : word'[b] = word[b]
      <3>1. word' = [b \in DOMAIN word \cup LaidOut(at) |->
                          IF b \in LaidOut(at) THEN Linked(at)[b] ELSE word[b]]
        BY <1>2, <1>8 DEF AppendArena
      <3> QED
        BY <3>1
    <2>3. LaidOut(at) \cap DOMAIN word = {}
      BY <1>1, <1>2, FreshObjects
    <2>4. Null \notin DOMAIN word' /\ Null \notin LaidOut(at)
      BY <1>1, <1>6, <2>2, Laid DEF Sound
    <2>5. /\ Top(at) \in LaidOut(at)
          /\ ChainIn(word', Top(at)) = LaidOut(at)
          /\ \A b \in LaidOut(at) : /\ word'[b] \in LaidOut(at) \cup {Null}
                                    /\ b \notin ChainIn(word', word'[b])
      <3>1. LaidOut(at) \subseteq DOMAIN word'
        BY <2>2
      <3> QED
        BY <1>1, <1>6, <1>8, <2>2, <2>4, <3>1, NewList
    <2>6. PICK l \in List : l = <<"local", a>> /\ Heads[l] = local[a] /\ l[2] = a
      BY HeadOf
    <2>7. Heads \in [List -> DOMAIN word \cup {Null}]
      BY <1>1 DEF Sound
    <2>8. PICK G : G = [m \in List |-> IF m = l THEN Top(at) ELSE Heads[m]]
      OBVIOUS
    <2>9. /\ G \in [List -> DOMAIN word' \cup {Null}]
          /\ G[l] = Top(at) /\ \A m \in List \ {l} : G[m] = Heads[m]
      BY <2>2, <2>5, <2>6, <2>7, <2>8
    <2>10. Sound(word', G, Away)
      <3>1. Heads[l] = Null /\ \A b \in DOMAIN word : word'[b] = word[b]
        BY <1>1, <2>2, <2>3, <2>6
      <3> HIDE DEF List
      <3> QED
        BY <1>1, <2>2, <2>3, <2>4, <2>5, <2>6, <2>9, <3>1, GrowSound
    <2>11. Pushing' = Pushing /\ Away' = Away \cup {Top(at)}
      BY <1>1, <1>4, <2>1 DEF Pushing, Typed, Away
    <2>12. word'[Top(at)] = Linked(at)[Top(at)] /\ word'[Top(at)] \in Object' \cup {Null}
      BY <2>2, <2>5 DEF Object
    <2>13. Typed'
      BY <1>1, <1>4, <2>1, <2>2, <2>5, <2>12 DEF Typed, Alive, Object
    <2>14. Held'
      <3>1. \A b \in Pushing : node[b] \in Object /\ node[b] # Top(at) /\ node[b] \in Object'
        BY <1>1, <2>2, <2>3, <2>5 DEF Held, Object
      <3> QED
        BY <1>1, <1>4, <2>1, <2>11, <3>1 DEF Held
    <2>15. Sound(word', Heads', Away')
      <3>1. Heads' \in [List -> DOMAIN word' \cup {Null}]
        BY <2>13 DEF Heads, List, Typed, Object
      <3>2. Heads'[l] = word'[G[l]] /\ \A m \in List \ {l} : Heads'[m] = G[m]
        <4>1. /\ Heads'[l] = Linked(at)[Top(at)]
              /\ \A m \in List \ {l} : Heads'[m] = Heads[m]
          <5>1. local \in [Allocator -> Object \cup {Null}]
            BY <1>1 DEF Typed
          <5> QED
            BY <1>4, <2>1, <2>6, <5>1, LocalHead
        <4> QED
          BY <2>9, <2>12, <4>1
      <3>3. G[l] # Null
        BY <2>4, <2>5, <2>9
      <3>4. Sound(word', Heads', Away \cup {G[l]})
        BY <2>6, <2>10, <3>1, <3>2, <3>3, PopSound
      <3> QED
        BY <2>9, <2>11, <3>4
    <2> QED
      BY <2>13, <2>14, <2>15 DEF Inv
  <1> QED
    BY <1>7, <1>8

LEMMA ConstructStep ==
  ASSUME Inv, Layout', NEW a \in Allocator, NEW p \in inUse, Construct(a, p)
  PROVE  Inv'
  <1>1. Layout /\ Typed /\ Held /\ Alive /\ Sound(word, Heads, Away) /\ p \in Object
    BY DEF Inv, Construct, Typed
  <1>2. UNCHANGED <<arenas, local, global, inUse, pc, node, to>>
    BY DEF Construct
  <1>3. /\ DOMAIN word' = DOMAIN word
        /\ \A b \in DOMAIN word \ {p} : word'[b] = word[b]
    BY <1>1 DEF Construct, Object
  <1>4. Heads' = Heads /\ Pushing' = Pushing /\ Away' = Away
    BY <1>2 DEF Heads, Pushing, Away
  <1>5. Sound(word', Heads, Away)
    <2>1. p \in Away
      BY DEF Away
    <2> HIDE DEF List
    <2> QED
      BY <1>1, <1>3, <2>1, WriteOff
  <1>6. Typed'
    BY <1>1, <1>2, <1>3 DEF Typed, Alive, Object
  <1>7. Held'
    BY <1>1, <1>2, <1>3, <1>4 DEF Held, Object
  <1> QED
    BY <1>4, <1>5, <1>6, <1>7 DEF Inv

-----------------------------------------------------------------------------
(***************************************************************************)
(* release                                                                 *)
(***************************************************************************)
LEMMA ReleaseLocalStep ==
  ASSUME Inv, Layout', NEW a \in Allocator, NEW p \in inUse, ReleaseLocal(a, p)
  PROVE  Inv'
  <1>1. /\ Layout /\ Typed /\ Held /\ Alive /\ Sound(word, Heads, Away) /\ p \in Object
        /\ word[p] = a
    BY DEF Inv, ReleaseLocal, Typed
  <1>2. /\ UNCHANGED <<arenas, global, pc, node, to>>
        /\ local' = [local EXCEPT ![a] = p] /\ inUse' = inUse \ {p}
    BY DEF ReleaseLocal
  <1>3. /\ DOMAIN word' = DOMAIN word /\ word'[p] = local[a]
        /\ \A b \in DOMAIN word \ {p} : word'[b] = word[b]
    BY <1>1 DEF ReleaseLocal, Object
  <1>4. Pushing' = Pushing /\ Away' = Away \ {p} /\ p \in Away
    BY <1>1, <1>2 DEF Pushing, Away, Held
  <1>5. Typed'
    BY <1>1, <1>2, <1>3 DEF Typed, Alive, Object
  <1>6. PICK l \in List : l = <<"local", a>> /\ Heads[l] = local[a] /\ l[2] = a
    BY HeadOf
  <1>7. Sound(word', Heads', Away \ {p})
    <2>1. Heads' \in [List -> DOMAIN word \cup {Null}]
      BY <1>3, <1>5 DEF Heads, List, Typed, Object
    <2>2. Heads'[l] = p /\ \A m \in List \ {l} : Heads'[m] = Heads[m]
      <3>1. local \in [Allocator -> Object \cup {Null}]
        BY <1>1 DEF Typed
      <3> QED
        BY <1>2, <1>6, <3>1, LocalHead
    <2>3. word'[p] = Heads[l]
      BY <1>3, <1>6
    <2>4. DOMAIN word' = DOMAIN word /\ \A b \in DOMAIN word \ {p} : word'[b] = word[b]
      BY <1>3
    <2>5. Sound(word, Heads, Away) /\ p \in Away
      BY <1>1, <1>4
    <2> HIDE DEF List
    <2> QED
      BY <2>1, <2>2, <2>3, <2>4, <2>5, PushSound
  <1>8. Held'
    BY <1>1, <1>2, <1>3, <1>4 DEF Held, Object
  <1> QED
    BY <1>4, <1>5, <1>7, <1>8 DEF Inv

LEMMA ReleaseGlobalStep ==
  ASSUME Inv, Layout', NEW a \in Allocator, NEW p \in inUse, ReleaseGlobal(a, p)
  PROVE  Inv'
  <1>1. /\ Layout /\ Typed /\ Held /\ Alive /\ Sound(word, Heads, Away) /\ p \in Object
        /\ word[p] \in Allocator /\ pc[a] = "idle"
    BY DEF Inv, ReleaseGlobal, Typed
  <1>2. /\ UNCHANGED <<arenas, local, global>>
        /\ to' = [to EXCEPT ![a] = word[p]] /\ node' = [node EXCEPT ![a] = p]
        /\ pc' = [pc EXCEPT ![a] = "push"] /\ inUse' = inUse \ {p}
    BY DEF ReleaseGlobal
  <1>3. /\ DOMAIN word' = DOMAIN word
        /\ \A b \in DOMAIN word \ {p} : word'[b] = word[b]
    BY <1>1 DEF ReleaseGlobal, Object
  <1>4. /\ Pushing' = Pushing \cup {a} /\ a \notin Pushing /\ node'[a] = p /\ to'[a] = word[p]
        /\ \A b \in Pushing : node'[b] = node[b] /\ to'[b] = to[b]
    BY <1>1, <1>2 DEF Pushing, Typed
  <1>5. Away' = Away /\ p \in Away
    BY <1>2, <1>4 DEF Away
  <1>6. Heads' = Heads
    BY <1>2 DEF Heads
  <1>7. Sound(word', Heads, Away)
    <2> HIDE DEF List
    <2> QED
      BY <1>1, <1>3, <1>5, WriteOff
  <1>8. Typed'
    BY <1>1, <1>2, <1>3 DEF Typed, Alive, Object
  <1>9. Held'
    BY <1>1, <1>2, <1>3, <1>4 DEF Held, Object
  <1> QED
    BY <1>5, <1>6, <1>7, <1>8, <1>9 DEF Inv

LEMMA PushStep ==
  ASSUME Inv, Layout', NEW a \in Allocator, Push(a)
  PROVE  Inv'
  <1>1. /\ Layout /\ Typed /\ Held /\ Alive /\ Sound(word, Heads, Away)
        /\ a \in Pushing /\ pc[a] = "push" /\ global[to[a]] = word[node[a]] /\ to[a] \in Allocator
        /\ node[a] \in Object \ inUse
    BY DEF Inv, Push, Typed, Pushing, Held
  <1>2. /\ UNCHANGED <<arenas, local, word, inUse>>
        /\ global' = [global EXCEPT ![to[a]] = node[a]]
        /\ pc' = [pc EXCEPT ![a] = "idle"]
        /\ node' = [node EXCEPT ![a] = Null] /\ to' = [to EXCEPT ![a] = a]
    BY DEF Push, Pushed
  <1>3. Pushing' = Pushing \ {a} /\ \A b \in Pushing' : node'[b] = node[b]
    BY <1>1, <1>2 DEF Pushing, Typed
  <1>4. Away' = Away \ {node[a]} /\ node[a] \in Away
    BY <1>1, <1>2, <1>3 DEF Away, Held
  <1>5. Typed'
    BY <1>1, <1>2 DEF Typed, Alive, Object
  <1>6. PICK l \in List : l = <<"global", to[a]>> /\ Heads[l] = global[to[a]] /\ l[2] = to[a]
    BY <1>1, HeadOf
  <1>7. Sound(word, Heads', Away \ {node[a]})
    <2>1. Heads' \in [List -> DOMAIN word \cup {Null}]
      BY <1>2, <1>5 DEF Heads, List, Typed, Object
    <2>2. Heads'[l] = node[a] /\ \A m \in List \ {l} : Heads'[m] = Heads[m]
      <3>1. global \in [Allocator -> Object \cup {Null}]
        BY <1>1 DEF Typed
      <3> QED
        BY <1>1, <1>2, <1>6, <3>1, GlobalHead
    <2>3. word[node[a]] = Heads[l]
      BY <1>1, <1>6
    <2>4. PICK p \in Away : p = node[a]
      BY <1>4
    <2>5. /\ Sound(word, Heads, Away) /\ word[p] = Heads[l] /\ Heads'[l] = p
          /\ \A m \in List \ {l} : Heads'[m] = Heads[m]
      BY <1>1, <2>2, <2>3, <2>4
    <2>6. Sound(word, Heads', Away \ {p})
      <3> HIDE DEF List
      <3> QED
        BY <2>1, <2>5, LinkSound
    <2> QED
      BY <2>4, <2>6
  <1>8. Held'
    BY <1>1, <1>2, <1>3 DEF Held, Object
  <1> QED
    BY <1>2, <1>4, <1>5, <1>7, <1>8 DEF Inv

LEMMA PushFailsStep ==
  ASSUME Inv, Layout', NEW a \in Allocator, PushFails(a)
  PROVE  Inv'
  <1>1. /\ Layout /\ Typed /\ Held /\ Alive /\ Sound(word, Heads, Away)
        /\ a \in Pushing /\ node[a] \in Object \ inUse
    BY DEF Inv, PushFails, Typed, Pushing, Held
  <1>2. UNCHANGED <<arenas, local, global, inUse, pc, node, to>>
    BY DEF PushFails
  <1>3. /\ DOMAIN word' = DOMAIN word
        /\ \A b \in DOMAIN word \ {node[a]} : word'[b] = word[b]
    BY <1>1 DEF PushFails, Object
  <1>4. Heads' = Heads /\ Pushing' = Pushing /\ Away' = Away /\ node[a] \in Away
    BY <1>1, <1>2 DEF Heads, Pushing, Away
  <1>5. Sound(word', Heads, Away)
    <2> HIDE DEF List
    <2> QED
      BY <1>1, <1>3, <1>4, WriteOff
  <1>6. Typed'
    BY <1>1, <1>2, <1>3 DEF Typed, Alive, Object
  <1>7. Held'
    BY <1>1, <1>2, <1>3, <1>4 DEF Held, Object
  <1> QED
    BY <1>4, <1>5, <1>6, <1>7 DEF Inv

LEMMA ReleaseCrashesStep ==
  ASSUME Inv, Layout', NEW a \in Allocator, NEW p \in inUse, ReleaseCrashes(a, p)
  PROVE  Inv'
  <1>1. /\ UNCHANGED <<arenas, local, global, word, inUse, node, to>>
        /\ pc' = [b \in Allocator |-> "crashed"]
    BY DEF ReleaseCrashes, Crash
  <1>2. Typed
    BY DEF Inv
  <1>3. Pushing' = {} /\ ~Alive' /\ Heads' = Heads
    BY <1>1 DEF Pushing, Alive, Heads
  <1>4. Typed' /\ Held'
    BY <1>1, <1>2, <1>3 DEF Typed, Held, Object
  <1> QED
    BY <1>3, <1>4 DEF Inv

LEMMA InvStep ==
  ASSUME Inv, [Next]_vars
  PROVE  Inv'
  <1>1. Layout'
    BY LayoutStep DEF Inv
  <1>2. CASE UNCHANGED vars
    <2>1. Heads' = Heads /\ Pushing' = Pushing /\ Away' = Away
      BY <1>2 DEF Heads, Pushing, Away
    <2>2. Typed' /\ Held' /\ (Alive' => Sound(word', Heads', Away'))
      BY <1>2, <2>1 DEF Inv, Typed, Held, Alive, Object
    <2> QED
      BY <1>1, <2>2 DEF Inv
  <1>3. ASSUME NEW a \in Allocator, Step(a) PROVE Inv'
    BY <1>1, <1>3, AllocateLocalStep, ExchangeStep, AppendArenaStep, AppendThrowsStep,
       ConstructStep, ReleaseLocalStep, ReleaseGlobalStep, PushStep, PushFailsStep,
       ReleaseCrashesStep DEF Step
  <1> QED
    BY <1>2, <1>3 DEF Next

LEMMA InvHolds == Spec => []Inv
  <1>1. Init => Inv
    BY InitInv
  <1>2. Inv /\ [Next]_vars => Inv'
    BY InvStep
  <1> QED
    BY <1>1, <1>2, PTL DEF Spec

-----------------------------------------------------------------------------
(***************************************************************************)
(* As long as no thread has used memory that is nobody's, every list runs  *)
(* through free objects only, from link to link to null                    *)
(* (ArenaAllocator.hpp:45-70), whatever any program writes to the objects  *)
(* it has, at any time: nobody is given an object by what a user wrote.    *)
(***************************************************************************)
THEOREM ListsAreFree == Spec => []FreeLists
  <1>1. Inv => FreeLists
    <2> SUFFICES ASSUME Inv, Alive, NEW a \in Allocator,
                        NEW b \in Chain(local[a]) \cup Chain(global[a])
                 PROVE  b \notin inUse /\ word[b] \in Object \cup {Null}
      BY DEF FreeLists, Alive
    <2>1. PICK l \in List : b \in ChainIn(word, Heads[l])
      BY ChainIs, HeadOf
    <2>2. b \notin Away /\ b \in DOMAIN word
      BY <2>1 DEF Inv, Sound, ChainIn
    <2> QED
      BY <2>2 DEF Inv, Sound, Away, Object
  <1> QED
    BY <1>1, InvHolds, PTL

(***************************************************************************)
(* As long as no thread has used memory that is nobody's, every object     *)
(* that was ever laid out is in exactly one place: with the program, on    *)
(* one list of one allocator, or on its way to one in one release().       *)
(* Neither two pushes nor a push and the exchange that race                *)
(* (ArenaAllocator.hpp:45-70) lose an object or give it out twice.         *)
(***************************************************************************)
THEOREM ObjectsAreInOnePlace == Spec => []InOnePlace
  <1>1. Inv => InOnePlace
    <2> SUFFICES ASSUME Inv, Alive, NEW b \in Object
                 PROVE  Cardinality({a \in Allocator : b \in Chain(local[a])})
                        + Cardinality({a \in Allocator : b \in Chain(global[a])})
                        + Cardinality({a \in Allocator : pc[a] = "push" /\ node[a] = b})
                        + (IF b \in inUse THEN 1 ELSE 0) = 1
      BY DEF InOnePlace, Alive
    <2> DEFINE L == {a \in Allocator : b \in Chain(local[a])}
               G == {a \in Allocator : b \in Chain(global[a])}
               P == {a \in Allocator : pc[a] = "push" /\ node[a] = b}
    <2>1. /\ Sound(word, Heads, Away) /\ Held
      BY DEF Inv
    <2>2. /\ \A a \in Allocator : a \in L <=> b \in ChainIn(word, Heads[<<"local", a>>])
          /\ \A a \in Allocator : a \in G <=> b \in ChainIn(word, Heads[<<"global", a>>])
      BY ChainIs, HeadOf
    <2>3. P = {a \in Pushing : node[a] = b}
      BY DEF Pushing
    <2>4. CASE b \in Away
      <3>1. \A l \in List : b \notin ChainIn(word, Heads[l])
        BY <2>1, <2>4 DEF Sound
      <3>2. L = {} /\ G = {}
        BY <2>2, <3>1, HeadOf
      <3>3. Cardinality(L) = 0 /\ Cardinality(G) = 0
        BY <3>2, FS_EmptySet
      <3>4. CASE b \in inUse
        <4>1. P = {}
          BY <2>1, <2>3, <3>4 DEF Held
        <4>2. Cardinality(P) = 0
          BY <4>1, FS_EmptySet
        <4> QED
          BY <3>3, <3>4, <4>2
      <3>5. CASE b \notin inUse
        <4>1. PICK a \in Pushing : node[a] = b
          BY <2>4, <3>5 DEF Away
        <4>2. P = {a}
          BY <2>1, <2>3, <4>1 DEF Held
        <4>3. Cardinality(P) = 1
          BY <4>2, FS_Singleton
        <4> QED
          BY <3>3, <3>5, <4>3
      <3> QED
        BY <3>4, <3>5
    <2>5. CASE b \notin Away
      <3>1. P = {} /\ b \notin inUse
        BY <2>3, <2>5 DEF Away
      <3>2. Cardinality(P) = 0
        BY <3>1, FS_EmptySet
      <3>3. PICK l \in List : b \in ChainIn(word, Heads[l])
        BY <2>1, <2>5 DEF Sound, Object
      <3>4. \A m \in List : b \in ChainIn(word, Heads[m]) => m = l
        BY <2>1, <3>3 DEF Sound
      <3>5. PICK a \in Allocator : l = <<"local", a>> \/ l = <<"global", a>>
        BY <3>3, ListIs
      <3>6. CASE l = <<"local", a>>
        <4>1. L = {a} /\ G = {}
          <5>1. \A m \in Allocator : m \in L <=> m = a
            <6> SUFFICES ASSUME NEW m \in Allocator PROVE m \in L <=> m = a
              OBVIOUS
            <6>1. <<"local", m>> = l <=> m = a
              BY <3>6
            <6>2. <<"local", m>> \in List
              BY HeadOf
            <6> HIDE DEF List, L, G
            <6> QED
              BY <2>2, <3>3, <3>4, <6>1, <6>2
          <5>2. \A m \in Allocator : m \notin G
            <6> SUFFICES ASSUME NEW m \in Allocator PROVE m \notin G
              OBVIOUS
            <6>1. <<"global", m>> # l
              BY <3>6
            <6>2. <<"global", m>> \in List
              BY HeadOf
            <6> HIDE DEF List, L, G
            <6> QED
              BY <2>2, <3>4, <6>1, <6>2
          <5> QED
            BY <5>1, <5>2
        <4>2. Cardinality(L) = 1 /\ Cardinality(G) = 0
          BY <4>1, FS_EmptySet, FS_Singleton
        <4> QED
          BY <3>1, <3>2, <4>2
      <3>7. CASE l = <<"global", a>>
        <4>1. L = {} /\ G = {a}
          <5>1. \A m \in Allocator : m \in G <=> m = a
            <6> SUFFICES ASSUME NEW m \in Allocator PROVE m \in G <=> m = a
              OBVIOUS
            <6>1. <<"global", m>> = l <=> m = a
              BY <3>7
            <6>2. <<"global", m>> \in List
              BY HeadOf
            <6> HIDE DEF List, L, G
            <6> QED
              BY <2>2, <3>3, <3>4, <6>1, <6>2
          <5>2. \A m \in Allocator : m \notin L
            <6> SUFFICES ASSUME NEW m \in Allocator PROVE m \notin L
              OBVIOUS
            <6>1. <<"local", m>> # l
              BY <3>7
            <6>2. <<"local", m>> \in List
              BY HeadOf
            <6> HIDE DEF List, L, G
            <6> QED
              BY <2>2, <3>4, <6>1, <6>2
          <5> QED
            BY <5>1, <5>2
        <4>2. Cardinality(L) = 0 /\ Cardinality(G) = 1
          BY <4>1, FS_EmptySet, FS_Singleton
        <4> QED
          BY <3>1, <3>2, <4>2
      <3> QED
        BY <3>5, <3>6, <3>7
    <2> QED
      BY <2>4, <2>5
  <1> QED
    BY <1>1, InvHolds, PTL
=============================================================================
