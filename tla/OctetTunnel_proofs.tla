-------------------------- MODULE OctetTunnel_proofs --------------------------
(***************************************************************************)
(* For any secrets, frames and identities: a key is its secret's octets    *)
(* folded, decryption undoes encryption whatever a datagram's length and   *)
(* wherever it is cut, a server whose key is not the client's never has a  *)
(* session, and what is written to an interface is a frame.                *)
(***************************************************************************)
EXTENDS OctetTunnel, SequenceTheorems, FiniteSetTheorems, WellFoundedInduction, TLAPS

\* xor undoes itself, and only with the same octet.
LEMMA XorTwice ==
  ASSUME NEW a, NEW b
  PROVE  Xor(Xor(a, b), b) = a
BY DEF Xor

LEMMA XorSame ==
  ASSUME NEW a, NEW b, NEW c, Xor(Xor(a, b), c) = a
  PROVE  b = c
BY DEF Xor

-----------------------------------------------------------------------------
(***************************************************************************)
(* DummyCrypto::setKey: what its loop folds a secret into.                 *)
(***************************************************************************)
\* A set of numbers that has 0, and with each number the next, has them all.
LEMMA Induct ==
  ASSUME NEW T, 0 \in T, \A n \in Nat : n \in T => n + 1 \in T
  PROVE  \A n \in Nat : n \in T
<1> SUFFICES ASSUME Nat \ T # {} PROVE FALSE
  OBVIOUS
<1>1. PICK m \in Nat \ T : \A k \in Nat \ T : ~(<<k, m>> \in OpToRel(<, Nat))
  <2>1. Nat \ T \subseteq Nat
    OBVIOUS
  <2> QED
    BY <2>1, NatLessThanWellFounded, WFMin
<1>2. \A k \in Nat \ T : ~(k < m)
  <2> SUFFICES ASSUME NEW k \in Nat \ T, k < m PROVE FALSE
    OBVIOUS
  <2>1. <<k, m>> \in OpToRel(<, Nat)
    BY DEF OpToRel
  <2> QED
    BY <1>1, <2>1
<1>3. m # 0
  OBVIOUS
<1>4. m - 1 \in Nat /\ m - 1 < m /\ (m - 1) + 1 = m
  BY <1>3
<1>5. m - 1 \in T
  BY <1>2, <1>4
<1> QED
  BY <1>4, <1>5

Chunks(s) == (Len(s) + 3) \div 4

\* What Key's loop does, for a function that has the key before each chunk.
Folding(s, f) ==
  f = [n \in 0 .. Chunks(s) |->
         IF n = 0 THEN [j \in 0 .. 3 |-> {}]
         ELSE [j \in 0 .. 3 |-> Xor(f[n - 1][j], Chunk(s, n - 1)[j])]]

\* Those of the first 4 * n octets of s that have the bit b at place j.
Having(s, n, j, b) == {i \in 1 .. Len(s) : i <= 4 * n /\ (i - 1) % 4 = j /\ b \in s[i]}
Odd(S) == Cardinality(S) % 2 = 1
Folded(s) == [n \in 0 .. Chunks(s) |-> [j \in 0 .. 3 |-> {b \in 0 .. 7 : Odd(Having(s, n, j, b))}]]

LEMMA HavingNext ==
  ASSUME NEW s \in Seq(Octets), NEW n \in Nat, NEW j \in 0 .. 3, NEW b \in 0 .. 7
  PROVE  Odd(Having(s, n + 1, j, b)) <=> (Odd(Having(s, n, j, b)) <=> ~(b \in Chunk(s, n)[j]))
<1>1. Len(s) \in Nat
  OBVIOUS
<1>2. PICK i \in Nat : i = 4 * n + j + 1
  OBVIOUS
<1>3. (i - 1) % 4 = j
  BY <1>2
<1>4. \A k \in Nat : k > 4 * n /\ k <= 4 * (n + 1) /\ (k - 1) % 4 = j => k = i
  BY <1>2
<1>5. b \in Chunk(s, n)[j] <=> i <= Len(s) /\ b \in s[i]
  BY <1>1, <1>2 DEF Chunk
<1>6. IsFiniteSet(Having(s, n, j, b))
  <2>1. IsFiniteSet(1 .. Len(s))
    BY <1>1, FS_Interval
  <2> QED
    BY <2>1, FS_Subset DEF Having
<1>7. i \notin Having(s, n, j, b)
  BY <1>2 DEF Having
<1>8. Cardinality(Having(s, n, j, b)) \in Nat
  BY <1>6, FS_CardinalityType
<1>9. CASE b \in Chunk(s, n)[j]
  <2>1. Having(s, n + 1, j, b) = Having(s, n, j, b) \cup {i}
    BY <1>1, <1>2, <1>3, <1>4, <1>5, <1>9 DEF Having
  <2>2. Cardinality(Having(s, n + 1, j, b)) = Cardinality(Having(s, n, j, b)) + 1
    BY <1>6, <1>7, <2>1, FS_AddElement
  <2> QED
    BY <1>8, <1>9, <2>2 DEF Odd
<1>10. CASE b \notin Chunk(s, n)[j]
  <2>1. Having(s, n + 1, j, b) = Having(s, n, j, b)
    BY <1>1, <1>2, <1>3, <1>4, <1>5, <1>10 DEF Having
  <2> QED
    BY <1>10, <2>1
<1> QED
  BY <1>9, <1>10

LEMMA ChunkType ==
  ASSUME NEW s \in Seq(Octets), NEW n \in Nat, NEW j \in 0 .. 3
  PROVE  Chunk(s, n)[j] \subseteq 0 .. 7
<1>1. Len(s) \in Nat /\ 4 * n + j + 1 \in Nat
  OBVIOUS
<1>2. CASE 4 * n + j < Len(s)
  <2>1. 4 * n + j + 1 \in 1 .. Len(s)
    BY <1>1, <1>2
  <2>2. s[4 * n + j + 1] \in Octets
    BY <2>1
  <2> QED
    BY <1>2, <2>2 DEF Chunk, Octets
<1>3. CASE ~(4 * n + j < Len(s))
  BY <1>3 DEF Chunk
<1> QED
  BY <1>2, <1>3

LEMMA FoldedFolds ==
  ASSUME NEW s \in Seq(Octets)
  PROVE  Chunks(s) \in Nat /\ Len(s) <= 4 * Chunks(s) /\ Folding(s, Folded(s))
<1>1. Len(s) \in Nat /\ Chunks(s) \in Nat /\ Len(s) <= 4 * Chunks(s)
  BY DEF Chunks
<1> DEFINE f == Folded(s)
           g == [n \in 0 .. Chunks(s) |->
                   IF n = 0 THEN [j \in 0 .. 3 |-> {}]
                   ELSE [j \in 0 .. 3 |-> Xor(f[n - 1][j], Chunk(s, n - 1)[j])]]
<1>2. ASSUME NEW n \in 0 .. Chunks(s) PROVE f[n] = g[n]
  <2>1. CASE n = 0
    <3>1. \A j \in 0 .. 3 : \A b \in 0 .. 7 : Having(s, 0, j, b) = {}
      BY <1>1 DEF Having
    <3>2. ~Odd({})
      BY FS_EmptySet DEF Odd
    <3>3. f[0] = [j \in 0 .. 3 |-> {}]
      <4>1. f[0] = [j \in 0 .. 3 |-> {b \in 0 .. 7 : Odd(Having(s, 0, j, b))}]
        BY <1>1 DEF Folded
      <4>2. \A j \in 0 .. 3 : {b \in 0 .. 7 : Odd(Having(s, 0, j, b))} = {}
        BY <3>1, <3>2
      <4> HIDE DEF f
      <4> QED
        BY <4>1, <4>2
    <3> QED
      BY <1>1, <2>1, <3>3
  <2>2. CASE n # 0
    <3>1. n - 1 \in Nat /\ n - 1 \in 0 .. Chunks(s) /\ (n - 1) + 1 = n
      BY <1>1, <2>2
    <3>2. ASSUME NEW j \in 0 .. 3
          PROVE  f[n][j] = Xor(f[n - 1][j], Chunk(s, n - 1)[j])
      <4>1. f[n][j] = {b \in 0 .. 7 : Odd(Having(s, n, j, b))}
        BY DEF Folded
      <4>2. f[n - 1][j] = {b \in 0 .. 7 : Odd(Having(s, n - 1, j, b))}
        BY <3>1 DEF Folded
      <4>3. \A b \in 0 .. 7 : Odd(Having(s, n, j, b)) <=>
                                (Odd(Having(s, n - 1, j, b)) <=> ~(b \in Chunk(s, n - 1)[j]))
        BY <3>1, HavingNext
      <4>4. Chunk(s, n - 1)[j] \subseteq 0 .. 7
        BY <3>1, ChunkType
      <4> QED
        BY <4>1, <4>2, <4>3, <4>4 DEF Xor
    <3>3. g[n] = [j \in 0 .. 3 |-> Xor(f[n - 1][j], Chunk(s, n - 1)[j])]
      BY <2>2
    <3>4. f[n] = [j \in 0 .. 3 |-> f[n][j]]
      BY DEF Folded
    <3> HIDE DEF f, g
    <3> QED
      BY <3>2, <3>3, <3>4
  <2> QED
    BY <2>1, <2>2
<1>3. f = [n \in 0 .. Chunks(s) |-> f[n]] /\ g = [n \in 0 .. Chunks(s) |-> g[n]]
  BY DEF Folded
<1>4. f = g
  <2> HIDE DEF f, g
  <2> QED
    BY <1>2, <1>3
<1> QED
  BY <1>1, <1>4 DEF Folding

LEMMA FoldingIs ==
  ASSUME NEW s \in Seq(Octets), NEW g, Folding(s, g)
  PROVE  \A n \in Nat : n <= Chunks(s) => g[n] = Folded(s)[n]
<1>1. PICK f : f = Folded(s) /\ Folding(s, f) /\ Chunks(s) \in Nat
  BY FoldedFolds
<1> DEFINE T == {n \in Nat : n <= Chunks(s) => g[n] = f[n]}
<1>2. 0 \in T
  <2>1. \A h : Folding(s, h) => h[0] = [j \in 0 .. 3 |-> {}]
    BY <1>1 DEF Folding
  <2> QED
    BY <1>1, <2>1
<1>3. ASSUME NEW n \in Nat, n \in T PROVE n + 1 \in T
  <2> SUFFICES ASSUME n + 1 <= Chunks(s) PROVE g[n + 1] = f[n + 1]
    OBVIOUS
  <2>1. n + 1 \in 0 .. Chunks(s) /\ n + 1 # 0 /\ (n + 1) - 1 = n /\ n <= Chunks(s)
    BY <1>1
  <2>2. ASSUME NEW h, Folding(s, h)
        PROVE  h[n + 1] = [j \in 0 .. 3 |-> Xor(h[n][j], Chunk(s, n)[j])]
    BY <2>1, <2>2 DEF Folding
  <2>3. g[n] = f[n]
    BY <1>3, <2>1
  <2>4. g[n + 1] = [j \in 0 .. 3 |-> Xor(g[n][j], Chunk(s, n)[j])]
    BY <2>2
  <2>5. f[n + 1] = [j \in 0 .. 3 |-> Xor(f[n][j], Chunk(s, n)[j])]
    BY <1>1, <2>2
  <2> QED
    BY <2>3, <2>4, <2>5
<1> HIDE DEF T
<1>4. \A n \in Nat : n \in T
  BY <1>2, <1>3, Induct
<1> QED
  BY <1>1, <1>4 DEF T

LEMMA KeyIs ==
  ASSUME NEW s \in Seq(Octets)
  PROVE  Key(s) = Folded(s)[Chunks(s)]
<1>1. PICK g : Folding(s, g) /\ Key(s) = g[Chunks(s)]
  <2> DEFINE g == CHOOSE f : Folding(s, f)
  <2>1. Folding(s, g)
    BY FoldedFolds
  <2>2. Key(s) = g[Chunks(s)]
    BY DEF Key, Folding, Chunks
  <2> QED
    BY <2>1, <2>2
<1> QED
  BY <1>1, FoldingIs, FoldedFolds

LEMMA KeyFolds ==
  ASSUME NEW s \in Seq(Octets), NEW j \in 0 .. 3, NEW b \in 0 .. 7
  PROVE  b \in Key(s)[j] <=> Cardinality({n \in 1 .. Len(s) : (n - 1) % 4 = j /\ b \in s[n]}) % 2 = 1
<1>1. Chunks(s) \in Nat /\ Len(s) <= 4 * Chunks(s) /\ Len(s) \in Nat
  BY FoldedFolds
<1>2. Having(s, Chunks(s), j, b) = {n \in 1 .. Len(s) : (n - 1) % 4 = j /\ b \in s[n]}
  BY <1>1 DEF Having
<1>3. Key(s)[j] = {c \in 0 .. 7 : Odd(Having(s, Chunks(s), j, c))}
  <2>1. Chunks(s) \in 0 .. Chunks(s)
    BY <1>1
  <2>2. Folded(s)[Chunks(s)] = [i \in 0 .. 3 |-> {c \in 0 .. 7 : Odd(Having(s, Chunks(s), i, c))}]
    BY <2>1 DEF Folded
  <2> QED
    BY <2>2, KeyIs
<1> QED
  BY <1>2, <1>3 DEF Odd

-----------------------------------------------------------------------------
\* The keys there can be are octets.
Keys == {Key(s) : s \in Secret \cup {BuiltIn}}

LEMMA KeyType ==
  ASSUME NEW key \in Keys, NEW j \in 0 .. 3
  PROVE  key[j] \in Octets
<1>1. PICK s \in Seq(Octets) : key = Key(s)
  BY OctetAssumption DEF Keys, Text
<1>2. Chunks(s) \in 0 .. Chunks(s)
  BY FoldedFolds
<1>3. Folded(s)[Chunks(s)] = [i \in 0 .. 3 |-> {c \in 0 .. 7 : Odd(Having(s, Chunks(s), i, c))}]
  BY <1>2 DEF Folded
<1> QED
  BY <1>1, <1>3, KeyIs DEF Octets

LEMMA XorType ==
  ASSUME NEW a \in Octets, NEW key \in Keys, NEW j \in 0 .. 3
  PROVE  Xor(a, key[j]) \in Octets
BY KeyType DEF Xor, Octets

LEMMA EncryptType ==
  ASSUME NEW key \in Keys, NEW text \in Seq(Octets), NEW length \in Nat
  PROVE  /\ Encrypt(key, text, length) \in Seq(Octets)
         /\ Len(Encrypt(key, text, length)) = Len(text)
         /\ \A n \in 1 .. Len(text) :
              Encrypt(key, text, length)[n] =
                IF n <= length THEN Xor(text[n], key[(n - 1) % 4]) ELSE text[n]
<1> DEFINE e(n) == IF n <= length THEN Xor(text[n], key[(n - 1) % 4]) ELSE text[n]
           s == [n \in 1 .. Len(text) |-> e(n)]
<1>1. Encrypt(key, text, length) = s
  BY DEF Encrypt
<1>2. Len(text) \in Nat
  OBVIOUS
<1>3. ASSUME NEW n \in 1 .. Len(text)
      PROVE  e(n) \in Octets
  <2>1. text[n] \in Octets
    OBVIOUS
  <2>2. (n - 1) % 4 \in 0 .. 3
    BY <1>2
  <2> QED
    BY <2>1, <2>2, XorType
<1> HIDE DEF e
<1>4. s \in [1 .. Len(text) -> Octets]
  BY <1>3
<1>5. s \in Seq(Octets) /\ Len(s) = Len(text)
  BY <1>2, <1>4
<1>6. \A n \in 1 .. Len(text) : s[n] = e(n)
  OBVIOUS
<1> HIDE DEF s
<1> QED
  BY <1>1, <1>5, <1>6 DEF e

\* Two texts, one after the other.
Cat(s, t) == s \o t

LEMMA CatType ==
  \A s, t \in Seq(Octets) : Cat(s, t) \in Seq(Octets)
BY ConcatProperties DEF Cat

LEMMA CatLen ==
  \A s, t \in Seq(Octets) : Len(Cat(s, t)) = Len(s) + Len(t)
BY ConcatProperties, Zenon DEF Cat

LEMMA CatLeft ==
  ASSUME NEW s \in Seq(Octets), NEW t \in Seq(Octets)
  PROVE  \A n \in 1 .. Len(s) : Cat(s, t)[n] = s[n]
<1> DEFINE c == s \o t
<1>1. \A n \in 1 .. Len(s) + Len(t) : c[n] = IF n <= Len(s) THEN s[n] ELSE t[n - Len(s)]
  BY ConcatProperties, Zenon
<1>2. c = Cat(s, t)
  BY DEF Cat
<1> HIDE DEF c
<1>3. Len(s) \in Nat /\ Len(t) \in Nat
  OBVIOUS
<1> QED
  BY <1>1, <1>2, <1>3

LEMMA CatRight ==
  ASSUME NEW s \in Seq(Octets), NEW t \in Seq(Octets)
  PROVE  \A n \in 1 .. Len(t) : Cat(s, t)[Len(s) + n] = t[n]
<1> DEFINE c == s \o t
<1>1. \A n \in 1 .. Len(s) + Len(t) : c[n] = IF n <= Len(s) THEN s[n] ELSE t[n - Len(s)]
  BY ConcatProperties, Zenon
<1>2. c = Cat(s, t)
  BY DEF Cat
<1> HIDE DEF c
<1>3. Len(s) \in Nat /\ Len(t) \in Nat
  OBVIOUS
<1> QED
  BY <1>1, <1>2, <1>3

\* d begins with the header of a datagram of n octets of payload.
Headed(d, type, n) ==
  /\ d[1] = Octet(type) /\ d[2] = Octet(kVersion)
  /\ d[3] = Length(n)[1] /\ d[4] = Length(n)[2]

LEMMA DatagramShape ==
  ASSUME NEW type, NEW id \in Seq(Octets), Len(id) = 4, NEW payload \in Seq(Octets)
  PROVE  /\ Datagram(type, id, payload) \in Seq(Octets)
         /\ Len(Datagram(type, id, payload)) = HeaderSize + Len(payload)
         /\ Headed(Datagram(type, id, payload), type, Len(payload))
         /\ \A n \in 1 .. Len(payload) : Datagram(type, id, payload)[HeaderSize + n] = payload[n]
<1> DEFINE two == <<Octet(type), Octet(kVersion)>>
           len == Length(Len(payload))
<1>1. ASSUME NEW n
      PROVE  Octet(n) \in Octets
  BY DEF Octet, Octets
<1>2. two \in Seq(Octets) /\ Len(two) = 2
  BY <1>1
<1>0. two[1] = Octet(type) /\ two[2] = Octet(kVersion)
  OBVIOUS
<1>3. len \in Seq(Octets) /\ Len(len) = 2
  BY <1>1 DEF Length
<1> DEFINE four == Cat(two, len)
           head == Cat(four, id)
           d == Cat(head, payload)
<1>4. Datagram(type, id, payload) = d
  BY DEF Datagram, Cat
<1> HIDE DEF two, len
<1>5. four \in Seq(Octets)
  BY <1>2, <1>3, CatType
<1>6. Len(four) = Len(two) + Len(len)
  BY <1>2, <1>3, CatLen
<1>7. \A n \in 1 .. 2 : four[n] = two[n]
  BY <1>2, <1>3, CatLeft
<1>8. \A n \in 1 .. 2 : four[2 + n] = len[n]
  <2>1. \A n \in 1 .. Len(len) : four[Len(two) + n] = len[n]
    BY <1>2, <1>3, CatRight, Zenon
  <2> QED
    BY <2>1, <1>2, <1>3
<1> HIDE DEF four
<1>9. Len(four) = 4
  BY <1>2, <1>3, <1>6
<1>10. head \in Seq(Octets)
  BY <1>5, CatType
<1>11. Len(head) = Len(four) + Len(id)
  BY <1>5, CatLen
<1>12. \A n \in 1 .. 4 : head[n] = four[n]
  BY <1>5, <1>9, CatLeft
<1> HIDE DEF head
<1>13. Len(head) = 8
  BY <1>9, <1>11
<1>14. d \in Seq(Octets)
  BY <1>10, CatType
<1>15. Len(d) = Len(head) + Len(payload)
  BY <1>10, CatLen
<1>16. \A n \in 1 .. 8 : d[n] = head[n]
  BY <1>10, <1>13, CatLeft
<1>19. \A n \in 1 .. Len(payload) : d[Len(head) + n] = payload[n]
  BY <1>10, CatRight, Zenon
<1> HIDE DEF d
<1>20. \A n \in 1 .. Len(payload) : d[HeaderSize + n] = payload[n]
  BY <1>13, <1>19 DEF HeaderSize
<1>17. Len(d) = HeaderSize + Len(payload)
  BY <1>13, <1>15 DEF HeaderSize
<1>18. d[1] = Octet(type) /\ d[2] = Octet(kVersion) /\ d[3] = len[1] /\ d[4] = len[2]
  BY <1>0, <1>7, <1>8, <1>12, <1>16
<1> QED
  BY <1>4, <1>14, <1>17, <1>18, <1>20 DEF len, Headed

LEMMA TextIs ==
  \A s \in Text : s \in Seq(Octets)
BY DEF Text

LEMMA SliceType ==
  ASSUME NEW s \in Seq(Octets), NEW a \in 1 .. Len(s), NEW b \in a .. Len(s)
  PROVE  /\ SubSeq(s, a, b) \in Seq(Octets)
         /\ Len(SubSeq(s, a, b)) = b - a + 1
         /\ \A n \in 1 .. b - a + 1 : SubSeq(s, a, b)[n] = s[a + n - 1]
<1>1. /\ Len(s) \in Nat /\ a \in Int /\ b \in Int /\ a <= b
      /\ \A n \in a .. b : s[n] \in Octets
  OBVIOUS
<1>2. SubSeq(s, a, b) \in Seq(Octets) /\ Len(SubSeq(s, a, b)) = b - a + 1
  BY <1>1, SubSeqProperties, Zenon
<1>3. \A n \in 1 .. b - a + 1 : SubSeq(s, a, b)[n] = s[a + n - 1]
  BY <1>1, SubSeqProperties
<1> QED
  BY <1>2, <1>3, Zenon

LEMMA FitsMeans ==
  ASSUME NEW d \in Seq(Octets), Len(d) >= 4, Fits(d)
  PROVE  d[3] = Length(Len(d) - HeaderSize)[1] /\ d[4] = Length(Len(d) - HeaderSize)[2]
<1> DEFINE l == LengthOf(d)
<1>1. \A a \in 1 .. Len(d) : \A b \in a .. Len(d) :
        \A n \in 1 .. b - a + 1 : SubSeq(d, a, b)[n] = d[a + n - 1]
  BY SliceType, Zenon
<1>2. PICK a, b : a \in 1 .. Len(d) /\ b \in a .. Len(d) /\ a = 3 /\ b = 4
  OBVIOUS
<1>3. \A n \in 1 .. b - a + 1 : l[n] = d[a + n - 1]
  BY <1>1, <1>2, Zenon DEF LengthOf
<1>4. l = Length(Len(d) - HeaderSize)
  BY DEF Fits
<1> HIDE DEF l
<1>5. l[1] = d[3] /\ l[2] = d[4]
  BY <1>2, <1>3
<1> QED
  BY <1>4, <1>5

-----------------------------------------------------------------------------
\* Every datagram to the server is encrypted with the client's key, and what is as
\* long as a request is one: heartbeats are shorter, relayed frames longer.
Sent(m) ==
  /\ m.plain \in Seq(Octets)
  /\ m.octets = Encrypt(ClientKey, m.plain, Len(m.plain))
  /\ Len(m.plain) = HeaderSize + StartSessionSize => Headed(m.plain, kStartSession, StartSessionSize)

IInv ==
  /\ secret \in Secret
  /\ identity \in Seq(Octets) /\ Len(identity) = 4
  /\ \A m \in toServer : Sent(m)
  /\ \A m \in toClient : m.octets \in Seq(Octets)
  /\ SessionNeedsKey

LEMMA ClientKeyType == ClientKey \in Keys
BY DEF ClientKey, Keys

LEMMA ServerKeyType == ASSUME secret \in Secret PROVE ServerKey \in Keys
BY DEF ServerKey, Keys

LEMMA SentType ==
  ASSUME NEW m, Sent(m)
  PROVE  m.octets \in Seq(Octets) /\ Len(m.octets) = Len(m.plain)
BY ClientKeyType, EncryptType DEF Sent

\* A datagram the server takes for a request is a request, and both keys have then
\* left the first word as it was.
LEMMA KeysAgree ==
  ASSUME IInv, NEW m \in toServer, IsRequest(Opened(m))
  PROVE  \A j \in 0 .. 3 : ServerKey[j] = ClientKey[j]
<1> DEFINE p == m.plain
           c == m.octets
           d == Opened(m)
<1>1. Sent(m) /\ p \in Seq(Octets) /\ Len(p) \in Nat /\ ServerKey \in Keys
  BY ServerKeyType DEF IInv, Sent
<1>2. c \in Seq(Octets) /\ Len(c) = Len(p) /\ Len(c) \in Nat
  BY <1>1, SentType
<1>3. c = Encrypt(ClientKey, p, Len(p))
  BY <1>1 DEF Sent
<1>4. d = Encrypt(ServerKey, c, Len(c))
  BY DEF Opened, Decrypt
<1>5. d \in Seq(Octets) /\ Len(d) = Len(c)
  BY <1>1, <1>2, <1>4, EncryptType
<1>6. Len(d) = HeaderSize + StartSessionSize /\ Fits(d)
      /\ Version(d) = Octet(kVersion) /\ Type(d) = Octet(kStartSession)
  BY DEF IsRequest, IsOf, Understood
<1> HIDE DEF d
<1>7. Len(d) = 16 /\ Len(d) - HeaderSize = StartSessionSize
  BY <1>6 DEF HeaderSize, StartSessionSize
<1>8. Headed(d, kStartSession, StartSessionSize)
  BY <1>5, <1>6, <1>7, FitsMeans DEF Version, Type, Headed
<1>9. Headed(p, kStartSession, StartSessionSize)
  BY <1>1, <1>2, <1>5, <1>6 DEF Sent
<1>10. Len(c) = 16 /\ Len(p) = 16
  BY <1>2, <1>5, <1>7
<1>11. ASSUME NEW n \in 1 .. 4
       PROVE  c[n] = Xor(p[n], ClientKey[(n - 1) % 4])
  <2>1. n \in 1 .. Len(p) /\ n <= Len(p)
    BY <1>10
  <2>2. \A i \in 1 .. Len(p) :
          Encrypt(ClientKey, p, Len(p))[i] =
            IF i <= Len(p) THEN Xor(p[i], ClientKey[(i - 1) % 4]) ELSE p[i]
    BY <1>1, ClientKeyType, EncryptType, Zenon
  <2> QED
    BY <1>3, <2>1, <2>2, Zenon
<1>12. ASSUME NEW n \in 1 .. 4
       PROVE  d[n] = Xor(c[n], ServerKey[(n - 1) % 4])
  <2>1. n \in 1 .. Len(c) /\ n <= Len(c)
    BY <1>10
  <2>2. \A i \in 1 .. Len(c) :
          Encrypt(ServerKey, c, Len(c))[i] =
            IF i <= Len(c) THEN Xor(c[i], ServerKey[(i - 1) % 4]) ELSE c[i]
    BY <1>1, <1>2, EncryptType, Zenon
  <2> QED
    BY <1>4, <2>1, <2>2, Zenon
<1>13. ASSUME NEW n \in 1 .. 4
       PROVE  d[n] = p[n]
  BY <1>8, <1>9 DEF Headed
<1>14. ASSUME NEW n \in 1 .. 4
       PROVE  ClientKey[(n - 1) % 4] = ServerKey[(n - 1) % 4]
  BY <1>11, <1>12, <1>13, XorSame
<1>15. ASSUME NEW j \in 0 .. 3
       PROVE  ServerKey[j] = ClientKey[j]
  <2>1. j + 1 \in 1 .. 4 /\ (j + 1 - 1) % 4 = j
    OBVIOUS
  <2> QED
    BY <1>14, <2>1
<1> QED
  BY <1>15

-----------------------------------------------------------------------------
\* What a side sends keeps the invariant's parts about its datagrams.
LEMMA SealedType ==
  ASSUME NEW d \in Seq(Octets), NEW key \in Keys
  PROVE  Sealed(key, d).octets \in Seq(Octets)
<1>1. Len(d) \in Nat
  OBVIOUS
<1>2. Encrypt(key, d, Len(d)) \in Seq(Octets)
  BY <1>1, EncryptType
<1> QED
  BY <1>2 DEF Sealed

LEMMA ServerSends ==
  ASSUME IInv, NEW d \in Seq(Octets), ToClient(d)
  PROVE  \A m \in toClient' : m.octets \in Seq(Octets)
BY ServerKeyType, SealedType DEF IInv, ToClient

LEMMA ClientSends ==
  ASSUME IInv, NEW d \in Seq(Octets), ToServer(d),
         Len(d) = HeaderSize + StartSessionSize => Headed(d, kStartSession, StartSessionSize)
  PROVE  \A m \in toServer' : Sent(m)
<1>1. Sent(Sealed(ClientKey, d))
  BY DEF Sent, Sealed
<1> QED
  BY <1>1 DEF IInv, ToServer

LEMMA PayloadType ==
  /\ Zero \in Seq(Octets) /\ Len(Zero) = 4
  /\ \A k \in Identity \cup {ServerIdentity} : k \in Seq(Octets) /\ Len(k) = 4
  /\ \A f \in Frame : f \in Seq(Octets) /\ Len(f) >= 14
  /\ Mac \in Seq(Octets) /\ Len(Mac) = 8 /\ Clock \in Seq(Octets) /\ Len(Clock) = 4
  /\ \A k \in Identity : Lease \o k \in Seq(Octets)
  /\ \A c : <<Octet(c), {}>> \in Seq(Octets)
<1>1. Zero \in Seq(Octets) /\ Len(Zero) = 4
  BY DEF Zero, Octets
<1>2. \A k \in Identity \cup {ServerIdentity} : k \in Seq(Octets) /\ Len(k) = 4
  BY OctetAssumption, TextIs
<1>3. \A f \in Frame : f \in Seq(Octets) /\ Len(f) >= 14
  BY OctetAssumption, TextIs
<1>4. Mac \in Seq(Octets) /\ Len(Mac) = 8 /\ Clock \in Seq(Octets) /\ Len(Clock) = 4
  BY OctetAssumption, TextIs
<1>5. Lease \in Seq(Octets)
  BY OctetAssumption, TextIs
<1>6. \A k \in Identity : Lease \o k \in Seq(Octets)
  BY <1>2, <1>5, CatType DEF Cat
<1>7. ASSUME NEW c
      PROVE  <<Octet(c), {}>> \in Seq(Octets)
  <2>1. Octet(c) \in Octets /\ {} \in Octets
    BY DEF Octet, Octets
  <2> QED
    BY <2>1
<1> QED
  BY <1>1, <1>2, <1>3, <1>4, <1>6, <1>7

LEMMA RequestSent ==
  ASSUME IInv, ToServer(Request)
  PROVE  \A m \in toServer' : Sent(m)
<1> DEFINE d == Datagram(kStartSession, Zero, Mac)
<1>0. Zero \in Seq(Octets) /\ Len(Zero) = 4 /\ Mac \in Seq(Octets)
  BY PayloadType
<1>1. d \in Seq(Octets) /\ Headed(d, kStartSession, Len(Mac))
  BY <1>0, DatagramShape, Zenon
<1>2. Len(Mac) = StartSessionSize
  BY PayloadType DEF StartSessionSize
<1>3. d = Request
  BY DEF Request
<1> HIDE DEF d
<1> QED
  BY <1>1, <1>2, <1>3, ClientSends, Zenon

LEMMA BeatSent ==
  ASSUME IInv, ToServer(Beat)
  PROVE  \A m \in toServer' : Sent(m)
<1>1. Beat \in Seq(Octets) /\ Len(Beat) = HeaderSize + Len(Clock)
  BY PayloadType, DatagramShape, Zenon DEF Beat, IInv
<1>2. Len(Beat) # HeaderSize + StartSessionSize
  BY <1>1, PayloadType DEF HeaderSize, StartSessionSize
<1> QED
  BY <1>1, <1>2, ClientSends

LEMMA RelaySent ==
  ASSUME IInv, NEW f \in Frame, ToServer(Relay(identity, f))
  PROVE  \A m \in toServer' : Sent(m)
<1> DEFINE d == Relay(identity, f)
<1>1. d \in Seq(Octets) /\ Len(d) = HeaderSize + Len(f)
  BY PayloadType, DatagramShape, Zenon DEF Relay, IInv
<1>2. Len(f) >= 14 /\ Len(f) \in Nat
  BY PayloadType
<1> HIDE DEF d
<1>3. Len(d) # HeaderSize + StartSessionSize
  BY <1>1, <1>2 DEF HeaderSize, StartSessionSize
<1>4. ToServer(d)
  BY DEF d
<1> QED
  BY <1>1, <1>3, <1>4, ClientSends

LEMMA IdentityRead ==
  ASSUME NEW o \in Seq(Octets), Len(o) >= AnswerSize
  PROVE  LET response == Decrypt(ClientKey, SubSeq(o, 1, AnswerSize), AnswerSize)
             id == SubSeq(response, AnswerSize - 3, AnswerSize)
         IN  id \in Seq(Octets) /\ Len(id) = 4
<1> DEFINE cut == SubSeq(o, 1, AnswerSize)
           response == Decrypt(ClientKey, cut, AnswerSize)
<1>1. AnswerSize = 24
  BY DEF AnswerSize, HeaderSize, SessionInfoSize
<1>2. 1 \in 1 .. Len(o) /\ AnswerSize \in 1 .. Len(o)
  BY <1>1
<1>3. cut \in Seq(Octets) /\ Len(cut) = AnswerSize - 1 + 1
  BY <1>2, SliceType
<1> HIDE DEF cut
<1>4. response \in Seq(Octets) /\ Len(response) = Len(cut)
  BY <1>1, <1>3, ClientKeyType, EncryptType DEF Decrypt
<1> HIDE DEF response
<1>5. AnswerSize - 3 \in 1 .. Len(response) /\ AnswerSize \in AnswerSize - 3 .. Len(response)
  BY <1>1, <1>3, <1>4
<1> DEFINE id == SubSeq(response, AnswerSize - 3, AnswerSize)
<1>6. id \in Seq(Octets) /\ Len(id) = AnswerSize - (AnswerSize - 3) + 1
  BY <1>4, <1>5, SliceType
<1> HIDE DEF id
<1>7. Len(id) = 4
  BY <1>1, <1>6
<1> QED
  BY <1>6, <1>7 DEF id, response, cut

-----------------------------------------------------------------------------
LEMMA InitInv == ASSUME Init PROVE IInv
BY PayloadType DEF Init, IInv, SessionNeedsKey

\* One step of either side, of the sweep, or a restart.
LEMMA NextInv ==
  ASSUME IInv, [Next]_vars
  PROVE  IInv'
<1> USE DEF IInv
<1>1. CASE SendRequest
  <2>1. \A m \in toServer' : Sent(m)
    BY <1>1, RequestSent DEF SendRequest
  <2> QED
    BY <1>1, <2>1 DEF SendRequest, SessionNeedsKey, ServerKey, Sent
<1>2. CASE NoAnswer
  BY <1>2 DEF NoAnswer, SessionNeedsKey, ServerKey, Sent
<1>3. CASE SendHeartbeat
  <2>1. \A m \in toServer' : Sent(m)
    BY <1>3, BeatSent DEF SendHeartbeat
  <2> QED
    BY <1>3, <2>1 DEF SendHeartbeat, SessionNeedsKey, ServerKey, Sent
<1>4. ASSUME NEW m \in toClient, ReceiveAnswer(m)
      PROVE  IInv'
  <2>1. identity' \in Seq(Octets) /\ Len(identity') = 4
    BY <1>4, IdentityRead DEF ReceiveAnswer
  <2> QED
    BY <1>4, <2>1 DEF ReceiveAnswer, SessionNeedsKey, ServerKey, Sent
<1>5. ASSUME NEW m \in toClient, ClientReceives(m)
      PROVE  IInv'
  BY <1>5 DEF ClientReceives, SessionNeedsKey, ServerKey, Sent
<1>6. ASSUME NEW f \in Frame, ClientRelays(f)
      PROVE  IInv'
  <2>1. \A m \in toServer' : Sent(m)
    BY <1>6, RelaySent DEF ClientRelays
  <2> QED
    BY <1>6, <2>1 DEF ClientRelays, SessionNeedsKey, ServerKey, Sent
<1>7. ASSUME NEW m \in toServer, WrongVersion(m)
      PROVE  IInv'
  <2>1. \A n \in toClient' : n.octets \in Seq(Octets)
    BY <1>7, PayloadType, DatagramShape, ServerSends DEF WrongVersion, Error
  <2> QED
    BY <1>7, <2>1 DEF WrongVersion, ServerUnchanged, SessionNeedsKey, ServerKey, Sent
<1>8. ASSUME NEW m \in toServer, UnknownIdentity(m)
      PROVE  IInv'
  <2>1. \A n \in toClient' : n.octets \in Seq(Octets)
    BY <1>8, PayloadType, DatagramShape, ServerSends DEF UnknownIdentity, Error
  <2> QED
    BY <1>8, <2>1 DEF UnknownIdentity, ServerUnchanged, SessionNeedsKey, ServerKey, Sent
<1>9. ASSUME NEW m \in toServer, RelayData(m)
      PROVE  IInv'
  BY <1>9 DEF RelayData, ServerUnchanged, SessionNeedsKey, ServerKey, Sent
<1>10. ASSUME NEW m \in toServer, NEW k \in Identity, StartSession(m, k)
       PROVE  IInv'
  <2>1. \A n \in toClient' : n.octets \in Seq(Octets)
    BY <1>10, PayloadType, DatagramShape, ServerSends DEF StartSession, Info
  <2>2. \A j \in 0 .. 3 : ServerKey[j] = ClientKey[j]
    BY <1>10, KeysAgree DEF StartSession
  <2> QED
    BY <1>10, <2>1, <2>2 DEF StartSession, ServerUnchanged, SessionNeedsKey, ServerKey, Sent
<1>11. ASSUME NEW f \in Frame, ServerRelays(f)
       PROVE  IInv'
  <2>1. \A n \in toClient' : n.octets \in Seq(Octets)
    BY <1>11, PayloadType, DatagramShape, ServerSends DEF ServerRelays, Relay
  <2> QED
    BY <1>11, <2>1 DEF ServerRelays, SessionNeedsKey, ServerKey, Sent
<1>12. ASSUME NEW k \in Identity, EndSession(k)
       PROVE  IInv'
  BY <1>12 DEF EndSession, SessionNeedsKey, ServerKey, Sent
<1>13. ASSUME NEW s \in Secret, Restart(s)
       PROVE  IInv'
  BY <1>13 DEF Restart, SessionNeedsKey, Sent
<1>14. CASE UNCHANGED vars
  BY <1>14 DEF vars, SessionNeedsKey, ServerKey, Sent
<1> QED
  BY <1>1, <1>2, <1>3, <1>4, <1>5, <1>6, <1>7, <1>8, <1>9, <1>10, <1>11, <1>12, <1>13, <1>14
     DEF Next, ClientNext, ServerNext

THEOREM Invariance == Spec => []IInv
BY InitInv, NextInv, PTL DEF Spec

\* Only a server whose key is the client's ever has a session, whatever both
\* secrets are and whatever frames are relayed.  (main.cpp:105 and 137,
\* TunnelServer.cpp:37-47 and 172)
THEOREM SessionsNeedTheKey == Spec => []SessionNeedsKey
BY Invariance, PTL DEF IInv

\* The server's key is its secret's octets folded, whatever the secret and its
\* length are.  (DummyCrypto.cpp:6-17)
THEOREM KeysFoldSecrets == Spec => []KeyFoldsSecret
<1>1. ASSUME IInv
      PROVE  KeyFoldsSecret
  <2>1. secret \in Seq(Octets)
    BY <1>1, OctetAssumption DEF IInv, Text
  <2> QED
    BY <2>1, KeyFolds DEF KeyFoldsSecret, ServerKey
<1> QED
  BY <1>1, Invariance, PTL

-----------------------------------------------------------------------------
\* The first n octets of s.
Cut(s, n) == SubSeq(s, 1, n)

LEMMA CutType ==
  ASSUME NEW s \in Seq(Octets), NEW n \in 0 .. Len(s)
  PROVE  /\ Cut(s, n) \in Seq(Octets)
         /\ Len(Cut(s, n)) = n
         /\ \A i \in 1 .. n : Cut(s, n)[i] = s[i]
<1>1. CASE n = 0
  <2>1. SubSeq(s, 1, 0) = <<>>
    BY SubSeqEmpty
  <2> QED
    BY <1>1, <2>1 DEF Cut
<1>2. CASE n # 0
  <2>1. n \in 1 .. Len(s) /\ 1 \in 1 .. Len(s)
    BY <1>2
  <2>2. SubSeq(s, 1, n) \in Seq(Octets) /\ Len(SubSeq(s, 1, n)) = n - 1 + 1
    BY <2>1, SliceType, Zenon
  <2>3. \A i \in 1 .. n - 1 + 1 : SubSeq(s, 1, n)[i] = s[1 + i - 1]
    BY <2>1, SliceType, Zenon
  <2>4. \A i \in 1 .. n - 1 + 1 : Cut(s, n)[i] = s[1 + i - 1]
    BY <2>3 DEF Cut
  <2>5. Cut(s, n) \in Seq(Octets) /\ Len(Cut(s, n)) = n - 1 + 1
    BY <2>2 DEF Cut
  <2> QED
    BY <2>1, <2>4, <2>5
<1> QED
  BY <1>1, <1>2

LEMMA SentRoundTrip ==
  ASSUME NEW m, Sent(m), NEW n \in 0 .. Len(m.octets)
  PROVE  Decrypt(ClientKey, Cat(Cut(m.octets, n), m.octets), n) = Cat(Cut(m.plain, n), m.octets)
<1> DEFINE o == m.octets
           p == m.plain
           buffer == Cat(Cut(o, n), o)
           back == Encrypt(ClientKey, buffer, n)
           was == Cat(Cut(p, n), o)
<1>1. /\ o \in Seq(Octets) /\ p \in Seq(Octets) /\ Len(o) = Len(p)
      /\ Len(o) \in Nat /\ Len(p) \in Nat /\ n \in 0 .. Len(p)
  BY SentType DEF Sent
<1>2. /\ Cut(o, n) \in Seq(Octets) /\ Len(Cut(o, n)) = n
      /\ \A i \in 1 .. n : Cut(o, n)[i] = o[i]
  BY <1>1, CutType, Zenon
<1>3. /\ Cut(p, n) \in Seq(Octets) /\ Len(Cut(p, n)) = n
      /\ \A i \in 1 .. n : Cut(p, n)[i] = p[i]
  BY <1>1, CutType, Zenon
<1>4. o = Encrypt(ClientKey, p, Len(p))
  BY DEF Sent
<1>5. \A i \in 1 .. Len(p) :
        Encrypt(ClientKey, p, Len(p))[i] =
          IF i <= Len(p) THEN Xor(p[i], ClientKey[(i - 1) % 4]) ELSE p[i]
  BY <1>1, ClientKeyType, EncryptType, Zenon
<1>6. \A i \in 1 .. Len(p) : o[i] = Xor(p[i], ClientKey[(i - 1) % 4])
  <2>1. \A i \in 1 .. Len(p) : i <= Len(p)
    BY <1>1
  <2> QED
    BY <1>4, <1>5, <2>1, Zenon
<1> HIDE DEF o, p
<1>7. buffer \in Seq(Octets)
  BY <1>1, <1>2, CatType
<1>8. Len(buffer) = Len(Cut(o, n)) + Len(o)
  BY <1>1, <1>2, CatLen
<1>9. \A i \in 1 .. Len(Cut(o, n)) : buffer[i] = Cut(o, n)[i]
  BY <1>1, <1>2, CatLeft, Zenon
<1>10. \A i \in 1 .. Len(o) : buffer[Len(Cut(o, n)) + i] = o[i]
  BY <1>1, <1>2, CatRight, Zenon
<1>11. was \in Seq(Octets)
  BY <1>1, <1>3, CatType
<1>12. Len(was) = Len(Cut(p, n)) + Len(o)
  BY <1>1, <1>3, CatLen
<1>13. \A i \in 1 .. Len(Cut(p, n)) : was[i] = Cut(p, n)[i]
  BY <1>1, <1>3, CatLeft, Zenon
<1>14. \A i \in 1 .. Len(o) : was[Len(Cut(p, n)) + i] = o[i]
  BY <1>1, <1>3, CatRight, Zenon
<1> HIDE DEF buffer, was
<1>15. n \in Nat
  BY <1>1
<1>16. back \in Seq(Octets) /\ Len(back) = Len(buffer)
  BY <1>7, <1>15, ClientKeyType, EncryptType, Zenon
<1>17. \A i \in 1 .. Len(buffer) :
         back[i] = IF i <= n THEN Xor(buffer[i], ClientKey[(i - 1) % 4]) ELSE buffer[i]
  BY <1>7, <1>15, ClientKeyType, EncryptType, Zenon
<1> HIDE DEF back
<1>18. Len(buffer) = n + Len(o) /\ Len(was) = n + Len(o)
  BY <1>2, <1>3, <1>8, <1>12
<1>19. ASSUME NEW i \in 1 .. n
       PROVE  back[i] = was[i]
  <2>1. i \in 1 .. Len(buffer) /\ i <= n /\ i \in 1 .. Len(p)
    BY <1>1, <1>15, <1>18
  <2>2. back[i] = Xor(buffer[i], ClientKey[(i - 1) % 4])
    BY <1>17, <2>1, Zenon
  <2>3. buffer[i] = o[i] /\ was[i] = p[i]
    BY <1>2, <1>3, <1>9, <1>13, Zenon
  <2>4. o[i] = Xor(p[i], ClientKey[(i - 1) % 4])
    BY <1>6, <2>1, Zenon
  <2> QED
    BY <2>2, <2>3, <2>4, XorTwice, Zenon
<1>20. ASSUME NEW i \in 1 .. Len(o)
       PROVE  back[n + i] = was[n + i]
  <2>1. n + i \in 1 .. Len(buffer) /\ ~(n + i <= n)
    BY <1>1, <1>15, <1>18
  <2>2. back[n + i] = buffer[n + i]
    BY <1>17, <2>1, Zenon
  <2>3. buffer[n + i] = o[i] /\ was[n + i] = o[i]
    BY <1>2, <1>3, <1>10, <1>14, Zenon
  <2> QED
    BY <2>2, <2>3
<1>21. ASSUME NEW i \in 1 .. Len(back)
       PROVE  back[i] = was[i]
  <2>1. CASE i <= n
    BY <1>1, <1>15, <1>16, <1>18, <1>19, <2>1
  <2>2. CASE ~(i <= n)
    <3>1. i - n \in 1 .. Len(o) /\ n + (i - n) = i
      BY <1>1, <1>15, <1>16, <1>18, <2>2
    <3>2. back[n + (i - n)] = was[n + (i - n)]
      BY <1>20, <3>1, Zenon
    <3> QED
      BY <3>1, <3>2, Zenon
  <2> QED
    BY <2>1, <2>2
<1>22. back = was
  BY <1>11, <1>16, <1>18, <1>21, SeqEqual, Zenon
<1> QED
  BY <1>22 DEF back, was, buffer, o, p, Decrypt

\* Whatever is received of a datagram to the server, whole or cut to a buffer,
\* decrypts to what was sent of it, and what follows it is left alone.
\* (DummyCrypto.cpp:19-36, DatagramSocket_unix.cpp:23-24)
THEOREM DatagramsRoundTrip == Spec => []RoundTrip
<1>1. ASSUME IInv
      PROVE  RoundTrip
  <2>1. ASSUME NEW m \in toServer, NEW n \in 0 .. Len(m.octets)
        PROVE  Decrypt(ClientKey, SubSeq(m.octets, 1, n) \o m.octets, n)
                 = SubSeq(m.plain, 1, n) \o m.octets
    <3>1. Sent(m)
      BY <1>1 DEF IInv
    <3>2. Decrypt(ClientKey, Cat(Cut(m.octets, n), m.octets), n)
            = Cat(Cut(m.plain, n), m.octets)
      BY <3>1, SentRoundTrip, Zenon
    <3> QED
      BY <3>2, Zenon DEF Cat, Cut
  <2> QED
    BY <2>1, Zenon DEF RoundTrip
<1> QED
  BY <1>1, Invariance, PTL

-----------------------------------------------------------------------------
(***************************************************************************)
(* Frames.                                                                 *)
(***************************************************************************)
LEMMA SameKeyUndoes ==
  ASSUME NEW k \in Keys, NEW l \in Keys, \A j \in 0 .. 3 : k[j] = l[j], NEW d \in Seq(Octets)
  PROVE  Encrypt(l, Encrypt(k, d, Len(d)), Len(Encrypt(k, d, Len(d)))) = d
<1>1. PICK o : o = Encrypt(k, d, Len(d))
  OBVIOUS
<1>2. Len(d) \in Nat
  OBVIOUS
<1>3. /\ o \in Seq(Octets) /\ Len(o) = Len(d)
      /\ \A n \in 1 .. Len(d) : o[n] = IF n <= Len(d) THEN Xor(d[n], k[(n - 1) % 4]) ELSE d[n]
  BY <1>1, <1>2, EncryptType
<1>4. PICK e : e = Encrypt(l, o, Len(o))
  OBVIOUS
<1>5. /\ e \in Seq(Octets) /\ Len(e) = Len(o)
      /\ \A n \in 1 .. Len(o) : e[n] = IF n <= Len(o) THEN Xor(o[n], l[(n - 1) % 4]) ELSE o[n]
  BY <1>2, <1>3, <1>4, EncryptType
<1>6. ASSUME NEW n \in 1 .. Len(e)
      PROVE  e[n] = d[n]
  <2>1. n \in 1 .. Len(d) /\ n <= Len(d) /\ (n - 1) % 4 \in 0 .. 3
    BY <1>2, <1>3, <1>5
  <2>2. o[n] = Xor(d[n], k[(n - 1) % 4]) /\ e[n] = Xor(o[n], l[(n - 1) % 4])
    BY <1>3, <1>5, <2>1
  <2>3. k[(n - 1) % 4] = l[(n - 1) % 4]
    BY <2>1
  <2> QED
    BY <2>2, <2>3, XorTwice, Zenon
<1>7. e = d
  BY <1>3, <1>5, <1>6, SeqEqual
<1> QED
  BY <1>1, <1>4, <1>7

\* What is relayed is taken out again.
LEMMA PayloadOf ==
  ASSUME NEW id \in Seq(Octets), Len(id) = 4, NEW f \in Seq(Octets), Len(f) >= 1
  PROVE  Payload(Relay(id, f)) = f
<1>1. PICK d : d = Relay(id, f)
  OBVIOUS
<1>2. /\ d \in Seq(Octets) /\ Len(d) = HeaderSize + Len(f)
      /\ \A n \in 1 .. Len(f) : d[HeaderSize + n] = f[n]
  BY <1>1, DatagramShape DEF Relay
<1>3. Len(f) \in Nat /\ HeaderSize = 8
  BY DEF HeaderSize
<1>4. HeaderSize + 1 \in 1 .. Len(d) /\ Len(d) \in HeaderSize + 1 .. Len(d)
  BY <1>2, <1>3
<1>5. PICK p : p = SubSeq(d, HeaderSize + 1, Len(d))
  OBVIOUS
<1>6. /\ p \in Seq(Octets) /\ Len(p) = Len(d) - (HeaderSize + 1) + 1
      /\ \A n \in 1 .. Len(d) - (HeaderSize + 1) + 1 : p[n] = d[HeaderSize + 1 + n - 1]
  BY <1>2, <1>4, <1>5, SliceType
<1>7. Len(p) = Len(f)
  BY <1>2, <1>3, <1>6
<1>8. ASSUME NEW n \in 1 .. Len(p)
      PROVE  p[n] = f[n]
  <2>1. n \in 1 .. Len(d) - (HeaderSize + 1) + 1 /\ HeaderSize + 1 + n - 1 = HeaderSize + n
        /\ n \in 1 .. Len(f)
    BY <1>3, <1>6, <1>7
  <2> QED
    BY <1>2, <1>6, <2>1
<1>9. p = f
  BY <1>6, <1>7, <1>8, SeqEqual
<1> QED
  BY <1>1, <1>5, <1>9 DEF Payload

\* A datagram that is long enough for a frame carries one: to the server always,
\* to the client encrypted with its own key, for then the server had a session.
FromClient(m, R) ==
  Len(m.plain) > HeaderSize + EthernetHeaderSize =>
    \E f \in R : \E id \in Seq(Octets) : Len(id) = 4 /\ m.plain = Relay(id, f)

FromServer(m, R) ==
  Len(m.octets) >= HeaderSize + EthernetHeaderSize =>
    \E f \in R : m.octets = Encrypt(ClientKey, Relay(ServerIdentity, f), Len(Relay(ServerIdentity, f)))

Carried ==
  /\ read \in [client : SUBSET Frame, server : SUBSET Frame]
  /\ written \in [client : SUBSET Frame, server : SUBSET Frame]
  /\ \A m \in toServer : FromClient(m, read.client)
  /\ \A m \in toClient : FromServer(m, read.server)
  /\ FramesGenuine

\* A longer list of frames that were read does no harm.
LEMMA MoreRead ==
  ASSUME NEW R, NEW S, R \subseteq S
  PROVE  /\ \A m : FromClient(m, R) => FromClient(m, S)
         /\ \A m : FromServer(m, R) => FromServer(m, S)
BY DEF FromClient, FromServer

LEMMA ClientTakesFrames ==
  ASSUME IInv, Carried, NEW m \in toClient, IsFrame(Decrypt(ClientKey, m.octets, Len(m.octets)))
  PROVE  Payload(Decrypt(ClientKey, m.octets, Len(m.octets))) \in read.server
<1>1. PICK d : d = Decrypt(ClientKey, m.octets, Len(m.octets))
  OBVIOUS
<1>2. m.octets \in Seq(Octets) /\ Len(m.octets) \in Nat
  BY DEF IInv
<1>3. Len(d) = Len(m.octets)
  BY <1>1, <1>2, ClientKeyType, EncryptType DEF Decrypt
<1>4. Len(m.octets) >= HeaderSize + EthernetHeaderSize
  BY <1>1, <1>2, <1>3 DEF IsFrame, HeaderSize, EthernetHeaderSize
<1>5. PICK f \in read.server :
        m.octets = Encrypt(ClientKey, Relay(ServerIdentity, f), Len(Relay(ServerIdentity, f)))
  BY <1>4 DEF Carried, FromServer
<1>6. f \in Frame /\ f \in Seq(Octets) /\ Len(f) >= 1
  BY <1>5, PayloadType DEF Carried
<1>7. ServerIdentity \in Seq(Octets) /\ Len(ServerIdentity) = 4
  BY PayloadType
<1>8. Relay(ServerIdentity, f) \in Seq(Octets)
  BY <1>6, <1>7, DatagramShape DEF Relay
<1>9. d = Relay(ServerIdentity, f)
  BY <1>1, <1>5, <1>8, ClientKeyType, SameKeyUndoes DEF Decrypt
<1> QED
  BY <1>1, <1>5, <1>6, <1>7, <1>9, PayloadOf

LEMMA ServerTakesFrames ==
  ASSUME IInv, Carried, NEW m \in toServer, RelayData(m)
  PROVE  Payload(Opened(m)) \in read.client
<1>1. \A j \in 0 .. 3 : ClientKey[j] = ServerKey[j]
  BY DEF RelayData, IInv, SessionNeedsKey
<1>2. Sent(m) /\ m.plain \in Seq(Octets) /\ Len(m.plain) \in Nat
  BY DEF IInv, Sent
<1>3. m.octets = Encrypt(ClientKey, m.plain, Len(m.plain)) /\ Len(m.octets) = Len(m.plain)
  BY <1>2, SentType DEF Sent
<1>4. Opened(m) = m.plain
  BY <1>1, <1>2, <1>3, ClientKeyType, ServerKeyType, SameKeyUndoes DEF IInv, Opened, Decrypt
<1>5. Len(m.plain) > HeaderSize + EthernetHeaderSize
  BY <1>4 DEF RelayData
<1>6. PICK f \in read.client : \E id \in Seq(Octets) : Len(id) = 4 /\ m.plain = Relay(id, f)
  BY <1>5 DEF Carried, FromClient
<1>7. PICK id \in Seq(Octets) : Len(id) = 4 /\ m.plain = Relay(id, f)
  BY <1>6
<1>8. f \in Seq(Octets) /\ Len(f) >= 1
  BY <1>6, PayloadType DEF Carried
<1> QED
  BY <1>4, <1>6, <1>7, <1>8, PayloadOf

LEMMA RequestCarried ==
  ASSUME Carried, NEW d \in Seq(Octets), Len(d) <= HeaderSize + EthernetHeaderSize, ToServer(d)
  PROVE  \A m \in toServer' : FromClient(m, read.client)
<1>1. FromClient(Sealed(ClientKey, d), read.client)
  BY DEF FromClient, Sealed, HeaderSize, EthernetHeaderSize
<1> QED
  BY <1>1 DEF Carried, ToServer

LEMMA AnswerCarried ==
  ASSUME IInv, Carried, NEW d \in Seq(Octets), Len(d) < HeaderSize + EthernetHeaderSize, ToClient(d)
  PROVE  \A m \in toClient' : FromServer(m, read.server)
<1>1. ServerKey \in Keys /\ Len(d) \in Nat
  BY ServerKeyType DEF IInv
<1>2. Len(Sealed(ServerKey, d).octets) = Len(d)
  BY <1>1, EncryptType DEF Sealed
<1>3. FromServer(Sealed(ServerKey, d), read.server)
  BY <1>1, <1>2 DEF FromServer, HeaderSize, EthernetHeaderSize
<1> QED
  BY <1>3 DEF Carried, ToClient

\* Keys that agree encrypt alike.
LEMMA SameKeyEncrypts ==
  ASSUME NEW k \in Keys, NEW l \in Keys, \A j \in 0 .. 3 : k[j] = l[j], NEW d \in Seq(Octets)
  PROVE  Encrypt(k, d, Len(d)) = Encrypt(l, d, Len(d))
<1>1. Len(d) \in Nat
  OBVIOUS
<1>2. ASSUME NEW n \in 1 .. Len(d)
      PROVE  k[(n - 1) % 4] = l[(n - 1) % 4]
  <2>1. (n - 1) % 4 \in 0 .. 3
    BY <1>1
  <2> QED
    BY <2>1
<1> QED
  BY <1>2 DEF Encrypt

LEMMA FrameCarried ==
  ASSUME IInv, Carried, sessions # {}, NEW f \in Frame, ToClient(Relay(ServerIdentity, f))
  PROVE  \A m \in toClient' : FromServer(m, read.server \cup {f})
<1>1. PICK d : d = Relay(ServerIdentity, f)
  OBVIOUS
<1>2. d \in Seq(Octets)
  BY <1>1, PayloadType, DatagramShape DEF Relay
<1>3. \A j \in 0 .. 3 : ServerKey[j] = ClientKey[j]
  BY DEF IInv, SessionNeedsKey
<1>4. Encrypt(ServerKey, d, Len(d)) = Encrypt(ClientKey, d, Len(d))
  BY <1>2, <1>3, ClientKeyType, ServerKeyType, SameKeyEncrypts DEF IInv
<1>5. FromServer(Sealed(ServerKey, d), read.server \cup {f})
  BY <1>1, <1>4 DEF FromServer, Sealed
<1>6. \A m \in toClient : FromServer(m, read.server \cup {f})
  BY MoreRead DEF Carried
<1>7. toClient' = toClient \cup {Sealed(ServerKey, d)}
  BY <1>1 DEF ToClient
<1> QED
  BY <1>5, <1>6, <1>7

LEMMA ErrorShort ==
  ASSUME NEW code
  PROVE  Error(code) \in Seq(Octets) /\ Len(Error(code)) < HeaderSize + EthernetHeaderSize
<1>1. ServerIdentity \in Seq(Octets) /\ Len(ServerIdentity) = 4 /\ <<Octet(code), {}>> \in Seq(Octets)
  BY PayloadType
<1>2. Error(code) \in Seq(Octets) /\ Len(Error(code)) = HeaderSize + Len(<<Octet(code), {}>>)
  BY <1>1, DatagramShape, Zenon DEF Error
<1>3. Len(<<Octet(code), {}>>) = 2
  OBVIOUS
<1> QED
  BY <1>2, <1>3 DEF HeaderSize, EthernetHeaderSize

LEMMA InfoShort ==
  ASSUME NEW k \in Identity
  PROVE  Info(k) \in Seq(Octets) /\ Len(Info(k)) < HeaderSize + EthernetHeaderSize
<1>1. /\ ServerIdentity \in Seq(Octets) /\ Len(ServerIdentity) = 4
      /\ k \in Seq(Octets) /\ Len(k) = 4 /\ Lease \in Seq(Octets) /\ Len(Lease) = 12
  BY PayloadType, OctetAssumption, TextIs
<1>2. PICK p \in Seq(Octets) : p = Lease \o k /\ Len(p) = 16
  <2>1. Cat(Lease, k) \in Seq(Octets) /\ Len(Cat(Lease, k)) = Len(Lease) + Len(k)
    BY <1>1, CatType, CatLen
  <2>2. Len(Cat(Lease, k)) = 16
    BY <1>1, <2>1
  <2>3. Cat(Lease, k) = Lease \o k
    BY DEF Cat
  <2> QED
    BY <2>1, <2>2, <2>3, Zenon
<1>3. Info(k) \in Seq(Octets) /\ Len(Info(k)) = HeaderSize + Len(p)
  BY <1>1, <1>2, DatagramShape DEF Info
<1> QED
  BY <1>2, <1>3 DEF HeaderSize, EthernetHeaderSize

LEMMA InitCarried == ASSUME Init PROVE Carried
BY DEF Init, Carried, FramesGenuine

\* One step of either side, of the sweep, or a restart.
LEMMA NextCarried ==
  ASSUME IInv, Carried, [Next]_vars
  PROVE  Carried'
<1> USE DEF Carried
<1>1. CASE SendRequest
  <2>1. Request \in Seq(Octets) /\ Len(Request) = HeaderSize + Len(Mac) /\ Len(Mac) = 8
    BY PayloadType, DatagramShape, Zenon DEF Request
  <2>2. Len(Request) <= HeaderSize + EthernetHeaderSize
    BY <2>1 DEF HeaderSize, EthernetHeaderSize
  <2>3. \A m \in toServer' : FromClient(m, read.client)
    BY <1>1, <2>1, <2>2, RequestCarried DEF SendRequest
  <2> QED
    BY <1>1, <2>3 DEF SendRequest, FramesGenuine
<1>2. CASE NoAnswer
  BY <1>2 DEF NoAnswer, FramesGenuine
<1>3. CASE SendHeartbeat
  <2>1. Beat \in Seq(Octets) /\ Len(Beat) = HeaderSize + Len(Clock) /\ Len(Clock) = 4
    BY PayloadType, DatagramShape, Zenon DEF Beat, IInv
  <2>2. Len(Beat) <= HeaderSize + EthernetHeaderSize
    BY <2>1 DEF HeaderSize, EthernetHeaderSize
  <2>3. \A m \in toServer' : FromClient(m, read.client)
    BY <1>3, <2>1, <2>2, RequestCarried DEF SendHeartbeat
  <2> QED
    BY <1>3, <2>3 DEF SendHeartbeat, FramesGenuine
<1>4. ASSUME NEW m \in toClient, ReceiveAnswer(m)
      PROVE  Carried'
  BY <1>4 DEF ReceiveAnswer, FramesGenuine
<1>5. ASSUME NEW m \in toClient, ClientReceives(m)
      PROVE  Carried'
  <2>1. PICK d : d = Decrypt(ClientKey, m.octets, Len(m.octets))
    OBVIOUS
  <2>2. UNCHANGED <<toServer, toClient, read>>
    BY <1>5 DEF ClientReceives
  <2>3. CASE UNCHANGED written
    BY <2>2, <2>3 DEF FramesGenuine
  <2>4. CASE IsFrame(d) /\ written' = [written EXCEPT !.client = @ \cup {Payload(d)}]
    <3>1. Payload(d) \in read.server
      BY <2>1, <2>4, ClientTakesFrames
    <3>2. /\ written' \in [client : SUBSET Frame, server : SUBSET Frame]
          /\ written'.client = written.client \cup {Payload(d)} /\ written'.server = written.server
      BY <2>4, <3>1
    <3> QED
      BY <2>2, <3>1, <3>2 DEF FramesGenuine
  <2> QED
    BY <1>5, <2>1, <2>3, <2>4 DEF ClientReceives
<1>6. ASSUME NEW f \in Frame, ClientRelays(f)
      PROVE  Carried'
  <2>1. /\ read' \in [client : SUBSET Frame, server : SUBSET Frame]
        /\ read'.client = read.client \cup {f} /\ read'.server = read.server
    BY <1>6 DEF ClientRelays
  <2>2. toServer' = toServer \cup {Sealed(ClientKey, Relay(identity, f))}
    BY <1>6 DEF ClientRelays, ToServer
  <2>3. FromClient(Sealed(ClientKey, Relay(identity, f)), read'.client)
    BY <2>1 DEF FromClient, Sealed, IInv
  <2>4. \A m \in toServer : FromClient(m, read'.client)
    BY <2>1, MoreRead
  <2> QED
    BY <1>6, <2>1, <2>2, <2>3, <2>4 DEF ClientRelays, FramesGenuine
<1>7. ASSUME NEW m \in toServer, WrongVersion(m)
      PROVE  Carried'
  <2>1. \A n \in toClient' : FromServer(n, read.server)
    BY <1>7, ErrorShort, AnswerCarried DEF WrongVersion
  <2> QED
    BY <1>7, <2>1 DEF WrongVersion, ServerUnchanged, FramesGenuine
<1>8. ASSUME NEW m \in toServer, UnknownIdentity(m)
      PROVE  Carried'
  <2>1. \A n \in toClient' : FromServer(n, read.server)
    BY <1>8, ErrorShort, AnswerCarried DEF UnknownIdentity
  <2> QED
    BY <1>8, <2>1 DEF UnknownIdentity, ServerUnchanged, FramesGenuine
<1>9. ASSUME NEW m \in toServer, RelayData(m)
      PROVE  Carried'
  <2>1. Payload(Opened(m)) \in read.client
    BY <1>9, ServerTakesFrames
  <2>2. /\ written' \in [client : SUBSET Frame, server : SUBSET Frame]
        /\ written'.server = written.server \cup {Payload(Opened(m))}
        /\ written'.client = written.client
    BY <1>9, <2>1 DEF RelayData
  <2> QED
    BY <1>9, <2>1, <2>2 DEF RelayData, ServerUnchanged, FramesGenuine
<1>10. ASSUME NEW m \in toServer, NEW k \in Identity, StartSession(m, k)
       PROVE  Carried'
  <2>1. \A n \in toClient' : FromServer(n, read.server)
    BY <1>10, InfoShort, AnswerCarried DEF StartSession
  <2> QED
    BY <1>10, <2>1 DEF StartSession, ServerUnchanged, FramesGenuine
<1>11. ASSUME NEW f \in Frame, ServerRelays(f)
       PROVE  Carried'
  <2>1. /\ read' \in [client : SUBSET Frame, server : SUBSET Frame]
        /\ read'.server = read.server \cup {f} /\ read'.client = read.client
    BY <1>11 DEF ServerRelays
  <2>2. \A m \in toClient' : FromServer(m, read.server \cup {f})
    BY <1>11, FrameCarried DEF ServerRelays
  <2> QED
    BY <1>11, <2>1, <2>2 DEF ServerRelays, FramesGenuine
<1>12. ASSUME NEW k \in Identity, EndSession(k)
       PROVE  Carried'
  BY <1>12 DEF EndSession, FramesGenuine
<1>13. ASSUME NEW s \in Secret, Restart(s)
       PROVE  Carried'
  BY <1>13 DEF Restart, FramesGenuine
<1>14. CASE UNCHANGED vars
  BY <1>14 DEF vars, FramesGenuine
<1> QED
  BY <1>1, <1>2, <1>3, <1>4, <1>5, <1>6, <1>7, <1>8, <1>9, <1>10, <1>11, <1>12, <1>13, <1>14
     DEF Next, ClientNext, ServerNext

\* Only frames that one side has read from its interface are written to the
\* other's, though the client does not look for kRelayData, datagrams are kept
\* for ever, and the server may have been started again with another secret.
\* (TunnelClient.cpp:57-69, TunnelServer.cpp:148-167)
THEOREM FramesAreGenuine == Spec => []FramesGenuine
<1>1. Spec => []Carried
  BY InitCarried, NextCarried, Invariance, PTL DEF Spec
<1> QED
  BY <1>1, PTL DEF Carried
=============================================================================
