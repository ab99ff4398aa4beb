----------------------------- MODULE DummyCrypto -----------------------------
(***************************************************************************)
(* DummyCrypto (source/crypto/DummyCrypto.cpp): a secret is folded into a  *)
(* key of four octets, which is xored over a text, four octets at a time.  *)
(* An octet is the set of its one bits, so that xor is the symmetric       *)
(* difference; texts and secrets are sequences of octets.                  *)
(***************************************************************************)
EXTENDS Naturals, Sequences

Octets == SUBSET (0 .. 7)
Weight == <<1, 2, 4, 8, 16, 32, 64, 128>>
Octet(n) == {b \in 0 .. 7 : (n \div Weight[b + 1]) % 2 = 1}

Xor(a, b) == (a \ b) \cup (b \ a)

\* The c-th uint32_t of s, in memory order; what s does not have of it is 0.
Chunk(s, c) == [j \in 0 .. 3 |-> IF 4 * c + j < Len(s) THEN s[4 * c + j + 1] ELSE {}]

\* A mistake: the octets after the last whole uint32_t are forgotten.
BadKey(str) ==
  LET key[n \in 0 .. Len(str) \div 4] ==
        IF n = 0 THEN [j \in 0 .. 3 |-> {}]
        ELSE [j \in 0 .. 3 |-> Xor(key[n - 1][j], Chunk(str, n - 1)[j])]
  IN  key[Len(str) \div 4]

\* The key after all chunks of str, the last one perhaps short.
Key(str) ==
  LET Chunks == (Len(str) + 3) \div 4
      key[n \in 0 .. Chunks] ==
        IF n = 0 THEN [j \in 0 .. 3 |-> {}]
        ELSE [j \in 0 .. 3 |-> Xor(key[n - 1][j], Chunk(str, n - 1)[j])]
  IN  key[Chunks]

\* A mistake: the last octets are taken with the key's last octets.
BadEncrypt(key, text, length) ==
  [n \in 1 .. Len(text) |->
     IF n > length THEN text[n]
     ELSE Xor(text[n], key[IF n > length - (length % 4) THEN (n + 3 - length) % 4 ELSE (n - 1) % 4])]

\* The first `length' octets of text are encrypted; what follows them in the
\* buffer stays as it is.
Encrypt(key, text, length) ==
  [n \in 1 .. Len(text) |-> IF n <= length THEN Xor(text[n], key[(n - 1) % 4]) ELSE text[n]]

Decrypt(key, cypher, length) == Encrypt(key, cypher, length)
=============================================================================
