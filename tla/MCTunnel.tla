------------------------------- MODULE MCTunnel -------------------------------
(* Instances of Tunnel for TLC. *)
EXTENDS Tunnel, TLC

Symmetry == Permutations(Client) \cup Permutations(Identity) \cup Permutations(Address)

\* Where datagrams may be repeated, one request stands for all; the properties of
\* a prompt network are about a server that stays up.
Bounds == IF medium = "prompt" THEN crashes = 0 ELSE \A c \in Client : tries[c] <= 1
=============================================================================
