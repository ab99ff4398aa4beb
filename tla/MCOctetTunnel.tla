---------------------------- MODULE MCOctetTunnel ----------------------------
(* An instance of OctetTunnel for TLC. *)
EXTENDS OctetTunnel

Bytes(s) == [n \in DOMAIN s |-> Octet(s[n])]

MCBuiltIn  == Bytes(<<106, 105, 117, 98, 117, 103, 97, 111, 115, 117, 110, 105>>)
MCIdentity == {Bytes(<<198, 35, 123, 50>>)}
MCServerIdentity == Bytes(<<107, 139, 69, 103>>)
MCMac   == Bytes(<<2, 0, 0, 0, 0, 1, 0, 0>>)
MCVmac  == Bytes(<<2, 0, 0, 0, 0, 2, 0, 0>>)
MCLease == Bytes(<<10, 20, 30, 100, 10, 20, 30, 1, 255, 255, 255, 0>>)
MCClock == Bytes(<<1, 2, 3, 4>>)

\* Frames with a header and n more octets: to all and to the server.
FrameTo_(mac, n) == SubSeq(mac, 1, 6) \o [j \in 1 .. 12 + n |-> Octet(j)]
Broadcast == Bytes(<<255, 255, 255, 255, 255, 255>>)
MCFrame == {FrameTo_(Broadcast, 1), FrameTo_(MCVmac, 3)}

\* Secrets that change the built-in key where the type is, so that any request,
\* heartbeat or relayed frame passes for another of them; where the version and
\* where the length is; and secrets of any length modulo four.
Pad == Bytes(<<64, 64, 64, 64>>)
Differing(d) == MCBuiltIn \o Pad \o [n \in 1 .. 4 |-> Xor(Pad[n], Octet(d[n]))]
MCSecret ==
  {Differing(d) : d \in {<<t, 0, 0, 0>> : t \in {0, 3, 4, 5, 6}}
                        \cup {<<0, 1, 0, 0>>, <<3, 1, 0, 0>>, <<0, 0, 12, 0>>, <<0, 0, 0, 1>>}}
  \cup {SubSeq(MCBuiltIn, 1, n) : n \in {0, 5, 6, 7, 12}}
=============================================================================
