---------------------------- MODULE MCTunnelServer ----------------------------
(* Instances of TunnelServer for TLC. *)
EXTENDS TunnelServer, TLC

CONSTANTS a1, a2, c1, c2, k1, k2, m1, m2, bcast, vmac

Symmetry == Permutations(Object)

MCGroupMac == {bcast}

Dgram(p, t, n, k, m) == [peer |-> p, size |-> n + HeaderSize, type |-> t,
  version |-> kVersion, length |-> n, identity |-> k, mac |-> m]

\* Handshakes of both clients' interfaces, heartbeats, relayed frames.
Starts(P, M)     == {Dgram(p, kStartSession, StartSessionSize, k1, m) : p \in P, m \in M}
Heartbeats(P, K) == {Dgram(p, kHeartbeat, HeartbeatSize, k, vmac) : p \in P, k \in K}
Relays(P, K, M)  == {Dgram(p, kRelayData, 60, k, m) : p \in P, k \in K, m \in M}

\* A datagram that is too long, one of an unknown type, one of another version.
Odd(p) == LET d == Dgram(p, kErrorDetail, ErrorDetailSize, k1, vmac) IN
  {[d EXCEPT !.size = 1601], d, [d EXCEPT !.version = 0]}

FrameTo1(m) == [size |-> 60, dst |-> m]
ShortFrame  == [size |-> EthernetHeaderSize - 1, dst |-> vmac]

SafetyDatagrams == Starts({c1}, {m1, m2}) \cup Heartbeats({c2}, {k1, k2})
                   \cup Relays({c1}, {k1}, {vmac, m1}) \cup Odd(c1)
SafetyFrames    == {FrameTo1(m) : m \in {m1, bcast}} \cup {ShortFrame}

LiveDatagrams == Starts({c1}, {m1}) \cup Heartbeats({c1}, {k1, k2})
LiveFrames    == {FrameTo1(bcast)}
=============================================================================
