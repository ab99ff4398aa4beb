-------------------------------- MODULE Packet --------------------------------
(***************************************************************************)
(* The datagrams of the tunnel (include/muddy/tunnel/packet.hpp): sizes of *)
(* the packed structures, the type codes, and the tests a datagram has to  *)
(* pass before the server acts on it.  A received datagram is a record     *)
(*   peer     : the address recvfrom() reports                             *)
(*   size     : the number of octets received                              *)
(*   type, version, length, identity : the header after decryption         *)
(*   mac      : the MAC address the payload begins with (StartSession.mac, *)
(*              or the destination of a relayed Ethernet frame)            *)
(***************************************************************************)
EXTENDS Naturals

\* sizeof of the packed structures.  MacAddress has two octets of padding, so
\* an EthernetHeader takes 18 octets and not the 14 of the wire.
HeaderSize         == 8
StartSessionSize   == 8
SessionInfoSize    == 16
HeartbeatSize      == 4
ErrorDetailSize    == 2
EthernetHeaderSize == 18
MaxDatagram        == 1600

kHeartbeat    == 1
kStartSession == 2
kSessionInfo  == 3
kRelayData    == 4
kErrorDetail  == 5
kVersion      == 1

kWrongVersion   == 1
kRestartSession == 2

\* handleNetworkDatagram: the length tests before and after decryption.
Framed(d) == /\ d.size >= HeaderSize /\ d.size <= MaxDatagram
             /\ d.length + HeaderSize = d.size

RightVersion(d) == d.version = kVersion

\* The rows of kHandlerTable that are not null, with the length test each
\* handler starts with.
IsHeartbeat(d)    == d.type = kHeartbeat /\ d.length = HeartbeatSize
IsStartSession(d) == d.type = kStartSession /\ d.length = StartSessionSize
IsRelayData(d)    == d.type = kRelayData /\ d.length > EthernetHeaderSize

Accepted(d) == /\ Framed(d)
               /\ RightVersion(d)
               /\ IsHeartbeat(d) \/ IsStartSession(d) \/ IsRelayData(d)

\* Dropped without a word: badly framed, of an unknown type, or of a length
\* its handler refuses.
Ignored(d) == ~Framed(d) \/ (RightVersion(d) /\ ~Accepted(d))

\* What the server sends: SessionInfo, ErrorDetail, RelayData.
SessionInfoTo(peer, k, ip) ==
  [to |-> peer, type |-> kSessionInfo, identity |-> k, address |-> ip]
ErrorTo(peer, code) == [to |-> peer, type |-> kErrorDetail, code |-> code]
FrameTo(peer)       == [to |-> peer, type |-> kRelayData]

\* What it writes to the virtual interface.
FrameToVeth(mac)    == [to |-> "veth", type |-> kRelayData, mac |-> mac]
=============================================================================
