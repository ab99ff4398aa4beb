------------------------------ MODULE OctetTunnel ------------------------------
(***************************************************************************)
(* One client and the server, datagrams taken octet by octet: what each    *)
(* side builds, encrypts, decrypts with its own key, and tests.  The       *)
(* server's secret is given with --secret; the client's is built in.       *)
(* Datagrams are kept: they overtake each other, arrive twice, or never.   *)
(* The server's table is only the set of its sessions' identities here     *)
(* (see TunnelServer for the rest), and the sweep may end any of them.     *)
(***************************************************************************)
EXTENDS DummyCrypto, Packet, FiniteSets

CONSTANTS BuiltIn,     \* "jiubugaosuni"
          Secret,      \* what --secret may give
          Identity,    \* identities of sessions, sequences of four octets
          ServerIdentity,
          Mac, Vmac,   \* addresses of the two interfaces, padded to 8 octets
          Lease,       \* address, gateway and netmask of a session, 12 octets
          Clock,       \* the octets of the time in a Heartbeat
          Frame,       \* frames the interfaces deliver
          Tries,       \* requests a handshake sends at most: 3
          MaxRestarts  \* a bound on the server's restarts

Text == Seq(Octets)
OctetString(n) == {s \in Text : Len(s) = n}

ASSUME OctetAssumption ==
  /\ Tries \in Nat \ {0} /\ MaxRestarts \in Nat
  /\ BuiltIn \in Text /\ Secret \subseteq Text
  /\ \A k \in Identity \cup {ServerIdentity, Clock} : k \in Text /\ Len(k) = 4
  /\ Mac \in Text /\ Len(Mac) = 8 /\ Vmac \in Text /\ Len(Vmac) = 8
  /\ Lease \in Text /\ Len(Lease) = 12
  \* An Ethernet frame is not shorter than its header on the wire.
  /\ \A f \in Frame : f \in Text /\ Len(f) >= 14 /\ Len(f) + HeaderSize <= MaxDatagram

VARIABLES secret,    \* the server's
          sessions,  \* its sessions
          main,      \* the client: "request", "answer", "run", "failed" or "stopped"
          tries,
          identity,  \* TunnelClient::identity
          toServer, toClient, \* [octets, plain]: plain is what has been encrypted
          read,      \* frames each side has read from its interface
          written,   \* frames each side has written to it
          restarts

vars == <<secret, sessions, main, tries, identity, toServer, toClient, read, written, restarts>>

ServerKey == Key(secret)
ClientKey == Key(BuiltIn)

Init ==
  /\ secret \in Secret
  /\ sessions = {}
  /\ main = "request" /\ tries = 0 /\ identity = ServerIdentity
  /\ toServer = {} /\ toClient = {}
  /\ read = [client |-> {}, server |-> {}]
  /\ written = [client |-> {}, server |-> {}]
  /\ restarts = 0

-----------------------------------------------------------------------------
(***************************************************************************)
(* Datagrams: PacketHeader, little endian as the hosts are, and payload.   *)
(***************************************************************************)
Length(n) == <<Octet(n % 256), Octet(n \div 256)>>
Datagram(type, id, payload) ==
  <<Octet(type), Octet(kVersion)>> \o Length(Len(payload)) \o id \o payload

Sealed(key, d) == [octets |-> Encrypt(key, d, Len(d)), plain |-> d]

Type(d)    == d[1]
Version(d) == d[2]
LengthOf(d) == SubSeq(d, 3, 4)
Id(d)      == SubSeq(d, 5, 8)
Payload(d) == SubSeq(d, HeaderSize + 1, Len(d))

\* header->length + sizeof(PacketHeader) == size
Fits(d) == LengthOf(d) = Length(Len(d) - HeaderSize)
\* ether->dst.addr[0] % 2 == 1
Multicast(f) == 0 \in f[1]
\* A MAC address is compared without its padding.
Destination(f) == SubSeq(f, 1, 6)
SameMac(f, m) == Destination(f) = Destination(m)

Zero == <<{}, {}, {}, {}>>
Request      == Datagram(kStartSession, Zero, Mac)
Beat         == Datagram(kHeartbeat, identity, Clock)
Relay(id, f) == Datagram(kRelayData, id, f)
Info(k)      == Datagram(kSessionInfo, ServerIdentity, Lease \o k)
Error(code)  == Datagram(kErrorDetail, ServerIdentity, <<Octet(code), {}>>)

ToServer(d) == toServer' = toServer \cup {Sealed(ClientKey, d)}
ToClient(d) == toClient' = toClient \cup {Sealed(ServerKey, d)}

-----------------------------------------------------------------------------
(***************************************************************************)
(* The client: main.cpp's startSession, then the threads of TunnelClient.  *)
(***************************************************************************)
SendRequest ==
  /\ main = "request"
  /\ main' = "answer" /\ tries' = tries + 1
  /\ ToServer(Request)
  /\ UNCHANGED <<secret, sessions, identity, toClient, read, written, restarts>>

\* The buffer holds PacketHeader and SessionInfo; nothing but its being filled
\* is tested.
AnswerSize == HeaderSize + SessionInfoSize

ReceiveAnswer(m) ==
  /\ main = "answer" /\ Len(m.octets) >= AnswerSize
  /\ LET response == Decrypt(ClientKey, SubSeq(m.octets, 1, AnswerSize), AnswerSize)
     IN  identity' = SubSeq(response, AnswerSize - 3, AnswerSize)
  /\ main' = "run"
  /\ UNCHANGED <<secret, sessions, tries, toServer, toClient, read, written, restarts>>

\* A time-out, or a datagram that is too short: try again.
NoAnswer ==
  /\ main = "answer"
  /\ main' = IF tries < Tries THEN "request" ELSE "failed"
  /\ UNCHANGED <<secret, sessions, tries, identity, toServer, toClient, read, written, restarts>>

SendHeartbeat ==
  /\ main = "run"
  /\ ToServer(Beat)
  /\ UNCHANGED <<secret, sessions, main, tries, identity, toClient, read, written, restarts>>

ClientRelays(f) ==
  /\ main = "run"
  /\ ToServer(Relay(identity, f))
  /\ read' = [read EXCEPT !.client = @ \cup {f}]
  /\ UNCHANGED <<secret, sessions, main, tries, identity, toClient, written, restarts>>

\* A mistake: the header's 14 octets on the wire are asked for.
BadIsFrame(d) == Len(d) - HeaderSize >= 14 /\ Fits(d)

\* Of a datagram that is no ErrorDetail only the length is looked at.
IsFrame(d) == Len(d) - HeaderSize >= EthernetHeaderSize /\ Fits(d)

ClientReceives(m) ==
  /\ main = "run" /\ Len(m.octets) >= HeaderSize
  /\ LET d == Decrypt(ClientKey, m.octets, Len(m.octets)) IN
       \/ /\ Type(d) = Octet(kErrorDetail)
          /\ main' = "stopped" /\ UNCHANGED written
       \/ /\ Type(d) # Octet(kErrorDetail) /\ IsFrame(d)
          /\ written' = [written EXCEPT !.client = @ \cup {Payload(d)}] /\ UNCHANGED main
  /\ UNCHANGED <<secret, sessions, tries, identity, toServer, toClient, read, restarts>>

-----------------------------------------------------------------------------
(***************************************************************************)
(* The server: handleNetworkDatagram and its handlers.                     *)
(***************************************************************************)
\* d passes the tests before the handler table.
Understood(d) == Len(d) >= HeaderSize /\ Len(d) <= MaxDatagram /\ Fits(d)
IsOf(d, type) == Understood(d) /\ Version(d) = Octet(kVersion) /\ Type(d) = Octet(type)

Opened(m) == Decrypt(ServerKey, m.octets, Len(m.octets))

ServerUnchanged == UNCHANGED <<secret, main, tries, identity, toServer, read, restarts>>

WrongVersion(m) ==
  /\ Understood(Opened(m)) /\ Version(Opened(m)) # Octet(kVersion)
  /\ ToClient(Error(kWrongVersion))
  /\ ServerUnchanged /\ UNCHANGED <<sessions, written>>

\* A mistake: the payload's length is not tested.
BadIsRequest(d) == IsOf(d, kStartSession)

IsRequest(d) == IsOf(d, kStartSession) /\ Len(d) = HeaderSize + StartSessionSize

StartSession(m, k) ==
  /\ IsRequest(Opened(m))
  /\ k \notin sessions
  /\ sessions' = sessions \cup {k}
  /\ ToClient(Info(k))
  /\ ServerUnchanged /\ UNCHANGED written

\* handleHeartbeat or relayData does not know the identity.
UnknownIdentity(m) ==
  /\ LET d == Opened(m) IN
       /\ \/ IsOf(d, kHeartbeat) /\ Len(d) = HeaderSize + HeartbeatSize
          \/ IsOf(d, kRelayData) /\ Len(d) > HeaderSize + EthernetHeaderSize
       /\ Id(d) \notin sessions
  /\ ToClient(Error(kRestartSession))
  /\ ServerUnchanged /\ UNCHANGED <<sessions, written>>

RelayData(m) ==
  /\ LET d == Opened(m) IN
       /\ IsOf(d, kRelayData) /\ Len(d) > HeaderSize + EthernetHeaderSize
       /\ Id(d) \in sessions
       /\ Multicast(Payload(d)) \/ SameMac(Payload(d), Vmac)
       /\ written' = [written EXCEPT !.server = @ \cup {Payload(d)}]
  /\ ServerUnchanged /\ UNCHANGED <<sessions, toClient>>

\* handleVirtualEthernet: a frame for the client's session.
ServerRelays(f) ==
  /\ sessions # {}
  /\ Len(f) >= EthernetHeaderSize
  /\ Multicast(f) \/ SameMac(f, Mac)
  /\ ToClient(Relay(ServerIdentity, f))
  /\ read' = [read EXCEPT !.server = @ \cup {f}]
  /\ UNCHANGED <<secret, sessions, main, tries, identity, toServer, written, restarts>>

\* removeZombieClient
EndSession(k) ==
  /\ k \in sessions
  /\ sessions' = sessions \ {k}
  /\ UNCHANGED <<secret, main, tries, identity, toServer, toClient, read, written, restarts>>

\* The server is started again, perhaps with another secret.
Restart(s) ==
  /\ restarts < MaxRestarts
  /\ restarts' = restarts + 1
  /\ secret' = s
  /\ sessions' = {}
  /\ UNCHANGED <<main, tries, identity, toServer, toClient, read, written>>

-----------------------------------------------------------------------------
ClientNext == \/ SendRequest \/ NoAnswer \/ SendHeartbeat
              \/ (\E m \in toClient : ReceiveAnswer(m) \/ ClientReceives(m))
              \/ (\E f \in Frame : ClientRelays(f))

ServerNext == \/ (\E m \in toServer : \/ WrongVersion(m) \/ UnknownIdentity(m) \/ RelayData(m)
                                      \/ \E k \in Identity : StartSession(m, k))
              \/ (\E f \in Frame : ServerRelays(f))
              \/ (\E k \in Identity : EndSession(k))
              \/ (\E s \in Secret : Restart(s))

Next == ClientNext \/ ServerNext

Spec == Init /\ [][Next]_vars

-----------------------------------------------------------------------------
\* What is received is what was sent, also of a datagram that is cut to a
\* buffer, and nothing behind it in the buffer is touched.
\* (DummyCrypto.cpp:19-36, DatagramSocket_unix.cpp:23-24)
RoundTrip ==
  \A m \in toServer : \A n \in 0 .. Len(m.octets) :
    LET buffer == SubSeq(m.octets, 1, n) \o m.octets
    IN  Decrypt(ClientKey, buffer, n) = SubSeq(m.plain, 1, n) \o m.octets

\* An octet of the key has the bits that an odd number of the secret's octets
\* have at its place, whatever the secret's length.  (DummyCrypto.cpp:6-17)
KeyFoldsSecret ==
  \A j \in 0 .. 3 : \A b \in 0 .. 7 :
    b \in ServerKey[j] <=>
      Cardinality({n \in 1 .. Len(secret) : (n - 1) % 4 = j /\ b \in secret[n]}) % 2 = 1

\* The server has a session only if the client has its key: with any other
\* secret, even one whose key differs only where the type is, no request is
\* understood as one, nor is any other datagram.
\* (main.cpp:105 and 137, TunnelServer.cpp:37-47 and 172)
SessionNeedsKey == sessions # {} => \A j \in 0 .. 3 : ServerKey[j] = ClientKey[j]

\* A frame written to one interface is a frame the other side has read, octet
\* for octet: no answer, error or old datagram passes for a frame, although the
\* client does not look for kRelayData.  (TunnelClient.cpp:57-69)
FramesGenuine ==
  /\ written.client \subseteq read.server
  /\ written.server \subseteq read.client
=============================================================================
