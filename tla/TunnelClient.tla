----------------------------- MODULE TunnelClient -----------------------------
(***************************************************************************)
(* The client processes of the tunnel: the handshake of main.cpp, which    *)
(* asks the server for a session up to three times, and the three threads  *)
(* of TunnelClient.cpp that run afterwards.                                *)
(*   hb   : sendHeartbeat, every 5 seconds                                 *)
(*   net  : handleNetworkDatagram, until the server reports an error       *)
(*   veth : handleVirtualEthernet, one frame after the other               *)
(* They share `stop', which net sets and the other two look at between two *)
(* calls.  Datagrams travel in two sets, toServer and toClient: they may   *)
(* overtake each other, be lost and be delivered twice.                    *)
(***************************************************************************)
EXTENDS Packet, FiniteSets

CONSTANTS Client,      \* the client processes, each with a socket and a MAC
          Identity,    \* the session identities
          Address,     \* the virtual addresses
          NoIdentity, NoAddress, \* what is no session's: octets of a frame
          Tries,       \* requests a handshake sends at most: 3
          Media        \* what may become of datagrams, see Taken

ASSUME ClientAssumption == /\ NoIdentity \notin Identity /\ NoAddress \notin Address
                           /\ Tries \in Nat \ {0}
                           /\ Media \subseteq {"prompt", "lossy", "kept"}

VARIABLES main,      \* [Client -> where main() is]
          tries,     \* requests the handshake has sent
          identity,  \* SessionInfo.identity, as the client has understood it
          vip,       \* SessionInfo.address, likewise
          stop,      \* TunnelClient::stop
          hb, net, veth,  \* where the threads are
          medium,    \* which of Media this network is
          toServer, toClient

handshake == <<main, tries, identity, vip>>
threads   == <<hb, net, veth>>
clientVars == <<handshake, threads, stop>>
network   == <<medium, toServer, toClient>>

ClientInit ==
  /\ main = [c \in Client |-> "request"]
  /\ tries = [c \in Client |-> 0]
  /\ identity = [c \in Client |-> NoIdentity]
  /\ vip = [c \in Client |-> NoAddress]
  /\ stop = [c \in Client |-> FALSE]
  /\ hb = [c \in Client |-> "off"]
  /\ net = [c \in Client |-> "off"]
  /\ veth = [c \in Client |-> "off"]
  /\ medium \in Media
  /\ toServer = {} /\ toClient = {}

-----------------------------------------------------------------------------
\* Datagrams from a client: its request, its heartbeat, a frame it relays.
Request(c)   == [from |-> c, type |-> kStartSession]
Beat(c)      == [from |-> c, type |-> kHeartbeat, identity |-> identity[c]]
Relayed(c)   == [from |-> c, type |-> kRelayData, identity |-> identity[c]]

\* The size of a datagram from the server.  A relayed frame is longer than its
\* header alone.
SizeOf(m) == HeaderSize + CASE m.type = kSessionInfo -> SessionInfoSize
                            [] m.type = kErrorDetail -> ErrorDetailSize
                            [] m.type = kRelayData   -> EthernetHeaderSize + 46

\* recvfrom() fills the buffer and drops what is left of the datagram.
Received(m, buffer) == IF SizeOf(m) > buffer THEN buffer ELSE SizeOf(m)

ToServer(m) == toServer' = toServer \cup {m} /\ UNCHANGED medium
\* What is left of the datagrams D when m has arrived.
\*   prompt : each is delivered once, and before the clock ticks (see Tick)
\*   lossy  : a copy may remain, and any may vanish (see Lose)
\*   kept   : all remain; one that is never delivered again has been lost
Taken(D, m) == CASE medium = "prompt" -> {D \ {m}}
                 [] medium = "lossy"  -> {D, D \ {m}}
                 [] medium = "kept"   -> {D}

FromServer(m) == m \in toClient /\ toClient' \in Taken(toClient, m) /\ UNCHANGED medium

-----------------------------------------------------------------------------
(***************************************************************************)
(* main.cpp: startSession and startClient.                                 *)
(***************************************************************************)
HsSend(c) ==
  /\ main[c] = "request"
  /\ ToServer(Request(c))
  /\ main' = [main EXCEPT ![c] = "wait"]
  /\ tries' = [tries EXCEPT ![c] = @ + 1]
  /\ UNCHANGED <<identity, vip, stop, threads, toClient>>

\* A mistake: one turn too many.
BadNextTry(c) ==
  /\ main' = [main EXCEPT ![c] = IF tries[c] <= Tries THEN "request" ELSE "failed"]
  /\ UNCHANGED <<tries, identity, vip, stop, threads>>

\* The next turn of the loop, or the end of it.
NextTry(c) ==
  /\ main' = [main EXCEPT ![c] = IF tries[c] < Tries THEN "request" ELSE "failed"]
  /\ UNCHANGED <<tries, identity, vip, stop, threads>>

\* A mistake: the last request is waited for without a time limit.
BadHsTimeout(c) ==
  /\ main[c] = "wait" /\ tries[c] < Tries
  /\ NextTry(c)
  /\ UNCHANGED network

\* timedRecv() has waited for 2 seconds, or failed.
HsTimeout(c) ==
  /\ main[c] = "wait"
  /\ NextTry(c)
  /\ UNCHANGED network

\* Whatever fills the buffer is the answer; main() then starts the threads.  (A
\* shorter datagram would cost a try, but the server sends error codes only to
\* those who have named an identity.)
HsAnswer(c, m) ==
  /\ main[c] = "wait" /\ m.to = c
  /\ Received(m, HeaderSize + SessionInfoSize) = HeaderSize + SessionInfoSize
  /\ FromServer(m)
  /\ LET isInfo == m.type = kSessionInfo IN
       /\ identity' = [identity EXCEPT ![c] = IF isInfo THEN m.identity ELSE NoIdentity]
       /\ vip' = [vip EXCEPT ![c] = IF isInfo THEN m.address ELSE NoAddress]
  /\ main' = [main EXCEPT ![c] = "run"]
  /\ hb' = [hb EXCEPT ![c] = "test"]
  /\ net' = [net EXCEPT ![c] = "recv"]
  /\ veth' = [veth EXCEPT ![c] = "test"]
  /\ UNCHANGED <<tries, stop, toServer>>

\* startClient() has joined its threads.
Exit(c) ==
  /\ main[c] = "run"
  /\ hb[c] = "done" /\ net[c] = "done" /\ veth[c] = "done"
  /\ main' = [main EXCEPT ![c] = "exit"]
  /\ UNCHANGED <<tries, identity, vip, stop, threads, network>>

-----------------------------------------------------------------------------
(***************************************************************************)
(* TunnelClient.cpp: the three threads.                                    *)
(***************************************************************************)
HbTest(c) ==
  /\ hb[c] = "test"
  /\ hb' = [hb EXCEPT ![c] = IF stop[c] THEN "done" ELSE "sleep"]
  /\ UNCHANGED <<handshake, net, veth, stop, network>>

HbSend(c) ==
  /\ hb[c] = "awake"
  /\ ToServer(Beat(c))
  /\ hb' = [hb EXCEPT ![c] = "test"]
  /\ UNCHANGED <<handshake, net, veth, stop, toClient>>

\* Any datagram of the error type ends the thread, and asks the others to end.
NetError(c, m) ==
  /\ net[c] = "recv" /\ m.to = c
  /\ m.type = kErrorDetail
  /\ FromServer(m)
  /\ stop' = [stop EXCEPT ![c] = TRUE]
  /\ net' = [net EXCEPT ![c] = "done"]
  /\ UNCHANGED <<handshake, hb, veth, toServer>>

\* A frame is written to the interface; an answer that comes too late is
\* shorter than a frame, and ignored.
NetOther(c, m) ==
  /\ net[c] = "recv" /\ m.to = c
  /\ m.type # kErrorDetail
  /\ FromServer(m)
  /\ UNCHANGED <<clientVars, toServer>>

\* A mistake: `stop' is not looked at.
BadVethTest(c) ==
  /\ veth[c] = "test"
  /\ veth' = [veth EXCEPT ![c] = "read"]
  /\ UNCHANGED <<handshake, hb, net, stop, network>>

VethTest(c) ==
  /\ veth[c] = "test"
  /\ veth' = [veth EXCEPT ![c] = IF stop[c] THEN "done" ELSE "read"]
  /\ UNCHANGED <<handshake, hb, net, stop, network>>

\* read() returns a frame, which is sent whatever `stop' is by now.
VethFrame(c) ==
  /\ veth[c] = "read"
  /\ ToServer(Relayed(c))
  /\ veth' = [veth EXCEPT ![c] = "test"]
  /\ UNCHANGED <<handshake, hb, net, stop, toClient>>

-----------------------------------------------------------------------------
\* The socket is closed, or the thread that reads it has ended.
Deaf(c) == main[c] \in {"failed", "exit"} \/ net[c] = "done"

\* util::sleep(5000) returns.
WakeUp == hb' = [c \in Client |-> IF hb[c] = "sleep" THEN "awake" ELSE hb[c]]

\* The threads of a client: the first one (main), and the three it starts.
MainStep(c) == HsSend(c) \/ HsTimeout(c) \/ Exit(c)
HbStep(c)   == HbTest(c) \/ HbSend(c)
VethStep(c) == VethTest(c) \/ VethFrame(c)
Receive(c, m) == HsAnswer(c, m) \/ NetError(c, m) \/ NetOther(c, m)

ClientNext == \E c \in Client : \/ MainStep(c) \/ HbStep(c) \/ VethStep(c)
                               \/ \E m \in toClient : Receive(c, m)
=============================================================================
