-------------------------------- MODULE Tunnel --------------------------------
(***************************************************************************)
(* The whole tunnel: clients, an unreliable network, and a server that can *)
(* be restarted.  The server is the SessionTable that TunnelServer is      *)
(* shown to implement, with the answers its handlers send.                 *)
(***************************************************************************)
EXTENDS TunnelClient

CONSTANTS Timeout,    \* 45 seconds, in ticks of the heartbeat's 5
          NoSession,
          MaxCrash,   \* how often the server may be restarted
          Repeat      \* TRUE: a restarted server issues identities again

ASSUME TunnelAssumption == /\ Timeout \in Nat \ {0}
                           /\ MaxCrash \in Nat
                           /\ Repeat \in BOOLEAN

VARIABLES session,  \* the server's table, see SessionTable
          crashes,  \* restarts so far
          issued    \* identities given out so far, by any server

\* A client has one MAC address and one socket: it stands for both.
ST == INSTANCE SessionTable WITH Mac <- Client, Peer <- Client

ASSUME NoSessionAssumption == NoSession \notin ST!Session

server == <<session, crashes, issued>>
vars == <<clientVars, network, server>>

Init == ClientInit /\ ST!Init /\ crashes = 0 /\ issued = {}

FromClient(m) == m \in toServer /\ toServer' \in Taken(toServer, m) /\ UNCHANGED medium
ToClient(m)   == toClient' = toClient \cup {m} /\ UNCHANGED medium

-----------------------------------------------------------------------------
Free == Address \ {session[k].ip : k \in ST!Open}

\* A mistake: an identity may be given to two clients.
BadFresh == Identity

\* What random() may return.  Within one life of the server an identity is not
\* chosen again (see FreshIdentity in TunnelServer); nothing seeds random(), so
\* the next life repeats the identities of the last.
Fresh == Identity \ IF Repeat THEN ST!Open ELSE issued

\* The answer to a handshake.
SrvStart(m, k, a) ==
  /\ m.type = kStartSession
  /\ FromClient(m)
  /\ k \in Fresh /\ a \in Free
  /\ session' = [session EXCEPT ![k] =
       [ip |-> a, mac |-> m.from, address |-> m.from, age |-> 0]]
  /\ issued' = issued \cup {k}
  /\ ToClient(SessionInfoTo(m.from, k, a))
  /\ UNCHANGED <<clientVars, crashes>>

\* No answer: no address is left.  (Nor is there one when the model has run out
\* of identities, as if the request were lost.)
SrvNoAddress(m) ==
  /\ m.type = kStartSession
  /\ FromClient(m)
  /\ Free = {} \/ Fresh = {}
  /\ UNCHANGED <<clientVars, server, toClient>>

\* A mistake: a session that is old enough to be swept is not renewed.
BadKnows(k) == k \in ST!Open /\ session[k].age < Timeout

Knows(k) == k \in ST!Open

\* A mistake: a heartbeat only moves the session.
BadSrvHeartbeat(m) ==
  /\ m.type = kHeartbeat /\ Knows(m.identity)
  /\ FromClient(m)
  /\ session' = [session EXCEPT ![m.identity].address = m.from]
  /\ UNCHANGED <<clientVars, crashes, issued, toClient>>

SrvHeartbeat(m) ==
  /\ m.type = kHeartbeat /\ Knows(m.identity)
  /\ FromClient(m)
  /\ session' = [session EXCEPT ![m.identity] =
       [ip |-> @.ip, mac |-> @.mac, address |-> m.from, age |-> 0]]
  /\ UNCHANGED <<clientVars, crashes, issued, toClient>>

SrvRelay(m) ==
  /\ m.type = kRelayData /\ Knows(m.identity)
  /\ FromClient(m)
  /\ UNCHANGED <<clientVars, server, toClient>>

\* A mistake: an unknown session is ignored.
BadSrvUnknown(m) ==
  /\ m.type \in {kHeartbeat, kRelayData} /\ ~Knows(m.identity)
  /\ FromClient(m)
  /\ UNCHANGED <<clientVars, server, toClient>>

SrvUnknown(m) ==
  /\ m.type \in {kHeartbeat, kRelayData} /\ ~Knows(m.identity)
  /\ FromClient(m)
  /\ ToClient(ErrorTo(m.from, kRestartSession))
  /\ UNCHANGED <<clientVars, server>>

\* A frame of the server's network for the session's client.
SrvFrame(k) ==
  /\ Knows(k)
  /\ ToClient(FrameTo(session[k].address))
  /\ UNCHANGED <<clientVars, server, toServer>>

SrvExpire(k) ==
  /\ ST!Expire(k)
  /\ UNCHANGED <<clientVars, crashes, issued, network>>

\* The process ends and is started again: nothing is kept.
SrvCrash ==
  /\ crashes < MaxCrash
  /\ crashes' = crashes + 1
  /\ session' = [k \in Identity |-> NoSession]
  /\ UNCHANGED <<clientVars, issued, network>>

SrvReceives(m) == \/ \E k \in Identity, a \in Address : SrvStart(m, k, a)
                  \/ SrvNoAddress(m) \/ SrvHeartbeat(m) \/ SrvRelay(m) \/ SrvUnknown(m)

-----------------------------------------------------------------------------
Lose ==
  /\ medium = "lossy"
  /\ \/ \E m \in toServer : toServer' = toServer \ {m} /\ UNCHANGED toClient
     \/ \E m \in toClient : toClient' = toClient \ {m} /\ UNCHANGED toServer
  /\ UNCHANGED <<clientVars, medium, server>>

\* Nobody reads what is sent to this client any more.
Unread ==
  /\ medium = "prompt"
  /\ \E m \in toClient : Deaf(m.to) /\ toClient' = toClient \ {m}
  /\ UNCHANGED <<clientVars, medium, toServer, server>>

\* Five seconds pass.
Tick ==
  /\ medium = "prompt" =>
        /\ toServer = {} /\ toClient = {}
        /\ \A c \in Client : hb[c] \in {"off", "sleep", "done"}
  /\ ST!Tick
  /\ WakeUp
  /\ UNCHANGED <<handshake, net, veth, stop, network, crashes, issued>>

Next ==
  \/ ClientNext /\ UNCHANGED server
  \/ \E m \in toServer : SrvReceives(m)
  \/ \E k \in Identity : SrvFrame(k) \/ SrvExpire(k)
  \/ SrvCrash \/ Lose \/ Unread \/ Tick

Spec == Init /\ [][Next]_vars

\* Threads run, time passes, the sweep comes; UDP does not lose every heartbeat,
\* nor every answer to one.  No frame has to come from an interface.
Heard(c) == \E m \in toServer : m.from = c /\ m.type = kHeartbeat /\ SrvReceives(m)
Told(c)  == \E m \in toClient : NetError(c, m)

Fairness(c) ==
  /\ WF_vars(MainStep(c) /\ UNCHANGED server)
  /\ WF_vars(HbStep(c) /\ UNCHANGED server)
  /\ WF_vars(VethTest(c) /\ UNCHANGED server)
  /\ SF_vars(Heard(c))
  /\ SF_vars(Told(c) /\ UNCHANGED server)

FairSpec == /\ Spec
            /\ WF_vars(Tick) /\ \A k \in Identity : WF_vars(SrvExpire(k))
            /\ \A c \in Client : Fairness(c)

-----------------------------------------------------------------------------
Running(c) == main[c] = "run"

TypeOK ==
  /\ main \in [Client -> {"request", "wait", "run", "exit", "failed"}]
  /\ tries \in [Client -> 0 .. Tries]
  /\ identity \in [Client -> Identity \cup {NoIdentity}]
  /\ vip \in [Client -> Address \cup {NoAddress}]
  /\ stop \in [Client -> BOOLEAN]
  /\ hb \in [Client -> {"off", "test", "sleep", "awake", "done"}]
  /\ net \in [Client -> {"off", "recv", "done"}]
  /\ veth \in [Client -> {"off", "test", "read", "done"}]
  /\ session \in [Identity -> ST!Session \cup {NoSession}]
  /\ crashes \in 0 .. MaxCrash /\ issued \subseteq Identity
  /\ medium \in Media

\* The session a running client uses is its own: the server opened it for this
\* client, with the address the client's interface has, and sends its frames to
\* this client; whatever answers were late, repeated or from an earlier life of
\* the server.  (main.cpp:114-118, TunnelServer.cpp:186-196 and 213-226)
OwnSession ==
  \A c \in Client : Running(c) /\ identity[c] \in ST!Open =>
    LET s == session[identity[c]] IN s.mac = c /\ s.address = c /\ s.ip = vip[c]

\* No client gives up while the server has its session, however old the error
\* code is that it gives up for.  (TunnelClient.cpp:59-63, TunnelServer.cpp:206-212)
StopIsDeserved == \A c \in Client : stop[c] => identity[c] \notin ST!Open

\* While the network is prompt and the server does not restart, a running client
\* never loses its session, however idle its interface is: the heartbeat's period,
\* the session's time-out and the sweep fit together.  (TunnelClient.cpp:42-45,
\* TunnelServer.cpp:92, 215)
KeptAlive ==
  medium = "prompt" /\ crashes = 0 =>
    \A c \in Client : Running(c) /\ identity[c] \in Identity =>
      identity[c] \in ST!Open /\ ~stop[c]

\* A client with an identity the server does not know (it restarted, it ended the
\* session, or the identity was never one) is told and stops, though datagrams
\* are lost.  (TunnelServer.cpp:207-211, TunnelClient.cpp:59-63)
ForgottenStops ==
  \A c \in Client : Running(c) /\ identity[c] \notin ST!Open ~> stop[c]

\* The handshake ends, with an answer or without.  (main.cpp:112-123)
HandshakeEnds == \A c \in Client : <>(main[c] \notin {"request", "wait"})

\* A client that is to stop exits, provided that its interface does not stay
\* silent: read() has no time-out.  (TunnelClient.cpp:42, 81-83, main.cpp:142-144)
StopEnds ==
  \A c \in Client : []<>(veth[c] # "read") => (stop[c] ~> main[c] = "exit")

\* The endpoint of a session changes only when its client's does, which in this
\* model never happens.  (TunnelServer.cpp:216-225)
MovedByItsClient == \A k \in ST!Open : session[k].address = session[k].mac

\* What the handshake has accepted is a SessionInfo, as the structure says that it
\* is received into.  (main.cpp:108-118)
AnswerUnderstood == \A c \in Client : Running(c) => identity[c] \in Identity
=============================================================================
