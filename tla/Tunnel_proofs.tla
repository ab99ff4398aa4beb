---------------------------- MODULE Tunnel_proofs ----------------------------
(***************************************************************************)
(* Proofs about Tunnel, for any sets of clients, identities and addresses, *)
(* any of the networks and any number of restarts.                         *)
(*                                                                         *)
(* The invariant comes in layers, each resting on the ones before:         *)
(*   Shape  : the types, and what datagrams can look like                  *)
(*   Named  : threads run after the handshake, and their datagrams carry   *)
(*            the identity that the handshake has left behind              *)
(*   Owned  : whoever knows an identity (a client, an answer on its way)   *)
(*            is the one the session was opened for, if it is still open   *)
(*   Timed  : on a prompt network the heartbeat is never late              *)
(***************************************************************************)
EXTENDS Tunnel, TLAPS

Open == ST!Open

ClientMessage ==
  [from : Client, type : {kStartSession}] \cup
  [from : Client, type : {kHeartbeat, kRelayData}, identity : Identity \cup {NoIdentity}]

ServerMessage ==
  [to : Client, type : {kSessionInfo}, identity : Identity, address : Address] \cup
  [to : Client, type : {kErrorDetail}, code : {kRestartSession}] \cup
  [to : Client, type : {kRelayData}]

\* A request is only due while one is left.
TriesLeft == \A c \in Client : main[c] = "request" => tries[c] < Tries

Shape == /\ TypeOK /\ TriesLeft
         /\ toServer \subseteq ClientMessage /\ toClient \subseteq ServerMessage

Started(c) == main[c] \in {"run", "exit"}

ThreadsRun == \A c \in Client :
  hb[c] # "off" \/ net[c] # "off" \/ veth[c] # "off" \/ stop[c] => Started(c)

NamesItself == \A m \in toServer :
  m.type # kStartSession => Started(m.from) /\ m.identity = identity[m.from]

Named == Shape /\ ThreadsRun /\ NamesItself

\* The session k, if the server has it, is client c's, with the address a.
Holds(c, k, a) == k \in issued /\ (k \in Open => session[k].mac = c /\ session[k].ip = a)

OpenIssued  == Open \subseteq issued
ClientsHold == \A c \in Client : identity[c] \in Identity => Holds(c, identity[c], vip[c])
AnswersHold == \A m \in toClient :
  m.type = kSessionInfo => Holds(m.to, m.identity, m.address)
ErrorsHold  == \A m \in toClient :
  m.type = kErrorDetail => Started(m.to) /\ identity[m.to] \notin Open

Owned == /\ Named /\ OpenIssued /\ ClientsHold /\ AnswersHold /\ ErrorsHold
         /\ MovedByItsClient /\ StopIsDeserved

Fast == medium = "prompt" /\ crashes = 0

AnswersFresh == Fast => \A m \in toClient :
  m.type = kSessionInfo => m.identity \in Open /\ session[m.identity].age = 0

\* The heartbeat thread of client c has not ended; if the session has aged, its
\* heartbeat is about to be sent or on its way.
BeatsInTime(c) ==
  /\ identity[c] \in Open /\ hb[c] \notin {"off", "done"}
  /\ \/ session[identity[c]].age = 0
     \/ session[identity[c]].age = 1 /\ (hb[c] = "awake" \/ Beat(c) \in toServer)

Beating == Fast => \A c \in Client :
  Running(c) /\ identity[c] \in Identity => BeatsInTime(c)

Timed == Owned /\ AnswersFresh /\ Beating

-----------------------------------------------------------------------------
\* Datagrams.

LEMMA KindsDiffer ==
  /\ kStartSession # kHeartbeat /\ kStartSession # kRelayData /\ kHeartbeat # kRelayData
  /\ kSessionInfo # kErrorDetail /\ kSessionInfo # kRelayData /\ kErrorDetail # kRelayData
  BY DEF kStartSession, kHeartbeat, kRelayData, kSessionInfo, kErrorDetail

\* What a client can have sent.
LEMMA FromClientShape ==
  ASSUME NEW m \in ClientMessage
  PROVE  /\ m.from \in Client
         /\ m.type \in {kStartSession, kHeartbeat, kRelayData}
         /\ m.type # kStartSession => m.identity \in Identity \cup {NoIdentity}
  BY KindsDiffer DEF ClientMessage

\* What the server can have sent.
LEMMA FromServerShape ==
  ASSUME NEW m \in ServerMessage
  PROVE  /\ m.to \in Client
         /\ m.type \in {kSessionInfo, kErrorDetail, kRelayData}
         /\ m.type = kSessionInfo => m.identity \in Identity /\ m.address \in Address
  BY KindsDiffer DEF ServerMessage

LEMMA ClientDatagrams ==
  ASSUME Shape, NEW c \in Client
  PROVE  /\ Request(c) \in ClientMessage /\ Request(c).type = kStartSession
         /\ Beat(c) \in ClientMessage /\ Beat(c).type # kStartSession
         /\ Beat(c).from = c /\ Beat(c).identity = identity[c]
         /\ Relayed(c) \in ClientMessage /\ Relayed(c).type # kStartSession
         /\ Relayed(c).from = c /\ Relayed(c).identity = identity[c]
  <1>1. identity[c] \in Identity \cup {NoIdentity}
    BY DEF Shape, TypeOK
  <1> QED
    BY <1>1, KindsDiffer DEF Request, Beat, Relayed, ClientMessage

LEMMA ServerDatagrams ==
  ASSUME NEW c \in Client, NEW k \in Identity, NEW a \in Address
  PROVE  /\ SessionInfoTo(c, k, a) \in ServerMessage
         /\ SessionInfoTo(c, k, a).type = kSessionInfo
         /\ SessionInfoTo(c, k, a).to = c
         /\ SessionInfoTo(c, k, a).identity = k /\ SessionInfoTo(c, k, a).address = a
  BY DEF SessionInfoTo, ServerMessage

LEMMA ErrorDatagrams ==
  ASSUME NEW c \in Client
  PROVE  /\ ErrorTo(c, kRestartSession) \in ServerMessage
         /\ ErrorTo(c, kRestartSession).type = kErrorDetail
         /\ ErrorTo(c, kRestartSession).to = c
  BY DEF ErrorTo, ServerMessage

LEMMA FrameDatagrams ==
  ASSUME NEW c \in Client
  PROVE  FrameTo(c) \in ServerMessage /\ FrameTo(c).type = kRelayData
  BY DEF FrameTo, ServerMessage

\* An error code is shorter than the answer the handshake waits for.
LEMMA NoErrorAnswers ==
  ASSUME NEW m, m.type = kErrorDetail
  PROVE  Received(m, HeaderSize + SessionInfoSize) # HeaderSize + SessionInfoSize
  <1>1. SizeOf(m) = 10
    BY KindsDiffer DEF SizeOf, HeaderSize, ErrorDetailSize, kErrorDetail, kSessionInfo, kRelayData
  <1> QED
    BY <1>1 DEF Received, HeaderSize, SessionInfoSize

\* What arrives is taken out of the network, or stays there.
LEMMA TakenShrinks ==
  ASSUME Shape, NEW D, NEW m, NEW E \in Taken(D, m)
  PROVE  E \subseteq D /\ D \subseteq E \cup {m} /\ (medium = "prompt" => E = D \ {m})
  <1>1. medium \in {"prompt", "lossy", "kept"}
    BY ClientAssumption DEF Shape, TypeOK
  <1> QED
    BY <1>1 DEF Taken

-----------------------------------------------------------------------------
\* The steps, each named once.
Steps ==
  \/ \E c \in Client :
       /\ \/ HsSend(c) \/ HsTimeout(c) \/ Exit(c)
          \/ HbTest(c) \/ HbSend(c) \/ VethTest(c) \/ VethFrame(c)
          \/ \E m \in toClient : HsAnswer(c, m) \/ NetError(c, m) \/ NetOther(c, m)
       /\ UNCHANGED server
  \/ \E m \in toServer :
       \/ \E k \in Identity, a \in Address : SrvStart(m, k, a)
       \/ SrvNoAddress(m) \/ SrvHeartbeat(m) \/ SrvRelay(m) \/ SrvUnknown(m)
  \/ \E k \in Identity : SrvFrame(k) \/ SrvExpire(k)
  \/ SrvCrash \/ Lose \/ Unread \/ Tick \/ UNCHANGED vars

LEMMA EveryStep == [Next]_vars => Steps
  BY DEF Next, Steps, ClientNext, MainStep, HbStep, VethStep, Receive, SrvReceives

USE DEF clientVars, handshake, threads, network, server, vars

ClientTypes ==
  /\ main \in [Client -> {"request", "wait", "run", "exit", "failed"}]
  /\ tries \in [Client -> 0 .. Tries]
  /\ identity \in [Client -> Identity \cup {NoIdentity}]
  /\ vip \in [Client -> Address \cup {NoAddress}]
  /\ stop \in [Client -> BOOLEAN]
  /\ hb \in [Client -> {"off", "test", "sleep", "awake", "done"}]
  /\ net \in [Client -> {"off", "recv", "done"}]
  /\ veth \in [Client -> {"off", "test", "read", "done"}]

ServerTypes ==
  /\ session \in [Identity -> ST!Session \cup {NoSession}]
  /\ crashes \in 0 .. MaxCrash /\ issued \subseteq Identity
  /\ medium \in Media

LEMMA TwoTypes == TypeOK <=> ClientTypes /\ ServerTypes
  BY DEF TypeOK, ClientTypes, ServerTypes

LEMMA ClientTypesKept == ASSUME Shape, Steps PROVE ClientTypes'
  <1> USE TwoTypes DEF Shape
  <1>1. ASSUME NEW c \in Client,
               HsSend(c) \/ HsTimeout(c) \/ Exit(c) \/ \E m \in toClient : HsAnswer(c, m)
        PROVE  ClientTypes'
    <2>1. CASE HsSend(c)
      BY <2>1, ClientAssumption DEF ClientTypes, HsSend, TriesLeft
    <2>2. CASE HsTimeout(c)
      BY <2>2 DEF ClientTypes, HsTimeout, NextTry
    <2>3. CASE Exit(c)
      BY <2>3 DEF ClientTypes, Exit
    <2>4. ASSUME NEW m \in toClient, HsAnswer(c, m) PROVE ClientTypes'
      BY <2>4, FromServerShape DEF ClientTypes, HsAnswer
    <2> QED
      BY <1>1, <2>1, <2>2, <2>3, <2>4
  <1>2. ASSUME NEW c \in Client,
               \/ HbTest(c) \/ HbSend(c) \/ VethTest(c) \/ VethFrame(c)
               \/ \E m \in toClient : NetError(c, m) \/ NetOther(c, m)
        PROVE  ClientTypes'
    <2>1. CASE HbTest(c) \/ HbSend(c)
      BY <2>1 DEF ClientTypes, HbTest, HbSend
    <2>2. CASE VethTest(c) \/ VethFrame(c)
      BY <2>2 DEF ClientTypes, VethTest, VethFrame
    <2>3. ASSUME NEW m \in toClient, NetError(c, m) \/ NetOther(c, m)
          PROVE  ClientTypes'
      BY <2>3 DEF ClientTypes, NetError, NetOther
    <2> QED
      BY <1>2, <2>1, <2>2, <2>3
  <1>3. CASE Tick
    BY <1>3 DEF ClientTypes, Tick, WakeUp
  <1>4. CASE /\ UNCHANGED clientVars
    BY <1>4 DEF ClientTypes
  <1>5. ASSUME \/ \E m \in toServer :
                    \/ \E k \in Identity, a \in Address : SrvStart(m, k, a)
                    \/ SrvNoAddress(m) \/ SrvHeartbeat(m) \/ SrvRelay(m) \/ SrvUnknown(m)
               \/ \E k \in Identity : SrvFrame(k) \/ SrvExpire(k)
               \/ SrvCrash \/ Lose \/ Unread \/ UNCHANGED vars
        PROVE UNCHANGED clientVars
    BY <1>5 DEF SrvStart, SrvNoAddress, SrvHeartbeat, SrvRelay, SrvUnknown, SrvFrame,
                SrvExpire, SrvCrash, Lose, Unread
  <1> QED
    BY <1>1, <1>2, <1>3, <1>4, <1>5 DEF Steps

LEMMA TriesLeftKept == ASSUME Shape, Steps PROVE TriesLeft'
  <1> USE TwoTypes DEF Shape
  <1> SUFFICES ASSUME NEW d \in Client, main'[d] = "request" PROVE tries'[d] < Tries
    BY DEF TriesLeft
  <1>1. (main'[d] = main[d] /\ tries'[d] = tries[d]) \/ (tries[d] < Tries /\ tries'[d] = tries[d])
    <2>1. ASSUME NEW c \in Client,
                \/ HsSend(c) \/ HsTimeout(c) \/ Exit(c)
                \/ \E m \in toClient : HsAnswer(c, m)
          PROVE  (main'[d] = main[d] /\ tries'[d] = tries[d]) \/ (tries[d] < Tries /\ tries'[d] = tries[d])
      BY <2>1 DEF ClientTypes, HsSend, HsTimeout, NextTry, Exit, HsAnswer
    <2>2. UNCHANGED <<main, tries>> \/ \E c \in Client :
                \/ HsSend(c) \/ HsTimeout(c) \/ Exit(c)
                \/ \E m \in toClient : HsAnswer(c, m)
      BY DEF Steps, HbTest, HbSend, VethTest, VethFrame, NetError, NetOther, Tick,
             SrvStart, SrvNoAddress, SrvHeartbeat, SrvRelay, SrvUnknown, SrvFrame,
                SrvExpire, SrvCrash, Lose, Unread
    <2> QED
      BY <2>1, <2>2
  <1> QED
    BY <1>1 DEF TriesLeft

\* The sessions the server has, with types that every proof below uses.
LEMMA OpenSession ==
  ASSUME ServerTypes, NEW k \in Open
  PROVE  k \in Identity /\ session[k] \in ST!Session
  BY DEF ServerTypes, Open, ST!Open

LEMMA SessionFields ==
  ASSUME NEW s \in ST!Session
  PROVE  s.ip \in Address /\ s.mac \in Client /\ s.address \in Client /\ s.age \in 0 .. Timeout
  BY DEF ST!Session

LEMMA AgedSession ==
  ASSUME NEW s \in ST!Session
  PROVE  /\ ST!Aged(s) \in ST!Session
         /\ ST!Aged(s).ip = s.ip /\ ST!Aged(s).mac = s.mac /\ ST!Aged(s).address = s.address
         /\ s.age < Timeout => ST!Aged(s).age = s.age + 1
  <1>1. (IF s.age < Timeout THEN s.age + 1 ELSE s.age) \in 0 .. Timeout
    BY SessionFields, TunnelAssumption
  <1> QED
    BY <1>1, SessionFields DEF ST!Aged, ST!Session

LEMMA NewSession ==
  ASSUME NEW a \in Address, NEW c \in Client, NEW d \in Client
  PROVE  [ip |-> a, mac |-> c, address |-> d, age |-> 0] \in ST!Session
  BY TunnelAssumption DEF ST!Session

LEMMA ServerTypesKept == ASSUME Shape, Steps PROVE ServerTypes'
  <1> USE TwoTypes DEF Shape
  <1>1. ASSUME NEW m \in toServer, NEW k \in Identity, NEW a \in Address, SrvStart(m, k, a)
        PROVE  ServerTypes'
    <2>1. m.from \in Client
      BY FromClientShape
    <2> QED
      BY <1>1, <2>1, NewSession DEF SrvStart, FromClient, ToClient, ServerTypes
  <1>2. ASSUME NEW m \in toServer, SrvHeartbeat(m)
        PROVE  ServerTypes'
    <2>1. m.from \in Client /\ m.identity \in Identity /\ session[m.identity] \in ST!Session
      BY <1>2, FromClientShape, OpenSession DEF SrvHeartbeat, Knows, ST!Open, Open
    <2>2. session[m.identity].ip \in Address /\ session[m.identity].mac \in Client
      BY <2>1, SessionFields
    <2>3. session' = [session EXCEPT ![m.identity] =
             [ip |-> session[m.identity].ip, mac |-> session[m.identity].mac, address |-> m.from, age |-> 0]]
      BY <1>2, <2>1 DEF SrvHeartbeat, ServerTypes
    <2>4. UNCHANGED <<crashes, issued, medium>>
      BY <1>2 DEF SrvHeartbeat, FromClient
    <2> QED
      BY <2>1, <2>2, <2>3, <2>4, NewSession DEF ServerTypes
  <1>3. ASSUME NEW k \in Identity, SrvExpire(k) PROVE ServerTypes'
    BY <1>3 DEF SrvExpire, ST!Expire, ServerTypes
  <1>4. CASE SrvCrash
    BY <1>4, TunnelAssumption DEF SrvCrash, ServerTypes
  <1>5. CASE Tick
    <2>1. session' = [k \in Identity |-> IF k \in Open THEN ST!Aged(session[k]) ELSE NoSession]
      BY <1>5 DEF Tick, ST!Tick, Open
    <2>2. session' \in [Identity -> ST!Session \cup {NoSession}]
      BY <2>1, OpenSession, AgedSession
    <2> QED
      BY <1>5, <2>2 DEF Tick, ServerTypes
  <1>6. ASSUME \/ \E c \in Client :
                  /\ \/ HsSend(c) \/ HsTimeout(c) \/ Exit(c)
                     \/ HbTest(c) \/ HbSend(c) \/ VethTest(c) \/ VethFrame(c)
                     \/ \E m \in toClient : HsAnswer(c, m) \/ NetError(c, m) \/ NetOther(c, m)
                  /\ UNCHANGED server
               \/ \E m \in toServer : SrvNoAddress(m) \/ SrvRelay(m) \/ SrvUnknown(m)
               \/ \E k \in Identity : SrvFrame(k)
               \/ Lose \/ Unread \/ UNCHANGED vars
        PROVE  UNCHANGED <<server, medium>>
    <2>1. ASSUME NEW c \in Client, UNCHANGED server,
                 \/ HsSend(c) \/ HsTimeout(c) \/ Exit(c)
                 \/ HbTest(c) \/ HbSend(c) \/ VethTest(c) \/ VethFrame(c)
                 \/ \E m \in toClient : HsAnswer(c, m) \/ NetError(c, m) \/ NetOther(c, m)
          PROVE  UNCHANGED <<server, medium>>
      BY <2>1 DEF HsSend, HsTimeout, Exit, HbTest, HbSend, VethTest, VethFrame,
                  HsAnswer, NetError, NetOther, ToServer, FromServer
    <2> QED
      BY <1>6, <2>1 DEF SrvNoAddress, SrvRelay, SrvUnknown, SrvFrame, Lose, Unread,
                        ToClient, FromClient
  <1>7. CASE UNCHANGED <<server, medium>>
    BY <1>7 DEF ServerTypes
  <1> QED
    BY <1>1, <1>2, <1>3, <1>4, <1>5, <1>6, <1>7 DEF Steps

-----------------------------------------------------------------------------
\* What comes into the network.

SentNow(m) == \E c \in Client : \/ m = Request(c)
                                \/ m = Beat(c) /\ hb[c] = "awake"
                                \/ m = Relayed(c) /\ veth[c] = "read"

LEMMA ToServerGrows == ASSUME Shape, Steps PROVE \A m \in toServer' : m \in toServer \/ SentNow(m)
  <1>1. ASSUME NEW c \in Client, HsSend(c) \/ HbSend(c) \/ VethFrame(c)
        PROVE  \A m \in toServer' : m \in toServer \/ SentNow(m)
    BY <1>1 DEF HsSend, HbSend, VethFrame, ToServer, SentNow
  <1>2. ASSUME NEW c \in Client,
               \/ HsTimeout(c) \/ Exit(c) \/ HbTest(c) \/ VethTest(c)
               \/ \E m \in toClient : HsAnswer(c, m) \/ NetError(c, m) \/ NetOther(c, m)
        PROVE  toServer' = toServer
    BY <1>2 DEF HsTimeout, Exit, HbTest, VethTest, HsAnswer, NetError, NetOther
  <1>3. ASSUME NEW r \in toServer, FromClient(r)
        PROVE  toServer' \subseteq toServer
    BY <1>3, TakenShrinks DEF FromClient
  <1>4. ASSUME NEW r \in toServer,
               \/ \E k \in Identity, a \in Address : SrvStart(r, k, a)
               \/ SrvNoAddress(r) \/ SrvHeartbeat(r) \/ SrvRelay(r) \/ SrvUnknown(r)
        PROVE  FromClient(r)
    BY <1>4 DEF SrvStart, SrvNoAddress, SrvHeartbeat, SrvRelay, SrvUnknown
  <1>5. ASSUME \/ \E k \in Identity : SrvFrame(k) \/ SrvExpire(k)
               \/ SrvCrash \/ Unread \/ Tick \/ UNCHANGED vars
        PROVE  toServer' = toServer
    BY <1>5 DEF SrvFrame, SrvExpire, SrvCrash, Unread, Tick
  <1>6. CASE Lose
    BY <1>6 DEF Lose
  <1> QED
    BY <1>1, <1>2, <1>3, <1>4, <1>5, <1>6 DEF Steps

AnsweredNow(m) ==
  \/ \E r \in toServer, k \in Identity, a \in Address :
       SrvStart(r, k, a) /\ m = SessionInfoTo(r.from, k, a)
  \/ \E r \in toServer : SrvUnknown(r) /\ m = ErrorTo(r.from, kRestartSession)
  \/ \E k \in Open : m = FrameTo(session[k].address)

LEMMA ToClientGrows ==
  ASSUME Shape, Steps PROVE \A m \in toClient' : m \in toClient \/ AnsweredNow(m)
  <1>1. ASSUME NEW c \in Client, NEW r \in toClient,
               HsAnswer(c, r) \/ NetError(c, r) \/ NetOther(c, r)
        PROVE  toClient' \subseteq toClient
    <2>1. FromServer(r)
      BY <1>1 DEF HsAnswer, NetError, NetOther
    <2> QED
      BY <2>1, TakenShrinks DEF FromServer
  <1>2. ASSUME NEW r \in toServer, NEW k \in Identity, NEW a \in Address, SrvStart(r, k, a)
        PROVE  \A m \in toClient' : m \in toClient \/ AnsweredNow(m)
    <2>1. toClient' = toClient \cup {SessionInfoTo(r.from, k, a)}
      BY <1>2 DEF SrvStart, ToClient
    <2> QED
      BY <1>2, <2>1 DEF AnsweredNow
  <1>3. ASSUME NEW r \in toServer, SrvUnknown(r)
        PROVE  \A m \in toClient' : m \in toClient \/ AnsweredNow(m)
    <2>1. toClient' = toClient \cup {ErrorTo(r.from, kRestartSession)}
      BY <1>3 DEF SrvUnknown, ToClient
    <2> QED
      BY <1>3, <2>1 DEF AnsweredNow
  <1>4. ASSUME NEW k \in Identity, SrvFrame(k)
        PROVE  \A m \in toClient' : m \in toClient \/ AnsweredNow(m)
    <2>1. toClient' = toClient \cup {FrameTo(session[k].address)} /\ k \in Open
      BY <1>4 DEF SrvFrame, ToClient, Knows, Open
    <2> QED
      BY <2>1 DEF AnsweredNow
  <1>5. CASE Lose \/ Unread
    BY <1>5 DEF Lose, Unread
  <1>6. ASSUME \/ \E c \in Client : \/ HsSend(c) \/ HsTimeout(c) \/ Exit(c)
                    \/ HbTest(c) \/ HbSend(c) \/ VethTest(c) \/ VethFrame(c)
               \/ \E r \in toServer : SrvNoAddress(r) \/ SrvHeartbeat(r) \/ SrvRelay(r)
               \/ \E k \in Identity : SrvExpire(k)
               \/ SrvCrash \/ Tick \/ UNCHANGED vars
        PROVE  toClient' = toClient
    BY <1>6 DEF HsSend, HsTimeout, Exit, HbTest, HbSend, VethTest, VethFrame,
                SrvNoAddress, SrvHeartbeat, SrvRelay, SrvExpire, SrvCrash, Tick
  <1> QED
    BY <1>1, <1>2, <1>3, <1>4, <1>5, <1>6 DEF Steps

LEMMA InitShape == Init => Shape
  <1> SUFFICES ASSUME Init PROVE Shape
    OBVIOUS
  <1>1. ClientTypes /\ TriesLeft
    BY ClientAssumption DEF Init, ClientInit, ClientTypes, TriesLeft
  <1>2. ServerTypes
    BY TunnelAssumption DEF Init, ClientInit, ST!Init, ServerTypes
  <1> QED
    BY <1>1, <1>2, TwoTypes DEF Shape, Init, ClientInit

LEMMA ShapeKept == ASSUME Shape, Steps PROVE Shape'
  <1>1. TypeOK' /\ TriesLeft'
    BY ClientTypesKept, ServerTypesKept, TriesLeftKept DEF TypeOK, ClientTypes, ServerTypes
  <1>2. toServer' \subseteq ClientMessage
    BY ToServerGrows, ClientDatagrams DEF Shape, SentNow
  <1>3. ASSUME NEW m, AnsweredNow(m) PROVE m \in ServerMessage
    <2>1. ASSUME NEW r \in toServer PROVE r.from \in Client
      BY FromClientShape DEF Shape
    <2>2. ASSUME NEW k \in Open PROVE session[k].address \in Client
      BY OpenSession, SessionFields, TwoTypes DEF Shape
    <2> QED
      BY <1>3, <2>1, <2>2, ServerDatagrams, ErrorDatagrams, FrameDatagrams DEF AnsweredNow
  <1>4. toClient' \subseteq ServerMessage
    BY <1>3, ToClientGrows DEF Shape
  <1> QED
    BY <1>1, <1>2, <1>4 DEF Shape, ClientMessage, ServerMessage

\* Every variable keeps its type, whatever the network does to datagrams and
\* however often the server is restarted.
THEOREM TunnelTyped == Spec => []TypeOK
  <1>1. Spec => []Shape
    BY InitShape, ShapeKept, EveryStep, PTL DEF Spec
  <1> QED
    BY <1>1, PTL DEF Shape

-----------------------------------------------------------------------------
(***************************************************************************)
(* The second layer: who has started keeps its identity, and names it.     *)
(***************************************************************************)

\* Once a client has started, the handshake's results stay; they come from an answer.
LEMMA HandshakeChanges ==
  ASSUME Shape, Steps, NEW d \in Client
  PROVE  \/ /\ identity'[d] = identity[d] /\ vip'[d] = vip[d]
            /\ Started(d) => Started(d)'
            /\ Running(d)' => Running(d)
         \/ \E m \in toClient : HsAnswer(d, m) /\ UNCHANGED server
  <1> DEFINE Same == /\ identity'[d] = identity[d] /\ vip'[d] = vip[d]
                     /\ Started(d) => Started(d)'
                     /\ Running(d)' => Running(d)
  <1> USE TwoTypes DEF Shape
  <1>1. ASSUME NEW c \in Client, HsSend(c) \/ HsTimeout(c) \/ Exit(c) PROVE Same
    BY <1>1 DEF ClientTypes, HsSend, HsTimeout, NextTry, Exit, Started, Running
  <1>2. ASSUME NEW c \in Client, NEW m \in toClient, HsAnswer(c, m), c # d PROVE Same
    BY <1>2 DEF ClientTypes, HsAnswer, Started, Running
  <1>3. ASSUME UNCHANGED handshake PROVE Same
    BY <1>3 DEF Started, Running
  <1>4. ASSUME NEW c \in Client, \/ HbTest(c) \/ HbSend(c) \/ VethTest(c) \/ VethFrame(c)
               \/ \E m \in toClient : NetError(c, m) \/ NetOther(c, m)
        PROVE  UNCHANGED handshake
    BY <1>4 DEF HbTest, HbSend, VethTest, VethFrame, NetError, NetOther
  <1>5. ASSUME \/ \E m \in toServer :
                    \/ \E k \in Identity, a \in Address : SrvStart(m, k, a)
                    \/ SrvNoAddress(m) \/ SrvHeartbeat(m) \/ SrvRelay(m) \/ SrvUnknown(m)
               \/ \E k \in Identity : SrvFrame(k) \/ SrvExpire(k)
               \/ SrvCrash \/ Lose \/ Unread \/ Tick \/ UNCHANGED vars
        PROVE UNCHANGED handshake
    BY <1>5 DEF SrvStart, SrvNoAddress, SrvHeartbeat, SrvRelay, SrvUnknown, SrvFrame,
                SrvExpire, SrvCrash, Lose, Unread, Tick
  <1>6. Same \/ \E m \in toClient : HsAnswer(d, m) /\ UNCHANGED server
    BY <1>1, <1>2, <1>3, <1>4, <1>5 DEF Steps
  <1> QED
    BY <1>6

\* What an answer does to a handshake.
LEMMA Answered ==
  ASSUME Shape, NEW c \in Client, NEW m \in toClient, HsAnswer(c, m)
  PROVE  /\ main[c] = "wait" /\ m.to = c
         /\ m.type \in {kSessionInfo, kRelayData}
         /\ main'[c] = "run" /\ hb'[c] = "test"
         /\ m.type = kSessionInfo => identity'[c] = m.identity /\ vip'[c] = m.address
         /\ m.type # kSessionInfo => identity'[c] = NoIdentity
         /\ FromServer(m)
         /\ UNCHANGED <<stop, toServer>>
         /\ \A d \in Client \ {c} :
              /\ main'[d] = main[d] /\ identity'[d] = identity[d] /\ vip'[d] = vip[d]
              /\ hb'[d] = hb[d] /\ net'[d] = net[d] /\ veth'[d] = veth[d]
  <1> USE TwoTypes DEF Shape
  <1>1. m.type \in {kSessionInfo, kRelayData}
    BY FromServerShape, NoErrorAnswers DEF HsAnswer
  <1> QED
    BY <1>1 DEF HsAnswer, ClientTypes

LEMMA Settled ==
  ASSUME Shape, Steps, NEW c \in Client, Started(c)
  PROVE  Started(c)' /\ identity'[c] = identity[c] /\ vip'[c] = vip[c]
  BY HandshakeChanges, Answered DEF Started

LEMMA ThreadsRunKept == ASSUME Named, Steps PROVE ThreadsRun'
  <1> USE TwoTypes DEF Named, Shape
  <1> DEFINE Active(c) == hb[c] # "off" \/ net[c] # "off" \/ veth[c] # "off" \/ stop[c]
  <1> SUFFICES ASSUME NEW d \in Client, Active(d)' PROVE Started(d)'
    BY DEF ThreadsRun
  <1>0. ASSUME UNCHANGED <<threads, stop>> PROVE Active(d)
    BY <1>0
  <1>1. ASSUME NEW c \in Client, HbTest(c) \/ HbSend(c) PROVE Active(d)
    BY <1>1 DEF ClientTypes, HbTest, HbSend
  <1>2. ASSUME NEW c \in Client, VethTest(c) \/ VethFrame(c) PROVE Active(d)
    BY <1>2 DEF ClientTypes, VethTest, VethFrame
  <1>3. ASSUME NEW c \in Client, NEW m \in toClient, NetError(c, m) PROVE Active(d)
    BY <1>3 DEF ClientTypes, NetError
  <1>4. ASSUME Tick PROVE Active(d)
    <2>1. hb'[d] = (IF hb[d] = "sleep" THEN "awake" ELSE hb[d])
      BY <1>4 DEF Tick, WakeUp
    <2> QED
      BY <1>4, <2>1 DEF Tick
  <1>5. ASSUME NEW m \in toClient, HsAnswer(d, m) PROVE Started(d)'
    BY <1>5, Answered DEF Started
  <1>6. ASSUME NEW c \in Client, NEW m \in toClient, HsAnswer(c, m), c # d PROVE Active(d)
    BY <1>6 DEF ClientTypes, HsAnswer
  <1>7. ASSUME NEW c \in Client, \/ HsSend(c) \/ HsTimeout(c) \/ Exit(c)
               \/ \E m \in toClient : NetOther(c, m)
        PROVE  UNCHANGED <<threads, stop>>
    BY <1>7 DEF HsSend, HsTimeout, NextTry, Exit, NetOther
  <1>8. ASSUME \/ \E m \in toServer :
                    \/ \E k \in Identity, a \in Address : SrvStart(m, k, a)
                    \/ SrvNoAddress(m) \/ SrvHeartbeat(m) \/ SrvRelay(m) \/ SrvUnknown(m)
               \/ \E k \in Identity : SrvFrame(k) \/ SrvExpire(k)
               \/ SrvCrash \/ Lose \/ Unread \/ UNCHANGED vars
        PROVE UNCHANGED <<threads, stop>>
    BY <1>8 DEF SrvStart, SrvNoAddress, SrvHeartbeat, SrvRelay, SrvUnknown, SrvFrame,
                SrvExpire, SrvCrash, Lose, Unread
  <1>9. Active(d) \/ Started(d)'
    BY <1>0, <1>1, <1>2, <1>3, <1>4, <1>5, <1>6, <1>7, <1>8 DEF Steps
  <1>10. Active(d) => Started(d)
    BY DEF ThreadsRun
  <1> HIDE DEF Active
  <1> QED
    BY <1>9, <1>10, Settled

LEMMA NamesItselfKept == ASSUME Named, Steps PROVE NamesItself'
  <1> SUFFICES ASSUME NEW m \in toServer', m.type # kStartSession
               PROVE  Started(m.from)' /\ m.identity = identity'[m.from]
    BY DEF NamesItself
  <1>1. CASE m \in toServer
    <2>1. m.from \in Client
      BY <1>1, FromClientShape DEF Named, Shape
    <2>2. Started(m.from) /\ m.identity = identity[m.from]
      BY <1>1 DEF Named, NamesItself
    <2> QED
      BY <2>1, <2>2, Settled DEF Named
  <1>2. ASSUME NEW c \in Client, m = Beat(c) \/ m = Relayed(c),
               hb[c] = "awake" \/ veth[c] = "read"
        PROVE  Started(m.from)' /\ m.identity = identity'[m.from]
    <2>1. m.from = c /\ m.identity = identity[c]
      BY <1>2, ClientDatagrams DEF Named
    <2>2. Started(c)
      BY <1>2 DEF Named, ThreadsRun
    <2> QED
      BY <2>1, <2>2, Settled DEF Named
  <1>3. m \in toServer \/ SentNow(m)
    BY ToServerGrows DEF Named
  <1> QED
    BY <1>1, <1>2, <1>3, ClientDatagrams DEF SentNow, Named

LEMMA NamedKept ==
  ASSUME Named, Steps
  PROVE  Named'
  BY ShapeKept, ThreadsRunKept, NamesItselfKept DEF Named

-----------------------------------------------------------------------------
(***************************************************************************)
(* The third layer.  The server must not issue an identity again, which is *)
(* what ~Repeat says: a restarted server whose random() begins the same    *)
(* sequence does (run tunnel_restart).                                     *)
(***************************************************************************)

\* What opens a session.
LEMMA Opened ==
  ASSUME ~Repeat, Shape, NEW m \in toServer, NEW k \in Identity, NEW a \in Address, SrvStart(m, k, a)
  PROVE  /\ m.type = kStartSession /\ m.from \in Client
         /\ k \notin issued /\ issued' = issued \cup {k}
         /\ session'[k] = [ip |-> a, mac |-> m.from, address |-> m.from, age |-> 0]
         /\ k \in Open' /\ Open' \subseteq Open \cup {k}
         /\ \A j \in Identity \ {k} : session'[j] = session[j]
  <1>1. m.from \in Client
    BY FromClientShape DEF Shape
  <1>2. k \notin issued /\ issued' = issued \cup {k} /\ m.type = kStartSession
    BY DEF SrvStart, Fresh
  <1>3. session' = [session EXCEPT ![k] = [ip |-> a, mac |-> m.from, address |-> m.from, age |-> 0]]
    BY DEF SrvStart
  <1>4. session \in [Identity -> ST!Session \cup {NoSession}]
    BY DEF Shape, TypeOK
  <1>5. session'[k] = [ip |-> a, mac |-> m.from, address |-> m.from, age |-> 0]
    BY <1>3, <1>4
  <1>6. \A j \in Identity \ {k} : session'[j] = session[j]
    BY <1>3, <1>4
  <1>7. session'[k] # NoSession
    BY <1>1, <1>5, NewSession, NoSessionAssumption
  <1> QED
    BY <1>1, <1>2, <1>5, <1>6, <1>7 DEF Open, ST!Open

\* What renews one.
LEMMA Renewed ==
  ASSUME Shape, NEW m \in toServer, SrvHeartbeat(m)
  PROVE  /\ m.type = kHeartbeat /\ m.from \in Client /\ m.identity \in Open
         /\ session'[m.identity] = [ip |-> session[m.identity].ip, mac |-> session[m.identity].mac,
                                    address |-> m.from, age |-> 0]
         /\ Open' = Open
         /\ \A j \in Identity \ {m.identity} : session'[j] = session[j]
  <1>1. m.from \in Client /\ m.identity \in Open /\ m.type = kHeartbeat
    BY FromClientShape DEF Shape, SrvHeartbeat, Knows, Open
  <1>2. m.identity \in Identity /\ session[m.identity] \in ST!Session
    BY <1>1, OpenSession, TwoTypes DEF Shape
  <1>3. session' = [session EXCEPT ![m.identity] =
             [ip |-> session[m.identity].ip, mac |-> session[m.identity].mac, address |-> m.from, age |-> 0]]
    BY <1>2 DEF SrvHeartbeat, Shape, TypeOK
  <1>4. session'[m.identity] = [ip |-> session[m.identity].ip, mac |-> session[m.identity].mac,
                                    address |-> m.from, age |-> 0]
    BY <1>2, <1>3 DEF Shape, TypeOK
  <1>5. \A j \in Identity \ {m.identity} : session'[j] = session[j]
    BY <1>2, <1>3 DEF Shape, TypeOK
  <1>6. session'[m.identity] # NoSession
    BY <1>1, <1>2, <1>4, SessionFields, NewSession, NoSessionAssumption
  <1> QED
    BY <1>1, <1>2, <1>4, <1>5, <1>6 DEF Open, ST!Open

\* What time does to them.
LEMMA Aging ==
  ASSUME Shape, Tick
  PROVE  /\ Open' = Open
         /\ \A k \in Open : session'[k] = ST!Aged(session[k])
  <1>1. \A k \in Identity : session'[k] = IF k \in Open THEN ST!Aged(session[k]) ELSE NoSession
    BY DEF Tick, ST!Tick, Open
  <1>2. \A k \in Open : ST!Aged(session[k]) # NoSession /\ k \in Identity
    BY OpenSession, AgedSession, NoSessionAssumption, TwoTypes DEF Shape
  <1> QED
    BY <1>1, <1>2 DEF Open, ST!Open

\* The other steps end sessions, or leave them alone.
LEMMA OtherSteps ==
  ASSUME Shape, Steps
  PROVE  \/ \E m \in toServer, k \in Identity, a \in Address : SrvStart(m, k, a)
         \/ \E m \in toServer : SrvHeartbeat(m)
         \/ Tick
         \/ \E k \in Identity : /\ SrvExpire(k) /\ session[k].age = Timeout /\ issued' = issued
                                /\ Open' = Open \ {k}
                                /\ \A j \in Identity \ {k} : session'[j] = session[j]
         \/ SrvCrash /\ Open' = {} /\ issued' = issued
         \/ UNCHANGED <<session, issued>>
  <1>1. ASSUME NEW k \in Identity, SrvExpire(k)
        PROVE  /\ session[k].age = Timeout /\ issued' = issued
               /\ Open' = Open \ {k}
               /\ \A j \in Identity \ {k} : session'[j] = session[j]
    BY <1>1 DEF SrvExpire, ST!Expire, ST!Open, Open, Shape, TypeOK
  <1>2. ASSUME SrvCrash PROVE Open' = {} /\ issued' = issued
    BY <1>2 DEF SrvCrash, Open, ST!Open
  <1>3. ASSUME \/ \E m \in toServer : SrvNoAddress(m) \/ SrvRelay(m) \/ SrvUnknown(m)
               \/ \E k \in Identity : SrvFrame(k)
               \/ Lose \/ Unread \/ UNCHANGED vars
        PROVE UNCHANGED <<session, issued>>
    BY <1>3 DEF SrvNoAddress, SrvRelay, SrvUnknown, SrvFrame, Lose, Unread
  <1> QED
    BY <1>1, <1>2, <1>3 DEF Steps

\* A session keeps its client and its address for as long as the server has it.
LEMMA SessionChanges ==
  ASSUME Shape, Steps, ~Repeat, NEW k \in Open'
  PROVE  \/ /\ k \in Open
            /\ session'[k].mac = session[k].mac /\ session'[k].ip = session[k].ip
         \/ \E m \in toServer, a \in Address : k \in Identity /\ SrvStart(m, k, a)
  <1> DEFINE Same == /\ k \in Open
                     /\ session'[k].mac = session[k].mac /\ session'[k].ip = session[k].ip
  <1>0. k \in Identity
    BY DEF Open, ST!Open
  <1>1. ASSUME NEW m \in toServer, NEW j \in Identity, NEW a \in Address, SrvStart(m, j, a), j # k
        PROVE  Same
    BY <1>0, <1>1, Opened
  <1>2. ASSUME NEW m \in toServer, SrvHeartbeat(m) PROVE Same
    <2>1. CASE k = m.identity
      <3>1. session'[k] = [ip |-> session[k].ip, mac |-> session[k].mac,
                           address |-> m.from, age |-> 0] /\ k \in Open
        BY <1>2, <2>1, Renewed
      <3> QED
        BY <3>1
    <2>2. CASE k # m.identity
      BY <1>0, <1>2, <2>2, Renewed
    <2> QED
      BY <2>1, <2>2
  <1>3. ASSUME Tick PROVE Same
    <2>1. k \in Open /\ session'[k] = ST!Aged(session[k])
      BY <1>3, Aging
    <2>2. session[k] \in ST!Session
      BY <2>1, OpenSession, TwoTypes DEF Shape
    <2> QED
      BY <2>1, <2>2, AgedSession
  <1>4. ASSUME NEW j \in Identity, Open' = Open \ {j},
               \A i \in Identity \ {j} : session'[i] = session[i]
        PROVE  Same
    BY <1>0, <1>4
  <1>5. ASSUME UNCHANGED session PROVE Same
    BY <1>5 DEF Open, ST!Open
  <1>6. Same \/ \E m \in toServer, a \in Address : SrvStart(m, k, a)
    BY <1>1, <1>2, <1>3, <1>4, <1>5, OtherSteps
  <1> QED
    BY <1>0, <1>6

LEMMA IssuedGrows == ASSUME Shape, Steps, ~Repeat PROVE issued \subseteq issued'
  <1>1. ASSUME NEW m \in toServer, SrvHeartbeat(m) PROVE issued' = issued
    BY <1>1 DEF SrvHeartbeat
  <1>2. ASSUME Tick PROVE issued' = issued
    BY <1>2 DEF Tick
  <1> QED
    BY <1>1, <1>2, Opened, OtherSteps

\* Nobody takes over an identity, open or closed.
LEMMA HoldsOn ==
  ASSUME ~Repeat, Shape, Steps, NEW c, NEW k, NEW a, Holds(c, k, a)
  PROVE  Holds(c, k, a)' /\ (k \notin Open => k \notin Open')
  <1>1. k \in issued'
    BY IssuedGrows DEF Holds
  <1>2. ASSUME NEW m \in toServer, NEW b \in Address, k \in Identity, SrvStart(m, k, b)
        PROVE  FALSE
    BY <1>2, Opened DEF Holds
  <1>3. ASSUME k \in Open'
        PROVE  k \in Open /\ session'[k].mac = session[k].mac /\ session'[k].ip = session[k].ip
    BY <1>2, <1>3, SessionChanges
  <1> QED
    BY <1>1, <1>3 DEF Holds

LEMMA OpenIssuedKept == ASSUME ~Repeat, Owned, Steps PROVE OpenIssued'
  <1> SUFFICES ASSUME NEW k \in Open' PROVE k \in issued'
    BY DEF OpenIssued
  <1>1. ASSUME k \in Open PROVE k \in issued'
    BY <1>1, IssuedGrows DEF Owned, Named, OpenIssued
  <1>2. ASSUME NEW m \in toServer, NEW a \in Address, k \in Identity, SrvStart(m, k, a)
        PROVE  k \in issued'
    <2>1. issued' = issued \cup {k}
      BY <1>2, Opened DEF Owned, Named
    <2> QED
      BY <2>1
  <1> QED
    BY <1>1, <1>2, SessionChanges DEF Owned, Named

LEMMA ClientsHoldKept == ASSUME ~Repeat, Owned, Steps PROVE ClientsHold'
  <1> USE DEF Owned, Named
  <1> SUFFICES ASSUME NEW c \in Client, NEW CONSTANT k \in Identity, NEW CONSTANT a,
                      k = identity'[c], a = vip'[c]
               PROVE  Holds(c, k, a)'
    BY DEF ClientsHold, Holds
  <1>1. ASSUME identity'[c] = identity[c], vip'[c] = vip[c] PROVE Holds(c, k, a)
    BY <1>1 DEF ClientsHold
  <1>2. ASSUME NEW m \in toClient, HsAnswer(c, m) PROVE Holds(c, k, a)
    <2>1. m.type = kSessionInfo /\ m.to = c /\ k = m.identity /\ a = m.address
      BY <1>2, Answered, ClientAssumption
    <2> QED
      BY <2>1 DEF AnswersHold
  <1> QED
    BY <1>1, <1>2, HandshakeChanges, HoldsOn

LEMMA AnswersHoldKept == ASSUME ~Repeat, Owned, Steps PROVE AnswersHold'
  <1> USE DEF Owned, Named
  <1> SUFFICES ASSUME NEW m \in toClient', m.type = kSessionInfo
               PROVE  Holds(m.to, m.identity, m.address)'
    BY DEF AnswersHold, Holds
  <1>1. ASSUME m \in toClient PROVE Holds(m.to, m.identity, m.address)'
    BY <1>1, HoldsOn DEF AnswersHold
  <1>2. ASSUME NEW r \in toServer, NEW k \in Identity, NEW a \in Address,
               SrvStart(r, k, a), m = SessionInfoTo(r.from, k, a)
        PROVE  Holds(m.to, m.identity, m.address)'
    <2>1. /\ r.from \in Client /\ issued' = issued \cup {k}
          /\ session'[k] = [ip |-> a, mac |-> r.from, address |-> r.from, age |-> 0]
      BY <1>2, Opened
    <2>2. m.to = r.from /\ m.identity = k /\ m.address = a
      BY <1>2, <2>1, ServerDatagrams
    <2> QED
      BY <2>1, <2>2 DEF Holds
  <1>3. ASSUME NEW r \in toServer, SrvUnknown(r), m = ErrorTo(r.from, kRestartSession) PROVE FALSE
    BY <1>3, FromClientShape, ErrorDatagrams, KindsDiffer DEF Shape
  <1>4. ASSUME NEW k \in Open, m = FrameTo(session[k].address) PROVE FALSE
    BY <1>4, OpenSession, SessionFields, FrameDatagrams, TwoTypes, KindsDiffer DEF Shape
  <1> QED
    BY <1>1, <1>2, <1>3, <1>4, ToClientGrows DEF AnsweredNow

\* A client whose session is closed has it closed for ever.
LEMMA ClosedForGood ==
  ASSUME ~Repeat, Owned, Steps, NEW c \in Client, Started(c), identity[c] \notin Open
  PROVE  Started(c)' /\ identity'[c] \notin Open'
  <1>1. Started(c)' /\ identity'[c] = identity[c]
    BY Settled DEF Owned, Named
  <1>2. CASE identity[c] \in Identity
    BY <1>1, <1>2, HoldsOn DEF Owned, Named, ClientsHold
  <1>3. CASE identity[c] \notin Identity
    BY <1>1, <1>3 DEF Open, ST!Open
  <1> QED
    BY <1>1, <1>2, <1>3

LEMMA ErrorsHoldKept == ASSUME ~Repeat, Owned, Steps PROVE ErrorsHold'
  <1> USE DEF Owned, Named
  <1> SUFFICES ASSUME NEW m \in toClient', m.type = kErrorDetail
               PROVE  Started(m.to)' /\ identity'[m.to] \notin Open'
    BY DEF ErrorsHold
  <1>1. ASSUME m \in toClient PROVE m.to \in Client /\ Started(m.to) /\ identity[m.to] \notin Open
    BY <1>1, FromServerShape DEF ErrorsHold, Shape
  <1>2. ASSUME NEW r \in toServer, SrvUnknown(r), m = ErrorTo(r.from, kRestartSession)
        PROVE  m.to \in Client /\ Started(m.to) /\ identity[m.to] \notin Open
    <2>1. r.from \in Client /\ m.to = r.from
      BY <1>2, FromClientShape, ErrorDatagrams DEF Shape
    <2>2. r.type # kStartSession /\ r.identity \notin Open
      BY <1>2, KindsDiffer DEF SrvUnknown, Knows, Open
    <2> QED
      BY <2>1, <2>2 DEF NamesItself
  <1>3. ASSUME NEW r \in toServer, NEW k \in Identity, NEW a \in Address,
               SrvStart(r, k, a), m = SessionInfoTo(r.from, k, a)
        PROVE  FALSE
    BY <1>3, FromClientShape, ServerDatagrams, KindsDiffer DEF Shape
  <1>4. ASSUME NEW k \in Open, m = FrameTo(session[k].address) PROVE FALSE
    BY <1>4, OpenSession, SessionFields, FrameDatagrams, TwoTypes, KindsDiffer DEF Shape
  <1> QED
    BY <1>1, <1>2, <1>3, <1>4, ToClientGrows, ClosedForGood DEF AnsweredNow

\* A heartbeat comes from the client its session was opened for.
LEMMA MovedByItsClientKept == ASSUME ~Repeat, Owned, Steps PROVE MovedByItsClient'
  <1> USE DEF Owned, Named
  <1> SUFFICES ASSUME NEW k \in Open' PROVE session'[k].address = session'[k].mac
    BY DEF MovedByItsClient, Open
  <1>0. k \in Identity /\ (k \in Open => session[k].address = session[k].mac)
    BY DEF Open, ST!Open, MovedByItsClient
  <1>1. ASSUME NEW m \in toServer, NEW j \in Identity, NEW a \in Address, SrvStart(m, j, a)
        PROVE  session'[k].address = session'[k].mac
    <2>1. CASE j = k
      <3>1. session'[k] = [ip |-> a, mac |-> m.from, address |-> m.from, age |-> 0]
        BY <1>1, <2>1, Opened
      <3> QED
        BY <3>1
    <2>2. CASE j # k
      BY <1>0, <1>1, <2>2, Opened
    <2> QED
      BY <2>1, <2>2
  <1>2. ASSUME NEW m \in toServer, SrvHeartbeat(m)
        PROVE  session'[k].address = session'[k].mac
    <2>1. CASE k = m.identity
      <3>1. /\ session'[k] = [ip |-> session[k].ip, mac |-> session[k].mac,
                              address |-> m.from, age |-> 0]
            /\ k \in Open /\ m.from \in Client /\ m.type = kHeartbeat
        BY <1>2, <2>1, Renewed
      <3>2. k = identity[m.from]
        BY <2>1, <3>1, KindsDiffer DEF NamesItself
      <3>3. session[k].mac = m.from
        BY <1>0, <3>1, <3>2 DEF ClientsHold, Holds
      <3> QED
        BY <3>1, <3>3
    <2>2. CASE k # m.identity
      BY <1>0, <1>2, <2>2, Renewed
    <2> QED
      BY <2>1, <2>2
  <1>3. ASSUME Tick PROVE session'[k].address = session'[k].mac
    <2>1. k \in Open /\ session'[k] = ST!Aged(session[k])
      BY <1>3, Aging
    <2>2. session[k] \in ST!Session
      BY <2>1, OpenSession, TwoTypes DEF Shape
    <2> QED
      BY <1>0, <2>1, <2>2, AgedSession
  <1>4. ASSUME NEW j \in Identity, Open' = Open \ {j},
               \A i \in Identity \ {j} : session'[i] = session[i]
        PROVE  session'[k].address = session'[k].mac
    BY <1>0, <1>4
  <1>5. ASSUME UNCHANGED session PROVE session'[k].address = session'[k].mac
    BY <1>0, <1>5 DEF Open, ST!Open
  <1> QED
    BY <1>1, <1>2, <1>3, <1>4, <1>5, OtherSteps

LEMMA StopChanges ==
  ASSUME Shape, Steps, NEW c \in Client, stop'[c]
  PROVE  stop[c] \/ \E m \in toClient : m.to = c /\ m.type = kErrorDetail
  <1>1. ASSUME NEW d \in Client, NEW m \in toClient, NetError(d, m)
        PROVE  stop[c] \/ (m.to = c /\ m.type = kErrorDetail)
    BY <1>1 DEF NetError, Shape, TypeOK
  <1>2. ASSUME NEW d \in Client,
               \/ HsSend(d) \/ HsTimeout(d) \/ Exit(d)
               \/ HbTest(d) \/ HbSend(d) \/ VethTest(d) \/ VethFrame(d)
               \/ \E m \in toClient : HsAnswer(d, m) \/ NetOther(d, m)
        PROVE  UNCHANGED stop
    BY <1>2 DEF HsSend, HsTimeout, NextTry, Exit, HbTest, HbSend, VethTest, VethFrame,
                HsAnswer, NetOther
  <1>3. ASSUME \/ \E m \in toServer :
                    \/ \E k \in Identity, a \in Address : SrvStart(m, k, a)
                    \/ SrvNoAddress(m) \/ SrvHeartbeat(m) \/ SrvRelay(m) \/ SrvUnknown(m)
               \/ \E k \in Identity : SrvFrame(k) \/ SrvExpire(k)
               \/ SrvCrash \/ Lose \/ Unread \/ Tick \/ UNCHANGED vars
        PROVE  UNCHANGED stop
    BY <1>3 DEF SrvStart, SrvNoAddress, SrvHeartbeat, SrvRelay, SrvUnknown, SrvFrame,
                SrvExpire, SrvCrash, Lose, Unread, Tick
  <1> QED
    BY <1>1, <1>2, <1>3 DEF Steps

LEMMA StopIsDeservedKept == ASSUME ~Repeat, Owned, Steps PROVE StopIsDeserved'
  <1> USE DEF Owned, Named
  <1> SUFFICES ASSUME NEW c \in Client, stop'[c] PROVE identity'[c] \notin Open'
    BY DEF StopIsDeserved, Open
  <1>1. Started(c) /\ identity[c] \notin Open
    <2>1. CASE stop[c]
      BY <2>1 DEF ThreadsRun, StopIsDeserved, Open
    <2>2. ASSUME NEW m \in toClient, m.to = c, m.type = kErrorDetail
          PROVE  Started(c) /\ identity[c] \notin Open
      BY <2>2 DEF ErrorsHold
    <2> QED
      BY <2>1, <2>2, StopChanges
  <1> QED
    BY <1>1, ClosedForGood

LEMMA InitOwned == Init => Owned
  <1> SUFFICES ASSUME Init PROVE Owned
    OBVIOUS
  <1>1. Open = {}
    BY DEF Init, ST!Init, Open, ST!Open
  <1>2. Named
    BY InitShape DEF Named, Init, ClientInit, ThreadsRun, NamesItself
  <1>3. ClientsHold
    BY ClientAssumption DEF Init, ClientInit, ClientsHold
  <1>4. StopIsDeserved
    BY DEF Init, ClientInit, StopIsDeserved
  <1> QED
    BY <1>1, <1>2, <1>3, <1>4 DEF Owned, Init, ClientInit, OpenIssued, AnswersHold,
       ErrorsHold, MovedByItsClient, Open

LEMMA OwnedKept == ASSUME ~Repeat, Owned, Steps PROVE Owned'
  BY NamedKept, OpenIssuedKept, ClientsHoldKept, AnswersHoldKept, ErrorsHoldKept,
     MovedByItsClientKept, StopIsDeservedKept DEF Owned

LEMMA SpecOwned == ASSUME ~Repeat PROVE Spec => []Owned
  <1>1. Owned /\ [Next]_vars => Owned'
    BY OwnedKept, EveryStep
  <1> QED
    BY <1>1, InitOwned, PTL DEF Spec

\* The session a running client uses is its own: whatever became of datagrams and
\* however often the server restarted, the server opened it for this client, with
\* the address of the client's interface, and sends its frames to this client.
THEOREM RunsOnItsOwnSession == ASSUME ~Repeat PROVE Spec => []OwnSession
  <1>1. Owned => OwnSession
    <2> SUFFICES ASSUME Owned, NEW c \in Client, identity[c] \in Open
                 PROVE  /\ session[identity[c]].mac = c /\ session[identity[c]].address = c
                        /\ session[identity[c]].ip = vip[c]
      BY DEF OwnSession, Open
    <2>1. identity[c] \in Identity
      BY DEF Open, ST!Open
    <2> QED
      BY <2>1 DEF Owned, ClientsHold, Holds, MovedByItsClient, Open
  <1> QED
    BY <1>1, SpecOwned, PTL

\* No client gives up while the server has its session.
THEOREM StopsDeservedly == ASSUME ~Repeat PROVE Spec => []StopIsDeserved
  <1>1. Owned => StopIsDeserved
    BY DEF Owned
  <1> QED
    BY <1>1, SpecOwned, PTL

\* The endpoint of a session changes only with its client's, when no identity is
\* issued twice: the violation of run tunnel_restart has no other cause.
THEOREM MovedOnlyByItsClient == ASSUME ~Repeat PROVE Spec => []MovedByItsClient
  <1>1. Owned => MovedByItsClient
    BY DEF Owned
  <1> QED
    BY <1>1, SpecOwned, PTL

-----------------------------------------------------------------------------
(***************************************************************************)
(* The fourth layer, for a prompt network and a server that stays up.      *)
(***************************************************************************)

\* A network stays as it is, and a server that stayed up until now did before.
LEMMA FastBefore == ASSUME Shape, Steps, Fast' PROVE Fast
  <1>1. ASSUME NEW c \in Client, UNCHANGED server,
               \/ HsSend(c) \/ HsTimeout(c) \/ Exit(c)
               \/ HbTest(c) \/ HbSend(c) \/ VethTest(c) \/ VethFrame(c)
               \/ \E m \in toClient : HsAnswer(c, m) \/ NetError(c, m) \/ NetOther(c, m)
        PROVE  UNCHANGED <<medium, crashes>>
    BY <1>1 DEF HsSend, HsTimeout, Exit, HbTest, HbSend, VethTest, VethFrame,
                HsAnswer, NetError, NetOther, ToServer, FromServer
  <1>2. ASSUME \/ \E m \in toServer :
                    \/ \E k \in Identity, a \in Address : SrvStart(m, k, a)
                    \/ SrvNoAddress(m) \/ SrvHeartbeat(m) \/ SrvRelay(m) \/ SrvUnknown(m)
               \/ \E k \in Identity : SrvFrame(k) \/ SrvExpire(k)
               \/ Lose \/ Unread \/ Tick \/ UNCHANGED vars
        PROVE  UNCHANGED <<medium, crashes>>
    BY <1>2 DEF SrvStart, SrvNoAddress, SrvHeartbeat, SrvRelay, SrvUnknown, SrvFrame,
                SrvExpire, Lose, Unread, Tick, ToClient, FromClient
  <1>3. ASSUME SrvCrash PROVE medium' = medium /\ crashes \in Nat /\ crashes' = crashes + 1
    BY <1>3, TunnelAssumption DEF SrvCrash, Shape, TypeOK
  <1> QED
    BY <1>1, <1>2, <1>3 DEF Steps, Fast

\* The clock waits for a prompt network and for the heartbeat threads.
LEMMA TickWaits ==
  ASSUME Tick, Fast, NEW c \in Client
  PROVE  /\ toServer = {} /\ toClient = {} /\ hb[c] \in {"off", "sleep", "done"}
         /\ toClient' = toClient
         /\ hb[c] = "sleep" => hb'[c] = "awake"
  BY DEF Tick, Fast, WakeUp

LEMMA NoCrash == ASSUME Shape, SrvCrash PROVE ~Fast'
  BY TunnelAssumption DEF SrvCrash, Fast, Shape, TypeOK

\* A session that is in use is not opened again.
LEMMA NotReopened ==
  ASSUME ~Repeat, Owned, NEW k \in Open, NEW m \in toServer, NEW j \in Identity, NEW a \in Address,
         SrvStart(m, j, a)
  PROVE  j # k
  BY Opened DEF Owned, Named, OpenIssued

\* What becomes of the age of a session.
LEMMA AgeChanges ==
  ASSUME ~Repeat, Owned, Steps, Fast', NEW k \in Open
  PROVE  \/ k \in Open' /\ session'[k].age = session[k].age
         \/ k \in Open' /\ session'[k].age = 0
         \/ Tick /\ k \in Open' /\ session'[k].age = ST!Aged(session[k]).age
         \/ session[k].age = Timeout
  <1> USE DEF Owned, Named
  <1>0. k \in Identity
    BY DEF Open, ST!Open
  <1>1. ASSUME NEW m \in toServer, NEW j \in Identity, NEW a \in Address, SrvStart(m, j, a)
        PROVE  k \in Open' /\ session'[k] = session[k]
    <2>1. j # k
      BY <1>1, NotReopened
    <2>2. session'[k] = session[k]
      BY <1>0, <1>1, <2>1, Opened
    <2> QED
      BY <2>2 DEF Open, ST!Open
  <1>2. ASSUME NEW m \in toServer, SrvHeartbeat(m)
        PROVE  k \in Open' /\ (session'[k].age = 0 \/ session'[k] = session[k])
    <2>1. CASE k = m.identity
      <3>1. session'[k] = [ip |-> session[k].ip, mac |-> session[k].mac,
                           address |-> m.from, age |-> 0] /\ k \in Open'
        BY <1>2, <2>1, Renewed
      <3> QED
        BY <3>1
    <2>2. CASE k # m.identity
      BY <1>0, <1>2, <2>2, Renewed
    <2> QED
      BY <2>1, <2>2
  <1>3. ASSUME Tick PROVE k \in Open' /\ session'[k] = ST!Aged(session[k])
    BY <1>3, Aging
  <1>4. ASSUME NEW j \in Identity, session[j].age = Timeout, Open' = Open \ {j},
               \A i \in Identity \ {j} : session'[i] = session[i]
        PROVE  session[k].age = Timeout \/ (k \in Open' /\ session'[k] = session[k])
    BY <1>0, <1>4
  <1>5. ASSUME UNCHANGED session PROVE k \in Open' /\ session'[k] = session[k]
    BY <1>5 DEF Open, ST!Open
  <1> QED
    BY <1>1, <1>2, <1>3, <1>4, <1>5, OtherSteps, NoCrash

LEMMA AnswersFreshKept == ASSUME ~Repeat, Timed, Steps PROVE AnswersFresh'
  <1> USE DEF Timed, Owned, Named
  <1> SUFFICES ASSUME Fast', NEW m \in toClient', m.type = kSessionInfo
               PROVE  m.identity \in Open' /\ session'[m.identity].age = 0
    BY DEF AnswersFresh, Fast
  <1>0. Fast
    BY FastBefore
  <1>1. ASSUME m \in toClient PROVE m.identity \in Open' /\ session'[m.identity].age = 0
    <2>1. m.identity \in Open /\ session[m.identity].age = 0
      BY <1>0, <1>1 DEF AnswersFresh
    <2>2. ~Tick
      <3>1. m.to \in Client
        BY <1>1, FromServerShape DEF Shape
      <3> QED
        BY <1>0, <1>1, <3>1, TickWaits
    <2> QED
      BY <2>1, <2>2, AgeChanges, TunnelAssumption
  <1>2. ASSUME NEW r \in toServer, NEW k \in Identity, NEW a \in Address,
               SrvStart(r, k, a), m = SessionInfoTo(r.from, k, a)
        PROVE  m.identity \in Open' /\ session'[m.identity].age = 0
    <2>1. /\ r.from \in Client /\ k \in Open'
          /\ session'[k] = [ip |-> a, mac |-> r.from, address |-> r.from, age |-> 0]
      BY <1>2, Opened
    <2>2. m.identity = k
      BY <1>2, <2>1, ServerDatagrams
    <2> QED
      BY <2>1, <2>2
  <1>3. ASSUME NEW r \in toServer, SrvUnknown(r), m = ErrorTo(r.from, kRestartSession) PROVE FALSE
    BY <1>3, FromClientShape, ErrorDatagrams, KindsDiffer DEF Shape
  <1>4. ASSUME NEW k \in Open, m = FrameTo(session[k].address) PROVE FALSE
    BY <1>4, OpenSession, SessionFields, FrameDatagrams, TwoTypes, KindsDiffer DEF Shape
  <1> QED
    BY <1>1, <1>2, <1>3, <1>4, ToClientGrows DEF AnsweredNow

\* What leaves a network that loses nothing has been received.
LEMMA ToServerShrinks ==
  ASSUME Shape, Steps, medium # "lossy", NEW b \in toServer
  PROVE  \/ b \in toServer'
         \/ b.type = kStartSession \/ b.type = kRelayData
         \/ SrvHeartbeat(b) \/ SrvUnknown(b)
  <1>1. ASSUME NEW c \in Client,
               \/ HsSend(c) \/ HsTimeout(c) \/ Exit(c)
               \/ HbTest(c) \/ HbSend(c) \/ VethTest(c) \/ VethFrame(c)
               \/ \E m \in toClient : HsAnswer(c, m) \/ NetError(c, m) \/ NetOther(c, m)
        PROVE  toServer \subseteq toServer'
    BY <1>1 DEF HsSend, HsTimeout, Exit, HbTest, HbSend, VethTest, VethFrame,
                HsAnswer, NetError, NetOther, ToServer
  <1>2. ASSUME NEW m \in toServer, FromClient(m) PROVE toServer \subseteq toServer' \cup {m}
    BY <1>2, TakenShrinks DEF FromClient
  <1>3. ASSUME NEW m \in toServer,
               \/ \E k \in Identity, a \in Address : SrvStart(m, k, a)
               \/ SrvNoAddress(m) \/ SrvHeartbeat(m) \/ SrvRelay(m) \/ SrvUnknown(m)
        PROVE  /\ FromClient(m)
               /\ \/ m.type = kStartSession \/ m.type = kRelayData
                  \/ SrvHeartbeat(m) \/ SrvUnknown(m)
    BY <1>3 DEF SrvStart, SrvNoAddress, SrvHeartbeat, SrvRelay, SrvUnknown
  <1>4. ASSUME \/ \E k \in Identity : SrvFrame(k) \/ SrvExpire(k)
               \/ SrvCrash \/ Unread \/ Tick \/ UNCHANGED vars
        PROVE  toServer' = toServer
    BY <1>4 DEF SrvFrame, SrvExpire, SrvCrash, Unread, Tick
  <1> QED
    BY <1>1, <1>2, <1>3, <1>4 DEF Steps, Lose

\* What a heartbeat thread that is in its loop can do.
LEMMA HbChanges ==
  ASSUME Named, Steps, NEW c \in Client, hb[c] \notin {"off", "done"}
  PROVE  /\ hb'[c] # "off" /\ (hb'[c] = "done" => stop[c])
         /\ hb[c] = "awake" => hb'[c] = "awake" \/ Beat(c) \in toServer'
  <1> DEFINE Fine == /\ hb'[c] # "off" /\ (hb'[c] = "done" => stop[c])
                     /\ hb[c] = "awake" => hb'[c] = "awake" \/ Beat(c) \in toServer'
  <1> USE TwoTypes DEF Named, Shape
  <1>1. ASSUME NEW d \in Client, HbTest(d) PROVE Fine
    BY <1>1 DEF HbTest, ClientTypes
  <1>2. ASSUME NEW d \in Client, HbSend(d) PROVE Fine
    BY <1>2 DEF HbSend, ClientTypes, ToServer
  <1>3. ASSUME NEW d \in Client, NEW m \in toClient, HsAnswer(d, m) PROVE Fine
    <2>1. main[d] = "wait" /\ hb' = [hb EXCEPT ![d] = "test"]
      BY <1>3 DEF HsAnswer
    <2>2. main[c] \in {"run", "exit"}
      BY DEF ThreadsRun, Started
    <2> QED
      BY <2>1, <2>2 DEF ClientTypes
  <1>4. ASSUME Tick PROVE Fine
    <2>1. hb'[c] = (IF hb[c] = "sleep" THEN "awake" ELSE hb[c])
      BY <1>4 DEF Tick, WakeUp
    <2> QED
      BY <2>1
  <1>5. ASSUME UNCHANGED hb PROVE Fine
    BY <1>5
  <1>6. ASSUME NEW d \in Client,
               \/ HsSend(d) \/ HsTimeout(d) \/ Exit(d) \/ VethTest(d) \/ VethFrame(d)
               \/ \E m \in toClient : NetError(d, m) \/ NetOther(d, m)
        PROVE  UNCHANGED hb
    BY <1>6 DEF HsSend, HsTimeout, NextTry, Exit, VethTest, VethFrame, NetError, NetOther
  <1>7. ASSUME \/ \E m \in toServer :
                    \/ \E k \in Identity, a \in Address : SrvStart(m, k, a)
                    \/ SrvNoAddress(m) \/ SrvHeartbeat(m) \/ SrvRelay(m) \/ SrvUnknown(m)
               \/ \E k \in Identity : SrvFrame(k) \/ SrvExpire(k)
               \/ SrvCrash \/ Lose \/ Unread \/ UNCHANGED vars
        PROVE UNCHANGED hb
    BY <1>7 DEF SrvStart, SrvNoAddress, SrvHeartbeat, SrvRelay, SrvUnknown, SrvFrame,
                SrvExpire, SrvCrash, Lose, Unread
  <1>8. Fine
    BY <1>1, <1>2, <1>3, <1>4, <1>5, <1>6, <1>7 DEF Steps
  <1> QED
    BY <1>8

LEMMA BeatingKept == ASSUME ~Repeat, Timeout > 1, Timed, Steps PROVE Beating'
  <1> USE DEF Timed, Owned, Named
  <1> SUFFICES ASSUME Fast', NEW c \in Client, Running(c)', identity'[c] \in Identity
               PROVE  BeatsInTime(c)'
    BY DEF Beating, Fast, Running
  <1>0. Fast
    BY FastBefore
  <1>1. ASSUME NEW m \in toClient, HsAnswer(c, m), UNCHANGED server PROVE BeatsInTime(c)'
    <2>1. m.type = kSessionInfo /\ identity'[c] = m.identity /\ hb'[c] = "test"
      BY <1>1, Answered, ClientAssumption
    <2>2. m.identity \in Open /\ session[m.identity].age = 0
      BY <1>0, <2>1 DEF AnswersFresh
    <2> QED
      BY <1>1, <2>1, <2>2 DEF BeatsInTime, Open, ST!Open
  <1>2. ASSUME identity'[c] = identity[c], Running(c) PROVE BeatsInTime(c)'
    <2>1. PICK k : k = identity[c] /\ k \in Open /\ identity'[c] = k
      BY <1>0, <1>2 DEF Beating, BeatsInTime
    <2>2. BeatsInTime(c)
      BY <1>0, <1>2 DEF Beating
    <2>3. Beat(c)' = Beat(c)
      BY <1>2 DEF Beat
    <2>4. hb'[c] \notin {"off", "done"}
      BY <2>1, <2>2, HbChanges DEF BeatsInTime, StopIsDeserved, Open
    <2>5. session[k].age \in Nat
      BY <2>1, OpenSession, SessionFields, TwoTypes, TunnelAssumption DEF Shape
    <2>6. k \in Open' /\ session[k].age # Timeout
      BY <2>1, <2>2, <2>5, AgeChanges DEF BeatsInTime
    <2>7. CASE session'[k].age = 0
      BY <2>1, <2>4, <2>6, <2>7 DEF BeatsInTime
    <2>8. ASSUME Tick, session'[k].age = ST!Aged(session[k]).age PROVE BeatsInTime(c)'
      <3>1. toServer = {} /\ hb[c] = "sleep" /\ hb'[c] = "awake"
        BY <1>0, <2>2, <2>8, TickWaits DEF BeatsInTime
      <3>2. session[k].age = 0
        BY <2>1, <2>2, <3>1 DEF BeatsInTime
      <3>3. session'[k].age = 1
        <4>1. session[k] \in ST!Session
          BY <2>1, OpenSession, TwoTypes DEF Shape
        <4>2. ST!Aged(session[k]).age = 1
          BY <3>2, <4>1, AgedSession, TunnelAssumption
        <4> QED
          BY <2>8, <4>2
      <3> QED
        BY <2>1, <2>6, <3>1, <3>3 DEF BeatsInTime
    <2>9. ASSUME session'[k].age = session[k].age, session[k].age # 0, session'[k].age # 0
          PROVE  BeatsInTime(c)'
      <3>1. session[k].age = 1 /\ (hb[c] = "awake" \/ Beat(c) \in toServer)
        BY <2>1, <2>2, <2>9 DEF BeatsInTime
      <3>2. ASSUME Beat(c) \in toServer PROVE Beat(c) \in toServer'
        <4>1. ~SrvUnknown(Beat(c))
          BY <2>1, ClientDatagrams DEF SrvUnknown, Knows, Open
        <4>2. ~SrvHeartbeat(Beat(c))
          <5>1. ASSUME SrvHeartbeat(Beat(c)) PROVE session'[k].age = 0
            <6>1. Beat(c).identity = k
              BY <2>1, ClientDatagrams
            <6>2. session'[k] = [ip |-> session[k].ip, mac |-> session[k].mac,
                                 address |-> Beat(c).from, age |-> 0]
              BY <3>2, <5>1, <6>1, Renewed
            <6> QED
              BY <6>2
          <5> QED
            BY <2>9, <5>1
        <4>3. Beat(c).type = kHeartbeat
          BY DEF Beat
        <4> QED
          BY <1>0, <3>2, <4>1, <4>2, <4>3, ToServerShrinks, KindsDiffer DEF Fast
      <3>3. hb'[c] = "awake" \/ Beat(c) \in toServer'
        BY <2>2, <3>1, <3>2, HbChanges DEF BeatsInTime
      <3> QED
        BY <2>1, <2>3, <2>4, <2>6, <2>9, <3>1, <3>3 DEF BeatsInTime
    <2> QED
      BY <2>1, <2>6, <2>7, <2>8, <2>9, AgeChanges
  <1> QED
    BY <1>1, <1>2, HandshakeChanges

LEMMA InitTimed == Init => Timed
  BY InitOwned, ClientAssumption DEF Timed, Init, ClientInit, AnswersFresh, Beating, Running

LEMMA SpecTimed == ASSUME ~Repeat, Timeout > 1 PROVE Spec => []Timed
  <1>1. Timed /\ [Next]_vars => Timed'
    BY OwnedKept, AnswersFreshKept, BeatingKept, EveryStep DEF Timed
  <1> QED
    BY <1>1, InitTimed, PTL DEF Spec

\* While the network is prompt and the server stays up, a running client never
\* loses its session, and is never told to stop, if the time-out is longer than
\* the heartbeat's period (45 and 5 seconds in the code).
THEOREM SessionsStayAlive == ASSUME ~Repeat, Timeout > 1 PROVE Spec => []KeptAlive
  <1>1. Timed => KeptAlive
    <2> SUFFICES ASSUME Timed, Fast, NEW c \in Client, Running(c), identity[c] \in Identity
                 PROVE  identity[c] \in Open /\ ~stop[c]
      BY DEF KeptAlive, Fast, Open
    <2>1. identity[c] \in Open
      BY DEF Timed, Beating, BeatsInTime
    <2> QED
      BY <2>1 DEF Timed, Owned, StopIsDeserved, Open, Shape, Named, TypeOK
  <1> QED
    BY <1>1, SpecTimed, PTL

-----------------------------------------------------------------------------
(***************************************************************************)
(* The server of this module is the table that TunnelServer implements.    *)
(***************************************************************************)

\* A server that is not restarted issues no identity that is in use.
LEMMA FreshIsClosed ==
  ASSUME Repeat \/ Owned, NEW k \in Fresh
  PROVE  k \in Identity /\ k \notin Open
  BY TunnelAssumption DEF Fresh, Owned, OpenIssued, Open

LEMMA StepIsTableStep ==
  ASSUME MaxCrash = 0, Shape, Repeat \/ Owned, Steps
  PROVE  [ST!Next]_session
  <1> USE TwoTypes DEF Shape
  <1>1. ASSUME NEW m \in toServer, NEW k \in Identity, NEW a \in Address, SrvStart(m, k, a)
        PROVE  ST!Next
    <2>1. m.from \in Client
      BY FromClientShape
    <2>2. k \notin ST!Open /\ a \notin {session[x].ip : x \in ST!Open}
      BY <1>1, FreshIsClosed DEF SrvStart, Free, Open
    <2> DEFINE s == [ip |-> a, mac |-> m.from, address |-> m.from, age |-> 0]
    <2>3. s \in ST!Session /\ s.ip = a
      BY <2>1, NewSession
    <2>4. session' = [session EXCEPT ![k] = s]
      BY <1>1 DEF SrvStart
    <2> HIDE DEF s
    <2>5. ST!Start(k)
      BY <2>2, <2>3, <2>4 DEF ST!Start
    <2> QED
      BY <2>5 DEF ST!Next
  <1>2. ASSUME NEW m \in toServer, SrvHeartbeat(m) PROVE ST!Next
    <2>1. m.from \in Client /\ m.identity \in Open /\ m.identity \in Identity
      BY <1>2, Renewed, OpenSession
    <2>2. ST!Heartbeat(m.identity)
      BY <1>2, <2>1 DEF SrvHeartbeat, ST!Heartbeat, Open
    <2> QED
      BY <2>1, <2>2 DEF ST!Next
  <1>3. ASSUME Tick PROVE ST!Next
    BY <1>3 DEF Tick, ST!Next
  <1>4. ASSUME NEW k \in Identity, SrvExpire(k) PROVE ST!Next
    BY <1>4 DEF SrvExpire, ST!Next
  <1>5. ~SrvCrash
    BY TunnelAssumption DEF SrvCrash, ServerTypes
  <1> QED
    BY <1>1, <1>2, <1>3, <1>4, <1>5, OtherSteps

\* As long as it is not restarted, the server the clients see is the SessionTable
\* that TunnelServer implements (theorem Refinement of TunnelServerTable_proofs):
\* what is proved here of clients and a network holds of that table, and no client
\* makes it do more.
THEOREM ServerIsSessionTable == ASSUME MaxCrash = 0 PROVE Spec => ST!Spec
  <1>1. Init => ST!Init
    BY DEF Init
  <1>2. CASE Repeat
    <2>1. Spec => []Shape
      BY InitShape, ShapeKept, EveryStep, PTL DEF Spec
    <2>2. Shape /\ [Next]_vars => [ST!Next]_session
      BY <1>2, StepIsTableStep, EveryStep
    <2> QED
      BY <1>1, <2>1, <2>2, PTL DEF Spec, ST!Spec
  <1>3. CASE ~Repeat
    <2>1. Spec => []Owned
      BY <1>3, SpecOwned
    <2>2. Owned /\ [Next]_vars => [ST!Next]_session
      BY StepIsTableStep, EveryStep DEF Owned, Named
    <2> QED
      BY <1>1, <2>1, <2>2, PTL DEF Spec, ST!Spec
  <1> QED
    BY <1>2, <1>3
=============================================================================
