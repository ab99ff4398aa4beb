----------------------------- MODULE SessionTable -----------------------------
(***************************************************************************)
(* What the tunnel server promises its clients, without threads, locks,    *)
(* objects or indices: a table of sessions by identity.  No two sessions   *)
(* have the same virtual address; a session only ever changes by getting   *)
(* older or by a heartbeat; it ends only when it is Timeout old.           *)
(***************************************************************************)
EXTENDS Naturals

CONSTANTS Identity, Address, Mac, Peer, Timeout, NoSession

VARIABLE session   \* [Identity -> a session or NoSession]

Session == [ip : Address, mac : Mac, address : Peer, age : 0 .. Timeout]

Open == {k \in Identity : session[k] # NoSession}

Init == session = [k \in Identity |-> NoSession]

\* A new session may already have aged when it becomes visible: its clock
\* starts before startSession has the lock.
Start(k) ==
  /\ k \notin Open
  /\ \E s \in Session : /\ s.ip \notin {session[x].ip : x \in Open}
                        /\ session' = [session EXCEPT ![k] = s]

Heartbeat(k) ==
  /\ k \in Open
  /\ \E p \in Peer : session' = [session EXCEPT
       ![k] = [ip |-> @.ip, mac |-> @.mac, address |-> p, age |-> 0]]

Expire(k) ==
  /\ k \in Open /\ session[k].age = Timeout
  /\ session' = [session EXCEPT ![k] = NoSession]

Aged(s) == [ip |-> s.ip, mac |-> s.mac, address |-> s.address,
            age |-> IF s.age < Timeout THEN s.age + 1 ELSE s.age]

Tick == session' = [k \in Identity |->
          IF k \in Open THEN Aged(session[k]) ELSE NoSession]

Next == Tick \/ \E k \in Identity : Start(k) \/ Heartbeat(k) \/ Expire(k)

Spec == Init /\ [][Next]_session

\* A session whose client stays silent does end.
FairSpec == Spec /\ \A k \in Identity : WF_session(Expire(k))
=============================================================================
