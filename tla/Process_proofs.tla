--------------------------- MODULE Process_proofs ---------------------------
(***************************************************************************)
(* Proofs about Process, and so about Logger and InitGlobal, for any set   *)
(* of threads, translation units, log files and command lines.             *)
(***************************************************************************)
EXTENDS Process, SequenceTheorems, FiniteSetTheorems, TLAPS

USE DEF mainVars, deviceVars, loggerVars, vars

-----------------------------------------------------------------------------
\* Sequences.

LEMMA ToSetOf ==
  ASSUME NEW S, NEW s \in Seq(S)
  PROVE  /\ Len(s) \in Nat
         /\ \A n \in 1 .. Len(s) : s[n] \in ToSet(s) /\ s[n] \in S
         /\ \A x \in ToSet(s) : \E n \in 1 .. Len(s) : x = s[n]
  BY ElementOfSeq, LenProperties DEF ToSet

LEMMA ToSetAppend ==
  ASSUME NEW S, NEW s \in Seq(S), NEW x \in S
  PROVE  /\ Append(s, x) \in Seq(S)
         /\ Len(Append(s, x)) = Len(s) + 1
         /\ \A n \in 1 .. Len(s) : Append(s, x)[n] = s[n]
         /\ Append(s, x)[Len(s) + 1] = x
         /\ ToSet(Append(s, x)) = ToSet(s) \cup {x}
  <1>1. /\ Append(s, x) \in Seq(S) /\ Len(s) \in Nat /\ Len(Append(s, x)) = Len(s) + 1
        /\ \A n \in 1 .. Len(s) : Append(s, x)[n] = s[n]
        /\ Append(s, x)[Len(s) + 1] = x
    BY AppendProperties, LenProperties
  <1>2. ASSUME NEW y \in ToSet(Append(s, x)) PROVE y \in ToSet(s) \cup {x}
    <2>1. PICK n \in 1 .. Len(s) + 1 : y = Append(s, x)[n]
      BY <1>1, ToSetOf
    <2>2. CASE n = Len(s) + 1
      BY <1>1, <2>1, <2>2
    <2>3. CASE n # Len(s) + 1
      <3>1. n \in 1 .. Len(s)
        BY <1>1, <2>3
      <3> QED
        BY <1>1, <2>1, <3>1, ToSetOf
    <2> QED
      BY <2>2, <2>3
  <1>3. ASSUME NEW y \in ToSet(s) PROVE y \in ToSet(Append(s, x))
    <2>1. PICK n \in 1 .. Len(s) : y = s[n]
      BY ToSetOf
    <2>2. n \in 1 .. Len(Append(s, x)) /\ Append(s, x)[n] = y
      BY <1>1, <2>1
    <2> QED
      BY <1>1, <2>2, ToSetOf
  <1>4. x \in ToSet(Append(s, x))
    <2>1. Len(s) + 1 \in 1 .. Len(Append(s, x))
      BY <1>1
    <2> QED
      BY <1>1, <2>1, ToSetOf
  <1> QED
    BY <1>1, <1>2, <1>3, <1>4

LEMMA ToSetTail ==
  ASSUME NEW S, NEW s \in Seq(S), s # <<>>
  PROVE  /\ Head(s) \in S /\ Head(s) \in ToSet(s) /\ Head(s) = s[1]
         /\ Tail(s) \in Seq(S)
         /\ Len(s) \in Nat /\ Len(s) > 0 /\ Len(Tail(s)) = Len(s) - 1
         /\ \A n \in 1 .. Len(s) - 1 : Tail(s)[n] = s[n + 1]
         /\ ToSet(s) = ToSet(Tail(s)) \cup {Head(s)}
  <1>1. /\ Head(s) \in S /\ Tail(s) \in Seq(S) /\ Len(Tail(s)) = Len(s) - 1 /\ Len(s) \in Nat
        /\ \A n \in 1 .. Len(Tail(s)) : Tail(s)[n] = s[n + 1]
    BY HeadTailProperties, LenProperties
  <1>2. Head(s) = s[1] /\ Len(s) > 0
    OBVIOUS
  <1>3. Head(s) \in ToSet(s)
    BY <1>1, <1>2, ToSetOf
  <1>4. ASSUME NEW x \in ToSet(s) PROVE x = Head(s) \/ x \in ToSet(Tail(s))
    <2>1. PICK n \in 1 .. Len(s) : x = s[n]
      BY ToSetOf
    <2>2. CASE n = 1
      BY <1>2, <2>1, <2>2
    <2>3. CASE n # 1
      <3>1. n - 1 \in 1 .. Len(Tail(s)) /\ Tail(s)[n - 1] = s[n]
        BY <1>1, <2>3
      <3> QED
        BY <1>1, <2>1, <3>1, ToSetOf
    <2> QED
      BY <2>2, <2>3
  <1>5. ASSUME NEW x \in ToSet(Tail(s)) PROVE x \in ToSet(s)
    <2>1. PICK n \in 1 .. Len(Tail(s)) : x = Tail(s)[n]
      BY <1>1, ToSetOf
    <2>2. Tail(s)[n] = s[n + 1] /\ n + 1 \in 1 .. Len(s)
      BY <1>1
    <2> QED
      BY <2>1, <2>2, ToSetOf
  <1> QED
    BY <1>1, <1>2, <1>3, <1>4, <1>5

LEMMA FrontOf ==
  ASSUME NEW S, NEW s \in Seq(S), s # <<>>
  PROVE  /\ Last(s) \in S /\ Front(s) \in Seq(S)
         /\ Len(s) \in Nat /\ Len(s) > 0 /\ Len(Front(s)) = Len(s) - 1
         /\ ToSet(s) = ToSet(Front(s)) \cup {Last(s)}
  <1>1. Len(s) \in Nat /\ Len(s) > 0 /\ \A n \in 1 .. Len(s) : s[n] \in S
    BY LenProperties, ElementOfSeq
  <1> DEFINE m == Len(s) - 1
  <1>2. 1 \in Int /\ m \in Int /\ m \in Nat /\ \A n \in 1 .. m : s[n] \in S
    BY <1>1
  <1>3. /\ SubSeq(s, 1, m) \in Seq(S)
        /\ Len(SubSeq(s, 1, m)) = (IF 1 <= m THEN m - 1 + 1 ELSE 0)
        /\ \A n \in 1 .. m - 1 + 1 : SubSeq(s, 1, m)[n] = s[1 + n - 1]
    <2> HIDE DEF m
    <2> QED
      BY <1>2, SubSeqProperties
  <1>4. Front(s) \in Seq(S) /\ Last(s) = s[m + 1] /\ m + 1 = Len(s)
    BY <1>1, <1>3 DEF Front, Last
  <1>5. Len(Front(s)) = m
    <2>1. Len(Front(s)) = (IF 1 <= m THEN m - 1 + 1 ELSE 0)
      BY <1>3 DEF Front
    <2> HIDE DEF m
    <2> QED
      BY <1>2, <2>1
  <1>6. \A n \in 1 .. m : Front(s)[n] = s[n]
    <2>1. m - 1 + 1 = m /\ \A n \in 1 .. m : 1 + n - 1 = n
      BY <1>2
    <2> QED
      BY <1>3, <2>1 DEF Front
  <1>7. ASSUME NEW x \in ToSet(s) PROVE x = Last(s) \/ x \in ToSet(Front(s))
    <2>1. PICK n \in 1 .. Len(s) : x = s[n]
      BY ToSetOf
    <2>2. CASE n = m + 1
      BY <1>4, <2>1, <2>2
    <2>3. CASE n # m + 1
      <3>1. n \in 1 .. m
        BY <1>1, <2>3
      <3> QED
        BY <1>4, <1>5, <1>6, <2>1, <3>1, ToSetOf
    <2> QED
      BY <2>2, <2>3
  <1>8. ASSUME NEW x \in ToSet(Front(s)) PROVE x \in ToSet(s)
    <2>1. PICK n \in 1 .. m : x = Front(s)[n]
      BY <1>4, <1>5, ToSetOf
    <2>2. Front(s)[n] = s[n] /\ n \in 1 .. Len(s)
      BY <1>1, <1>6
    <2> QED
      BY <2>1, <2>2, ToSetOf
  <1>9. Last(s) \in ToSet(s) /\ Last(s) \in S
    <2>1. Len(s) \in 1 .. Len(s)
      BY <1>1
    <2> QED
      BY <2>1, ToSetOf DEF Last
  <1> QED
    BY <1>1, <1>4, <1>5, <1>7, <1>8, <1>9

-----------------------------------------------------------------------------
(***************************************************************************)
(* The types, and the steps.                                               *)
(***************************************************************************)
Files  == Target \cup {Stderr}
Global == [counter : Nat, object : {"raw", "alive", "dead"}]
Places == {"off", "quiet", "commit", "lock", "prefix", "body", "done"}
Writes == [by : Thread, text : Seq(Nat)]
Call   == {"open", "setiff", "mac", "adapter", "control", "ifup", "close", "media",
           "address", "socket", "bind", "handshake"}
Handle == {"tun", "control", "socket"}

LogTypes ==
  /\ at \in [Thread -> Places]
  /\ file \in [Thread -> Files \cup {NoFile}]
  /\ \A t \in Thread : Logging(t) /\ at[t] # "commit" => file[t] \in Files
  /\ buffer \in [Thread -> Seq(Nat)]
  /\ written \in [Files -> Seq(Writes)]
  /\ mutex \in Thread \cup {NoThread}
  /\ logFile \in Target \cup {NoFile}
  /\ statements \in Nat

GlobalTypes ==
  /\ logger \in Global /\ wsa \in Global
  /\ units \in Seq(Unit)
  /\ logger.counter = Len(units)
  /\ platform = "win32" => wsa.counter = Len(units)

MainTypes ==
  /\ platform \in {"unix", "win32"}
  /\ argv \in CommandLine /\ argv \in Seq(STRING)
  /\ i \in Nat /\ i % 2 = 1
  /\ config \in [remote : Nat, local : Nat, log : Target \cup {""}]
  /\ pc \in {"static", "parse", "setup", "unwind", "exit", "aborted"}

DeviceTypes ==
  /\ calls \in Seq(Call) /\ ready \subseteq Call
  /\ handles \subseteq Handle /\ objects \in Seq({"tun", "socket"})

Typed == LogTypes /\ GlobalTypes /\ MainTypes /\ DeviceTypes

\* A process that ends at once leaves everything as it is.
Aborts ==
  /\ pc' = "aborted"
  /\ UNCHANGED <<platform, argv, units, wsa, i, config, deviceVars, loggerVars>>

\* The statements of a thread.
Speaks(t) == Say(t) \/ (SayPart(t) /\ Len(buffer[t]) = 0)

\* The steps, grouped by what they leave alone.
Static   == (\E u \in Unit : EnterUnit(u)) \/ StartMain
Parsing  == ParseOption \/ ParseThrows \/ ParseFails \/ ParseDone \/ TargetThrows
Setup    == CallReturns \/ CallThrows \/ HandshakeRetry \/ HandshakeFails
Threads  == \/ \E t \in Worker : StartThread(t)
            \/ JoinAll
            \/ \E t \in Worker : pc # "aborted" /\ (WorkerSays(t) \/ WorkerEnds(t))
Commit   == \E t \in Thread : pc # "aborted" /\ Commits(t)
Leaving  == Destroy \/ MainReturns \/ LeaveUnit

Steps == Static \/ Parsing \/ Setup \/ Threads \/ Commit \/ Leaving \/ Aborts \/ UNCHANGED vars

LEMMA EveryStep == [Next]_vars => Steps
  <1>1. Abort => Aborts
    BY DEF Abort, Aborts, MainGoto
  <1>2. StartWSAThrows \/ ParseCrashes \/ HandshakeAborts \/ ThreadThrows \/ DestroyThrows
          \/ AdapterCrashes => Aborts
    BY <1>1 DEF StartWSAThrows, ParseCrashes, HandshakeAborts, ThreadThrows, DestroyThrows,
       AdapterCrashes
  <1>3. \A t \in Thread : SocketThrows(t) \/ TuntapThrows(t) \/ WriteThrows(t) => Aborts
    BY <1>1 DEF SocketThrows, TuntapThrows, WriteThrows
  <1>4. ~Ended => pc # "aborted"
    BY DEF Ended
  <1>5. MainStep => Steps
    BY <1>2 DEF MainStep, Steps, Static, Parsing, Setup, Threads, Leaving
  <1>6. ASSUME ~Ended, NEW t \in Worker, WorkerStep(t) PROVE Steps
    <2>1. t \in Thread
      BY DEF Worker
    <2> QED
      BY <1>3, <1>4, <1>6, <2>1 DEF WorkerStep, Steps, Threads
  <1>7. ASSUME ~Ended, NEW t \in Thread, Commits(t) \/ WriteThrows(t) PROVE Steps
    BY <1>3, <1>4, <1>7 DEF Steps, Commit
  <1> QED
    BY <1>5, <1>6, <1>7 DEF Next, Steps

\* What a statement and a commit do to the log.
LEMMA SpeakTypes ==
  ASSUME LogTypes, NEW t \in Thread, Speaks(t)
  PROVE  LogTypes'
  <1>1. statements' \in Nat /\ statements' = statements + 1
    BY DEF LogTypes, Speaks, Say, SayPart, Compose
  <1>2. /\ buffer[t] \in Seq(Nat)
        /\ buffer' = [buffer EXCEPT ![t] = Append(buffer[t], statements')]
    BY DEF LogTypes, Speaks, Say, SayPart, Compose
  <1>3. Append(buffer[t], statements') \in Seq(Nat)
    BY <1>1, <1>2, ToSetAppend
  <1>4. buffer' \in [Thread -> Seq(Nat)]
    BY <1>2, <1>3 DEF LogTypes
  <1>5. at' \in [Thread -> Places] /\ (at' = at \/ at' = [at EXCEPT ![t] = "commit"])
    BY DEF LogTypes, Speaks, Say, SayPart, Goto, Places
  <1>6. UNCHANGED <<file, written, mutex, logFile>>
    BY DEF Speaks, Say, SayPart, Compose
  <1>7. \A u \in Thread : Logging(u)' /\ at'[u] # "commit" => file'[u] \in Files
    BY <1>5, <1>6 DEF LogTypes, Logging
  <1> QED
    BY <1>1, <1>4, <1>5, <1>6, <1>7 DEF LogTypes

LEMMA AppendWritten ==
  ASSUME LogTypes, NEW f \in Files, NEW x \in Writes,
         written' = [written EXCEPT ![f] = Append(written[f], x)]
  PROVE  written' \in [Files -> Seq(Writes)]
  <1>1. Append(written[f], x) \in Seq(Writes)
    BY ToSetAppend DEF LogTypes
  <1> QED
    BY <1>1 DEF LogTypes

LEMMA CommitTypes ==
  ASSUME LogTypes, NEW t \in Thread, CommitStep(t)
  PROVE  LogTypes'
  <1>1. CASE ReadTarget(t)
    <2>1. file' = [file EXCEPT ![t] = IF logFile = NoFile THEN Stderr ELSE logFile]
      BY <1>1 DEF ReadTarget
    <2>2. (IF logFile = NoFile THEN Stderr ELSE logFile) \in Files
      BY DEF LogTypes, Files
    <2> QED
      BY <1>1, <2>1, <2>2 DEF ReadTarget, LogTypes, Goto, Places, Logging
  <1>2. CASE LockLog(t)
    BY <1>2 DEF LockLog, LogTypes, Goto, Places, Logging
  <1>3. CASE WritePrefix(t)
    <2>1. file[t] \in Files /\ Prefix(t) \in Writes
      BY <1>3 DEF WritePrefix, LogTypes, Logging, Prefix, Writes
    <2>2. written' \in [Files -> Seq(Writes)]
      BY <1>3, <2>1, AppendWritten DEF WritePrefix, Write
    <2> QED
      BY <1>3, <2>2 DEF WritePrefix, LogTypes, Goto, Places, Logging
  <1>4. CASE WriteBody(t)
    <2>1. file[t] \in Files /\ Body(t) \in Writes
      BY <1>4 DEF WriteBody, LogTypes, Logging, Body, Writes
    <2>2. written' \in [Files -> Seq(Writes)]
      BY <1>4, <2>1, AppendWritten DEF WriteBody, Write
    <2> QED
      BY <1>4, <2>2 DEF WriteBody, LogTypes, Goto, Places, Logging
  <1> QED
    BY <1>1, <1>2, <1>3, <1>4 DEF CommitStep

LEMMA Threads0 == Main \in Thread /\ \A t \in Worker : t \in Thread /\ t # Main
  BY ProcessAssumption DEF Worker

\* What main() has still to do, one call after the other.
Parts == {UnixTunCalls, UnixIfCalls, Win32TunCalls, Win32IfCalls,
          <<"socket", "bind">>, <<"socket", "handshake">>}

LEMMA PartTypes == ASSUME NEW s \in Parts PROVE s \in Seq(Call)
  <1>1. /\ <<"open", "setiff", "mac">> \in Seq(Call)
        /\ <<"adapter", "open">> \in Seq(Call)
        /\ <<"control", "ifup", "close">> \in Seq(Call)
        /\ <<"media", "address">> \in Seq(Call)
        /\ <<"socket", "bind">> \in Seq(Call)
        /\ <<"socket", "handshake">> \in Seq(Call)
    BY DEF Call
  <1> QED
    BY <1>1 DEF Parts, UnixTunCalls, UnixIfCalls, Win32TunCalls, Win32IfCalls

LEMMA PlanTypes == ServerCalls \in Seq(Call) /\ ClientCalls \in Seq(Call)
  <1>1. TunCalls \in Seq(Call) /\ IfCalls \in Seq(Call)
    BY PartTypes DEF TunCalls, IfCalls, Parts
  <1>2. <<"socket", "bind">> \in Seq(Call) /\ <<"socket", "handshake">> \in Seq(Call)
    BY PartTypes DEF Parts
  <1> QED
    BY <1>1, <1>2, ConcatProperties DEF ServerCalls, ClientCalls

LEMMA LogTypesKept == ASSUME Typed, Steps PROVE LogTypes'
  <1> USE DEF Typed
  <1>1. ASSUME NEW t \in Thread, Speaks(t) PROVE LogTypes'
    BY <1>1, SpeakTypes
  <1>2. ASSUME NEW t \in Thread, CommitStep(t) PROVE LogTypes'
    BY <1>2, CommitTypes
  <1>3. ASSUME UNCHANGED <<at, file, buffer, written, mutex, logFile, statements>> PROVE LogTypes'
    BY <1>3 DEF LogTypes, Logging
  <1>4. ASSUME config.log # "", SetTarget(config.log) PROVE LogTypes'
    <2>1. config.log \in Target
      BY <1>4 DEF MainTypes
    <2> QED
      BY <1>4, <2>1 DEF SetTarget, LogTypes, Logging
  <1>5. ASSUME NEW t \in Thread, NEW w \in {"quiet", "done"}, Goto(t, w),
               UNCHANGED <<file, buffer, written, mutex, logFile, statements>>
        PROVE  LogTypes'
    BY <1>5 DEF Goto, LogTypes, Logging, Places
  <1>6. CASE Static
    BY <1>3, <1>6 DEF Static, EnterUnit, EnterLogger, StartMain
  <1>7. CASE Parsing
    <2>1. CASE ParseFails
      <3>1. Speaks(Main)
        BY <2>1 DEF ParseFails, Speaks
      <3> QED
        BY <1>1, <3>1, Threads0
    <2>2. CASE ParseDone
      BY <1>3, <1>4, <2>2 DEF ParseDone
    <2> QED
      BY <1>3, <1>7, <2>1, <2>2 DEF Parsing, ParseOption, ParseThrows, TargetThrows
  <1>8. CASE Setup
    <2>1. CASE HandshakeRetry \/ HandshakeFails
      <3>1. Speaks(Main)
        BY <2>1 DEF HandshakeRetry, HandshakeFails, Speaks
      <3> QED
        BY <1>1, <3>1, Threads0
    <2> QED
      BY <1>3, <1>8, <2>1 DEF Setup, CallReturns, CallThrows
  <1>9. CASE Threads
    <2>1. ASSUME NEW t \in Worker, WorkerSays(t) PROVE LogTypes'
      <3>1. Speaks(t)
        BY <2>1 DEF WorkerSays, Speaks
      <3> QED
        BY <1>1, <3>1, Threads0
    <2> QED
      BY <1>3, <1>5, <1>9, <2>1, Threads0 DEF Threads, StartThread, JoinAll, WorkerEnds
  <1>10. CASE Commit
    BY <1>2, <1>10 DEF Commit, Commits
  <1>11. CASE Leaving
    BY <1>3, <1>11 DEF Leaving, Destroy, MainReturns, LeaveUnit, LeaveLogger
  <1> QED
    BY <1>3, <1>6, <1>7, <1>8, <1>9, <1>10, <1>11 DEF Steps, Aborts

LEMMA EnterTypes ==
  ASSUME NEW g \in Global
  PROVE  AfterEnter(g) \in Global /\ AfterEnter(g).counter = g.counter + 1
         /\ (g.counter = 0 => AfterEnter(g).object = "alive")
         /\ (g.counter # 0 => AfterEnter(g).object = g.object)
  BY DEF Global, AfterEnter

LEMMA LeaveTypes ==
  ASSUME NEW g \in Global, g.counter > 0
  PROVE  AfterLeave(g) \in Global /\ AfterLeave(g).counter = g.counter - 1
         /\ (g.counter # 1 => AfterLeave(g).object = g.object)
  BY DEF Global, AfterLeave

\* The other steps leave the counted globals alone.
LEMMA GlobalsAlone ==
  ASSUME Steps
  PROVE  \/ \E u \in Unit : EnterUnit(u)
         \/ LeaveUnit
         \/ UNCHANGED <<platform, units, logger, wsa>>
  <1>1. ASSUME NEW t, Speaks(t) \/ CommitStep(t) PROVE UNCHANGED logger
    BY <1>1 DEF Speaks, Say, SayPart, Compose, CommitStep, ReadTarget, LockLog, WritePrefix, WriteBody
  <1>2. CASE Static
    BY <1>2 DEF Static, StartMain, MainGoto
  <1>3. CASE Parsing
    BY <1>1, <1>3 DEF Parsing, ParseOption, ParseThrows, ParseFails, ParseDone, TargetThrows,
       MainGoto, SetTarget, Speaks
  <1>4. CASE Setup
    BY <1>1, <1>4 DEF Setup, CallReturns, CallThrows, HandshakeRetry, HandshakeFails, Speaks
  <1>5. CASE Threads
    BY <1>1, <1>5 DEF Threads, StartThread, JoinAll, WorkerSays, WorkerEnds, Speaks
  <1>6. CASE Commit
    BY <1>1, <1>6 DEF Commit, Commits
  <1>7. CASE Leaving
    BY <1>7 DEF Leaving, Destroy, MainReturns, MainGoto
  <1> QED
    BY <1>2, <1>3, <1>4, <1>5, <1>6, <1>7 DEF Steps, Aborts

LEMMA GlobalTypesKept == ASSUME Typed, Steps PROVE GlobalTypes'
  <1> USE DEF Typed
  <1>1. ASSUME NEW u \in Unit, EnterUnit(u) PROVE GlobalTypes'
    <2>1. /\ units' = Append(units, u) /\ logger' = AfterEnter(logger) /\ platform' = platform
          /\ wsa' = IF platform = "win32" THEN AfterEnter(wsa) ELSE wsa
      BY <1>1 DEF EnterUnit, EnterLogger
    <2>2. units' \in Seq(Unit) /\ Len(units') = Len(units) + 1
      BY <2>1, ToSetAppend DEF GlobalTypes
    <2> QED
      BY <2>1, <2>2, EnterTypes DEF GlobalTypes
  <1>2. CASE LeaveUnit
    <2>1. /\ units' = Front(units) /\ logger' = AfterLeave(logger) /\ platform' = platform
          /\ wsa' = IF platform = "win32" THEN AfterLeave(wsa) ELSE wsa
          /\ units # <<>>
      BY <1>2 DEF LeaveUnit, LeaveLogger
    <2>2. units' \in Seq(Unit) /\ Len(units') = Len(units) - 1 /\ Len(units) > 0
      BY <2>1, FrontOf DEF GlobalTypes
    <2> QED
      BY <2>1, <2>2, LeaveTypes DEF GlobalTypes
  <1>3. CASE UNCHANGED <<platform, units, logger, wsa>>
    BY <1>3 DEF GlobalTypes
  <1> QED
    BY <1>1, <1>2, <1>3, GlobalsAlone

\* What parseCommandLine makes of an option and its value.
LEMMA OptionTypes ==
  ASSUME Typed, ParseOption
  PROVE  /\ config' \in [remote : Nat, local : Nat, log : Target \cup {""}]
         /\ i' \in Nat /\ i' % 2 = 1 /\ i' = i + 2 /\ i < Len(argv) /\ i \in 1 .. Len(argv)
         /\ i + 1 \in 1 .. Len(argv) /\ argv[i] \in Option
         /\ UNCHANGED <<platform, argv, pc>>
  <1>0. i \in Nat /\ i % 2 = 1 /\ argv \in CommandLine /\ argv \in Seq(STRING)
    BY DEF Typed, MainTypes
  <1>1. /\ i' = i + 2 /\ i < Len(argv) /\ argv[i] \in Option /\ UNCHANGED <<platform, argv, pc>>
        /\ config' = Configured(argv[i], argv[i + 1])
    BY DEF ParseOption
  <1>2. Len(argv) \in Nat
    BY <1>0, LenProperties
  <1>3. i' \in Nat /\ i' % 2 = 1 /\ i \in 1 .. Len(argv) /\ i + 1 \in 1 .. Len(argv)
    BY <1>0, <1>1, <1>2
  <1>4. /\ AddressText[argv[i + 1]] \in [colon : BOOLEAN, port : Nat, resolves : BOOLEAN]
        /\ i + 1 > 1 /\ argv[(i + 1) - 1] = "--log" => argv[i + 1] \in Target \cup {""}
    BY <1>0, <1>3, ProcessAssumption
  <1>5. (i + 1) - 1 = i /\ i + 1 > 1
    BY <1>0
  <1>6. AddressText[argv[i + 1]].port \in Nat
    BY <1>4
  <1>7. argv[i] = "--log" => argv[i + 1] \in Target \cup {""}
    BY <1>4, <1>5
  <1>8. config' \in [remote : Nat, local : Nat, log : Target \cup {""}]
    BY <1>1, <1>6, <1>7 DEF Configured, Option, Typed, MainTypes
  <1> QED
    BY <1>0, <1>1, <1>3, <1>8

LEMMA MainTypesKept == ASSUME Typed, Steps PROVE MainTypes'
  <1> USE DEF Typed, MainTypes
  <1>1. ASSUME NEW w \in {"static", "parse", "setup", "unwind", "exit", "aborted"},
               pc' = w, UNCHANGED <<platform, argv, i, config>>
        PROVE  MainTypes'
    BY <1>1
  <1>2. CASE ParseOption
    BY <1>2, OptionTypes
  <1>3. CASE UNCHANGED <<platform, argv, i, config, pc>>
    BY <1>3
  <1>4. CASE Static
    BY <1>1, <1>3, <1>4 DEF Static, EnterUnit, StartMain, MainGoto
  <1>5. CASE Parsing
    BY <1>1, <1>2, <1>5 DEF Parsing, ParseThrows, ParseFails, ParseDone, TargetThrows, Return, MainGoto
  <1>6. CASE Setup
    BY <1>1, <1>3, <1>6 DEF Setup, CallReturns, CallThrows, HandshakeRetry, HandshakeFails, Return
  <1>7. CASE Threads
    BY <1>1, <1>3, <1>7 DEF Threads, StartThread, JoinAll, WorkerSays, WorkerEnds, Return
  <1>8. CASE Commit
    BY <1>3, <1>8 DEF Commit, Commits
  <1>9. CASE Leaving
    BY <1>1, <1>3, <1>9 DEF Leaving, Destroy, MainReturns, MainGoto, LeaveUnit
  <1> QED
    BY <1>1, <1>3, <1>4, <1>5, <1>6, <1>7, <1>8, <1>9 DEF Steps, Aborts

\* The call after which Tuntap() is constructed.
LEMMA LastOfTun == Last(TunCalls) = IF platform = "unix" THEN "mac" ELSE "open"
  <1>1. Len(<<"open", "setiff", "mac">>) = 3 /\ <<"open", "setiff", "mac">>[3] = "mac"
    OBVIOUS
  <1>2. Len(<<"adapter", "open">>) = 2 /\ <<"adapter", "open">>[2] = "open"
    OBVIOUS
  <1> QED
    BY <1>1, <1>2 DEF Last, TunCalls, UnixTunCalls, Win32TunCalls

\* What a system call leaves behind.
LEMMA CallDoes ==
  ASSUME Typed, CallReturns
  PROVE  /\ pc = "setup" /\ pc' = pc /\ calls # <<>> /\ Head(calls) \in Call
         /\ calls' = Tail(calls) /\ calls' \in Seq(Call)
         /\ ready' = IF Inverted(Head(calls)) THEN ready ELSE ready \cup {Head(calls)}
         /\ handles' = HandlesAfter(Head(calls)) /\ objects' = ObjectsAfter(Head(calls))
         /\ Head(calls) = Last(TunCalls) =>
              objects' = Append(objects, "tun")
         /\ Head(calls) # Last(TunCalls) /\ Head(calls) = "socket" =>
              objects' = Append(objects, "socket")
         /\ Head(calls) # Last(TunCalls) /\ Head(calls) # "socket" => objects' = objects
         /\ UNCHANGED <<mainVars, thrown, status, loggerVars>>
  <1>1. /\ pc = "setup" /\ pc' = pc /\ calls # <<>>
        /\ calls' = Tail(calls)
        /\ ready' = IF Inverted(Head(calls)) THEN ready ELSE ready \cup {Head(calls)}
        /\ handles' = HandlesAfter(Head(calls)) /\ objects' = ObjectsAfter(Head(calls))
        /\ UNCHANGED <<mainVars, thrown, status, loggerVars>>
    BY DEF CallReturns, MainAt
  <1>2. Head(calls) \in Call /\ calls' \in Seq(Call)
    BY <1>1, ToSetTail DEF Typed, DeviceTypes
  <1>3. \A x \in {"tun", "socket"} : objects \o <<x>> = Append(objects, x)
    BY AppendIsConcat DEF Typed, DeviceTypes
  <1>4. objects \o <<>> = objects
    BY ConcatEmptySeq DEF Typed, DeviceTypes
  <1> QED
    <2>1. Head(calls) = Last(TunCalls) => objects' = Append(objects, "tun")
      BY <1>1, <1>3, LastOfTun DEF ObjectsAfter
    <2>2. Head(calls) # Last(TunCalls) /\ Head(calls) = "socket" =>
            objects' = Append(objects, "socket")
      <3> SUFFICES ASSUME Head(calls) # Last(TunCalls), Head(calls) = "socket"
                   PROVE  objects' = Append(objects, "socket")
        OBVIOUS
      <3>1. ObjectsAfter(Head(calls)) = objects \o <<"socket">>
        BY Zenon DEF ObjectsAfter
      <3> QED
        BY <1>1, <1>3, <3>1
    <2>3. Head(calls) # Last(TunCalls) /\ Head(calls) # "socket" => objects' = objects
      BY <1>1, <1>4 DEF ObjectsAfter
    <2> QED
      BY <1>1, <1>2, <2>1, <2>2, <2>3

LEMMA DeviceTypesKept == ASSUME Typed, Steps PROVE DeviceTypes'
  <1> USE DEF Typed, DeviceTypes
  <1>1. CASE CallReturns
    <2>1. \A x \in {"tun", "socket"} : Append(objects, x) \in Seq({"tun", "socket"})
      BY ToSetAppend
    <2>2. objects' \in Seq({"tun", "socket"})
      BY <1>1, <2>1, CallDoes
    <2>3. HandlesAfter(Head(calls)) \subseteq Handle
      BY DEF HandlesAfter, Handle
    <2> QED
      BY <1>1, <2>2, <2>3, CallDoes
  <1>2. CASE Destroy
    <2>1. objects' \in Seq({"tun", "socket"})
      BY <1>2, FrontOf DEF Destroy
    <2> QED
      BY <1>2, <2>1 DEF Destroy
  <1>3. CASE ParseDone
    BY <1>3, PlanTypes DEF ParseDone
  <1>4. CASE UNCHANGED <<calls, ready, handles, objects>>
    BY <1>4
  <1>5. CASE Static
    BY <1>4, <1>5 DEF Static, EnterUnit, StartMain
  <1>6. CASE Parsing
    BY <1>3, <1>4, <1>6 DEF Parsing, ParseOption, ParseThrows, ParseFails, TargetThrows
  <1>7. CASE Setup
    BY <1>1, <1>4, <1>7 DEF Setup, CallThrows, HandshakeRetry, HandshakeFails
  <1>8. CASE Threads
    BY <1>4, <1>8 DEF Threads, StartThread, JoinAll, WorkerSays, WorkerEnds
  <1>9. CASE Commit
    BY <1>4, <1>9 DEF Commit, Commits
  <1>10. CASE Leaving
    BY <1>2, <1>4, <1>10 DEF Leaving, MainReturns, LeaveUnit
  <1> QED
    BY <1>4, <1>5, <1>6, <1>7, <1>8, <1>9, <1>10 DEF Steps, Aborts

LEMMA OneIsOdd == 1 \in Nat /\ 1 % 2 = 1
  OBVIOUS

LEMMA InitTyped == Init => Typed
  <1> SUFFICES ASSUME Init PROVE Typed
    OBVIOUS
  <1> USE DEF Init, LoggerInit
  <1>1. LogTypes
    BY EmptySeq DEF LogTypes, Files, Places, Logging
  <1>2. GlobalTypes
    BY EmptySeq DEF GlobalTypes, Global, NewGlobal
  <1>3. MainTypes
    <2>1. argv \in CommandLine /\ argv \in Seq(STRING) /\ platform \in {"unix", "win32"}
      BY ProcessAssumption
    <2>2. i = 1
      OBVIOUS
    <2> QED
      BY <2>1, <2>2, OneIsOdd DEF MainTypes
  <1>4. DeviceTypes
    BY EmptySeq DEF DeviceTypes
  <1> QED
    BY <1>1, <1>2, <1>3, <1>4 DEF Typed

LEMMA TypedKept == ASSUME Typed, Steps PROVE Typed'
  BY LogTypesKept, GlobalTypesKept, MainTypesKept, DeviceTypesKept DEF Typed

-----------------------------------------------------------------------------
(***************************************************************************)
(* What has happened, and what can, in each part of the process's life.    *)
(***************************************************************************)
NothingYet ==
  /\ at[Main] = "quiet" /\ \A t \in Worker : at[t] = "off"
  /\ handles = {} /\ objects = <<>> /\ ready = {} /\ logFile = NoFile
  /\ \A f \in Files : written[f] = <<>>

BeforeSetup    == pc \in {"static", "parse"} => NothingYet
ThreadsAtEnd   == \A t \in Worker : at[t] # "off" => calls = <<>>
ThreadsInSetup == \A t \in Worker : at[t] \notin {"off", "done"} => pc \in {"setup", "aborted"}
AfterReturn    == pc = "exit" => at[Main] = "quiet" /\ objects = <<>>
UnitsThere     == /\ pc \in {"parse", "setup", "unwind"} => units # <<>>
                  /\ \A t \in Thread : Logging(t) => units # <<>>
                  /\ objects # <<>> => units # <<>>

Phases == Typed /\ BeforeSetup /\ ThreadsAtEnd /\ ThreadsInSetup /\ AfterReturn /\ UnitsThere

LEMMA SpeakDoes ==
  ASSUME Typed, NEW t \in Thread, Speaks(t)
  PROVE  /\ at[t] = "quiet" /\ (at'[t] = "quiet" \/ at'[t] = "commit")
         /\ \A u \in Thread \ {t} : at'[u] = at[u] /\ buffer'[u] = buffer[u]
         /\ statements' = statements + 1
         /\ buffer'[t] = Append(buffer[t], statements')
         /\ UNCHANGED <<logger, logFile, openFiles, mutex, file, written>>
  BY DEF Typed, LogTypes, Speaks, Say, SayPart, Compose, Goto

LEMMA CommitDoes ==
  ASSUME Typed, NEW t \in Thread, CommitStep(t)
  PROVE  /\ Logging(t) /\ at'[t] \in {"lock", "prefix", "body", "quiet"}
         /\ \A u \in Thread \ {t} : at'[u] = at[u]
         /\ UNCHANGED <<logger, logFile, openFiles, statements>>
  BY DEF Typed, LogTypes, CommitStep, ReadTarget, LockLog, WritePrefix, WriteBody, Goto, Logging

LEMMA StaticPhases == ASSUME Phases, Static PROVE Phases'
  <1> USE DEF Phases, BeforeSetup, ThreadsAtEnd, ThreadsInSetup, AfterReturn, UnitsThere
  <1>1. Typed'
    BY TypedKept DEF Steps
  <1>2. ASSUME NEW u \in Unit, EnterUnit(u) PROVE Phases'
    <2>1. /\ pc = "static" /\ units' = Append(units, u)
          /\ UNCHANGED <<pc, at, deviceVars, logFile, written>>
      BY <1>2 DEF EnterUnit, EnterLogger
    <2>2. units' # <<>>
      BY <2>1, AppendProperties DEF Typed, GlobalTypes
    <2> QED
      BY <1>1, <2>1, <2>2 DEF NothingYet, Logging
  <1>3. CASE StartMain
    <2>1. /\ pc = "static" /\ pc' = "parse" /\ ToSet(units) = Unit
          /\ UNCHANGED <<units, at, deviceVars, logFile, written>>
      BY <1>3 DEF StartMain, MainGoto
    <2>2. units # <<>>
      <3>1. PICK u : u \in ToSet(units)
        BY <2>1, ProcessAssumption
      <3>2. PICK n \in 1 .. Len(units) : u = units[n]
        BY <3>1, ToSetOf DEF Typed, GlobalTypes
      <3> QED
        BY <3>2, EmptySeq
    <2> QED
      BY <1>1, <2>1, <2>2 DEF NothingYet, Logging
  <1> QED
    BY <1>2, <1>3 DEF Static

LEMMA ParsingPhases == ASSUME Phases, Parsing PROVE Phases'
  <1> USE DEF Phases, BeforeSetup, ThreadsAtEnd, ThreadsInSetup, AfterReturn, UnitsThere
  <1>1. Typed'
    BY TypedKept DEF Steps
  <1>2. pc = "parse" /\ NothingYet /\ UNCHANGED <<units, handles, objects, ready>>
    BY DEF Parsing, ParseOption, ParseThrows, ParseFails, ParseDone, TargetThrows, MainAt, MainGoto
  <1>3. CASE ParseOption
    BY <1>1, <1>2, <1>3 DEF ParseOption, NothingYet, Logging
  <1>4. CASE ParseThrows \/ TargetThrows
    BY <1>1, <1>2, <1>4 DEF ParseThrows, TargetThrows, NothingYet, Logging, Return
  <1>5. CASE ParseFails
    <2>1. Speaks(Main) /\ pc' = "unwind" /\ calls' = calls
      BY <1>5 DEF ParseFails, Speaks, Return
    <2> QED
      BY <1>1, <1>2, <2>1, SpeakDoes, Threads0 DEF NothingYet, Logging
  <1>6. CASE ParseDone
    BY <1>1, <1>2, <1>6 DEF ParseDone, NothingYet, Logging, MainGoto, SetTarget
  <1> QED
    BY <1>3, <1>4, <1>5, <1>6 DEF Parsing

LEMMA SetupPhases == ASSUME Phases, Setup PROVE Phases'
  <1> USE DEF Phases, BeforeSetup, ThreadsAtEnd, ThreadsInSetup, AfterReturn, UnitsThere
  <1>1. Typed'
    BY TypedKept DEF Steps
  <1>2. pc = "setup" /\ calls # <<>> /\ UNCHANGED units
    BY DEF Setup, CallReturns, CallThrows, HandshakeRetry, HandshakeFails, MainAt
  <1>3. \A t \in Worker : at[t] = "off"
    BY <1>2
  <1>4. CASE CallReturns
    BY <1>1, <1>2, <1>3, <1>4 DEF CallReturns, Logging
  <1>5. CASE CallThrows
    BY <1>1, <1>2, <1>3, <1>5 DEF CallThrows, Logging, Return
  <1>6. CASE HandshakeRetry \/ HandshakeFails
    <2>1. Speaks(Main) /\ pc' \in {"setup", "unwind"} /\ UNCHANGED <<calls, objects, handles>>
      BY <1>2, <1>6 DEF HandshakeRetry, HandshakeFails, Speaks, Return
    <2>2. \A t \in Worker : at'[t] = "off"
      BY <1>3, <2>1, SpeakDoes, Threads0
    <2> QED
      BY <1>1, <1>2, <2>1, <2>2
  <1> QED
    BY <1>4, <1>5, <1>6 DEF Setup

LEMMA ThreadsPhases == ASSUME Phases, Threads PROVE Phases'
  <1> USE DEF Phases, BeforeSetup, ThreadsAtEnd, ThreadsInSetup, AfterReturn, UnitsThere
  <1>1. Typed'
    BY TypedKept DEF Steps
  <1>2. ASSUME NEW t \in Worker, StartThread(t) PROVE Phases'
    BY <1>1, <1>2, Threads0 DEF StartThread, MainAt, Logging, Goto, Typed, LogTypes
  <1>3. CASE JoinAll
    BY <1>1, <1>3 DEF JoinAll, Joined, MainAt, Logging, Return
  <1>4. ASSUME NEW t \in Worker, pc # "aborted", WorkerSays(t) PROVE Phases'
    <2>1. Speaks(t) /\ UNCHANGED <<mainVars, deviceVars>>
      BY <1>4 DEF WorkerSays, Speaks
    <2>2. at[t] = "quiet" /\ pc = "setup" /\ calls = <<>>
      BY <1>4, <2>1, SpeakDoes, Threads0
    <2> QED
      BY <1>1, <2>1, <2>2, SpeakDoes, Threads0
  <1>5. ASSUME NEW t \in Worker, pc # "aborted", WorkerEnds(t) PROVE Phases'
    <2>1. pc = "setup" /\ calls = <<>> /\ at' = [at EXCEPT ![t] = "done"]
      BY <1>5 DEF WorkerEnds, Goto
    <2> QED
      BY <1>1, <1>5, <2>1, Threads0 DEF WorkerEnds, Logging, Typed, LogTypes
  <1> QED
    BY <1>2, <1>3, <1>4, <1>5 DEF Threads

LEMMA CommitPhases == ASSUME Phases, Commit PROVE Phases'
  <1> USE DEF Phases, BeforeSetup, ThreadsAtEnd, ThreadsInSetup, AfterReturn, UnitsThere
  <1>1. Typed'
    BY TypedKept DEF Steps
  <1>2. PICK t \in Thread : pc # "aborted" /\ CommitStep(t) /\ UNCHANGED <<mainVars, deviceVars>>
    BY DEF Commit, Commits
  <1>3. Logging(t) /\ units # <<>> /\ t \in Worker \cup {Main}
    BY <1>2, CommitDoes DEF Worker
  <1>4. pc \notin {"static", "parse", "exit"}
    BY <1>3 DEF NothingYet, Logging
  <1>5. \A u \in Worker : at'[u] \in {"off", "done"} \/ at[u] \notin {"off", "done"}
    BY <1>2, <1>3, CommitDoes, Threads0 DEF Logging
  <1>6. \A u \in Worker : at'[u] # "off" => at[u] # "off"
    BY <1>2, <1>3, CommitDoes, Threads0 DEF Logging
  <1> QED
    BY <1>1, <1>2, <1>3, <1>4, <1>5, <1>6

LEMMA LeavingPhases == ASSUME Phases, Leaving PROVE Phases'
  <1> USE DEF Phases, BeforeSetup, ThreadsAtEnd, ThreadsInSetup, AfterReturn, UnitsThere
  <1>1. Typed'
    BY TypedKept DEF Steps
  <1>2. CASE Destroy
    BY <1>1, <1>2 DEF Destroy, MainAt, Logging
  <1>3. CASE MainReturns
    BY <1>1, <1>3 DEF MainReturns, MainAt, MainGoto, Logging
  <1>4. CASE LeaveUnit
    <2>1. pc = "exit" /\ UNCHANGED <<pc, deviceVars, at>>
      BY <1>4 DEF LeaveUnit, LeaveLogger
    <2>2. \A t \in Thread : ~Logging(t)
      BY <2>1 DEF Logging, Worker
    <2> QED
      BY <1>1, <2>1, <2>2 DEF Logging
  <1> QED
    BY <1>2, <1>3, <1>4 DEF Leaving

LEMMA PhasesKept == ASSUME Phases, Steps PROVE Phases'
  <1>1. CASE Aborts \/ UNCHANGED vars
    <2>1. Typed'
      BY TypedKept DEF Phases
    <2> QED
      BY <1>1, <2>1 DEF Aborts, Phases, BeforeSetup, ThreadsAtEnd, ThreadsInSetup, AfterReturn,
                        UnitsThere, NothingYet, Logging
  <1> QED
    BY <1>1, StaticPhases, ParsingPhases, SetupPhases, ThreadsPhases, CommitPhases,
       LeavingPhases DEF Steps

LEMMA InitPhases == Init => Phases
  <1> SUFFICES ASSUME Init PROVE Phases
    OBVIOUS
  <1>1. Typed
    BY InitTyped
  <1>2. NothingYet
    BY Threads0 DEF Init, LoggerInit, NothingYet, Files
  <1>3. \A t \in Thread : at[t] \in {"quiet", "off"}
    BY DEF Init
  <1> QED
    BY <1>1, <1>2, <1>3, Threads0 DEF Init, Phases, BeforeSetup, ThreadsAtEnd, ThreadsInSetup,
       AfterReturn, UnitsThere, Logging

-----------------------------------------------------------------------------
(***************************************************************************)
(* The devices: who has which handle, and what is still to be done.        *)
(***************************************************************************)

\* In a part of the plan, a is always followed by b.
Follows(s, a, b) == \A n \in 1 .. Len(s) : s[n] = a => n + 1 <= Len(s) /\ s[n + 1] = b

\* The plans on Unix open a device and go on to where it belongs to an object, and
\* open a control socket and go on to where it is closed.
Linked(s) == /\ Follows(s, "open", "setiff") /\ Follows(s, "setiff", "mac")
             /\ Follows(s, "control", "ifup") /\ Follows(s, "ifup", "close")

PlanLeft == /\ platform = "unix" => Linked(calls)
            /\ platform = "win32" => "control" \notin ToSet(calls)

\* The call that comes next, or the one that has thrown.
Pending == IF pc = "setup" THEN (IF calls = <<>> THEN "none" ELSE Head(calls)) ELSE thrown

SocketOwned == "socket" \in handles => "socket" \in ToSet(objects)

HandlesOwned == pc # "aborted" =>
  /\ "tun" \in handles =>
       "tun" \in ToSet(objects) \/ (platform = "unix" /\ Pending \in {"setiff", "mac"})
  /\ "control" \in handles => platform = "unix" /\ Pending \in {"ifup", "close"}

\* What the threads need is there, or will be when they are started.
Due(done, x) == done \/ x \in ToSet(calls)

InProgress == pc = "setup" =>
  /\ Due("tun" \in handles, "open") /\ Due("socket" \in handles, "socket")
  /\ IF platform = "unix" THEN Due("ifup" \in ready, "ifup")
     ELSE Due("media" \in ready, "media") /\ "address" \notin ready
  /\ IF Role = "server" THEN Due("bind" \in ready, "bind")
     ELSE Due("handshake" \in ready, "handshake")

Devices == /\ Phases /\ PlanLeft /\ SocketOwned /\ HandlesOwned /\ InProgress /\ DevicesReady

LEMMA FollowsTail ==
  ASSUME NEW S, NEW s \in Seq(S), s # <<>>, NEW a, NEW b, Follows(s, a, b)
  PROVE  /\ Follows(Tail(s), a, b)
         /\ Head(s) = a => Tail(s) # <<>> /\ Head(Tail(s)) = b
  <1>1. /\ Head(s) = s[1] /\ Tail(s) \in Seq(S) /\ Len(s) \in Nat /\ Len(s) > 0
        /\ Len(Tail(s)) = Len(s) - 1 /\ \A n \in 1 .. Len(s) - 1 : Tail(s)[n] = s[n + 1]
    BY ToSetTail
  <1>2. Follows(Tail(s), a, b)
    <2> SUFFICES ASSUME NEW n \in 1 .. Len(s) - 1, s[n + 1] = a
                 PROVE  n + 1 <= Len(s) - 1 /\ Tail(s)[n + 1] = b
      BY <1>1 DEF Follows
    <2>1. n + 1 \in 1 .. Len(s) /\ n \in Nat
      BY <1>1
    <2>2. (n + 1) + 1 <= Len(s) /\ s[(n + 1) + 1] = b
      BY <2>1 DEF Follows
    <2>3. n + 1 \in 1 .. Len(s) - 1
      BY <1>1, <2>1, <2>2
    <2> QED
      BY <1>1, <2>2, <2>3
  <1>3. ASSUME Head(s) = a PROVE Tail(s) # <<>> /\ Head(Tail(s)) = b
    <2>1. 1 \in 1 .. Len(s) /\ 1 + 1 = 2
      BY <1>1
    <2>2. 2 <= Len(s) /\ s[2] = b
      BY <1>1, <1>3, <2>1 DEF Follows
    <2>3. Len(Tail(s)) > 0 /\ Tail(s)[1] = b
      BY <1>1, <2>2
    <2>4. Tail(s) # <<>>
      <3>1. PICK t : t = Tail(s)
        OBVIOUS
      <3>2. Len(t) # 0
        BY <1>1, <2>3, <3>1
      <3>3. t # <<>>
        BY <3>2
      <3> QED
        BY <3>1, <3>3
    <2> QED
      BY <1>1, <2>3, <2>4, ToSetTail
  <1> QED
    BY <1>2, <1>3

LEMMA FollowsConcat ==
  ASSUME NEW S, NEW s \in Seq(S), NEW t \in Seq(S), NEW a, NEW b,
         Follows(s, a, b), Follows(t, a, b)
  PROVE  Follows(s \o t, a, b)
  <1>1. PICK u : u = s \o t
    OBVIOUS
  <1>2. /\ Len(s) \in Nat /\ Len(t) \in Nat /\ Len(u) = Len(s) + Len(t)
        /\ \A n \in 1 .. Len(s) + Len(t) : u[n] = IF n <= Len(s) THEN s[n] ELSE t[n - Len(s)]
    BY <1>1, ConcatProperties, LenProperties
  <1>3. \A n \in 1 .. Len(s) : u[n] = s[n]
    BY <1>2
  <1>4. \A n \in 1 .. Len(t) : u[Len(s) + n] = t[n]
    <2> TAKE n \in 1 .. Len(t)
    <2>1. Len(s) + n \in 1 .. Len(s) + Len(t) /\ ~(Len(s) + n <= Len(s)) /\ Len(s) + n - Len(s) = n
      BY <1>2
    <2> QED
      BY <1>2, <2>1
  <1>5. ASSUME NEW n \in 1 .. Len(u), u[n] = a PROVE n + 1 <= Len(u) /\ u[n + 1] = b
    <2>1. CASE n <= Len(s)
      <3>1. n \in 1 .. Len(s)
        BY <2>1
      <3>2. n + 1 <= Len(s) /\ s[n + 1] = b
        BY <1>3, <1>5, <3>1 DEF Follows
      <3>3. n + 1 \in 1 .. Len(s)
        BY <1>2, <3>1, <3>2
      <3> QED
        BY <1>2, <1>3, <3>2, <3>3
    <2>2. CASE ~(n <= Len(s))
      <3>1. PICK m : m = n - Len(s)
        OBVIOUS
      <3>2. m \in 1 .. Len(t) /\ n = Len(s) + m
        BY <1>2, <2>2, <3>1
      <3>3. m + 1 <= Len(t) /\ t[m + 1] = b
        BY <1>4, <1>5, <3>2 DEF Follows
      <3>4. m + 1 \in 1 .. Len(t) /\ Len(s) + (m + 1) = n + 1
        BY <1>2, <3>2, <3>3
      <3>5. u[n + 1] = t[m + 1]
        BY <1>4, <3>4
      <3> QED
        BY <1>2, <3>2, <3>3, <3>5
    <2> QED
      BY <2>1, <2>2
  <1> QED
    BY <1>1, <1>5 DEF Follows

LEMMA ToSetConcat ==
  ASSUME NEW S, NEW s \in Seq(S), NEW t \in Seq(S)
  PROVE  ToSet(s \o t) = ToSet(s) \cup ToSet(t)
  <1>1. PICK u : u = s \o t
    OBVIOUS
  <1>2. /\ u \in Seq(S)
        /\ Len(s) \in Nat /\ Len(t) \in Nat /\ Len(u) = Len(s) + Len(t)
        /\ \A n \in 1 .. Len(s) + Len(t) : u[n] = IF n <= Len(s) THEN s[n] ELSE t[n - Len(s)]
    BY <1>1, ConcatProperties, LenProperties
  <1>3. ASSUME NEW x \in ToSet(u) PROVE x \in ToSet(s) \cup ToSet(t)
    <2>1. PICK n \in 1 .. Len(s) + Len(t) : x = u[n]
      BY <1>2, ToSetOf
    <2>2. CASE n <= Len(s)
      <3>1. n \in 1 .. Len(s) /\ u[n] = s[n]
        BY <1>2, <2>2
      <3> QED
        BY <2>1, <3>1, ToSetOf
    <2>3. CASE ~(n <= Len(s))
      <3>1. n - Len(s) \in 1 .. Len(t) /\ u[n] = t[n - Len(s)]
        BY <1>2, <2>3
      <3> QED
        BY <2>1, <3>1, ToSetOf
    <2> QED
      BY <2>2, <2>3
  <1>4. ASSUME NEW x \in ToSet(s) PROVE x \in ToSet(u)
    <2>1. PICK n \in 1 .. Len(s) : x = s[n]
      BY ToSetOf
    <2>2. n \in 1 .. Len(u) /\ u[n] = s[n]
      BY <1>2
    <2> QED
      BY <1>2, <2>1, <2>2, ToSetOf
  <1>5. ASSUME NEW x \in ToSet(t) PROVE x \in ToSet(u)
    <2>1. PICK n \in 1 .. Len(t) : x = t[n]
      BY ToSetOf
    <2>2. /\ Len(s) + n \in 1 .. Len(s) + Len(t) /\ ~(Len(s) + n <= Len(s))
          /\ Len(s) + n - Len(s) = n
      BY <1>2
    <2>3. u[Len(s) + n] = t[n]
      BY <1>2, <2>2
    <2> QED
      BY <1>2, <2>1, <2>2, <2>3, ToSetOf
  <1> QED
    BY <1>1, <1>3, <1>4, <1>5

LEMMA UnixParts ==
  /\ Linked(UnixTunCalls) /\ Linked(UnixIfCalls)
  /\ Linked(<<"socket", "bind">>) /\ Linked(<<"socket", "handshake">>)
  <1>1. Linked(<<"open", "setiff", "mac">>)
    BY DEF Linked, Follows
  <1>2. Linked(<<"control", "ifup", "close">>)
    BY DEF Linked, Follows
  <1>3. Linked(<<"socket", "bind">>) /\ Linked(<<"socket", "handshake">>)
    BY DEF Linked, Follows
  <1> QED
    BY <1>1, <1>2, <1>3 DEF UnixTunCalls, UnixIfCalls

LEMMA PartSets ==
  /\ ToSet(UnixTunCalls) = {"open", "setiff", "mac"}
  /\ ToSet(UnixIfCalls) = {"control", "ifup", "close"}
  /\ ToSet(Win32TunCalls) = {"adapter", "open"}
  /\ ToSet(Win32IfCalls) = {"media", "address"}
  /\ ToSet(<<"socket", "bind">>) = {"socket", "bind"}
  /\ ToSet(<<"socket", "handshake">>) = {"socket", "handshake"}
  BY DEF ToSet, UnixTunCalls, UnixIfCalls, Win32TunCalls, Win32IfCalls

\* The two plans.
LEMMA Plans ==
  ASSUME Typed, NEW s \in {ServerCalls, ClientCalls}
  PROVE  /\ platform = "unix" => Linked(s)
         /\ platform = "win32" => "control" \notin ToSet(s)
         /\ {"open", "socket"} \subseteq ToSet(s)
         /\ (IF platform = "unix" THEN "ifup" ELSE "media") \in ToSet(s)
         /\ s = ServerCalls => "bind" \in ToSet(s)
         /\ s = ClientCalls => "handshake" \in ToSet(s)
  <1>1. TunCalls \in Seq(Call) /\ IfCalls \in Seq(Call)
    BY PartTypes DEF TunCalls, IfCalls, Parts
  <1>2. <<"socket", "bind">> \in Seq(Call) /\ <<"socket", "handshake">> \in Seq(Call)
    BY PartTypes DEF Parts
  <1>3. /\ TunCalls \o IfCalls \in Seq(Call)
        /\ TunCalls \o <<"socket", "handshake">> \in Seq(Call)
    BY <1>1, <1>2, ConcatProperties
  <1>4. ToSet(ServerCalls) = ToSet(TunCalls) \cup ToSet(IfCalls) \cup {"socket", "bind"}
    <2>1. ToSet(TunCalls \o IfCalls) = ToSet(TunCalls) \cup ToSet(IfCalls)
      BY <1>1, ToSetConcat
    <2>2. ToSet((TunCalls \o IfCalls) \o <<"socket", "bind">>) =
            ToSet(TunCalls \o IfCalls) \cup ToSet(<<"socket", "bind">>)
      BY <1>2, <1>3, ToSetConcat
    <2> QED
      BY <2>1, <2>2, PartSets, Zenon DEF ServerCalls
  <1>5. ToSet(ClientCalls) = ToSet(TunCalls) \cup ToSet(IfCalls) \cup {"socket", "handshake"}
    <2>1. ToSet(TunCalls \o <<"socket", "handshake">>) =
            ToSet(TunCalls) \cup ToSet(<<"socket", "handshake">>)
      BY <1>1, <1>2, ToSetConcat
    <2>2. ToSet((TunCalls \o <<"socket", "handshake">>) \o IfCalls) =
            ToSet(TunCalls \o <<"socket", "handshake">>) \cup ToSet(IfCalls)
      BY <1>1, <1>3, ToSetConcat
    <2>3. ToSet(ClientCalls) = (ToSet(TunCalls) \cup {"socket", "handshake"}) \cup ToSet(IfCalls)
      BY <2>1, <2>2, PartSets, Zenon DEF ClientCalls
    <2> QED
      BY <2>3
  <1>6. /\ "open" \in ToSet(TunCalls)
        /\ (IF platform = "unix" THEN "ifup" ELSE "media") \in ToSet(IfCalls)
    BY PartSets DEF TunCalls, IfCalls
  <1>7. platform = "win32" => "control" \notin ToSet(TunCalls) \cup ToSet(IfCalls)
    BY PartSets DEF TunCalls, IfCalls
  <1>8. ASSUME platform = "unix" PROVE Linked(ServerCalls) /\ Linked(ClientCalls)
    <2>1. Linked(TunCalls) /\ Linked(IfCalls)
      BY <1>8, UnixParts DEF TunCalls, IfCalls
    <2>2. Linked(TunCalls \o IfCalls) /\ Linked(TunCalls \o <<"socket", "handshake">>)
      BY <1>1, <1>2, <2>1, UnixParts, FollowsConcat DEF Linked
    <2> QED
      BY <1>1, <1>2, <1>3, <2>1, <2>2, UnixParts, FollowsConcat
      DEF Linked, ServerCalls, ClientCalls
  <1> QED
    BY <1>4, <1>5, <1>6, <1>7, <1>8

\* Which steps change devices, and which settings.
LEMMA DevicesAlone ==
  ASSUME Steps
  PROVE  /\ UNCHANGED platform
         /\ CallReturns \/ Destroy \/ ParseDone \/ UNCHANGED <<calls, handles, objects>>
         /\ CallReturns \/ CallThrows \/ UNCHANGED ready
         /\ ParseOption \/ UNCHANGED config
  <1>1. CASE Static
    BY <1>1 DEF Static, EnterUnit, StartMain, MainGoto
  <1>2. CASE Parsing
    BY <1>2 DEF Parsing, ParseOption, ParseThrows, ParseFails, ParseDone, TargetThrows, MainGoto
  <1>3. CASE Setup
    BY <1>3 DEF Setup, CallReturns, CallThrows, HandshakeRetry, HandshakeFails
  <1>4. CASE Threads
    BY <1>4 DEF Threads, StartThread, JoinAll, WorkerSays, WorkerEnds
  <1>5. CASE Commit
    BY <1>5 DEF Commit, Commits
  <1>6. CASE Leaving
    BY <1>6 DEF Leaving, Destroy, MainReturns, MainGoto, LeaveUnit
  <1> QED
    BY <1>1, <1>2, <1>3, <1>4, <1>5, <1>6 DEF Steps, Aborts

LEMMA PlanLeftKept == ASSUME Devices, Steps PROVE PlanLeft'
  <1>1. CASE CallReturns
    <2>1. /\ calls \in Seq(Call) /\ calls # <<>> /\ calls' = Tail(calls)
          /\ UNCHANGED platform
      BY <1>1, CallDoes DEF Devices, Phases, Typed, DeviceTypes
    <2>2. ToSet(Tail(calls)) \subseteq ToSet(calls)
      BY <2>1, ToSetTail
    <2>3. ASSUME platform = "unix" PROVE Linked(calls')
      <3>1. Linked(calls)
        BY <2>3 DEF Devices, PlanLeft
      <3>2. Linked(Tail(calls))
        BY <2>1, <3>1, FollowsTail DEF Linked
      <3> QED
        BY <2>1, <3>2
    <2> QED
      BY <2>1, <2>2, <2>3 DEF Devices, PlanLeft
  <1>2. CASE ParseDone
    <2>1. UNCHANGED platform /\ calls' \in {ServerCalls, ClientCalls}
      BY <1>2, DevicesAlone DEF ParseDone
    <2> QED
      BY <2>1, Plans DEF Devices, Phases, PlanLeft
  <1>3. CASE UNCHANGED <<platform, calls>>
    BY <1>3 DEF Devices, PlanLeft
  <1> QED
    BY <1>1, <1>2, <1>3, DevicesAlone DEF Destroy

\* The call that has returned, and the one that comes next.
LEMMA NextCall ==
  ASSUME Devices, CallReturns
  PROVE  /\ pc = "setup" /\ pc' = "setup" /\ calls # <<>> /\ Pending = Head(calls)
         /\ platform = "unix" =>
              /\ Head(calls) = "open" => Pending' = "setiff"
              /\ Head(calls) = "setiff" => Pending' = "mac"
              /\ Head(calls) = "control" => Pending' = "ifup"
              /\ Head(calls) = "ifup" => Pending' = "close"
         /\ platform = "win32" => Head(calls) # "control"
  <1>1. /\ pc = "setup" /\ pc' = "setup" /\ calls # <<>> /\ calls' = Tail(calls)
        /\ calls \in Seq(Call)
    BY CallDoes DEF Devices, Phases, Typed, DeviceTypes
  <1>2. ASSUME NEW a, NEW b, Follows(calls, a, b), Head(calls) = a PROVE Pending' = b
    <2>1. Tail(calls) # <<>> /\ Head(Tail(calls)) = b
      BY <1>1, <1>2, FollowsTail
    <2> QED
      BY <1>1, <2>1 DEF Pending
  <1>3. platform = "unix" => Linked(calls)
    BY DEF Devices, PlanLeft
  <1>4. platform = "win32" => Head(calls) # "control"
    BY <1>1, ToSetTail DEF Devices, PlanLeft
  <1> QED
    BY <1>1, <1>2, <1>3, <1>4 DEF Linked, Pending

\* The handles and the objects that own them.
LEMMA ReturnOwned ==
  ASSUME Devices, CallReturns
  PROVE  SocketOwned' /\ HandlesOwned'
  <1> USE DEF Devices, Phases
  <1>1. PICK c \in Call : c = Head(calls)
    BY CallDoes
  <1>2. /\ pc = "setup" /\ pc' = "setup" /\ calls # <<>> /\ Pending = c /\ platform' = platform
        /\ handles' = HandlesAfter(c) /\ platform \in {"unix", "win32"}
    BY <1>1, CallDoes, NextCall DEF Typed, MainTypes
  <1>3. /\ platform = "unix" => Last(TunCalls) = "mac"
        /\ platform = "win32" => Last(TunCalls) = "open"
    BY LastOfTun
  <1>4. /\ ToSet(objects) \subseteq ToSet(objects')
        /\ c = Last(TunCalls) => "tun" \in ToSet(objects')
        /\ c = "socket" => "socket" \in ToSet(objects')
    <2>1. \A x \in {"tun", "socket"} : ToSet(Append(objects, x)) = ToSet(objects) \cup {x}
      BY ToSetAppend DEF Typed, DeviceTypes
    <2>2. c = Last(TunCalls) => objects' = Append(objects, "tun")
      BY <1>1, CallDoes
    <2>3. c # Last(TunCalls) /\ c = "socket" => objects' = Append(objects, "socket")
      BY <1>1, CallDoes
    <2>4. c # Last(TunCalls) /\ c # "socket" => objects' = objects
      BY <1>1, CallDoes
    <2>5. c = "socket" => c # Last(TunCalls)
      BY <1>2, <1>3
    <2> QED
      BY <2>1, <2>2, <2>3, <2>4, <2>5
  <1>5. /\ "socket" \in handles' => "socket" \in handles \/ c = "socket"
        /\ "tun" \in handles' => "tun" \in handles \/ c = "open"
        /\ "control" \in handles' => ("control" \in handles /\ c # "close") \/ c = "control"
    BY <1>2 DEF HandlesAfter
  <1>6. SocketOwned'
    BY <1>4, <1>5 DEF SocketOwned
  <1>7. /\ "tun" \in handles => "tun" \in ToSet(objects) \/ (platform = "unix" /\ c \in {"setiff", "mac"})
        /\ "control" \in handles => platform = "unix" /\ c \in {"ifup", "close"}
    BY <1>2 DEF HandlesOwned
  <1>8. /\ platform = "unix" => /\ c = "open" => Pending' = "setiff"
                                /\ c = "setiff" => Pending' = "mac"
                                /\ c = "control" => Pending' = "ifup"
                                /\ c = "ifup" => Pending' = "close"
        /\ platform = "win32" => c # "control"
    BY <1>1, NextCall
  <1>9. "tun" \in handles' =>
          "tun" \in ToSet(objects') \/ (platform' = "unix" /\ Pending' \in {"setiff", "mac"})
    BY <1>2, <1>3, <1>4, <1>5, <1>7, <1>8
  <1>10. "control" \in handles' => platform' = "unix" /\ Pending' \in {"ifup", "close"}
    BY <1>2, <1>5, <1>7, <1>8
  <1> QED
    BY <1>6, <1>9, <1>10 DEF HandlesOwned

LEMMA DestroyOwned ==
  ASSUME Devices, Destroy
  PROVE  SocketOwned' /\ HandlesOwned'
  <1> USE DEF Devices, Phases
  <1>1. /\ pc = "unwind" /\ pc' = pc /\ objects # <<>> /\ objects' = Front(objects)
        /\ handles' = handles \ {Last(objects)} /\ UNCHANGED <<platform, thrown>>
    BY DEF Destroy, MainAt
  <1>2. ToSet(objects) = ToSet(objects') \cup {Last(objects)}
    BY <1>1, FrontOf DEF Typed, DeviceTypes
  <1>3. Pending' = Pending
    BY <1>1 DEF Pending
  <1> QED
    BY <1>1, <1>2, <1>3 DEF SocketOwned, HandlesOwned

LEMMA HandlesOwnedKept == ASSUME Devices, Steps PROVE SocketOwned' /\ HandlesOwned'
  <1> USE DEF Devices, Phases
  <1>1. ASSUME UNCHANGED <<platform, handles, objects>> PROVE SocketOwned'
    BY <1>1 DEF SocketOwned
  <1>2. ASSUME UNCHANGED <<platform, handles, objects>>, pc' # "aborted" => pc # "aborted",
               \/ Pending' = Pending \/ handles = {}
               \/ Pending \notin {"setiff", "mac", "ifup", "close"}
        PROVE  SocketOwned' /\ HandlesOwned'
    BY <1>1, <1>2 DEF HandlesOwned
  <1>3. CASE Static
    BY <1>2, <1>3 DEF Static, EnterUnit, StartMain, MainGoto, BeforeSetup, NothingYet
  <1>4. CASE Parsing
    BY <1>2, <1>4 DEF Parsing, ParseOption, ParseThrows, ParseFails, ParseDone, TargetThrows,
       MainAt, MainGoto, BeforeSetup, NothingYet
  <1>5. CASE CallThrows
    BY <1>2, <1>5 DEF CallThrows, MainAt, Return, Pending
  <1>6. CASE HandshakeRetry \/ HandshakeFails
    BY <1>2, <1>6 DEF HandshakeRetry, HandshakeFails, MainAt, Return, Pending
  <1>7. CASE Threads
    BY <1>2, <1>7 DEF Threads, StartThread, JoinAll, WorkerSays, WorkerEnds, MainAt, Return, Pending
  <1>8. CASE Commit
    BY <1>2, <1>8 DEF Commit, Commits, Pending
  <1>9. CASE MainReturns \/ LeaveUnit
    BY <1>2, <1>9 DEF MainReturns, LeaveUnit, MainAt, MainGoto, Pending
  <1>10. CASE Aborts
    BY <1>1, <1>10 DEF Aborts, HandlesOwned
  <1>11. CASE UNCHANGED vars
    BY <1>2, <1>11 DEF Pending
  <1> QED
    BY <1>3, <1>4, <1>5, <1>6, <1>7, <1>8, <1>9, <1>10, <1>11, ReturnOwned, DestroyOwned
    DEF Steps, Setup, Leaving

LEMMA InProgressKept == ASSUME Devices, Steps PROVE InProgress'
  <1> USE DEF Devices, Phases
  <1> SUFFICES ASSUME pc' = "setup" PROVE InProgress'
    BY DEF InProgress
  <1>1. CASE ParseDone
    <2>1. /\ handles = {} /\ ready = {} /\ UNCHANGED <<handles, ready, config, platform>>
          /\ calls' = IF config.local # 0 THEN ServerCalls ELSE ClientCalls
      BY <1>1 DEF ParseDone, MainAt, MainGoto, BeforeSetup, NothingYet
    <2>2. /\ {"open", "socket"} \subseteq ToSet(calls')
          /\ (IF platform = "unix" THEN "ifup" ELSE "media") \in ToSet(calls')
      BY <2>1, Plans
    <2>3. /\ Role' = "server" => "bind" \in ToSet(calls')
          /\ Role' # "server" => "handshake" \in ToSet(calls')
      BY <2>1, Plans DEF Role
    <2> QED
      BY <2>1, <2>2, <2>3 DEF InProgress, Due
  <1>2. CASE CallReturns
    <2>1. PICK c \in Call : c = Head(calls)
      BY <1>2, CallDoes
    <2>2. /\ pc = "setup" /\ handles' = HandlesAfter(c)
          /\ ready' = IF c = "address" THEN ready ELSE ready \cup {c}
          /\ calls' = Tail(calls) /\ calls # <<>> /\ UNCHANGED <<config, platform>>
      BY <1>2, <2>1, CallDoes DEF Inverted
    <2>3. ToSet(calls) = ToSet(calls') \cup {c}
      BY <2>1, <2>2, ToSetTail DEF Typed, DeviceTypes
    <2>4. /\ "tun" \in handles \/ c = "open" => "tun" \in handles'
          /\ "socket" \in handles \/ c = "socket" => "socket" \in handles'
      BY <2>2 DEF HandlesAfter
    <2>5. Role' = Role
      BY <2>2 DEF Role
    <2> QED
      BY <2>2, <2>3, <2>4, <2>5 DEF InProgress, Due
  <1>3. ASSUME pc = "setup", UNCHANGED <<calls, handles, ready, config, platform>>
        PROVE  InProgress'
    BY <1>3 DEF InProgress, Due, Role
  <1>4. pc = "setup" \/ ParseDone
    BY DEF Steps, Static, EnterUnit, StartMain, Parsing, ParseOption, ParseThrows, ParseFails,
       TargetThrows, Setup, CallReturns, CallThrows, HandshakeRetry, HandshakeFails, Threads,
       StartThread, JoinAll, WorkerSays, WorkerEnds, Commit, Commits, Leaving, Destroy,
       MainReturns, LeaveUnit, Aborts, MainAt, MainGoto, Return
  <1>5. ASSUME pc = "setup" PROVE ~ParseOption /\ ~Destroy /\ ~CallThrows
    BY <1>5 DEF ParseOption, Destroy, CallThrows, Return, MainAt
  <1> QED
    BY <1>1, <1>2, <1>3, <1>4, <1>5, DevicesAlone

\* Only StartThread lets a thread run that did not.
LEMMA RunsAlready ==
  ASSUME Typed, Steps, NEW t \in Worker, at'[t] \notin {"off", "done"}
  PROVE  \/ at[t] \notin {"off", "done"}
         \/ pc = "setup" /\ calls = <<>> /\ UNCHANGED <<mainVars, deviceVars>>
  <1>0. t \in Thread /\ t # Main
    BY Threads0
  <1>1. ASSUME UNCHANGED at PROVE at[t] \notin {"off", "done"}
    BY <1>1
  <1>2. ASSUME NEW u \in Thread, Speaks(u) PROVE at[t] \notin {"off", "done"}
    BY <1>0, <1>2, SpeakDoes
  <1>3. ASSUME NEW u \in Thread, CommitStep(u) PROVE at[t] \notin {"off", "done"}
    BY <1>0, <1>3, CommitDoes DEF Logging
  <1>4. CASE Static
    BY <1>1, <1>4 DEF Static, EnterUnit, EnterLogger, StartMain
  <1>5. CASE Parsing
    <2>1. ParseFails => Speaks(Main)
      BY DEF ParseFails, Speaks
    <2> QED
      BY <1>1, <1>2, <1>5, <2>1, Threads0
      DEF Parsing, ParseOption, ParseThrows, ParseDone, TargetThrows, SetTarget
  <1>6. CASE Setup
    <2>1. HandshakeRetry \/ HandshakeFails => Speaks(Main)
      BY DEF HandshakeRetry, HandshakeFails, Speaks
    <2> QED
      BY <1>1, <1>2, <1>6, <2>1, Threads0 DEF Setup, CallReturns, CallThrows
  <1>7. CASE Threads
    <2>1. ASSUME NEW u \in Worker, WorkerSays(u) PROVE at[t] \notin {"off", "done"}
      <3>1. Speaks(u)
        BY <2>1 DEF WorkerSays, Speaks
      <3> QED
        BY <1>2, <3>1, Threads0
    <2>2. ASSUME NEW u \in Worker, WorkerEnds(u) PROVE at[t] \notin {"off", "done"}
      BY <1>0, <2>2, Threads0 DEF WorkerEnds, Goto, Typed, LogTypes
    <2>3. ASSUME NEW u \in Worker, StartThread(u)
          PROVE  pc = "setup" /\ calls = <<>> /\ UNCHANGED <<mainVars, deviceVars>>
      BY <2>3 DEF StartThread, MainAt
    <2> QED
      BY <1>1, <1>7, <2>1, <2>2, <2>3 DEF Threads, JoinAll
  <1>8. CASE Commit
    BY <1>3, <1>8 DEF Commit, Commits
  <1>9. CASE Leaving
    BY <1>1, <1>9 DEF Leaving, Destroy, MainReturns, LeaveUnit, LeaveLogger
  <1> QED
    BY <1>1, <1>4, <1>5, <1>6, <1>7, <1>8, <1>9 DEF Steps, Aborts

LEMMA DevicesReadyKept == ASSUME Devices, Steps PROVE DevicesReady'
  <1> USE DEF Devices, Phases
  <1> DEFINE Up == /\ {"tun", "socket"} \subseteq handles
                   /\ (IF Role = "server" THEN "bind" ELSE "handshake") \in ready
                   /\ InterfaceReady
  <1> SUFFICES ASSUME NEW t \in Worker, at'[t] \notin {"off", "done"} PROVE Up'
    BY DEF DevicesReady
  <1>1. ASSUME at[t] \notin {"off", "done"} PROVE Up'
    <2>1. Up
      BY <1>1 DEF DevicesReady
    <2>2. calls = <<>> /\ pc \in {"setup", "aborted"}
      BY <1>1 DEF ThreadsAtEnd, ThreadsInSetup
    <2>3. ~CallReturns /\ ~CallThrows /\ ~Destroy /\ ~ParseDone /\ ~ParseOption
      BY <2>2 DEF CallReturns, CallThrows, Destroy, ParseDone, ParseOption, MainAt
    <2>4. UNCHANGED <<handles, ready, config, platform>>
      BY <2>3, DevicesAlone
    <2> QED
      BY <2>1, <2>4 DEF Role, InterfaceReady
  <1>2. ASSUME pc = "setup", calls = <<>>, UNCHANGED <<mainVars, deviceVars>> PROVE Up'
    <2>1. \A x : x \notin ToSet(calls)
      BY <1>2, EmptySeq DEF ToSet
    <2>2. Up
      BY <1>2, <2>1 DEF InProgress, Due, InterfaceReady
    <2> QED
      BY <1>2, <2>2 DEF Role, InterfaceReady
  <1> HIDE DEF Up
  <1> QED
    BY <1>1, <1>2, RunsAlready

LEMMA DevicesKept == ASSUME Devices, Steps PROVE Devices'
  BY PhasesKept, PlanLeftKept, HandlesOwnedKept, InProgressKept, DevicesReadyKept DEF Devices

LEMMA InitDevices == Init => Devices
  <1> SUFFICES ASSUME Init PROVE Devices
    OBVIOUS
  <1>1. Phases
    BY InitPhases
  <1>2. calls = <<>> /\ handles = {} /\ pc = "static"
    BY DEF Init
  <1>3. ToSet(calls) = {} /\ \A a, b : Follows(calls, a, b)
    BY <1>2 DEF ToSet, Follows
  <1>4. \A t \in Worker : at[t] = "off"
    BY <1>1, <1>2 DEF Phases, BeforeSetup, NothingYet
  <1> QED
    BY <1>1, <1>2, <1>3, <1>4 DEF Devices, PlanLeft, Linked, SocketOwned, HandlesOwned,
       InProgress, DevicesReady

LEMMA SpecDevices == Spec => []Devices
  BY InitDevices, DevicesKept, EveryStep, PTL DEF Spec

\* Whichever of the system calls fail, and for every command line: while a thread
\* runs, device and socket are open, the socket is bound or has a session, and the
\* interface is up on Unix, while on Windows AddIPAddress has failed.
THEOREM ThreadsHaveDevices == Spec => []DevicesReady
  BY SpecDevices, PTL DEF Devices

\* When main() has returned, no handle is open but the one that the function that
\* threw had opened itself.
THEOREM HandlesAreReturned == Spec => []HandlesReturned
  <1>1. Devices => HandlesReturned
    <2> SUFFICES ASSUME Devices, pc = "exit", NEW h \in handles PROVE h \in Abandoned
      BY DEF HandlesReturned
    <2>1. objects = <<>> /\ Pending = thrown
      BY DEF Devices, Phases, AfterReturn, Pending
    <2>2. \A x : x \notin ToSet(objects)
      BY <2>1 DEF ToSet
    <2>3. h \in Handle
      BY DEF Devices, Phases, Typed, DeviceTypes
    <2>4. h # "socket"
      BY <2>2 DEF Devices, SocketOwned
    <2>5. CASE h = "tun"
      BY <2>1, <2>2, <2>5 DEF Devices, HandlesOwned, Abandoned
    <2>6. CASE h = "control"
      BY <2>1, <2>2, <2>6 DEF Devices, HandlesOwned, Abandoned
    <2> QED
      BY <2>3, <2>4, <2>5, <2>6 DEF Handle
  <1> QED
    BY <1>1, SpecDevices, PTL

-----------------------------------------------------------------------------
(***************************************************************************)
(* The globals: the Logger, its file, and the socket library.              *)
(***************************************************************************)

\* Where commit() writes that has read logFile.
Destination == IF logFile = NoFile THEN Stderr ELSE logFile

GlobalsAlive == units # <<>> => /\ logger.object = "alive"
                                /\ platform = "win32" => wsa.object = "alive"
FileOpen     == units # <<>> /\ logFile # NoFile => logFile \in openFiles
FileRead     == \A t \in Thread : Holding(t) => file[t] = Destination

Globals == Devices /\ GlobalsAlive /\ FileOpen /\ FileRead

\* A step that is no part of a log statement.
Quietly == /\ UNCHANGED <<mutex, file, buffer, statements, written>>
           /\ \A t \in Thread : Logging(t) \/ Logging(t)' => at'[t] = at[t]

LEMMA LogSteps ==
  ASSUME Typed, Steps
  PROVE  \/ \E t \in Thread : Speaks(t)
         \/ pc # "aborted" /\ \E t \in Thread : CommitStep(t) /\ UNCHANGED <<mainVars, deviceVars>>
         \/ Quietly
  <1>1. UNCHANGED <<mutex, file, buffer, statements, written, at>> => Quietly
    BY DEF Quietly
  <1>2. ASSUME NEW t \in Worker, NEW w \in {"quiet", "done"}, Goto(t, w), ~Logging(t),
               UNCHANGED <<mutex, file, buffer, statements, written>>
        PROVE  Quietly
    BY <1>2, Threads0 DEF Quietly, Goto, Logging, Typed, LogTypes
  <1>3. CASE Static
    BY <1>1, <1>3 DEF Static, EnterUnit, EnterLogger, StartMain
  <1>4. CASE Parsing
    BY <1>1, <1>4, Threads0 DEF Parsing, ParseOption, ParseThrows, ParseFails, ParseDone, TargetThrows,
       SetTarget, Speaks
  <1>5. CASE Setup
    BY <1>1, <1>5, Threads0 DEF Setup, CallReturns, CallThrows, HandshakeRetry, HandshakeFails, Speaks
  <1>6. CASE Threads
    <2>1. ASSUME NEW t \in Worker, WorkerSays(t) PROVE Speaks(t) /\ t \in Thread
      BY <2>1, Threads0 DEF WorkerSays, Speaks
    <2>2. ASSUME NEW t \in Worker, WorkerEnds(t) \/ StartThread(t) PROVE Quietly
      BY <1>2, <2>2 DEF WorkerEnds, StartThread, Logging
    <2> QED
      BY <1>1, <1>6, <2>1, <2>2 DEF Threads, JoinAll
  <1>7. CASE Commit
    BY <1>7 DEF Commit, Commits
  <1>8. CASE Leaving
    BY <1>1, <1>8 DEF Leaving, Destroy, MainReturns, LeaveUnit, LeaveLogger
  <1> QED
    BY <1>1, <1>3, <1>4, <1>5, <1>6, <1>7, <1>8 DEF Steps, Aborts

\* Only setTarget() changes logFile; the other steps that change the open files are
\* those of the last unit that leaves.
LEMMA FilesAlone ==
  ASSUME Typed, Steps
  PROVE  \/ ParseDone /\ config.log # "" /\ SetTarget(config.log)
         \/ LeaveUnit
         \/ UNCHANGED <<logFile, openFiles>>
  <1>1. \A t : Speaks(t) \/ CommitStep(t) => UNCHANGED <<logFile, openFiles>>
    BY DEF Speaks, Say, SayPart, Compose, CommitStep, ReadTarget, LockLog, WritePrefix, WriteBody
  <1>2. CASE Static
    BY <1>2 DEF Static, EnterUnit, EnterLogger, StartMain
  <1>3. CASE Parsing
    BY <1>1, <1>3 DEF Parsing, ParseOption, ParseThrows, ParseFails, ParseDone, TargetThrows, Speaks
  <1>4. CASE Setup
    BY <1>1, <1>4 DEF Setup, CallReturns, CallThrows, HandshakeRetry, HandshakeFails, Speaks
  <1>5. CASE Threads
    BY <1>1, <1>5 DEF Threads, StartThread, JoinAll, WorkerSays, WorkerEnds, Speaks
  <1>6. CASE Commit
    BY <1>1, <1>6 DEF Commit, Commits
  <1>7. CASE Leaving
    BY <1>7 DEF Leaving, Destroy, MainReturns
  <1> QED
    BY <1>2, <1>3, <1>4, <1>5, <1>6, <1>7 DEF Steps, Aborts

\* With a unit there, the counters are not 0.
LEMMA Counted ==
  ASSUME Typed
  PROVE  /\ units # <<>> <=> logger.counter # 0
         /\ platform = "win32" => (units # <<>> <=> wsa.counter # 0)
  <1>1. units # <<>> <=> Len(units) # 0
    BY EmptySeq, LenProperties DEF Typed, GlobalTypes
  <1> QED
    BY <1>1 DEF Typed, GlobalTypes

LEMMA GlobalsAliveKept == ASSUME Globals, Steps PROVE GlobalsAlive'
  <1> USE DEF Globals, Devices, Phases
  <1>1. Typed'
    BY TypedKept
  <1>2. logger \in Global /\ wsa \in Global
    BY DEF Typed, GlobalTypes
  <1>3. ASSUME NEW u \in Unit, EnterUnit(u) PROVE GlobalsAlive'
    <2>1. /\ logger' = AfterEnter(logger) /\ platform' = platform
          /\ wsa' = IF platform = "win32" THEN AfterEnter(wsa) ELSE wsa
      BY <1>3 DEF EnterUnit, EnterLogger
    <2> QED
      BY <1>2, <2>1, Counted, EnterTypes DEF GlobalsAlive
  <1>4. CASE LeaveUnit
    <2>1. /\ logger' = AfterLeave(logger) /\ platform' = platform /\ units # <<>>
          /\ wsa' = IF platform = "win32" THEN AfterLeave(wsa) ELSE wsa
      BY <1>4 DEF LeaveUnit, LeaveLogger
    <2>2. logger.counter # 0 /\ (platform = "win32" => wsa.counter # 0)
      BY <2>1, Counted
    <2>3. /\ units' # <<>> => logger'.counter # 0
          /\ platform = "win32" /\ units' # <<>> => wsa'.counter # 0
      <3>1. units' # <<>> <=> Len(units') # 0
        BY <1>1, EmptySeq, LenProperties DEF Typed, GlobalTypes
      <3> QED
        BY <1>1, <2>1, <3>1 DEF Typed, GlobalTypes
    <2>4. logger.counter > 0 /\ (platform = "win32" => wsa.counter > 0)
      BY <1>2, <2>2 DEF Global
    <2>5. /\ logger'.counter = logger.counter - 1
          /\ logger.counter # 1 => logger'.object = logger.object
      BY <1>2, <2>1, <2>4, LeaveTypes
    <2>6. ASSUME platform = "win32" PROVE /\ wsa'.counter = wsa.counter - 1
                                          /\ wsa.counter # 1 => wsa'.object = wsa.object
      BY <1>2, <2>1, <2>4, <2>6, LeaveTypes
    <2> QED
      BY <2>1, <2>3, <2>5, <2>6 DEF GlobalsAlive
  <1>5. CASE UNCHANGED <<platform, units, logger, wsa>>
    BY <1>5 DEF GlobalsAlive
  <1> QED
    BY <1>3, <1>4, <1>5, GlobalsAlone

LEMMA FileOpenKept == ASSUME Globals, Steps PROVE FileOpen'
  <1> USE DEF Globals, Devices, Phases
  <1>1. CASE ParseDone /\ config.log # "" /\ SetTarget(config.log)
    BY <1>1 DEF SetTarget, FileOpen
  <1>2. CASE LeaveUnit
    <2>1. units # <<>> /\ logFile' = logFile
          /\ openFiles' = openFiles \ (IF logger'.object = "dead" THEN {logFile} ELSE {})
      BY <1>2 DEF LeaveUnit, LeaveLogger
    <2>2. units' # <<>> => logger'.object = "alive"
      BY GlobalsAliveKept DEF GlobalsAlive
    <2> QED
      BY <2>1, <2>2 DEF FileOpen
  <1>3. CASE UNCHANGED <<logFile, openFiles>>
    <2>1. CASE units # <<>>
      BY <1>3, <2>1 DEF FileOpen
    <2>2. CASE units = <<>>
      <3>1. logFile = NoFile \/ units' = <<>>
        <4>1. pc \in {"static", "exit", "aborted"}
          BY <2>2 DEF UnitsThere, Typed, MainTypes
        <4>2. pc = "static" => logFile = NoFile
          BY DEF BeforeSetup, NothingYet
        <4>3. pc # "static" /\ ~LeaveUnit => UNCHANGED units
          BY GlobalsAlone DEF EnterUnit
        <4> QED
          BY <2>2, <4>1, <4>2, <4>3 DEF LeaveUnit
      <3> QED
        BY <1>3, <3>1 DEF FileOpen
    <2> QED
      BY <2>1, <2>2
  <1> QED
    BY <1>1, <1>2, <1>3, FilesAlone

LEMMA FileReadKept == ASSUME Globals, Steps PROVE FileRead'
  <1> USE DEF Globals, Devices, Phases
  <1>1. CASE ParseDone
    <2>1. \A t \in Thread : ~Logging(t)
      BY <1>1 DEF ParseDone, MainAt, BeforeSetup, NothingYet, Logging, Worker
    <2>2. UNCHANGED at
      BY <1>1 DEF ParseDone, SetTarget
    <2> QED
      BY <2>1, <2>2 DEF FileRead, Holding, Logging
  <1>2. CASE ~ParseDone
    <2>1. Destination' = Destination
      BY <1>2, FilesAlone DEF Destination, LeaveUnit, LeaveLogger
    <2>2. ASSUME NEW t \in Thread, Speaks(t) PROVE FileRead'
      BY <2>1, <2>2, SpeakDoes DEF FileRead, Holding
    <2>3. ASSUME NEW t \in Thread, CommitStep(t) PROVE FileRead'
      <3>1. ASSUME NEW u \in Thread, u # t, Holding(u)' PROVE file'[u] = Destination
        <4>1. at'[u] = at[u] /\ file'[u] = file[u]
          BY <2>3, <3>1 DEF CommitStep, ReadTarget, LockLog, WritePrefix, WriteBody, Goto,
             Typed, LogTypes
        <4> QED
          BY <3>1, <4>1 DEF FileRead, Holding
      <3>2. CASE ReadTarget(t)
        <4>1. file'[t] = Destination
          BY <3>2 DEF ReadTarget, Destination, Typed, LogTypes
        <4> QED
          BY <2>1, <3>1, <4>1 DEF FileRead
      <3>3. CASE ~ReadTarget(t)
        <4>1. Holding(t) /\ file' = file
          BY <2>3, <3>3 DEF CommitStep, LockLog, WritePrefix, WriteBody, Holding
        <4>2. file'[t] = Destination
          BY <4>1 DEF FileRead
        <4> QED
          BY <2>1, <3>1, <4>2 DEF FileRead
      <3> QED
        BY <3>2, <3>3
    <2>4. CASE Quietly
      <3>1. \A t \in Thread : Holding(t)' => Holding(t)
        BY <2>4 DEF Quietly, Holding, Logging
      <3> QED
        BY <2>1, <2>4, <3>1 DEF Quietly, FileRead
    <2> QED
      BY <2>2, <2>3, <2>4, LogSteps
  <1> QED
    BY <1>1, <1>2

LEMMA GlobalsKept == ASSUME Globals, Steps PROVE Globals'
  BY DevicesKept, GlobalsAliveKept, FileOpenKept, FileReadKept DEF Globals

LEMMA InitGlobals == Init => Globals
  <1> SUFFICES ASSUME Init PROVE Globals
    OBVIOUS
  <1>1. Devices /\ units = <<>>
    BY InitDevices DEF Init
  <1>2. \A t \in Thread : ~Holding(t)
    BY DEF Init, Holding
  <1> QED
    BY <1>1, <1>2 DEF Globals, GlobalsAlive, FileOpen, FileRead

LEMMA SpecGlobals == Spec => []Globals
  BY InitGlobals, GlobalsKept, EveryStep, PTL DEF Spec

\* However many units there are, and in whatever order they are constructed: who
\* logs finds the Logger alive, writes to a file that is open, and on Windows the
\* socket library outlives the socket.
THEOREM GlobalsAreReady == Spec => []GlobalsReady
  <1>1. Globals => GlobalsReady
    <2> SUFFICES ASSUME Globals PROVE GlobalsReady
      OBVIOUS
    <2> USE DEF Globals, Devices, Phases
    <2>1. \A t \in Thread : Logging(t) => logger.object = "alive"
      BY DEF UnitsThere, GlobalsAlive
    <2>2. \A t \in Thread : Holding(t) => file[t] \in openFiles \cup {Stderr}
      <3> SUFFICES ASSUME NEW t \in Thread, Holding(t) PROVE file[t] \in openFiles \cup {Stderr}
        OBVIOUS
      <3>1. units # <<>> /\ file[t] = Destination
        BY DEF UnitsThere, FileRead, Holding, Logging
      <3> QED
        BY <3>1 DEF FileOpen, Destination
    <2>3. platform = "win32" /\ "socket" \in handles => wsa.object = "alive"
      <3> SUFFICES ASSUME platform = "win32", "socket" \in handles PROVE wsa.object = "alive"
        OBVIOUS
      <3>1. "socket" \in ToSet(objects)
        BY DEF SocketOwned
      <3>2. objects # <<>>
        BY <3>1 DEF ToSet
      <3> QED
        BY <3>2 DEF UnitsThere, GlobalsAlive
    <2> QED
      BY <2>1, <2>2, <2>3 DEF GlobalsReady
  <1> QED
    BY <1>1, SpecGlobals, PTL

-----------------------------------------------------------------------------
(***************************************************************************)
(* The command line, and where the threads' lines go.                      *)
(***************************************************************************)

\* What parseCommandLine has read when it is about to read argument i: argument n is
\* an option whose value it has taken.
Taken(n) == n \in 1 .. Len(argv) /\ n % 2 = 1 /\ n < i

OptionsTaken == \A n : Taken(n) =>
  /\ argv[n] \in Option
  /\ argv[n] \in {"--bind", "--server"} => ValidAddress(argv[n + 1])

GivenAt(o, n) == Taken(n) /\ argv[n] = o

ParseLoop == pc \in {"static", "parse"} =>
  /\ i <= Len(argv) + 1
  /\ OptionsTaken
  /\ (config.local # 0) <=> \E n : GivenAt("--bind", n)
  /\ (config.remote # 0) <=> \E n : GivenAt("--server", n)

TargetIsSet == pc = "setup" => logFile = IF config.log = "" THEN NoFile ELSE config.log

Asked == /\ Globals /\ ParseLoop /\ RoleAsAsked /\ TargetIsSet /\ LogGoesToTarget

LEMMA Step2 == ASSUME NEW n \in Nat, n % 2 = 1, NEW m \in Nat, m % 2 = 1, m < n + 2
               PROVE  m < n \/ m = n
  OBVIOUS

LEMMA OptionParsed == ASSUME Asked, ParseOption PROVE ParseLoop'
  <1> USE DEF Asked, Globals, Devices, Phases
  <1>1. /\ i' = i + 2 /\ i < Len(argv) /\ i \in 1 .. Len(argv) /\ i + 1 \in 1 .. Len(argv)
        /\ argv[i] \in Option /\ UNCHANGED <<argv, pc>>
    BY OptionTypes
  <1>2. /\ pc = "parse" /\ config' = Configured(argv[i], argv[i + 1])
        /\ argv[i] \in {"--server", "--bind"} => ValidAddress(argv[i + 1])
    BY DEF ParseOption, MainAt
  <1>3. i \in Nat /\ i % 2 = 1 /\ Len(argv) \in Nat
    BY LenProperties DEF Typed, MainTypes
  <1>4. \A n : Taken(n)' <=> Taken(n) \/ n = i
    <2> TAKE n
    <2>1. ASSUME Taken(n)' PROVE Taken(n) \/ n = i
      <3>1. n \in 1 .. Len(argv) /\ n % 2 = 1 /\ n < i + 2
        BY <1>1, <2>1 DEF Taken
      <3>2. n \in Nat
        BY <3>1
      <3>3. n < i \/ n = i
        BY <1>3, <3>1, <3>2, Step2
      <3> QED
        BY <3>1, <3>3 DEF Taken
    <2>2. ASSUME Taken(n) PROVE Taken(n)'
      BY <1>1, <1>3, <2>2 DEF Taken
    <2>3. ASSUME n = i PROVE Taken(n)'
      BY <1>1, <1>3, <2>3 DEF Taken
    <2> QED
      BY <2>1, <2>2, <2>3
  <1>5. OptionsTaken'
    <2>1. \A s : ValidAddress(s)' <=> ValidAddress(s)
      BY DEF ValidAddress
    <2> QED
      BY <1>1, <1>2, <1>4, <2>1 DEF ParseLoop, OptionsTaken
  <1>6. \A o : (\E n : GivenAt(o, n)') <=> ((\E n : GivenAt(o, n)) \/ argv[i] = o)
    BY <1>1, <1>4 DEF GivenAt
  <1>7. config \in [remote : Nat, local : Nat, log : Target \cup {""}]
    BY DEF Typed, MainTypes
  <1>8. /\ argv[i] = "--bind" => config'.local # 0 /\ config'.remote = config.remote
        /\ argv[i] = "--server" => config'.remote # 0 /\ config'.local = config.local
        /\ argv[i] \in {"--log", "--secret"} => /\ config'.remote = config.remote
                                                /\ config'.local = config.local
    <2>1. AddressText[argv[i + 1]].port \in Nat
      <3>1. AddressText[argv[i + 1]] \in [colon : BOOLEAN, port : Nat, resolves : BOOLEAN]
        BY <1>1, ProcessAssumption DEF Typed, MainTypes
      <3> QED
        BY <3>1
    <2>2. argv[i] \in {"--server", "--bind"} => AddressText[argv[i + 1]].port # 0
      BY <1>2, <2>1 DEF ValidAddress
    <2> QED
      BY <1>2, <1>7, <2>2 DEF Configured
  <1>9. i' <= Len(argv') + 1
    BY <1>1, <1>3
  <1>10. /\ (config'.local # 0) <=> (config.local # 0 \/ argv[i] = "--bind")
         /\ (config'.remote # 0) <=> (config.remote # 0 \/ argv[i] = "--server")
    BY <1>1, <1>8 DEF Option
  <1> QED
    BY <1>2, <1>5, <1>6, <1>9, <1>10 DEF ParseLoop

LEMMA ParseLoopKept == ASSUME Asked, Steps PROVE ParseLoop'
  <1> USE DEF Asked, Globals, Devices, Phases
  <1>1. ASSUME UNCHANGED <<argv, i, config>>, pc' \in {"static", "parse"} => pc \in {"static", "parse"}
        PROVE  ParseLoop'
    BY <1>1 DEF ParseLoop, OptionsTaken, GivenAt, Taken, ValidAddress
  <1>2. CASE Static
    BY <1>1, <1>2 DEF Static, EnterUnit, StartMain, MainGoto
  <1>3. CASE Parsing
    BY <1>1, <1>3, OptionParsed DEF Parsing, ParseThrows, ParseFails, ParseDone, TargetThrows, MainGoto,
       MainAt, Return
  <1>4. CASE Setup
    BY <1>1, <1>4 DEF Setup, CallReturns, CallThrows, HandshakeRetry, HandshakeFails, Return
  <1>5. CASE Threads
    BY <1>1, <1>5 DEF Threads, StartThread, JoinAll, WorkerSays, WorkerEnds, Return
  <1>6. CASE Commit
    BY <1>1, <1>6 DEF Commit, Commits
  <1>7. CASE Leaving
    BY <1>1, <1>7 DEF Leaving, Destroy, MainReturns, MainGoto, LeaveUnit
  <1> QED
    BY <1>1, <1>2, <1>3, <1>4, <1>5, <1>6, <1>7 DEF Steps, Aborts

\* A process comes to its first system call only from the end of the command line.
LEMMA SetupFrom ==
  ASSUME Steps, pc' = "setup"
  PROVE  ParseDone \/ (pc = "setup" /\ UNCHANGED <<argv, config>> /\ ~ParseDone /\ ~ParseOption)
  <1>1. pc = "setup" => ~ParseDone /\ ~ParseOption
    BY DEF ParseDone, ParseOption, MainAt
  <1>2. CASE Static
    BY <1>2 DEF Static, EnterUnit, StartMain, MainGoto
  <1>3. CASE Parsing
    BY <1>3 DEF Parsing, ParseOption, ParseThrows, ParseFails, TargetThrows, MainAt, Return
  <1>4. CASE Setup
    BY <1>1, <1>4 DEF Setup, CallReturns, CallThrows, HandshakeRetry, HandshakeFails, MainAt
  <1>5. CASE Threads
    BY <1>1, <1>5 DEF Threads, StartThread, JoinAll, WorkerSays, WorkerEnds, MainAt, Return
  <1>6. CASE Commit
    BY <1>1, <1>6 DEF Commit, Commits
  <1>7. CASE Leaving
    BY <1>7 DEF Leaving, Destroy, MainReturns, MainAt, MainGoto, LeaveUnit
  <1> QED
    BY <1>1, <1>2, <1>3, <1>4, <1>5, <1>6, <1>7 DEF Steps, Aborts

LEMMA EvenLength == ASSUME NEW n \in Nat, NEW m \in Nat, m % 2 = 1, m = n + 1 PROVE n % 2 = 0
  OBVIOUS

LEMMA OddBelow == ASSUME NEW m \in Nat, NEW n \in Nat, m % 2 = 0, n % 2 = 1, n <= m PROVE n <= m - 1
  OBVIOUS

LEMMA RoleAsAskedKept == ASSUME Asked, Steps PROVE RoleAsAsked'
  <1> USE DEF Asked, Globals, Devices, Phases
  <1> SUFFICES ASSUME pc' = "setup" PROVE RoleAsAsked'
    BY DEF RoleAsAsked
  <1>1. CASE pc = "setup" /\ UNCHANGED <<argv, config>>
    BY <1>1 DEF RoleAsAsked, Values, Role
  <1>2. CASE ParseDone
    <2>1. /\ pc = "parse" /\ i > Len(argv) /\ ~Complaint /\ UNCHANGED <<argv, config>>
      BY <1>2 DEF ParseDone, MainAt, MainGoto
    <2>2. i \in Nat /\ i % 2 = 1 /\ Len(argv) \in Nat
      BY LenProperties DEF Typed, MainTypes
    <2>3. i = Len(argv) + 1
      BY <2>1, <2>2 DEF ParseLoop
    <2>4. Len(argv) % 2 = 0
      BY <2>2, <2>3, EvenLength
    <2>5. \A n : Taken(n) <=> n \in 1 .. Len(argv) /\ n % 2 = 1
      BY <2>2, <2>3 DEF Taken
    <2>6. \A n : Taken(n) => n \in 1 .. Len(argv) - 1
      <3> TAKE n
      <3> HAVE Taken(n)
      <3>1. n \in 1 .. Len(argv) /\ n % 2 = 1 /\ n \in Nat
        BY <2>5
      <3>2. n <= Len(argv) - 1
        BY <2>2, <2>4, <3>1, OddBelow
      <3> QED
        BY <2>2, <3>1, <3>2
    <2>7. \A o : Values(o) = {argv[n + 1] : n \in {m \in 1 .. Len(argv) - 1 : GivenAt(o, m)}}
      <3>1. \A o : {m \in 1 .. Len(argv) - 1 : m % 2 = 1 /\ argv[m] = o}
                     = {m \in 1 .. Len(argv) - 1 : GivenAt(o, m)}
        <4>1. \A n \in 1 .. Len(argv) - 1 : n \in 1 .. Len(argv)
          BY <2>2
        <4> QED
          BY <2>5, <4>1 DEF GivenAt
      <3> QED
        BY <3>1 DEF Values
    <2>8. \A o : Values(o) # {} <=> \E n : GivenAt(o, n)
      BY <2>6, <2>7 DEF GivenAt
    <2>9. \A s \in Values("--bind") \cup Values("--server") : ValidAddress(s)
      <3> TAKE s \in Values("--bind") \cup Values("--server")
      <3>1. PICK n : Taken(n) /\ argv[n] \in {"--bind", "--server"} /\ s = argv[n + 1]
        BY <2>7 DEF GivenAt
      <3> QED
        BY <2>1, <3>1 DEF ParseLoop, OptionsTaken
    <2>10. \A s \in Values("--bind") \cup Values("--server") :
             AddressText[s].resolves /\ AddressText[s].port > 0 /\ AddressText[s].port < 65536
      <3> TAKE s \in Values("--bind") \cup Values("--server")
      <3>1. PICK n : Taken(n) /\ s = argv[n + 1]
        BY <2>7 DEF GivenAt
      <3>2. n + 1 \in 1 .. Len(argv)
        BY <2>2, <2>6, <3>1
      <3>3. AddressText[s] \in [colon : BOOLEAN, port : Nat, resolves : BOOLEAN]
        BY <3>1, <3>2, ProcessAssumption DEF Typed, MainTypes
      <3>4. AddressText[s].port \in Nat
        BY <3>3
      <3> QED
        BY <2>9, <3>4 DEF ValidAddress
    <2>11. \A n \in 1 .. Len(argv) : n % 2 = 1 => argv[n] \in Option
      BY <2>1, <2>5 DEF ParseLoop, OptionsTaken
    <2>12. (config.remote = 0) # (config.local = 0)
      BY <2>1, <2>2, <2>3 DEF Complaint
    <2>13. /\ (Values("--bind") # {}) <=> config.local # 0
           /\ (Values("--server") # {}) <=> config.remote # 0
      BY <2>1, <2>8 DEF ParseLoop
    <2>14. /\ (Values("--bind") # {}) = (Role = "server")
           /\ (Values("--server") # {}) = (Role = "client")
      BY <2>12, <2>13 DEF Role
    <2> HIDE DEF Asked
    <2>15. Role' = Role /\ \A o : Values(o)' = Values(o)
      BY <2>1 DEF Role, Values
    <2> QED
      BY <2>1, <2>4, <2>10, <2>11, <2>14, <2>15 DEF RoleAsAsked
  <1> QED
    BY <1>1, <1>2, SetupFrom

LEMMA TargetIsSetKept == ASSUME Asked, Steps PROVE TargetIsSet'
  <1> USE DEF Asked, Globals, Devices, Phases
  <1> SUFFICES ASSUME pc' = "setup" PROVE TargetIsSet'
    BY DEF TargetIsSet
  <1>1. CASE ParseDone
    BY <1>1 DEF ParseDone, MainAt, MainGoto, BeforeSetup, NothingYet, SetTarget, TargetIsSet
  <1>2. CASE pc = "setup" /\ UNCHANGED <<argv, config>> /\ ~ParseDone
    BY <1>2, FilesAlone DEF TargetIsSet, LeaveUnit
  <1> QED
    BY <1>1, <1>2, SetupFrom

\* The writes of a commit.
LEMMA CommitWrites ==
  ASSUME Typed, NEW t \in Thread, CommitStep(t)
  PROVE  \/ written' = written
         \/ /\ at[t] \in {"prefix", "body"} /\ file[t] \in Files
            /\ \E x \in Writes : /\ x.by = t
                                 /\ written' = [written EXCEPT ![file[t]] = Append(written[file[t]], x)]
  <1>1. CASE ReadTarget(t) \/ LockLog(t)
    BY <1>1 DEF ReadTarget, LockLog
  <1>2. ASSUME at[t] \in {"prefix", "body"} PROVE file[t] \in Files
    BY <1>2 DEF Typed, LogTypes, Logging
  <1>3. Prefix(t) \in Writes /\ Prefix(t).by = t /\ Body(t) \in Writes /\ Body(t).by = t
    BY DEF Prefix, Body, Writes, Typed, LogTypes
  <1>4. CASE WritePrefix(t)
    BY <1>2, <1>3, <1>4 DEF WritePrefix, Write
  <1>5. CASE WriteBody(t)
    BY <1>2, <1>3, <1>5 DEF WriteBody, Write
  <1> QED
    BY <1>1, <1>4, <1>5 DEF CommitStep

LEMMA LogGoesToTargetKept == ASSUME Asked, Steps PROVE LogGoesToTarget'
  <1> USE DEF Asked, Globals, Devices, Phases
  <1> DEFINE Wanted == IF config.log = "" THEN Stderr ELSE config.log
  <1>1. CASE ParseOption
    <2>1. \A f \in Files : written'[f] = <<>>
      BY <1>1 DEF ParseOption, MainAt, BeforeSetup, NothingYet
    <2>2. \A f \in Files : ToSet(written'[f]) = {}
      BY <2>1 DEF ToSet
    <2> QED
      BY <2>2 DEF LogGoesToTarget, Files
  <1>2. CASE UNCHANGED <<written, config>>
    BY <1>2 DEF LogGoesToTarget
  <1>3. ASSUME pc # "aborted", NEW t \in Thread, CommitStep(t), UNCHANGED <<mainVars, deviceVars>>
        PROVE  LogGoesToTarget'
    <2>1. CASE written' = written
      BY <1>2, <1>3, <2>1
    <2>2. CASE written' # written
      <3>1. PICK x \in Writes :
              /\ at[t] \in {"prefix", "body"} /\ file[t] \in Files
              /\ x.by = t
              /\ written' = [written EXCEPT ![file[t]] = Append(written[file[t]], x)]
        BY <1>3, <2>2, CommitWrites
      <3>2. t \in Worker => file[t] = Wanted
        <4> SUFFICES ASSUME t \in Worker PROVE file[t] = Wanted
          OBVIOUS
        <4>1. pc = "setup"
          BY <1>3, <3>1 DEF ThreadsInSetup
        <4>2. file[t] = Destination
          BY <3>1 DEF FileRead, Holding
        <4>3. config.log # "" => config.log # NoFile
          BY LoggerAssumption DEF Typed, MainTypes
        <4> QED
          BY <4>1, <4>2, <4>3 DEF TargetIsSet, Destination
      <3>3. ASSUME NEW f \in Files, NEW y \in ToSet(written'[f])
            PROVE  y \in ToSet(written[f]) \/ (f = file[t] /\ y = x)
        <4>1. CASE f = file[t]
          <5>1. written[f] \in Seq(Writes) /\ written'[f] = Append(written[f], x)
            BY <3>1, <4>1 DEF Typed, LogTypes
          <5> QED
            BY <3>3, <4>1, <5>1, ToSetAppend
        <4>2. CASE f # file[t]
          <5>1. written'[f] = written[f]
            BY <3>1, <4>2 DEF Typed, LogTypes
          <5> QED
            BY <3>3, <5>1
        <4> QED
          BY <4>1, <4>2
      <3>4. UNCHANGED config
        BY <1>3
      <3> QED
        BY <3>1, <3>2, <3>3, <3>4 DEF LogGoesToTarget, Files
    <2> QED
      BY <2>1, <2>2
  <1>4. ASSUME NEW t \in Thread, Speaks(t) PROVE written' = written
    BY <1>4, SpeakDoes
  <1>5. Quietly => written' = written
    BY DEF Quietly
  <1> HIDE DEF Asked
  <1> QED
    BY <1>1, <1>2, <1>3, <1>4, <1>5, LogSteps, DevicesAlone DEF Asked

LEMMA AskedKept == ASSUME Asked, Steps PROVE Asked'
  BY GlobalsKept, ParseLoopKept, RoleAsAskedKept, TargetIsSetKept, LogGoesToTargetKept DEF Asked

LEMMA InitAsked == Init => Asked
  <1> SUFFICES ASSUME Init PROVE Asked
    OBVIOUS
  <1>1. Globals
    BY InitGlobals
  <1>2. /\ pc = "static" /\ i = 1 /\ argv \in Seq(STRING) /\ config.local = 0 /\ config.remote = 0
    BY <1>1 DEF Init, Globals, Devices, Phases, Typed, MainTypes
  <1>3. Len(argv) \in Nat
    BY <1>2, LenProperties
  <1>4. \A n : ~Taken(n)
    BY <1>2 DEF Taken
  <1>5. ParseLoop
    BY <1>2, <1>3, <1>4 DEF ParseLoop, OptionsTaken, GivenAt
  <1>6. LogGoesToTarget
    <2>0. \A f \in Files : written[f] = <<>>
      BY DEF Init, LoggerInit, Files
    <2>1. \A f \in Files : ToSet(written[f]) = {}
      BY <2>0 DEF ToSet
    <2> QED
      BY <2>1 DEF LogGoesToTarget, Files
  <1> QED
    BY <1>1, <1>2, <1>5, <1>6 DEF Asked, RoleAsAsked, TargetIsSet

LEMMA SpecAsked == Spec => []Asked
  BY InitAsked, AskedKept, EveryStep, PTL DEF Spec

\* Whatever the command line, the process that gets to its first system call is the
\* one it asks for.
THEOREM RoleIsAsAsked == Spec => []RoleAsAsked
  BY SpecAsked, PTL DEF Asked

\* What the threads log goes to the file that the command line names, however the
\* threads and the end of main() interleave.
THEOREM LogsGoToTarget == Spec => []LogGoesToTarget
  BY SpecAsked, PTL DEF Asked

-----------------------------------------------------------------------------
(***************************************************************************)
(* The lines of the log, and the statements.                               *)
(***************************************************************************)

\* A file whose last write is a prefix waits for the text of the one thread that is
\* between the two writes.
LockHeld     == \A t \in Thread : at[t] \in {"prefix", "body"} <=> mutex = t
TextThere    == \A t \in Thread : Logging(t) => buffer[t] # <<>>
OpenLine(f)  == Len(written[f]) % 2 = 1
LineOfHolder ==
  /\ \A f \in Files : OpenLine(f) => \E t \in Thread : at[t] = "body" /\ file[t] = f
  /\ \A t \in Thread : at[t] = "body" =>
       OpenLine(file[t]) /\ written[file[t]][Len(written[file[t]])].by = t

\* Statement s is in one buffer or one line, and later ones are nowhere yet.
OnceOnly(s) == IF s \in 1 .. statements
               THEN \/ Lines(s) = {} /\ \E t : Buffers(s) = {t}
                    \/ Buffers(s) = {} /\ \E p : Lines(s) = {p}
               ELSE Lines(s) = {} /\ Buffers(s) = {}
Once == \A s \in Nat : OnceOnly(s)

Lined    == LockHeld /\ TextThere /\ LineOfHolder /\ WholeLines /\ Once
LogLines == Typed /\ Lined

LEMMA ZeroIsEven == ~(0 % 2 = 1)
  OBVIOUS

LEMMA Parity == ASSUME NEW n \in Nat PROVE ((n + 1) % 2 = 1) <=> ~(n % 2 = 1)
  OBVIOUS

\* One more write to file f.
LEMMA OneWrite ==
  ASSUME LogTypes, NEW f \in Files, NEW x \in Writes,
         written' = [written EXCEPT ![f] = Append(written[f], x)]
  PROVE  /\ Len(written[f]) \in Nat /\ Len(written'[f]) = Len(written[f]) + 1
         /\ written'[f][Len(written[f]) + 1] = x
         /\ \A n \in 1 .. Len(written[f]) : written'[f][n] = written[f][n]
         /\ \A g \in Files \ {f} : written'[g] = written[g]
         /\ OpenLine(f)' <=> ~OpenLine(f)
  <1>1. written[f] \in Seq(Writes) /\ written'[f] = Append(written[f], x)
    BY DEF LogTypes
  <1>2. /\ Len(written[f]) \in Nat /\ Len(written'[f]) = Len(written[f]) + 1
        /\ written'[f][Len(written[f]) + 1] = x
        /\ \A n \in 1 .. Len(written[f]) : written'[f][n] = written[f][n]
    BY <1>1, ToSetAppend, LenProperties
  <1>3. \A g \in Files \ {f} : written'[g] = written[g]
    BY DEF LogTypes
  <1>4. OpenLine(f)' <=> ~OpenLine(f)
    BY <1>2, Parity DEF OpenLine
  <1> QED
    BY <1>2, <1>3, <1>4

\* Where the text of a statement is.
LEMMA LineOf ==
  ASSUME NEW s, NEW p
  PROVE  p \in Lines(s) <=> \E f \in Files : \E n \in 1 .. Len(written[f]) :
                              p = <<f, n>> /\ s \in ToSet(written[f][n].text)
  BY DEF Lines, Files

LEMMA LinesAfterWrite ==
  ASSUME LogTypes, NEW f \in Files, NEW x \in Writes,
         written' = [written EXCEPT ![f] = Append(written[f], x)], NEW CONSTANT s
  PROVE  Lines(s)' = Lines(s) \cup (IF s \in ToSet(x.text) THEN {<<f, Len(written[f]) + 1>>} ELSE {})
  <1>1. /\ Len(written[f]) \in Nat /\ Len(written'[f]) = Len(written[f]) + 1
        /\ written'[f][Len(written[f]) + 1] = x
        /\ \A n \in 1 .. Len(written[f]) : written'[f][n] = written[f][n]
        /\ \A g \in Files \ {f} : written'[g] = written[g]
    BY OneWrite
  <1>2. \A p : p \in Lines(s)' <=> \E g \in Files : \E n \in 1 .. Len(written'[g]) :
                                     p = <<g, n>> /\ s \in ToSet(written'[g][n].text)
    BY DEF Lines, Files
  <1>3. ASSUME NEW p \in Lines(s)'
        PROVE  p \in Lines(s) \/ (p = <<f, Len(written[f]) + 1>> /\ s \in ToSet(x.text))
    <2>0. PICK g \in Files : \E n \in 1 .. Len(written'[g]) :
            p = <<g, n>> /\ s \in ToSet(written'[g][n].text)
      BY <1>2, <1>3
    <2>1. PICK n \in 1 .. Len(written'[g]) : p = <<g, n>> /\ s \in ToSet(written'[g][n].text)
      BY <2>0
    <2>2. CASE g # f
      BY <1>1, <2>1, <2>2, LineOf
    <2>3. CASE g = f /\ n = Len(written[f]) + 1
      BY <1>1, <2>1, <2>3
    <2>4. CASE g = f /\ n # Len(written[f]) + 1
      <3>1. n \in 1 .. Len(written[f])
        BY <1>1, <2>4
      <3> QED
        BY <1>1, <2>1, <2>4, <3>1, LineOf
    <2> QED
      BY <2>2, <2>3, <2>4
  <1>4. ASSUME NEW p \in Lines(s) PROVE p \in Lines(s)'
    <2>0. PICK g \in Files : \E n \in 1 .. Len(written[g]) :
            p = <<g, n>> /\ s \in ToSet(written[g][n].text)
      BY <1>4, LineOf
    <2>1. PICK n \in 1 .. Len(written[g]) : p = <<g, n>> /\ s \in ToSet(written[g][n].text)
      BY <2>0
    <2>2. n \in 1 .. Len(written'[g]) /\ written'[g][n] = written[g][n]
      BY <1>1, <2>1
    <2> QED
      BY <1>2, <2>1, <2>2
  <1>5. ASSUME s \in ToSet(x.text) PROVE <<f, Len(written[f]) + 1>> \in Lines(s)'
    <2>1. Len(written[f]) + 1 \in 1 .. Len(written'[f])
      BY <1>1
    <2> QED
      BY <1>1, <1>2, <1>5, <2>1
  <1> QED
    BY <1>3, <1>4, <1>5

\* A write that goes on where the file's last line ends, or that ends it.
LEMMA WholeAppend ==
  ASSUME WholeLines, NEW f \in Files, NEW x \in Writes,
         Len(written[f]) \in Nat, Len(written'[f]) = Len(written[f]) + 1,
         written'[f][Len(written[f]) + 1] = x,
         \A n \in 1 .. Len(written[f]) : written'[f][n] = written[f][n],
         \A g \in Files \ {f} : written'[g] = written[g],
         IF OpenLine(f) THEN x.text # <<>> /\ x.by = written[f][Len(written[f])].by
         ELSE x = [by |-> x.by, text |-> <<>>]
  PROVE  WholeLines'
  <1> DEFINE Fits(w, g, n) ==
        IF n % 2 = 1 THEN w[g][n] = [by |-> w[g][n].by, text |-> <<>>]
        ELSE w[g][n].text # <<>> /\ w[g][n].by = w[g][n - 1].by
  <1>1. (\A g \in Files : \A n \in 1 .. Len(written'[g]) : Fits(written', g, n)) => WholeLines'
    BY DEF WholeLines, Files
  <1>2. \A g \in Files : \A n \in 1 .. Len(written[g]) : Fits(written, g, n)
    BY DEF WholeLines, Files
  <1>3. ASSUME NEW g \in Files \ {f}, NEW n \in 1 .. Len(written'[g]) PROVE Fits(written', g, n)
    <2>1. written'[g] = written[g] /\ Fits(written, g, n)
      BY <1>2, <1>3
    <2> QED
      BY <2>1
  <1>4. ASSUME NEW n \in 1 .. Len(written[f]) PROVE Fits(written', f, n)
    <2>1. n \in Nat /\ written'[f][n] = written[f][n] /\ Fits(written, f, n)
      BY <1>2
    <2>2. CASE n % 2 = 1
      BY <2>1, <2>2
    <2>3. CASE n % 2 # 1
      <3>1. n # 1
        BY <2>3
      <3>2. n - 1 \in 1 .. Len(written[f])
        BY <3>1
      <3> QED
        BY <2>1, <2>3, <3>2
    <2> QED
      BY <2>2, <2>3
  <1>5. Fits(written', f, Len(written[f]) + 1)
    <2>1. PICK m \in Nat : m = Len(written[f])
      OBVIOUS
    <2>2. (m + 1) % 2 = 1 <=> ~(m % 2 = 1)
      BY Parity
    <2>3. written'[f][m + 1] = x
      BY <2>1
    <2>4. CASE m % 2 = 1
      <3>1. m \in 1 .. Len(written[f]) /\ (m + 1) - 1 = m
        <4>1. m # 0
          BY <2>4, ZeroIsEven
        <4> QED
          BY <2>1, <4>1
      <3>2. x.text # <<>> /\ x.by = written'[f][m].by
        BY <2>1, <2>4, <3>1 DEF OpenLine
      <3>3. Fits(written', f, m + 1)
        BY <2>2, <2>3, <2>4, <3>1, <3>2
      <3> HIDE DEF Fits
      <3> QED
        BY <2>1, <3>3
    <2>5. CASE m % 2 # 1
      <3>1. x = [by |-> x.by, text |-> <<>>]
        BY <2>1, <2>5 DEF OpenLine
      <3>2. Fits(written', f, m + 1)
        BY <2>2, <2>3, <2>5, <3>1
      <3> HIDE DEF Fits
      <3> QED
        BY <2>1, <3>2
    <2> QED
      BY <2>4, <2>5
  <1>6. ASSUME NEW n \in 1 .. Len(written'[f]) PROVE Fits(written', f, n)
    <2>1. n \in 1 .. Len(written[f]) \/ n = Len(written[f]) + 1
      OBVIOUS
    <2> HIDE DEF Fits
    <2> QED
      BY <1>4, <1>5, <2>1
  <1> HIDE DEF Fits
  <1> QED
    BY <1>1, <1>3, <1>6

\* Steps that leave the files, or the buffers too, as they are.
LEMMA LineStays ==
  ASSUME LineOfHolder, written' = written,
         \A t \in Thread : /\ at'[t] = "body" <=> at[t] = "body"
                           /\ at[t] = "body" => file'[t] = file[t]
  PROVE  LineOfHolder'
  <1>1. \A f : OpenLine(f)' <=> OpenLine(f)
    BY DEF OpenLine
  <1>2. ASSUME NEW f \in Files, OpenLine(f)' PROVE \E t \in Thread : at'[t] = "body" /\ file'[t] = f
    BY <1>1, <1>2 DEF LineOfHolder
  <1>3. ASSUME NEW t \in Thread, at'[t] = "body"
        PROVE  OpenLine(file[t])' /\ file'[t] = file[t] /\
               written'[file[t]][Len(written'[file[t]])].by = t
    BY <1>1, <1>3 DEF LineOfHolder, OpenLine
  <1> QED
    BY <1>2, <1>3 DEF LineOfHolder, OpenLine

LEMMA OnceStays == ASSUME Once, UNCHANGED <<written, buffer, statements>> PROVE Once'
  <1>1. \A s : Lines(s)' = Lines(s) /\ Buffers(s)' = Buffers(s)
    BY DEF Lines, Buffers
  <1>2. ASSUME NEW CONSTANT s \in Nat PROVE OnceOnly(s)'
    <2>1. OnceOnly(s)
      BY DEF Once
    <2>2. Lines(s)' = Lines(s) /\ Buffers(s)' = Buffers(s)
      BY <1>1
    <2> QED
      BY <2>1, <2>2 DEF OnceOnly
  <1> QED
    BY <1>2 DEF Once

LEMMA SpeakLines == ASSUME LogLines, NEW t \in Thread, Speaks(t) PROVE Lined'
  <1> USE DEF LogLines, Lined
  <1>0. /\ at[t] = "quiet" /\ at'[t] \in {"quiet", "commit"}
        /\ \A u \in Thread \ {t} : at'[u] = at[u] /\ buffer'[u] = buffer[u]
        /\ statements' = statements + 1 /\ statements \in Nat
        /\ buffer'[t] = Append(buffer[t], statements') /\ buffer[t] \in Seq(Nat)
        /\ UNCHANGED <<mutex, file, written>>
    BY SpeakDoes DEF Typed, LogTypes
  <1>2. LockHeld'
    BY <1>0 DEF LockHeld
  <1>3. ToSet(buffer'[t]) = ToSet(buffer[t]) \cup {statements'} /\ buffer'[t] # <<>>
    <2>1. statements' \in Nat
      BY <1>0
    <2> QED
      BY <1>0, <2>1, ToSetAppend, AppendProperties
  <1>4. TextThere'
    BY <1>0, <1>3 DEF TextThere, Logging
  <1>5. LineOfHolder'
    BY <1>0, LineStays
  <1>6. WholeLines'
    BY <1>0 DEF WholeLines
  <1>7. Once'
    <2> SUFFICES ASSUME NEW CONSTANT s \in Nat PROVE OnceOnly(s)'
      BY DEF Once
    <2>1. Lines(s)' = Lines(s)
      BY <1>0 DEF Lines
    <2>2. OnceOnly(s)
      BY DEF Once
    <2>3. Buffers(s)' = IF s = statements' THEN Buffers(s) \cup {t} ELSE Buffers(s)
      BY <1>0, <1>3 DEF Buffers
    <2>4. CASE s = statements'
      <3>1. s \notin 1 .. statements /\ s \in 1 .. statements'
        BY <1>0, <2>4
      <3>2. Lines(s)' = {} /\ Buffers(s)' = {t}
        BY <2>1, <2>2, <2>3, <2>4, <3>1 DEF OnceOnly
      <3> QED
        BY <3>1, <3>2 DEF OnceOnly
    <2>5. CASE s # statements'
      <3>1. s \in 1 .. statements <=> s \in 1 .. statements'
        BY <1>0, <2>5
      <3> QED
        BY <2>1, <2>2, <2>3, <2>5, <3>1 DEF OnceOnly
    <2> QED
      BY <2>4, <2>5
  <1> QED
    BY <1>2, <1>4, <1>5, <1>6, <1>7

LEMMA CommitLines == ASSUME LogLines, NEW t \in Thread, CommitStep(t) PROVE Lined'
  <1> USE DEF LogLines, Lined
  <1>0. /\ LogTypes /\ at \in [Thread -> Places] /\ file \in [Thread -> Files \cup {NoFile}]
        /\ buffer \in [Thread -> Seq(Nat)]
    BY DEF Typed, LogTypes
  <1>1. CASE ReadTarget(t)
    <2>1. /\ at[t] = "commit" /\ at' = [at EXCEPT ![t] = "lock"]
          /\ \A u \in Thread \ {t} : file'[u] = file[u]
          /\ UNCHANGED <<mutex, buffer, statements, written>>
      BY <1>0, <1>1 DEF ReadTarget, Goto
    <2>2. LockHeld' /\ TextThere'
      BY <1>0, <2>1 DEF LockHeld, TextThere, Logging
    <2>3. \A u \in Thread : at'[u] = "body" <=> at[u] = "body"
      BY <1>0, <2>1
    <2>4. LineOfHolder'
      BY <1>0, <2>1, <2>3, LineStays
    <2>5. WholeLines'
      BY <2>1 DEF WholeLines
    <2> QED
      BY <2>1, <2>2, <2>4, <2>5, OnceStays
  <1>2. CASE LockLog(t)
    <2>1. /\ at[t] = "lock" /\ at' = [at EXCEPT ![t] = "prefix"]
          /\ mutex = NoThread /\ mutex' = t
          /\ UNCHANGED <<file, buffer, statements, written>>
      BY <1>0, <1>2 DEF LockLog, Goto
    <2>2. LockHeld' /\ TextThere'
      BY <1>0, <2>1, LoggerAssumption DEF LockHeld, TextThere, Logging
    <2>3. \A u \in Thread : at'[u] = "body" <=> at[u] = "body"
      BY <1>0, <2>1
    <2>4. LineOfHolder'
      BY <1>0, <2>1, <2>3, LineStays
    <2>5. WholeLines'
      BY <2>1 DEF WholeLines
    <2> QED
      BY <2>1, <2>2, <2>4, <2>5, OnceStays
  <1>3. CASE WritePrefix(t)
    <2>1. /\ at[t] = "prefix" /\ at' = [at EXCEPT ![t] = "body"]
          /\ UNCHANGED <<mutex, file, buffer, statements>>
      BY <1>3 DEF WritePrefix, Goto
    <2>2. PICK f \in Files : f = file[t]
      BY <1>0, <2>1 DEF LogTypes, Logging
    <2>3. PICK x \in Writes : x = [by |-> t, text |-> <<>>]
      BY EmptySeq DEF Writes
    <2>4. written' = [written EXCEPT ![f] = Append(written[f], x)]
      BY <1>3, <2>2, <2>3 DEF WritePrefix, Write, Prefix
    <2>5. /\ Len(written[f]) \in Nat /\ Len(written'[f]) = Len(written[f]) + 1
          /\ written'[f][Len(written[f]) + 1] = x
          /\ \A n \in 1 .. Len(written[f]) : written'[f][n] = written[f][n]
          /\ \A g \in Files \ {f} : written'[g] = written[g]
          /\ OpenLine(f)' <=> ~OpenLine(f)
      BY <1>0, <2>4, OneWrite
    <2>6. \A u \in Thread : at[u] # "body"
      BY <2>1 DEF LockHeld
    <2>7. ~OpenLine(f)
      BY <2>6 DEF LineOfHolder
    <2>8. LockHeld' /\ TextThere'
      BY <1>0, <2>1 DEF LockHeld, TextThere, Logging
    <2>9. LineOfHolder'
      <3>1. \A u \in Thread : at'[u] = "body" <=> u = t
        BY <1>0, <2>1, <2>6
      <3>2. \A g \in Files \ {f} : ~OpenLine(g)'
        <4>1. \A g \in Files \ {f} : ~OpenLine(g)
          BY <2>6 DEF LineOfHolder
        <4> QED
          BY <2>5, <4>1 DEF OpenLine
      <3>3. written'[f][Len(written'[f])].by = t
        BY <2>3, <2>5
      <3> QED
        BY <2>1, <2>2, <2>5, <2>7, <3>1, <3>2, <3>3 DEF LineOfHolder
    <2>10. WholeLines'
      BY <2>3, <2>5, <2>7, WholeAppend
    <2>11. Once'
      <3> SUFFICES ASSUME NEW CONSTANT s \in Nat PROVE OnceOnly(s)'
        BY DEF Once
      <3>1. ToSet(x.text) = {}
        BY <2>3 DEF ToSet
      <3>2. Lines(s)' = Lines(s)
        BY <1>0, <2>4, <3>1, LinesAfterWrite
      <3>3. Buffers(s)' = Buffers(s)
        BY <2>1 DEF Buffers
      <3> QED
        BY <2>1, <3>2, <3>3 DEF Once, OnceOnly
    <2> QED
      BY <2>8, <2>9, <2>10, <2>11
  <1>4. CASE WriteBody(t)
    <2>1. /\ at[t] = "body" /\ at' = [at EXCEPT ![t] = "quiet"] /\ mutex' = NoThread
          /\ buffer' = [buffer EXCEPT ![t] = <<>>]
          /\ UNCHANGED <<file, statements>>
      BY <1>4 DEF WriteBody, Goto
    <2>2. PICK f \in Files : f = file[t]
      BY <1>0, <2>1 DEF LogTypes, Logging
    <2>3. PICK x \in Writes : x = [by |-> t, text |-> buffer[t]]
      BY <1>0 DEF Writes
    <2>4. written' = [written EXCEPT ![f] = Append(written[f], x)]
      BY <1>4, <2>2, <2>3 DEF WriteBody, Write, Body
    <2>5. /\ Len(written[f]) \in Nat /\ Len(written'[f]) = Len(written[f]) + 1
          /\ written'[f][Len(written[f]) + 1] = x
          /\ \A n \in 1 .. Len(written[f]) : written'[f][n] = written[f][n]
          /\ \A g \in Files \ {f} : written'[g] = written[g]
          /\ OpenLine(f)' <=> ~OpenLine(f)
      BY <1>0, <2>4, OneWrite
    <2>6. mutex = t /\ \A u \in Thread \ {t} : at[u] \notin {"prefix", "body"}
      BY <2>1 DEF LockHeld
    <2>7. OpenLine(f) /\ written[f][Len(written[f])].by = t
      BY <2>1, <2>2 DEF LineOfHolder
    <2>8. LockHeld' /\ TextThere'
      BY <1>0, <2>1, <2>6, LoggerAssumption DEF LockHeld, TextThere, Logging
    <2>9. LineOfHolder'
      <3>1. \A u \in Thread : at'[u] # "body"
        BY <1>0, <2>1, <2>6
      <3>2. \A g \in Files \ {f} : ~OpenLine(g)'
        <4>1. \A g \in Files \ {f} : ~OpenLine(g)
          BY <2>2, <2>6 DEF LineOfHolder
        <4> QED
          BY <2>5, <4>1 DEF OpenLine
      <3> QED
        BY <2>5, <2>7, <3>1, <3>2 DEF LineOfHolder
    <2>10. WholeLines'
      <3>1. buffer[t] # <<>>
        BY <2>1 DEF TextThere, Logging
      <3> QED
        BY <2>3, <2>5, <2>7, <3>1, WholeAppend
    <2>11. Once'
      <3> SUFFICES ASSUME NEW CONSTANT s \in Nat PROVE OnceOnly(s)'
        BY DEF Once
      <3>0. OnceOnly(s)
        BY DEF Once
      <3>1. Lines(s)' = Lines(s) \cup (IF s \in ToSet(x.text) THEN {<<f, Len(written[f]) + 1>>} ELSE {})
        BY <1>0, <2>4, LinesAfterWrite
      <3>2. s \in ToSet(x.text) <=> t \in Buffers(s)
        BY <2>3 DEF Buffers
      <3>3. Buffers(s)' = Buffers(s) \ {t}
        <4>1. ToSet(buffer'[t]) = {}
          <5>1. buffer'[t] = <<>>
            BY <1>0, <2>1
          <5> QED
            BY <5>1 DEF ToSet
        <4>2. \A u \in Thread \ {t} : buffer'[u] = buffer[u]
          BY <1>0, <2>1
        <4> QED
          BY <4>1, <4>2 DEF Buffers
      <3>4. CASE t \in Buffers(s)
        <4>1. s \in 1 .. statements /\ Lines(s) = {} /\ Buffers(s) = {t}
          BY <3>0, <3>4 DEF OnceOnly
        <4>2. Buffers(s)' = {} /\ Lines(s)' = {<<f, Len(written[f]) + 1>>}
          BY <3>1, <3>2, <3>3, <3>4, <4>1
        <4> QED
          BY <2>1, <4>1, <4>2 DEF OnceOnly
      <3>5. CASE t \notin Buffers(s)
        <4>1. Buffers(s)' = Buffers(s) /\ Lines(s)' = Lines(s)
          BY <3>1, <3>2, <3>3, <3>5
        <4> QED
          BY <2>1, <3>0, <4>1 DEF OnceOnly
      <3> QED
        BY <3>4, <3>5
    <2> QED
      BY <2>8, <2>9, <2>10, <2>11
  <1> QED
    BY <1>1, <1>2, <1>3, <1>4 DEF CommitStep

LEMMA LinedKept == ASSUME LogLines, Steps PROVE Lined'
  <1>1. CASE Quietly
    <2> USE DEF LogLines, Lined
    <2>1. /\ \A t \in Thread : /\ Logging(t)' <=> Logging(t)
                               /\ at'[t] \in {"prefix", "body"} <=> at[t] \in {"prefix", "body"}
                               /\ at'[t] = "body" <=> at[t] = "body"
          /\ UNCHANGED <<mutex, file, buffer, statements, written>>
      BY <1>1 DEF Quietly, Logging
    <2>2. LockHeld' /\ TextThere'
      BY <2>1 DEF LockHeld, TextThere
    <2>3. LineOfHolder'
      BY <2>1, LineStays
    <2>4. WholeLines'
      BY <2>1 DEF WholeLines
    <2> QED
      BY <2>1, <2>2, <2>3, <2>4, OnceStays
  <1> QED
    BY <1>1, SpeakLines, CommitLines, LogSteps DEF LogLines

LEMMA InitLogLines == Init => LogLines
  <1> SUFFICES ASSUME Init PROVE LogLines
    OBVIOUS
  <1>1. /\ Typed /\ statements = 0 /\ mutex = NoThread
        /\ \A t \in Thread : at[t] \in {"quiet", "off"} /\ buffer[t] = <<>>
        /\ \A f \in Files : written[f] = <<>>
    BY InitTyped DEF Init, LoggerInit, Files
  <1>2. LockHeld /\ TextThere
    BY <1>1, LoggerAssumption DEF LockHeld, TextThere, Logging
  <1>3. \A f \in Files : Len(written[f]) = 0
    BY <1>1
  <1>4. LineOfHolder
    <2>1. \A f \in Files : ~OpenLine(f)
      BY <1>3, ZeroIsEven DEF OpenLine
    <2> QED
      BY <1>1, <2>1 DEF LineOfHolder
  <1>5. WholeLines
    BY <1>3 DEF WholeLines, Files
  <1>6. Once
    <2>1. ASSUME NEW s PROVE Lines(s) = {} /\ Buffers(s) = {}
      <3>1. \A t \in Thread : ToSet(buffer[t]) = {}
        BY <1>1 DEF ToSet
      <3> QED
        BY <1>3, <3>1, LineOf DEF Buffers
    <2> QED
      BY <1>1, <2>1 DEF Once, OnceOnly
  <1> QED
    BY <1>1, <1>2, <1>4, <1>5, <1>6 DEF LogLines, Lined

LEMMA SpecLogLines == Spec => []LogLines
  <1>1. LogLines /\ [Next]_vars => LogLines'
    BY LinedKept, TypedKept, EveryStep DEF LogLines
  <1> QED
    BY <1>1, InitLogLines, PTL DEF Spec

\* However many threads log at once, a log file is whole lines: prefix and text of
\* one thread, one line after the other.
THEOREM LinesAreWhole == Spec => []WholeLines
  BY SpecLogLines, PTL DEF LogLines, Lined

\* No statement is lost and none is logged twice, in any interleaving of any number
\* of threads, up to the moment the process ends.
THEOREM StatementsOnce == Spec => []EachStatementOnce
  <1>1. LogLines => EachStatementOnce
    <2> SUFFICES ASSUME LogLines, NEW s \in 1 .. statements
                 PROVE  Cardinality(Lines(s)) + Cardinality(Buffers(s)) = 1
      BY DEF EachStatementOnce
    <2>1. s \in Nat /\ OnceOnly(s)
      BY DEF LogLines, Lined, Once, Typed, LogTypes
    <2>2. Cardinality({}) = 0 /\ \A x : Cardinality({x}) = 1
      BY FS_EmptySet, FS_Singleton
    <2>3. \/ Lines(s) = {} /\ \E t : Buffers(s) = {t}
          \/ Buffers(s) = {} /\ \E p : Lines(s) = {p}
      BY <2>1 DEF OnceOnly
    <2>4. \/ Cardinality(Lines(s)) = 0 /\ Cardinality(Buffers(s)) = 1
          \/ Cardinality(Lines(s)) = 1 /\ Cardinality(Buffers(s)) = 0
      BY <2>2, <2>3, Zenon
    <2> QED
      BY <2>4
  <1> QED
    BY <1>1, SpecLogLines, PTL
=============================================================================
