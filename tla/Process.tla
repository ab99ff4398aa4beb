------------------------------- MODULE Process -------------------------------
(***************************************************************************)
(* The life of one process (main.cpp): static construction, the command    *)
(* line, the system calls that set up the virtual interface (Tuntap) and   *)
(* the socket (DatagramSocket), the three threads, and the way out, by a   *)
(* return, by an exception that main() catches, or by std::terminate.      *)
(* What the threads do is TunnelServer's and TunnelClient's matter; here   *)
(* they log, fail, and end.                                                *)
(***************************************************************************)
EXTENDS Logger, FiniteSets

CONSTANTS Main,         \* the thread of main(); the others are started by it
          Unit,         \* the translation units
          Platform,     \* "unix", "win32"
          CommandLine,  \* argument lists, sequences of strings
          AddressText,  \* what getInetAddress finds in an argument
          MaxStatements \* a bound: the threads log until there are so many

ASSUME ProcessAssumption ==
  /\ Main \in Thread /\ MaxStatements \in Nat /\ IsFiniteSet(Unit) /\ Unit # {}
  /\ Platform \subseteq {"unix", "win32"}
  /\ CommandLine \subseteq Seq(STRING)
  /\ \A a \in CommandLine : \A n \in 1 .. Len(a) :
       /\ AddressText[a[n]] \in [colon : BOOLEAN, port : Nat, resolves : BOOLEAN]
       /\ n > 1 /\ a[n - 1] = "--log" => a[n] \in Target \cup {""}

VARIABLES platform, argv,
          units,    \* the units under construction, in their order
          wsa,      \* InitGlobal<StartWSA>
          i,        \* parseCommandLine's next argument
          config,   \* the ports (0 when not given) and the log file
          pc,       \* where main() is
          calls,    \* the system calls it has still to make
          handles,  \* open handles: the TAP device, its control socket, the socket
          objects,  \* the constructed locals of startServer() or startClient()
          ready,    \* what has been done to interface and socket
          tries,    \* requests startSession() has had no answer to
          thrown,   \* the call that has thrown, or none
          status    \* main()'s result

mainVars   == <<platform, argv, units, wsa, i, config, pc>>
deviceVars == <<calls, handles, objects, ready, tries, thrown, status>>
vars == <<mainVars, deviceVars, loggerVars>>

Worker == Thread \ {Main}

\* The calls that set the process up: Tuntap(), Tuntap::start(), and all of them.
UnixTunCalls  == <<"open", "setiff", "mac">>
Win32TunCalls == <<"adapter", "open">>
UnixIfCalls   == <<"control", "ifup", "close">>
Win32IfCalls  == <<"media", "address">>

TunCalls == IF platform = "unix" THEN UnixTunCalls ELSE Win32TunCalls
IfCalls  == IF platform = "unix" THEN UnixIfCalls ELSE Win32IfCalls
ServerCalls == TunCalls \o IfCalls \o <<"socket", "bind">>
ClientCalls == TunCalls \o <<"socket", "handshake">> \o IfCalls

Init ==
  /\ LoggerInit
  /\ at = [t \in Thread |-> IF t = Main THEN "quiet" ELSE "off"]
  /\ platform \in Platform /\ argv \in CommandLine
  /\ units = <<>> /\ wsa = NewGlobal
  /\ i = 1
  /\ config = [remote |-> 0, local |-> 0, log |-> ""]
  /\ pc = "static"
  /\ calls = <<>> /\ handles = {} /\ objects = <<>> /\ ready = {} /\ tries = 0
  /\ thrown = "none" /\ status = 0

\* main() is at w, and not in a log statement.
MainAt(w)   == pc = w /\ at[Main] = "quiet"
MainGoto(w) == pc' = w /\ UNCHANGED <<platform, argv, units, wsa, i, config>>

\* std::terminate, or a fault: nothing of the process runs any more.
Abort == MainGoto("aborted") /\ UNCHANGED <<deviceVars, loggerVars>>

-----------------------------------------------------------------------------
(***************************************************************************)
(* Before main(): the units in any order.  On Windows each also has an     *)
(* InitGlobal<StartWSA>, whose object is the use of the socket library.    *)
(***************************************************************************)
EnterUnit(u) ==
  /\ pc = "static"
  /\ u \notin ToSet(units)
  /\ units' = Append(units, u)
  /\ wsa' = IF platform = "win32" THEN AfterEnter(wsa) ELSE wsa
  /\ EnterLogger
  /\ UNCHANGED <<platform, argv, i, config, pc, deviceVars>>

\* WSAStartup() failed; there is nobody to catch Unpossible.
StartWSAThrows ==
  /\ pc = "static" /\ platform = "win32" /\ wsa.object = "raw"
  /\ Abort

StartMain ==
  /\ pc = "static" /\ ToSet(units) = Unit
  /\ MainGoto("parse")
  /\ UNCHANGED <<deviceVars, loggerVars>>

-----------------------------------------------------------------------------
(***************************************************************************)
(* parseCommandLine and getInetAddress.                                    *)
(***************************************************************************)
Option == {"--server", "--bind", "--secret", "--log"}

ValidAddress(s) == /\ AddressText[s].colon
                   /\ AddressText[s].port > 0 /\ AddressText[s].port < 65535
                   /\ AddressText[s].resolves

Return(s) == pc' = "unwind" /\ status' = s

\* config after option o with value s.
Configured(o, s) == CASE o = "--server" -> [config EXCEPT !.remote = AddressText[s].port]
                      [] o = "--bind"   -> [config EXCEPT !.local = AddressText[s].port]
                      [] o = "--log"    -> [config EXCEPT !.log = s]
                      [] o = "--secret" -> config

ParseOption ==
  /\ MainAt("parse") /\ i < Len(argv) /\ argv[i] \in Option
  /\ argv[i] \in {"--server", "--bind"} => ValidAddress(argv[i + 1])
  /\ config' = Configured(argv[i], argv[i + 1])
  /\ i' = i + 2
  /\ UNCHANGED <<platform, argv, units, wsa, pc, deviceVars, loggerVars>>

\* ConfigError
ParseThrows ==
  /\ MainAt("parse") /\ i < Len(argv) /\ argv[i] \in {"--server", "--bind"}
  /\ ~ValidAddress(argv[i + 1])
  /\ thrown' = "parse" /\ Return(1)
  /\ UNCHANGED <<platform, argv, units, wsa, i, config, calls, handles, objects, ready, tries, loggerVars>>

\* argv[++i] is the null pointer behind the last argument, and is read.
ParseCrashes ==
  /\ MainAt("parse") /\ i = Len(argv) /\ argv[i] \in Option
  /\ Abort

\* A mistake: giving both is not noticed.
BadComplaint == IF i <= Len(argv) THEN argv[i] \notin Option
                ELSE config.remote = 0 /\ config.local = 0

\* An unknown option, neither --bind nor --server, or both.
Complaint == IF i <= Len(argv) THEN argv[i] \notin Option
             ELSE (config.remote = 0) = (config.local = 0)

ParseFails ==
  /\ MainAt("parse") /\ Complaint
  /\ Say(Main)
  /\ Return(1)
  /\ UNCHANGED <<platform, argv, units, wsa, i, config, calls, handles, objects, ready, tries, thrown>>

\* Everything read: setTarget(), then startServer() or startClient().
ParseDone ==
  /\ MainAt("parse") /\ i > Len(argv) /\ ~Complaint
  /\ IF config.log = "" THEN UNCHANGED loggerVars ELSE SetTarget(config.log)
  /\ MainGoto("setup")
  /\ calls' = IF config.local # 0 THEN ServerCalls ELSE ClientCalls
  /\ UNCHANGED <<handles, objects, ready, tries, thrown, status>>

\* fopen() failed.
TargetThrows ==
  /\ MainAt("parse") /\ i > Len(argv) /\ ~Complaint /\ config.log # ""
  /\ thrown' = "log" /\ Return(1)
  /\ UNCHANGED <<platform, argv, units, wsa, i, config, calls, handles, objects, ready, tries, loggerVars>>

-----------------------------------------------------------------------------
(***************************************************************************)
(* startServer and startClient: every system call may fail, and its        *)
(* wrapper then throws (SystemError, ConfigError, Unpossible).             *)
(***************************************************************************)
\* A mistake: Tuntap::start does not close its control socket.
BadHandlesAfter(c) == handles \cup CASE c = "open" -> {"tun"} [] c = "control" -> {"control"}
                                     [] c = "socket" -> {"socket"} [] OTHER -> {}

HandlesAfter(c) == CASE c = "open"    -> handles \cup {"tun"}
                     [] c = "control" -> handles \cup {"control"}
                     [] c = "socket"  -> handles \cup {"socket"}
                     [] c = "close"   -> handles \ {"control"}
                     [] OTHER         -> handles

\* The constructors that have returned with call c.
ObjectsAfter(c) == objects \o CASE c = Last(TunCalls) -> <<"tun">>
                                [] c = "socket" -> <<"socket">>
                                [] OTHER -> <<>>

\* AddIPAddress returns NO_ERROR, which is 0, when it has added the address, and
\* start() takes 0 for its failure: it throws when the address has been added, and
\* returns when it has not.
Inverted(c) == c = "address"

CallReturns ==
  /\ MainAt("setup") /\ calls # <<>> /\ (Head(calls) = "handshake" => tries < 3)
  /\ LET c == Head(calls) IN
       /\ handles' = HandlesAfter(c)
       /\ objects' = ObjectsAfter(c)
       /\ ready' = IF Inverted(c) THEN ready ELSE ready \cup {c}
  /\ calls' = Tail(calls)
  /\ UNCHANGED <<mainVars, tries, thrown, status, loggerVars>>

CallThrows ==
  /\ MainAt("setup") /\ calls # <<>> /\ (Head(calls) = "handshake" => tries < 3)
  /\ thrown' = Head(calls) /\ Return(1)
  /\ ready' = IF Inverted(Head(calls)) THEN ready \cup {Head(calls)} ELSE ready
  /\ UNCHANGED <<platform, argv, units, wsa, i, config, calls, handles, objects, tries, loggerVars>>

\* Windows: GetAdaptersInfo stands inside MUDDY_ASSERT.  A debug build throws what
\* main() catches if it fails; any other does not call it, and Tuntap() looks for
\* the adapter in an array that nobody has written: it finds one, none, or a fault.
AdapterCrashes ==
  /\ MainAt("setup") /\ calls # <<>> /\ Head(calls) = "adapter"
  /\ Abort

\* No answer, or one of another size: startSession() says so and tries again.
HandshakeRetry ==
  /\ MainAt("setup") /\ calls # <<>> /\ Head(calls) = "handshake" /\ tries < 3
  /\ Say(Main)
  /\ tries' = tries + 1
  /\ UNCHANGED <<mainVars, calls, handles, objects, ready, thrown, status>>

\* Windows: ~CleanUp, which is noexcept, cannot make the socket blocking again.
HandshakeAborts ==
  /\ MainAt("setup") /\ platform = "win32"
  /\ calls # <<>> /\ Head(calls) = "handshake" /\ tries < 3
  /\ Abort

\* Three times: startClient() says so and returns as if all were well.
HandshakeFails ==
  /\ MainAt("setup") /\ calls # <<>> /\ Head(calls) = "handshake" /\ tries = 3
  /\ Say(Main)
  /\ Return(0)
  /\ UNCHANGED <<platform, argv, units, wsa, i, config, calls, handles, objects, ready, tries, thrown>>

StartThread(t) ==
  /\ MainAt("setup") /\ calls = <<>>
  /\ at[t] = "off" /\ Goto(t, "quiet")
  /\ UNCHANGED <<mainVars, deviceVars, logger, logFile, openFiles, mutex, file, buffer, statements, written>>

\* std::thread could not start one: main() does not catch system_error.
ThreadThrows ==
  /\ MainAt("setup") /\ calls = <<>>
  /\ \E t \in Worker : at[t] = "off"
  /\ Abort

\* A mistake: one of the threads is detached.
BadJoined == Cardinality({t \in Worker : at[t] = "done"}) + 1 >= Cardinality(Worker)

Joined == \A t \in Worker : at[t] = "done"

JoinAll ==
  /\ MainAt("setup") /\ calls = <<>>
  /\ \A t \in Worker : at[t] # "off"
  /\ Joined
  /\ Return(0)
  /\ UNCHANGED <<platform, argv, units, wsa, i, config, calls, handles, objects, ready, tries, thrown, loggerVars>>

-----------------------------------------------------------------------------
(***************************************************************************)
(* The threads.  Those of a server never return.                           *)
(***************************************************************************)
Role == IF config.local # 0 THEN "server" ELSE "client"

WorkerSays(t) ==
  /\ statements < MaxStatements
  /\ Say(t) \/ (SayPart(t) /\ Len(buffer[t]) = 0)
  /\ UNCHANGED <<mainVars, deviceVars>>

WorkerEnds(t) ==
  /\ Role = "client"
  /\ at[t] = "quiet" /\ Goto(t, "done")
  /\ UNCHANGED <<mainVars, deviceVars, logger, logFile, openFiles, mutex, file, buffer, statements, written>>

\* send() or recv(), read() or write() fails: the exception leaves the thread.
SocketThrows(t) == at[t] = "quiet" /\ Abort
TuntapThrows(t) == at[t] = "quiet" /\ Abort

Commits(t) == CommitStep(t) /\ UNCHANGED <<mainVars, deviceVars>>

\* fwrite() fails: the exception leaves ~Composer, which is noexcept.
WriteThrows(t) == at[t] \in {"prefix", "body"} /\ Abort

-----------------------------------------------------------------------------
(***************************************************************************)
(* The way out: locals, in the reverse order of their construction, then   *)
(* the units' globals, likewise.                                           *)
(***************************************************************************)
Destroy ==
  /\ MainAt("unwind") /\ objects # <<>>
  /\ handles' = handles \ {Last(objects)}
  /\ objects' = Front(objects)
  /\ UNCHANGED <<mainVars, calls, ready, tries, thrown, status, loggerVars>>

\* close() or fclose() fails in a destructor, which is noexcept.
DestroyThrows ==
  /\ \/ MainAt("unwind") /\ objects # <<>>
     \/ pc = "exit" /\ logFile \in openFiles /\ logger.counter = 1
  /\ Abort

MainReturns ==
  /\ MainAt("unwind") /\ objects = <<>>
  /\ MainGoto("exit")
  /\ UNCHANGED <<deviceVars, loggerVars>>

LeaveUnit ==
  /\ pc = "exit" /\ units # <<>>
  /\ units' = Front(units)
  /\ wsa' = IF platform = "win32" THEN AfterLeave(wsa) ELSE wsa
  /\ LeaveLogger
  /\ UNCHANGED <<platform, argv, i, config, pc, deviceVars>>

Ended == pc = "aborted" \/ (pc = "exit" /\ units = <<>>)

MainStep == \/ (\E u \in Unit : EnterUnit(u)) \/ StartWSAThrows \/ StartMain
            \/ ParseOption \/ ParseThrows \/ ParseCrashes
            \/ ParseFails \/ HandshakeRetry \/ HandshakeAborts \/ HandshakeFails \/ ParseDone \/ TargetThrows
            \/ CallReturns \/ CallThrows \/ AdapterCrashes
            \/ (\E t \in Worker : StartThread(t)) \/ ThreadThrows \/ JoinAll
            \/ Destroy \/ DestroyThrows \/ MainReturns \/ LeaveUnit

WorkerStep(t) == WorkerSays(t) \/ WorkerEnds(t) \/ SocketThrows(t) \/ TuntapThrows(t)

Next == \/ MainStep
        \/ ~Ended /\ \E t \in Worker : WorkerStep(t)
        \/ ~Ended /\ \E t \in Thread : Commits(t) \/ WriteThrows(t)
        \/ Ended /\ UNCHANGED vars

Spec == Init /\ [][Next]_vars

-----------------------------------------------------------------------------
Logging(t) == at[t] \in {"commit", "lock", "prefix", "body"}
Holding(t) == at[t] \in {"lock", "prefix", "body"}

\* A log file is whole lines: each prefix is followed by a text of the thread
\* whose prefix it is, whoever logs at the same time.  (Logger.cpp:32-37)
WholeLines ==
  \A f \in Target \cup {Stderr} : \A n \in 1 .. Len(written[f]) :
    LET x == written[f][n] IN
      IF n % 2 = 1 THEN x = [by |-> x.by, text |-> <<>>]
      ELSE x.text # <<>> /\ x.by = written[f][n - 1].by

\* No statement is lost and none is logged twice: its text is in one buffer or in
\* one line.  (Logger.cpp:30-38, Composer.hpp:21-34)
Lines(s) == UNION {{f} \X {n \in 1 .. Len(written[f]) : s \in ToSet(written[f][n].text)} :
                     f \in Target \cup {Stderr}}
Buffers(s) == {t \in Thread : s \in ToSet(buffer[t])}

EachStatementOnce ==
  \A s \in 1 .. statements : Cardinality(Lines(s)) + Cardinality(Buffers(s)) = 1

\* Nobody logs before the Logger is constructed or after it is destroyed, and the
\* file commit() has read without the lock is still open when it writes to it; on
\* Windows no socket is open outside the use of the socket library.
\* (Logger.cpp:33, Logger.hpp:46-50, InitGlobal.hpp:15-25, StartWSA.hpp:16-25)
GlobalsReady ==
  /\ \A t \in Thread : Logging(t) => logger.object = "alive"
  /\ \A t \in Thread : Holding(t) => file[t] \in openFiles \cup {Stderr}
  /\ platform = "win32" /\ "socket" \in handles => wsa.object = "alive"

\* While a thread runs, the device and the socket are open, and the socket is bound
\* or has a session.  On Unix the interface is up.  On Windows its medium is
\* connected, but AddIPAddress has not given it an address: had it done so, start()
\* would have thrown.  (main.cpp:77-92 and 126-145, Tuntap_win32.cpp:43-53)
InterfaceReady == IF platform = "unix" THEN "ifup" \in ready
                  ELSE "media" \in ready /\ "address" \notin ready

DevicesReady ==
  \A t \in Worker : at[t] \notin {"off", "done"} =>
    /\ {"tun", "socket"} \subseteq handles
    /\ (IF Role = "server" THEN "bind" ELSE "handshake") \in ready
    /\ InterfaceReady

\* When main() has returned, no handle is left open but what the throwing function
\* had opened and does not close: Tuntap()'s device, start()'s control socket.
\* (Tuntap_unix.cpp:12-33 and 54-64, DatagramSocket.hpp:19-21)
Abandoned == CASE thrown \in {"setiff", "mac"} -> {"tun"}
               [] thrown \in {"ifup", "close"} -> {"control"}
               [] OTHER -> {}

HandlesReturned == pc = "exit" => handles \subseteq Abandoned

\* What the command line asks for, read as a list of pairs.
Values(o) == {argv[n + 1] : n \in {m \in 1 .. Len(argv) - 1 : m % 2 = 1 /\ argv[m] = o}}

\* A process gets to its first system call only with pairs of known options, and
\* as the one thing it is asked to be.  (main.cpp:34-57)
RoleAsAsked ==
  pc = "setup" =>
    /\ Len(argv) % 2 = 0 /\ \A n \in 1 .. Len(argv) : n % 2 = 1 => argv[n] \in Option
    /\ (Values("--bind") # {}) = (Role = "server")
    /\ (Values("--server") # {}) = (Role = "client")
    /\ \A s \in Values("--bind") \cup Values("--server") :
         AddressText[s].resolves /\ AddressText[s].port > 0 /\ AddressText[s].port < 65536

\* The threads' lines go to the last file that --log names, and to stderr only
\* when it names none.  (main.cpp:58-60, Logger.cpp:33 and 41-53)
LogGoesToTarget ==
  \A f \in Target \cup {Stderr} : \A x \in ToSet(written[f]) :
    x.by \in Worker => f = IF config.log = "" THEN Stderr ELSE config.log
=============================================================================
