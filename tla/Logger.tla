-------------------------------- MODULE Logger --------------------------------
(***************************************************************************)
(* muddy::logging (Logger.cpp, Logger.hpp, Composer.hpp).  A log statement *)
(* is a Composer: << puts its text into the thread's own buffer, and its   *)
(* destructor commits the buffer as one line, unless the statement ends in *)
(* `continuous': then the text stays for the thread's next statement.      *)
(*                                                                         *)
(* commit() reads which FILE to write to before it takes the mutex, and    *)
(* writes prefix and body with two calls under it.  Statements below       *)
(* MUDDY_LOGGING_LEVEL are compiled to a Dummy and are no steps.           *)
(***************************************************************************)
EXTENDS InitGlobal, SequencesExt

CONSTANTS Thread,
          Target,         \* log files setTarget can be given
          Stderr, NoFile, \* stderr; a null logFile
          NoThread

ASSUME LoggerAssumption == /\ Stderr \notin Target /\ NoFile \notin Target \cup {Stderr}
                           /\ NoThread \notin Thread

VARIABLES logger,     \* InitGlobal<Logger>
          logFile,    \* Logger::logFile
          openFiles,  \* the FILEs fopen has returned and fclose not had
          mutex,      \* Logger::mutex
          at,         \* where each thread is: "off", not yet started; "quiet", not
                      \* logging; "commit", "lock", "prefix", "body", in commit() and
                      \* about to read logFile, to lock, to write; "done", returned
          file,       \* commit's local f
          buffer,     \* Logger::buffer: the statements whose text it holds
          statements, \* statements so far
          written     \* what has been written to each file, call by call

loggerVars == <<logger, logFile, openFiles, mutex, at, file, buffer, statements, written>>


LoggerInit ==
  /\ logger = NewGlobal
  /\ logFile = NoFile /\ openFiles = {}
  /\ mutex = NoThread
  /\ file = [t \in Thread |-> NoFile]
  /\ buffer = [t \in Thread |-> <<>>]
  /\ statements = 0
  /\ written = [f \in Target \cup {Stderr} |-> <<>>]

Goto(t, w) == at' = [at EXCEPT ![t] = w]

\* One write: the line's prefix, with the thread's identity, or its text.
Prefix(t)  == [by |-> t, text |-> <<>>]
Body(t)    == [by |-> t, text |-> buffer[t]]
Write(f, x) == written' = [written EXCEPT ![f] = Append(@, x)]

-----------------------------------------------------------------------------
Compose(t) ==
  /\ at[t] = "quiet"
  /\ statements' = statements + 1
  /\ buffer' = [buffer EXCEPT ![t] = Append(@, statements')]
  /\ UNCHANGED <<logger, logFile, openFiles, mutex, file, written>>

\* A whole statement, and one that ends in `continuous'.
Say(t)      == Compose(t) /\ Goto(t, "commit")
SayPart(t)  == Compose(t) /\ UNCHANGED at

ReadTarget(t) ==
  /\ at[t] = "commit"
  /\ file' = [file EXCEPT ![t] = IF logFile = NoFile THEN Stderr ELSE logFile]
  /\ Goto(t, "lock")
  /\ UNCHANGED <<logger, logFile, openFiles, mutex, buffer, statements, written>>

\* A mistake: the guard has no name, and is destroyed where it is constructed.
BadLockLog(t) ==
  /\ at[t] = "lock" /\ mutex = NoThread
  /\ Goto(t, "prefix")
  /\ UNCHANGED <<logger, logFile, openFiles, mutex, file, buffer, statements, written>>

LockLog(t) ==
  /\ at[t] = "lock" /\ mutex = NoThread
  /\ mutex' = t
  /\ Goto(t, "prefix")
  /\ UNCHANGED <<logger, logFile, openFiles, file, buffer, statements, written>>

WritePrefix(t) ==
  /\ at[t] = "prefix"
  /\ Write(file[t], Prefix(t))
  /\ Goto(t, "body")
  /\ UNCHANGED <<logger, logFile, openFiles, mutex, file, buffer, statements>>

\* A mistake: the buffer is not cleared.
BadWriteBody(t) ==
  /\ at[t] = "body"
  /\ Write(file[t], Body(t))
  /\ mutex' = NoThread
  /\ Goto(t, "quiet")
  /\ UNCHANGED <<logger, logFile, openFiles, file, buffer, statements>>

\* The lock is given back and the buffer cleared.
WriteBody(t) ==
  /\ at[t] = "body"
  /\ Write(file[t], Body(t))
  /\ mutex' = NoThread
  /\ buffer' = [buffer EXCEPT ![t] = <<>>]
  /\ Goto(t, "quiet")
  /\ UNCHANGED <<logger, logFile, openFiles, file, statements>>

CommitStep(t) == ReadTarget(t) \/ LockLog(t) \/ WritePrefix(t) \/ WriteBody(t)

-----------------------------------------------------------------------------
\* A mistake: the new file is opened but only replaces one that was there.
BadSetTarget(f) ==
  /\ mutex = NoThread
  /\ openFiles' = openFiles \cup {f}
  /\ UNCHANGED <<logger, logFile, mutex, at, file, buffer, statements, written>>

\* setTarget(): the new file is open, the old one is closed.
SetTarget(f) ==
  /\ mutex = NoThread
  /\ openFiles' = (openFiles \ {logFile}) \cup {f}
  /\ logFile' = f
  /\ UNCHANGED <<logger, mutex, at, file, buffer, statements, written>>

\* A translation unit's _initGlobalLogger is constructed; it is destroyed, and
\* with the last one the Logger, which closes its file.
EnterLogger ==
  /\ logger' = AfterEnter(logger)
  /\ UNCHANGED <<logFile, openFiles, mutex, at, file, buffer, statements, written>>

LeaveLogger ==
  /\ logger' = AfterLeave(logger)
  /\ openFiles' = openFiles \ (IF logger'.object = "dead" THEN {logFile} ELSE {})
  /\ UNCHANGED <<logFile, mutex, at, file, buffer, statements, written>>
=============================================================================
