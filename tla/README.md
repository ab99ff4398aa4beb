# A formal model of muddymask

muddymask is a layer-2 tunnel: clients carry the Ethernet frames of a virtual
interface to a server in UDP datagrams, and the server hands them to its own
virtual interface and back.  This directory holds TLA+ modules that model its
server, the reader-writer lock the server is built on, the tunnel as a whole with
its clients and a network, the octets of its datagrams, the life of a process from
its static objects to its exit, and its memory arenas; TLC configurations that
check them on small instances; and TLAPS proofs for every instance.

All paths below are relative to `src/`.

## The system

| part | code | state | operations | talks to |
|---|---|---|---|---|
| tunnel server | `source/tunnel/TunnelServer.cpp`, its header | two indices (`dict.id`, `dict.mac`) over heap objects `ClientInfo`; `dict.mutex`; one mutex per object | handshake, heartbeat, relay, broadcast, unicast, sweep | socket, virtual interface, pool; three threads share everything |
| address pool | same files | next new address, stack of returned ones | allocate, release | net thread allocates, poll thread releases |
| reader-writer lock | `source/common/thread/shared_mutex.cpp` | one word, two condition variables | lock, try_lock, unlock and the shared three | all server threads |
| packet formats | `include/muddy/tunnel/packet.hpp` | none | sizes, type codes | server, client |
| tunnel client | `source/tunnel/TunnelClient.cpp` | server address, identity, `stop` flag | heartbeat, receive, send frames | socket, virtual interface; three threads share `stop` |
| handshake, main | `source/tunnel/main.cpp`, `source/common/util/net.cpp` | command line, number of tries | parse, set up, start a server; three tries, then start a client; wait for the threads | socket, interface, logging |
| socket, interface | `source/net`, `source/veth` | file handles | open, configure, send, receive, close; start and end of the Windows socket library | kernel |
| crypto | `source/crypto/DummyCrypto.cpp` | a 32-bit key | XOR both ways | everything sent or received |
| logging | `source/common/logging`, `Composer.hpp`, `InitGlobal.hpp` | thread-local line buffer, log file, counter | compose, commit, set target | every thread |
| memory arenas | `ArenaAllocator.hpp`, `AlignedAllocator_*.cpp` | free lists | allocate, release | nothing uses them |
| utilities, wrappers, errors, registry | `source/common`, `include/muddy/common` | none | system calls that throw | everything |

`third_party/` (libbacktrace) is vendored.  The repository has no tests and its
README is one sentence; what the code promises is read from the code, its log
messages and its locks.

### What is hard

* **Interleaving.** The net, veth and poll threads of the server work on the same
  table.  Readers of it follow pointers to objects the sweep deletes; two readers
  meet in one object whose address a heartbeat rewrites.
* **Atomicity across locks.** A virtual address is taken from the pool before the
  table is locked; the time used for expiry is read once per sweep.
* **Two indices.** Identity and MAC address are separate keys: one interface may
  have two sessions after a repeated handshake, and each index reacts differently.
* **The lock.** `unlock()` clears the whole word, writers announce themselves
  before the readers have left, one notification is sent where several threads
  may wait.
* **Two secrets.** The server's is an option, the client's is built in, and nothing
  in a datagram says which one it was encrypted with.
* **Setting up and coming down.** Globals are counted by translation units, locals of
  `startServer()` are used by threads by reference, every system call may throw, and
  a throw out of a thread or a destructor ends the process.
* **Logging from every thread.** A line is two writes, to a file chosen before the lock.
* **Lock-free lists.** Objects of an arena come back from other threads.
* **Time and loss.** Sessions end by silence only; handshakes are repeated; the
  server forgets everything when it restarts and repeats its random numbers.

`PROJECT.json` lists each of these at the line where it bites, with the
properties that cover it or the reason why none does yet.

### What makes each part correct

* lock: mutual exclusion, a word that agrees with the holders, no lost wakeup,
  writers not starved by readers;
* server: no pointer to a deleted object, no data race, no eviction of a live
  session, no session that nobody can end, indices that agree, truthful answers,
  every thread coming back to its blocking call;
* pool: no address lost, none in two places, recovery after exhaustion;
* client: uses an identity the server gave it, keeps its session while datagrams
  arrive in time, stops when the server has forgotten it and only then, and its
  process ends;
* octets: what is received is what was sent, a server with another key never gives a
  session, nothing but a frame reaches an interface;
* process: the Logger exists while anybody logs, device and socket while a thread
  runs; the role is the one asked for; handles come back; lines are whole, complete
  and in the right file;
* arenas: every object in one place, lists that run through free objects only, and
  every object clear of every other.

## Modules

| module | models | kind |
|---|---|---|
| `RWLockOps` | what callers see of `shared_mutex`, as operators on a lock value | operators |
| `RWLock` | the state machine of those operators | abstract specification |
| `SharedMutex` | `shared_mutex.cpp`, one action per method segment between waits | detailed specification |
| `AddressPool` | the pool, `htonl` included | operators |
| `Packet` | sizes, codes and length tests of datagrams | operators |
| `TunnelServer` | the three threads of the server | detailed specification |
| `SessionTable` | what the server promises clients, atomically | abstract specification |
| `TunnelClient` | the handshake of `main.cpp` and the three threads of a client | detailed specification |
| `Tunnel` | clients, a network, and a server that may restart | composition |
| `DummyCrypto` | the key, encryption and decryption of `DummyCrypto.cpp`, octet by octet | operators |
| `OctetTunnel` | one client and the server, their datagrams octet by octet, secrets that may differ | detailed specification |
| `InitGlobal` | `InitGlobal<T>`'s counter | operators |
| `Logger` | `Logger`, `Composer` and the thread-local buffers | component of `Process` |
| `Process` | `main.cpp`, `net.cpp`, the setting up of interface and socket, exceptions, exit | composition |
| `ArenaAllocator` | `ArenaAllocator.hpp` over the Windows `AlignedAllocator` | detailed specification |
| `MCTunnelServer`, `MCTunnel`, `MCProcess`, `MCOctetTunnel`, `MCArenaAllocator` | instances for TLC | |
| `SharedMutex_proofs`, `TunnelServer_proofs`, `TunnelServerPool_proofs`, `TunnelServerTable_proofs`, `OctetTunnel_proofs`, `Tunnel_proofs`, `Process_proofs`, `ArenaAllocator_proofs` | proofs, see below | |

`TunnelServer` composes `AddressPool`, `Packet` and `RWLockOps`: its locks are
values of the abstract lock, and `SharedMutex` is shown to implement exactly that
lock, so the two levels fit together without a product of their states.  `Tunnel`
composes `TunnelClient` and `SessionTable` in the same way: its server has no
threads, because the threads are shown to implement the table.  `Process` composes
`Logger`, which extends `InitGlobal`; its threads only log, fail and end, because
what they do between is in the other modules.  `OctetTunnel` shares `Packet` with
`TunnelServer` and drops what needs no octets: time, threads, the pool.

### Correspondence of SharedMutex

The word `__state_` is split into `writeEntered` (top bit) and `nReaders` (the
other bits).  Every method holds `__mut_` except inside a `wait()`, so one action
is the code between two points where `__mut_` is free: `Lock` runs to the first
wait or the return, `WakeLock1`/`WakeLock2`/`WakeShared` go on after a wait.
`asleep` is the set of threads blocked in a wait; `notify_one` takes any one of
those at its gate out of it, `SpuriousWake` takes any thread out.  A `try_`
method that returns false changes nothing and is not an action.

### Correspondence of TunnelServer

Each thread has a program counter and its local variables in one record (`net`,
`veth`, `poll`).  An action is the code of one thread between two places where
another thread can notice: taking or giving back a lock.  In particular

* `startSession` is `RecvStart` (allocation, object, identity, time), `StartLock`
  (the writer announces itself), `StartInsert` (readers gone; both inserts, the
  answer, the unlock).  `RecvStartNoAddress` is the silent return.
* `handleHeartbeat` is `RecvLookup`, `LookupLock`, `HbFind` or `LookupFails`,
  `HbLockInfo`, `HbOwnInfo`, `HbUpdate`; `relayData` shares the first two and goes
  on with `RelayFind`, `RelayWrite`, the latter without a lock as in the code.
* `broadcastEthernetFrame` and `unicastEthernetFrame` take the table's lock, then
  for each object its lock (`VethLockInfo`), send, give it back (`VethSend`); a
  unicast frame without an entry is `VethDrop`.  The order of a broadcast is that
  of a hash table: any.
* `removeZombieClient` is `PollWake` (15 seconds have passed), `PollLock`,
  `PollStart` (`now` is read once: `doomed`), one `PollRemove` per session,
  `PollDone`.  `PollRemove` erases from `dict.mac` by address, from `dict.id`, puts
  the address back and deletes the object.

`info` is the heap; `NoInfo` is memory not in use.  `new` may return any free
object, also one just deleted.  `age` stands for `now - alive`, and stops at
`Timeout`: older is the same to the code.  `pool.mutex` is held in one step and is
left out.  `output` is what the last step sent or wrote.  Datagrams are taken
from a set in any order and as often as one likes, which includes loss,
duplication and reordering on the way to the server.

Left out: a failing system call, which ends the process (`Process`; the restart is in
`Tunnel`), logging (`Logger`), the octets of a datagram (`OctetTunnel`), and the clock
going backwards.

### Correspondence of TunnelClient and Tunnel

A client is one process with one socket and one MAC address.  `main` says where
`main()` is: `HsSend`, `HsTimeout` and `HsAnswer` are the turns of `startSession`'s
loop (`main.cpp:112-123`), `HsAnswer` also starts the threads, `Exit` is the end of
the three joins.  The handshake takes whatever fills its buffer (`Received` cuts a
datagram to the buffer as `recvfrom` does); for a frame, identity and address are
then octets of the frame, `NoIdentity` and `NoAddress`.  `hb`, `net` and `veth` are
the threads: `HbTest`/`VethTest` look at `stop`, `HbSend` and `VethFrame` are the rest
of the loop, `NetError` sets `stop`.  `WakeUp` is the end of the 5 seconds' sleep.

`toServer` and `toClient` are sets of datagrams.  `Network` says what may happen to
them: `prompt` (each is delivered once, before five seconds are over), `lossy` (any
may vanish, any may be delivered again), `kept` (all stay and may be delivered at
any time, any number of times, or never; for safety this covers loss).

The server's actions are the branches of its handlers as seen from outside:
`SrvStart`, `SrvNoAddress`, `SrvHeartbeat`, `SrvRelay`, `SrvUnknown`, `SrvFrame` (a frame
for a session's client), `SrvExpire`.  `SrvCrash` is a restart: the table is empty.
`Fresh` says what `random()` may return: with `Repeat = FALSE` an identity that has
not been used, with `Repeat = TRUE` any that is not in use now.  The latter is what
a restarted server does, because nothing seeds `random()`.

Left out: datagrams that come from elsewhere than the server (`validDataSource`)
or have a wrong size, which change nothing; two processes with one MAC address
(that is in `TunnelServer`); failing system calls (`Process`).

### Correspondence of OctetTunnel

An octet is the set of its one bits, so XOR is the symmetric difference and a
text is a sequence of such sets.  `Key` folds a secret into four octets, the last
`uint32_t` padded with nothing; `Encrypt(key, text, length)` is the loop over whole
words and the one over the octets left.  `Datagram` writes the header as the packed
struct lies in memory, little endian.  Each message is a pair of what is on the wire
and the plain text it came from, so properties can compare the two; no action looks
at the plain text.

The client's actions are the handshake's request and answer (cut to the buffer of
24 octets, its type never looked at), heartbeats, frames in both directions and
the error that stops it; the server's are the rows of its handler table with
their length tests, the reply to an unknown identity and to a wrong version, and
`Restart`, which also may change the secret.  `StartSession` may answer a request
any number of times, and `EndSession` at any time, which covers the sweep.
Frames that a server relays for another client are left out; there is one client.

### Correspondence of Process and Logger

`EnterUnit` and `LeaveUnit` are the constructors and destructors of a translation
unit's static objects, in an order that no standard fixes but that is reversed at the
end.  `ParseOption` and its relatives are turns of `parseCommandLine`'s loop, with
what `sscanf` and `getaddrinfo` make of an argument in `AddressText`.  `calls` is the
list of system calls still to make, in the order of the platform's constructors, of
`startServer()` or of `startClient()`; each returns (`CallReturns`), or throws
(`CallThrows`), and `HandlesAfter` and `ObjectsAfter` say what is open and what has a
destructor then.  `ready` is what has been done, which is not the same as what has
returned: the Windows `start()` tests `!AddIPAddress(...)`, and `AddIPAddress` returns
`NO_ERROR`, 0, when it has worked, so `start()` throws when the address has been added
and returns when it has not (`Inverted`).  The call `adapter`, `GetAdaptersInfo`, stands
inside `MUDDY_ASSERT` and so is made in a debug build only; in any other `Tuntap()`
searches an array that nobody has written, and finds an adapter, none
(`ConfigError`), or a fault (`AdapterCrashes`).  `Destroy` is stack unwinding.  `Abort` is `std::terminate`: a throw out
of a thread, a destructor or a static constructor, or reading behind `argv`.

A log statement is `Say`, or `SayPart` when it ends in `continuous`; then
`ReadTarget`, `LockLog`, `WritePrefix`, `WriteBody` are the steps of `commit()` in the
code's order, the first before the mutex is taken.  `written` keeps every call of
`fwrite` or `fprintf` as who wrote and which statements; its wording is left out.

### Correspondence of ArenaAllocator

Addresses are numbers.  `Exchange` and `Push` are the atomic operations on `global`;
all else a thread does to its own list or to an object it has, so it is one step
with what precedes it.  A failing `compare_exchange_weak` in `release()` is
`PushFails`; between the load of the head and the exchange any other thread may
push or empty the list.  `AppendArena` takes any base `VirtualAlloc` may return
and lays the arena out as the loop does.  The loop is written in closed form: `begin`
is aligned from the first, so every turn moves it by `Stride` (that this is what
`begin = tpl::align(begin + tObjectSize, tAlignment)` computes is lemma `LoopMoves` of
`ArenaAllocator_proofs`).  `Construct` is the program writing to its object: its first
word becomes any allocator's address, or anything else (`Data`), as the program likes.
`release()` takes that word for the address of the allocator.  In the repository nothing
writes it there: `append()` writes it to the first word of the arena (`:74`), which
nothing reads, and the object's own first word (`:59`) is the link it had in a
list until the program overwrites it.  A word that is no allocator's address ends
everything (`ReleaseCrashes`); `InOnePlace` and `FreeLists` are not asked for then.  So the
two properties say that the lists are right whatever allocator's address the program
has written, not that `release()` can find one.

### Operators named Bad...

`BadUnlock1`, `BadIsExpired2` and so on are not part of any specification.  Each is
the operator after it with one plausible mistake; putting it in the place of the
right one makes the property named in `PROJECT.json` fail, which shows that the
property looks at the code.

## Runs

| run | instance | checks |
|---|---|---|
| `shared_mutex` | 4 threads, word counts to 3, fair | `TypeOK`, `Exclusion`, `StateEncodesHolders`, `NoLostWakeup`, `ImplementsRWLock`, `WriterGetsIn`, `OnlyBargingStarves` |
| `server_safety` | 2 peers, 2 client MACs, broadcast and own MAC, 2 virtual addresses, 2 objects, 2 identities that may collide, time-out 2 | `TypeOK`, `NoDangling`, `VipAccounting`, `RaceFree`, `EvictionJust` |
| `server_sessions` | the same with fresh identities | `NoLeak`, `MacIndexSound`, `SessionInfoTruthful`, `ImplementsSessionTable` |
| `server_live` | 1 peer, 1 client MAC, time-out 1, fair | `ImplementsFairSessionTable`, `ThreadsReturn`, `PoolRecovers` |
| `server_unicast` | that of `server_sessions` | `DropOnlyIfInvalid`, which is violated |
| `tunnel_safety` | 2 clients, 2 identities, 2 addresses, time-out 2, networks `kept` (one request per handshake, one restart) and `prompt` (two requests, no restart) | `TypeOK`, `OwnSession`, `StopIsDeserved`, `KeptAlive` |
| `tunnel_live` | 1 client, 2 identities, 1 address, time-out 1, two requests, one restart, network `lossy`, fair | `ForgottenStops`, `HandshakeEnds`, `StopEnds` |
| `tunnel_restart` | 2 clients, 1 identity, one restart, identities repeat | `MovedByItsClient`, which is violated |
| `tunnel_handshake` | 1 client, 1 identity | `AnswerUnderstood`, which is violated |
| `process` | main and 2 workers, 2 units, both platforms, 3 statements of the workers, every list of up to four of six arguments and every address alone | `WholeLines`, `EachStatementOnce`, `GlobalsReady`, `DevicesReady`, `HandlesReturned`, `RoleAsAsked`, `LogGoesToTarget` |
| `secrets` | 14 secrets, one restart, two tries, one identity, two frames | `RoundTrip`, `KeyFoldsSecret`, `SessionNeedsKey`, `FramesGenuine` |
| `arena` | 3 threads, 2 places for arenas, 5 shapes of objects, at most 3 objects | `InOnePlace`, `FreeLists`, `ObjectsFit` |

**Bounds.**  Lock: the count must reach its limit with one more thread outside
(`MaxReaders` is 2^31 - 1 in the code), two writers and two readers must be able
to meet: four threads do that.  Server: two sessions are needed for
every interesting conflict (two of one MAC, two of one identity, one live and one
expired in the same sweep); two virtual addresses, the last two of the range
(10.20.30.198 and .199), are enough to be exhausted and recycled; an object never
outnumbers the addresses, so two objects never block an allocation; time-out 2
distinguishes fresh, ageing and expired.  The datagrams of `MCTunnelServer` contain
handshakes for two interfaces, heartbeats from a changed endpoint, relayed frames
to the server, a wrong version, an unknown type and one that is too long.
`server_live` is smaller because of the cost of liveness; it still has two
sessions, both identities and an exhaustible pool.
Tunnel: `Media` is the set of networks a run starts with, `Bounds` in `MCTunnel` what
is explored of each.  Two clients and two identities let one client's session end and its address
go to the other while it still runs.  In `tunnel_safety` one request stays on the
network and may arrive again and again, before and after the restart, which gives
a client several sessions and late answers without a second try; the other runs
try twice (`Tries` is 3 in the code: a middle try adds no new situation to a first
and a last one).  `Timeout` is 9 in units of a heartbeat's 5 seconds; 2 is the
smallest at which a prompt heartbeat cannot meet the sweep, so it is the hardest
case for `KeptAlive`, which is about the prompt network without a restart.  One
restart suffices for an old client to meet a new server.
Process: two threads besides `main` are what it takes for lines to mix; `MaxStatements`
bounds only what the workers say, and three let one thread log twice around another.
The arguments are three kinds of option pairs, `--secret` included, right, wrong,
repeated, and cut short; addresses have the ports 0, 1, 65534 and 65535.
Secrets: their lengths take every value modulo four; keys that differ from the
client's in the type octet turn each type of datagram into each other one, those
that differ in version or length are refused for that.  The two frames have 19 and
21 octets, just more than the packed header's 18; the 16 octets of an answer's
payload lie between those and the 14 that a header has on the wire.
Arena: an arena of 64 octets holds two or three objects, or one and a tail, or
none (the shape that is too large: nothing in the code forbids it, and the first
allocation then reads from null, and `pc` is "crashed"); three threads are two that push
to the list of a third while it empties it.
Symmetry is used in safety runs only: on objects, on allocators, and in the tunnel on
clients, identities and addresses.  Deadlock is not looked for in `secrets`, where a
client may have stopped or failed, and in `arena`, where the places are used up.

**Fairness.**  `SharedMutex`: a woken thread runs and a holder releases (weak
fairness); no thread has to call, no spurious wakeup has to happen.
`TunnelServer`: each thread runs (weak fairness), time passes, the sweep wakes
up; nothing has to arrive from outside.  The three acquisitions of `dict.mutex`
are strongly fair: `shared_mutex` does not promise that by itself
(`OnlyBargingStarves` says what it does promise), but a thread is kept out only by
a sweep, and between two sweeps the lock is free for 15 seconds, so a woken
thread gets it.  Without it the model has a sweep that locks the table again and
again before a woken thread can run, which the sleep excludes.
`Tunnel`: every thread of a client runs, time passes and sweeps come (weak
fairness); a heartbeat that is sent again and again is heard in the end, and so is
the answer to it (strong fairness on a lossy network: the client repeats them
every 5 seconds and UDP does not lose all).  `VethFrame` has no fairness: a virtual
interface may stay silent for ever, and then `read()` never returns.  `StopEnds`
therefore has a premise, and without it a stopped client does hang.

**The violations.**  `server_unicast` finds the shortest history in which a client
shakes hands twice from one MAC address (a repeated request, or a restart within
45 seconds), the first session ends by silence, and its sweep takes the only
`dict.mac` entry along: the second session lives on in `dict.id`, its heartbeats
are accepted, but unicast frames to it are dropped as "Unicast destination
invalid" until it ends.  `MacIndexSound` holds: an entry never lies, it is missing.

`tunnel_restart`: client 1 runs with the first identity, the server restarts, client
2 is given that identity again, and client 1's next heartbeat is accepted: it
renews the session of client 2 and moves it to the endpoint of client 1.  Neither
client is ever told to start again.

`tunnel_handshake`: the first request opens a session, its answer is lost or late,
and a broadcast frame for that session reaches the client first.  It is longer
than 24 octets, is cut to 24, and passes for a `SessionInfo`.  Such a client has an
identity that is none, and `ForgottenStops` shows that the server's error code ends
it after its first heartbeat.

Two defects are stated by what holds instead of by a violation.  On Windows
`start()` goes on only when `AddIPAddress` has failed (`Tuntap_win32.cpp:50`), so the
threads run with an interface that is connected and has no address, and a set-up
that works ends in "AddIPAddress failed"; `DevicesReady` says so.  `release()` reads
an object's allocator from a word that no allocator writes (`ArenaAllocator.hpp:59`),
so where an object goes is up to the program's data; `FreeLists` says what holds all
the same as long as that word is not read as a wild pointer.

## Proofs

`TLAPS` checks the following for every value of the constants that satisfies the
named assumptions of the modules (`ThreadAssumption`, `RangeAssumption`,
`ServerAssumption`, `OctetAssumption`, `ClientAssumption`, `TunnelAssumption`,
`NoSessionAssumption`, `LoggerAssumption`, `ProcessAssumption`, `ArenaAssumption`).

| theorem | says | under |
|---|---|---|
| `SharedMutex_proofs!TypeCorrect`, `MutualExclusion`, `WordCorrect` | `TypeOK`, `Exclusion`, `StateEncodesHolders` | |
| `SharedMutex_proofs!WakeupsArrive` | `NoLostWakeup` | at most `MaxReaders + 1` threads |
| `SharedMutex_proofs!Refinement` | the lock implements `RWLock` | |
| `TunnelServer_proofs!TypeCorrect`, `NoUseAfterFree`, `EvictionIsJust`, `NoDataRace` | `TypeOK`, `NoDangling`, `EvictionJust`, `RaceFree` | |
| `TunnelServerPool_proofs!AddressesConserved` | `VipAccounting` | |
| `TunnelServerTable_proofs!Refinement` | the server implements `SessionTable` | |
| `TunnelServerTable_proofs!SessionsReachable`, `MacIndexHoldsSessions`, `AnswersAreTrue` | `NoLeak`, `MacIndexSound`, `SessionInfoTruthful` | `FreshIdentity` |
| `Tunnel_proofs!TunnelTyped` | `TypeOK` | |
| `Tunnel_proofs!RunsOnItsOwnSession`, `StopsDeservedly`, `MovedOnlyByItsClient` | `OwnSession`, `StopIsDeserved`, `MovedByItsClient` | `~Repeat` |
| `Tunnel_proofs!SessionsStayAlive` | `KeptAlive` | `~Repeat`, `Timeout > 1` |
| `Tunnel_proofs!ServerIsSessionTable` | what the clients see of the server is `SessionTable` | `MaxCrash = 0` |
| `OctetTunnel_proofs!SessionsNeedTheKey`, `DatagramsRoundTrip`, `KeysFoldSecrets`, `FramesAreGenuine` | `SessionNeedsKey`, `RoundTrip`, `KeyFoldsSecret`, `FramesGenuine` | |
| `Process_proofs!ThreadsHaveDevices`, `HandlesAreReturned`, `GlobalsAreReady`, `RoleIsAsAsked`, `LogsGoToTarget`, `LinesAreWhole`, `StatementsOnce` | `DevicesReady`, `HandlesReturned`, `GlobalsReady`, `RoleAsAsked`, `LogGoesToTarget`, `WholeLines`, `EachStatementOnce` | |
| `ArenaAllocator_proofs!ObjectsAlwaysFit`, `ListsAreFree`, `ObjectsAreInOnePlace` | `ObjectsFit`, `FreeLists`, `InOnePlace` | |

Every safety property that a passing run checks is in this table.

The assumptions and hypotheses, and why the code justifies them:

* Values that stand for "none" (`NoSession`, `NoObject`, `NoThread`, `NoFile`, ...) are
  not among the things they stand beside; allocators are static objects, and no
  address in an arena.  `ArenaAssumption` says besides that an arena is a multiple of
  a page (1 MB, and 4 KB), that what `VirtualAlloc` reserves begins at a page, and
  that an object has room for the list's link, which `StackNode` makes it.
* `ProcessAssumption`: an argument is a string that `AddressText` says the reading of,
  and a value of `--log` is the name of a file or empty.
* `FreshIdentity`, `~Repeat`: `random()` returns numbers that were not returned before.
  Within one life of the server that holds until its period is over; a restarted
  server repeats its numbers, since nothing seeds it, and what is lost then is
  shown by `tunnel_restart`.  `SessionTable`, and so `Refinement`, does not need it.
* `Timeout > 1`: the sweep's 45 seconds against the heartbeat's 5 (`Timeout` is 9 in
  the code).  With `Timeout = 1` the theorem is false, a heartbeat may meet the sweep.
* `MaxCrash = 0`: `SessionTable` is the promise of one life of a server; `SrvCrash`
  empties the table, which no step of it does.

**The lock.**  `Exclusion` is not inductive: that a writer past the second gate
meets no reader follows only if the count in the word is the number of readers
and the writer bit is set while someone is past the first gate (`Word`).  The
inductive invariant is the type, `Word`, and exclusion.  `NoLostWakeup` needs one
more fact, and the assumption `Cardinality(Thread) <= MaxReaders + 1`: with a full
count at most one thread is outside, so the single notification of
`unlock_shared` suffices.  The program has three threads and 2^31 - 1 readers.

**The server.**  `Inv` has three parts.  `Locking` ties the readers and the writer of
the table's lock to the program counters; it needs nothing else and is proved
first.  The pointing part (`IdsPoint`, `MacsPoint`, `NetPoints`, `VethPoints`) says
what each index and each local pointer points to: a new object is in no index, the
object a heartbeat found is still in `dict.id`, the object veth sends to is still
in `dict.mac`.  `Sweeping` says the doomed sessions are still there and still
expired.  The step that needs them all is `PollRemove`, which deletes an object:
by `Locking` no other thread is reading the table then, so only the net thread in
`startSession` holds a pointer, and that one is in no index.  `RaceFree` adds
`InfoLocking` for the lock of each object.

**The pool.**  `VipAccounting` is inductive given `Inv`.  A new address differs from
all earlier ones because `htonl` is injective on the range (`HtonlInjective`,
proved from the octets), a recycled one is taken off a stack without duplicates.

**The table.**  Each action is a step of `SessionTable` or a stutter: `StartInsert`
opens a session (its address is unused by `VipAccounting`), or changes nothing
that clients see when the identity is taken; `HbUpdate` renews one session and by
`IdsPoint` no other; `PollRemove` ends one that is `Timeout` old by `Sweeping`.

**The sessions.**  `NoLeak` and `MacIndexSound` need each other: `PollRemove` erases
from `dict.mac` by address only, so the object it deletes is in no other entry
only if every entry's object has that entry's address and is in `dict.id`.  `Indexed` adds
`NewIsFresh`: the identity `RecvStart` has drawn is still in no index when
`StartInsert` comes to insert it, because only the net thread inserts.  `AnswersAreTrue`
follows for the one step that answers, since no other step leaves a SessionInfo in
`output`.

**The tunnel.**  The invariant speaks of every datagram under way, in four layers.  `Shape`
is the type and the forms of datagrams.  `Named`: threads run only after the handshake,
and what a client has sent names the identity it still has.  `Owned`: an identity
that was given out and is open belongs to the client that holds it or that has an
answer with it under way (`ClientsHold`, `AnswersHold`), with the same address; and an
error code under way is for a client whose session is gone (`ErrorsHold`), which a later
`SrvStart` cannot undo because it takes an unused identity (`ClosedForGood`).  `OwnSession`,
`StopIsDeserved` and `MovedByItsClient` follow.  `Timed` is for the prompt network: a
running client's session has age 0, or has age 1 with the heartbeat about to be sent or on
its way (`Beating`), and an answer under way is for a session of age 0
(`AnswersFresh`); `Tick` waits for prompt datagrams and for awake threads, so no
session gets to 2.

**The two servers.**  `ServerIsSessionTable` and `TunnelServerTable_proofs!Refinement` meet
in the same module `SessionTable`: the server of `Tunnel` allows only what that table
allows, and the three threads of `TunnelServer` do only that.

**The octets.**  `SessionNeedsKey` rests on what a datagram on its way to the server
can be: `Sent` says it is a plain text encrypted with the client's key, and that
a plain text of 16 octets begins as a request does, because heartbeats have 12
and a relayed frame is at least 14 octets longer than its header.  If the server
takes what it decrypts for a request, both texts begin with the same four octets,
so both keys have the same four octets (`XorSame`).  `RoundTrip` follows from `Sent`
and `XorTwice`, octet by octet.  `FramesGenuine` needs `Carried`: a datagram long
enough to be taken for a frame carries a frame the sender has read; to the client such
a datagram comes only from a session, so by `SessionNeedsKey` it is encrypted with the
client's own key and decrypts to what was sent.  The answers are shorter: a SessionInfo
has 24 octets, and the client takes nothing below 26 for a frame.

`KeyFoldsSecret` is an induction over the chunks of the secret: `Folded` is a closed form
of the recursive function in `Key` (the parity of the octets so far, for each place and bit),
and it satisfies that function's equation.  The library's induction rules take an
operator, which the provers cannot instantiate; lemma `Induct` states induction over
a set of numbers instead, from the well-foundedness of `<`.

**The process.**  `Typed` and `Phases` say what cannot have happened yet (`NothingYet`: until
the command line is read nothing is open and nothing written), and when threads run.
*Devices*: the plan of system calls is a sequence in which `open` is followed by
the calls up to the one that makes the object that owns the handle (`Linked`), so a handle is
either owned by an object that unwinding destroys, or is the pending call's own
(`HandlesOwned`); what the threads need is there or still in the plan (`InProgress`),
and they start when the plan is empty.  On Windows `InProgress` says that the address has
not been added while the process is being set up, since adding it throws.
*Globals*: while a unit is there the counters are not 0, and the Logger and the
socket library are alive; every thread that has read `logFile` has read what it still is
(`FileRead`), because `setTarget()` comes before the first thread.
*Command line*: `OptionsTaken` relates what has been stored to the pairs already read.
*Lines*: `LineOfHolder`: a file with an odd number of writes waits for the text of the
one thread that holds the mutex between its two writes; and `Once` puts every
statement in exactly one buffer or one line, and those not made yet in none.

**The arenas.**  `Layout` comes first: rooms of different arenas do not overlap, and the
objects are those `LaidOut` in them; the rest is arithmetic of `align` and of
remainders (`ObjectsFit`).  A list is the smallest set that has its head and is closed under
links; `Sound` says that links stay within the objects, no list comes
back to one of its own objects, no object is on two lists or on a list and `Away`
(in use, or being pushed), and every object is in one of those places.  It is
preserved by taking the first object off a list, pushing one, moving a whole list,
adding an arena's, and writing to an object that is away (`PopSound`, `PushSound`,
`MoveSound`, `GrowSound`, `WriteOff`), and each step is one of these.  A push succeeds
only if the link is the head, which is why no more is needed of the link
that another thread may have made stale.  What the program writes to an object in use
reaches no list (`FreeLists`), because such an object is away.

Only model-checked is liveness, because the prover has no rules for fairness:
`WriterGetsIn`, `OnlyBargingStarves`, `ImplementsFairSessionTable` (its safety part is
`Refinement`), `ThreadsReturn`, `PoolRecovers`, `ForgottenStops`, `HandshakeEnds`,
`StopEnds`.  `DropOnlyIfInvalid` and `AnswerUnderstood` are false.

## Plan

1. done: lock, pool, packets, server, session table, and their proofs.
2. done: `TunnelClient` and `Tunnel`, model-checked.
3. done: `DummyCrypto`, `OctetTunnel`, `InitGlobal`, `Logger`, `Process`,
   `ArenaAllocator`, model-checked.
4. done: proofs of the session indices, the tunnel's clients, the octets, the process
   and the arenas; the server of `Tunnel` is shown to be the `SessionTable`.
5. left: a level above `SessionTable` that speaks of one client's frames from interface
   to interface, which the octets and the tunnel would both implement.

## Not modelled

* The Unix `AlignedAllocator`: it computes `base % alignment * alignment + alignment`,
  which is no address within what it has mapped unless `base` happens to fit, so no
  arena is ever usable there; the arenas are modelled over the Windows one, which
  divides.  Nothing in the program uses arenas yet, nor gives one back.
* Stack traces, exception texts, `hexdump`, `basename`, log levels and prefixes: they
  compute text from what they are given and keep no state.
* The Windows registry: only input and output, and used by nothing.
* Wrappers are modelled as a call that returns or throws.  `WriteFile_` of
  `wrapper/windows.hpp:60` tests its handle where it should call `WriteFile`; what a
  Windows interface would do with frames is therefore not said.
* Threads' timing beyond seconds: the clock of `alive` is the wall clock and may step;
  the models' clocks only go forward.
