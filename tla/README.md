# A TLA+ model of the ESAS core server

The ESAS core server (`esas-core-v2/esas-core-v2-20240207/server`, Node.js) takes
the audio of telephone calls, over RTP, websockets or Socket.IO, passes it to an
emotion analysis engine and returns the results.  This directory holds TLA+
modules of its stateful parts, TLC configurations that check them on small
instances, and TLAPS proofs of what matters most for every instance.

`src/server` below stands for `src/esas-core-v2/esas-core-v2-20240207/server/src`.

## 1. The system

A *master* process forks one *worker* per server index and forks it again when
it dies.  Every worker is a single-threaded event loop; workers share one Redis.
What is concurrent is therefore: requests of one worker between two awaits,
workers against each other, and the network, the engine, ffmpeg and timers
against all of them.

| Component | State | Operations | Talks to |
|---|---|---|---|
| SessionManager (`session_manager.js`) | `sessionById` of the worker; in Redis a key per call, a hash of sessions, a channel per session | startSession, closeSession, registerCallID, deregisterCallID, setSessionRedis, the pub/sub handler | Redis; the session's `start`/`close` |
| V1 RTP handler (`v1/rtp.js`) | two RtpServers per session | POST /CallOperation start and terminate, GET /V1RtpSessions, session start/close | SessionManager, RtpServer |
| V1 websocket (`v1/websocket.js`) | status 10/20/30/40/50/999, emitter | commands s, p, e, socket close | SessionManager, EngineClient |
| V2 Socket.IO (`v2/socketio.js`) | status, engine client of a socket | init, data, term, disconnect | SessionManager, EngineClient |
| RtpServer (`rtp_server.js`) | pool of ports, servers by port; `sequenceIndex`, `delayedBuffers`, `delayedTimeout` | open, close, checkExpire, the message handler, setDelayedTimer, sendToEngine | UDP, EngineClient |
| EngineClient (`engine_client.js`) | socket, ffmpeg process, `buffer_store`, `closing`, listeners and timers of close() | start, sendBuffer, close, the engine's events | engine, ffmpeg |
| V2 file transfer (`v2/file.js`) | results in Redis under random keys | upload, download | Redis |
| Cluster (`cluster.js`, `server.js`) | `workers`, `terminating` | fork, exit, SIGHUP/SIGINT, uncaughtException | worker processes, Redis |
| Pure parts (`lib/logic.js`, `lib/index.js`) | none | emotion parameters; endianness, framing | - |
| Clients (`clientjs`, `clientpy`, samples) | connection status | the peers of the protocols above | the server |

What is hard about it:

* an RTP start consists of six awaits on which terminates, timeouts, other starts
  of the same call and crashes can interleave, on several workers; so does a close;
* closing is triggered from five places (terminate by session, terminate by call,
  closeTimeout, socket close, failure of the start), which do not know of each other;
* a terminate is a PUBLISH, lost unless the owner is already subscribed;
* UDP reorders, delays, loses and duplicates packets whose number has 16 bits;
* `EngineClient.close()` waits for the engine, may be called several times at once,
  and may be called while `start()` runs;
* UDP ports are few and must come back from every failed start and hung close;
* nothing but timers and the expiry of Redis keys helps against a silent client,
  a silent engine or a dead worker.

What makes each component correct:

* SessionManager: a call has one session, a live session holds its call, no call
  stays blocked, a terminate reaches its session, every session ends.
* RtpServer, packets: the engine hears them in order and once, gaps become silence
  of the right length, no packet that comes in time is skipped, none waits for ever.
* RtpServer, ports: a port is free once or held by one server, and comes back.
* EngineClient: all audio reaches the engine before the end of the audio and none
  after it, `close()` returns, and leaves neither a connection nor a process.
* Websocket and Socket.IO handlers: one answer per command, whatever the order of
  commands and of the close of the session.
* Cluster: the master ends when the last worker has gone, and forks no new one then.
* File transfer: a result is downloaded at most once.

`PROJECT.json` lists all components with their status (`components`), the places
where the code is hard to test (`hazards`), and for every definition that models
code the lines it stands for (`map`).

## 2. Modules

| Module | Models | Lines of code |
|---|---|---|
| `SessionManager` | the manager of one kind of server, all workers, Redis and the handlers that call it | `session_manager.js`, handlers in `v1/rtp.js`, `v1/websocket.js`, `v2/socketio.js`; crash and restart in `cluster.js` |
| `CallRegistry` | abstract: a call is held by at most one session, and freed only in the step in which that session stops holding it, or after it was lost | - |
| `EngineContract` | abstract: what an engine client promises to those who call its `close()` | - |
| `MCSessionManager` | symmetry of sessions, workers, calls, requests | - |
| `SessionManagerProofs` | proofs about the two | - |
| `RtpReorder` | order of the packets of one RTP port | `rtp_server.js` 83-236 |
| `RtpReorderProofs` | proofs | - |
| `EngineClient` | one engine client, ffmpeg and the engine | `engine_client.js` 35-44, 369-664 |
| `EngineClientProofs` | proofs | - |
| `RtpPorts` | the ports of a worker: open, close, expiry | `rtp_server.js` 19-171 |
| `MCRtpPorts` | the scenarios: which servers with which faults | - |
| `RtpPortsProofs` | proofs | - |
| `WebsocketSession` | one websocket: client library, server, the manager's start and close of the session | `v1/websocket.js` 23-377, `clientjs/src/v1.js` 8-122, `session_manager.js` 50-95 |
| `WebsocketSessionProofs` | proofs | - |
| `SocketIoSession` | one V2 session: client library, server, engine client, the manager's timer | `v2/socketio.js` 23-203, `clientjs/src/v2.js` 13-64, `session_manager.js` 50-95 |
| `SocketIoSessionProofs` | proofs | - |
| `ClusterLifecycle` | the master, its workers and their shutdown | `cluster.js`, `server.js` 104-125 |
| `FileTransfer` | upload and download on that cluster | `v2/file.js` 16-109 |
| `FileTransferProofs` | proofs about it and the cluster | - |
| `RtpClient` | one sound file of the command line client | `RTPClient/esas_rtpcli/esas_rtpcli/app.py` 105-378, 435-500 |
| `RtpClientProofs` | proofs | - |

How they fit together.  `SessionManager` is the only module with all workers and all
sessions; each of the others takes one of the things a session consists of and models it
in detail against the environment that the manager or its peer is.  They meet in named
properties: a session is closed some time (`EverySessionEnds`) is the fairness assumed of
`RtpPorts`, `WebsocketSession` and `SocketIoSession` for its timer, and that an engine client's
`close()` and `start()` come to an end (`CallsSettle`) is the fairness assumed of the client.
What those modules may use of it besides is `EngineContract`: `EngineClient` implements it, and the steps of
`WebsocketSession` and `SocketIoSession` that concern their engine client are proved to be steps of it, so neither
relies on anything a real client does not do.  (`RtpPorts` is coarser still, only when `close()`
returns; there the comparison is by reading.)  `CallRegistry` is what the manager promises about calls.  Each session
has a phase there (`new`, `holds`, `over`, `lost`), and the refinement reads it off the session's own start and
closing alone (`Phase`), never off the keys: a DEL that frees the key of another session changes the keys and not the
phase of the holder, which no action of `CallRegistry` does.
`RtpReorder` receives the numbered stream that `RtpClient` produces (`StreamContiguous`)
through a network.  `FileTransfer` EXTENDS `ClusterLifecycle`: its requests are handled by
the workers that the cluster forks, crashes and shuts down.

### SessionManager

One action is one await: the Redis command or callback that is waited for,
with the JavaScript that runs between its answer and the next await.  Commands
that are issued but not yet executed are part of the state: `start[s]` says
where the start request of a session is (`get`, `setex`, `subscribe`, `hset`,
`starting`, ...), `closing[s][p]` counts the closeSession calls that are before
their DEL, UNSUBSCRIBE, HDEL or `session.close()`, `publishing`, `inbox` and
`lookups` are terminates on their way.  `sessionById`, `callKey`, `table`,
`timer`, `callID1` are the variables of the code, or their Redis counterparts.

`StartSession` ... `SetSessionRedisAgain` are the start path, `Deregister` ...
`SessionClosed` the close path, `SessionTimeout`, `SocketClosed`,
`TerminateBySessionId`, `TerminateByCallID` what triggers a close, `Publish` and
`RecvTerminate` the pub/sub channel.  `WorkerCrash` removes a worker's sessions and
timers and leaves Redis alone; `MasterRestart` flushes Redis, as `cluster.js` does.

`Kinds` selects the servers: RTP registers the call before `session.start()`,
websockets learn it in the middle of `session.start()` and register it after,
V2 sessions have none.  `Races` names what clients and the network may do: `overlap`
(two unanswered starts of a call), `early` (terminate before the start is
answered), `double` (two closeSession calls at once), `slow` (`session.start()` that
lasts longer than `maxTermMS`).

Abstracted: Redis executes the commands of one connection in order, the model lets
them overtake each other (it has more behaviours); the entry in `sessionById` and the
subscription change together; Redis commands do not fail; `maxTermMS` is
configured, and longer than a few Redis commands take; a key expires only after the
timer of its session has fired or been cleared, as its TTL is longer.

### RtpReorder

Time is counted in ticks; a caller sends one packet of one tick per tick.  Packets
carry their true number, which the server never reads: properties compare with
it what the server makes of the low bits.  `Receive` is the whole message
handler, with `Correct` for correctSequence and `SendToEngine` for sendToEngine and
the timer it re-arms; `TimerFires` is setDelayedTimer's callback.  `heard` and
`position` are what the engine client was given: which packet at which position.

Abstracted: `delayedBuffers`, an array that is sorted stably before every use, is a
set with the order `Earlier`; an unset `sequenceIndex` and 0 are the same value, as
they are for the `||` of the code; malformed packets; bytes (silence is counted
in ticks).  The network keeps to `Plausible`: no gap of half a cycle of
sequence numbers, and no stream that starts at number 0 unless the fault `zero` says so.
`config.production.js` sets no `delayedBufferMs`, which makes the timer's delay NaN,
that is 0; `BufferMs` = 0 is allowed by the assumptions and covered by the proofs.

### EngineClient

One action is one callback or call up to its next await.  `closes[c]` is the state of
each call of `close()`: two of the session, one for each place where the client closes
itself.  `listeners` and `timers` are what those calls have added.  Audio is counted in
buffers: `bytes` taken, `piped` inside ffmpeg, `buffer_store`, `sent`.
The fault `impatient` is a session that sends audio before `start()` has settled, as a V2 session does whose
client sends `data` before its `init` is answered.
The administration of the engine by puppeteer (lines 46-359), the content of audio
and results, and a loss of the engine connection during a session are left out;
timers of equal length fire in the order in which they were armed.

### RtpPorts

`ReservedRtpPorts` is the queue of free ports, `InstanceByPort` the table of
servers.  The engine client is reduced to when its `close()` returns, the way
EngineClient shows it: at once if it is not started or has sent nothing, later if it
has, never for a call that finds another one waiting.  `SessionCloses` is
`V1RtpSession.close()`, `CheckExpire` the interval timer.  `Faults` says what may go wrong:
the engine refuses, the port cannot be bound, the client closes itself, the session
is closed early, twice, or after the server has expired.
Abstracted: a port can be bound once (in a worker the master binds it); the two
servers of a session are closed independently; a server expires a minute after the
session's own timeout, so not before the session has closed it, unless `late`; the
offset RTP_PORT_PREFIX; errors of a socket that is already bound.

### WebsocketSession

Both ends of one connection and two queues between them; "close" in a queue stands for the
closing handshake.  `client` is the library's status, `status`, `socket`, `engineClient`
are those of `WebsocketServer`.  `handler` is where the handler of the `s` command is
(engine start, countSuccess, countError), `start` where `startSession` is, and
`closes[c]` is the state of each call of `WebsocketServer.close()`: by the failed `s` command,
by `e`, and by the manager for its timer, a failed start and the end of the connection.
`CloseServer`/`Finish` are `close()` before and after its await; the engine client returns the
way EngineClient shows it, at once if it got no audio, to the first caller only if it did.
`CountedError` is the whole catch block: answer, `close()`, and the rejection of `open()`
that makes the connection handler call `closeSession`.
Abstracted: the Redis commands of `closeSession` are one step, during which a second
call may come; the contents of commands and results; results that the client
has not yet read count as one.

### SocketIoSession

Client and server exchange Socket.IO events in order; `toServer` and `toClient` are the two
directions.  `init` is where the handler of the `init` event is (engine start, SUBSCRIBE, HSET),
`closes[c]` the calls of `close()` by `term`, by `disconnect` and by the manager.  Unlike the V1
handler this one has no status: what tells the handlers of one another are `this.engineClient` and
`this.socket`.  `engine`, `closing`, `dataSent` and `waiter` are the engine client's: `waiter` is the
one call of its `close()` that will return.  `RecvData` before the engine client has a socket,
or after connect_error, is the TypeError of `sendBuffer` outside of any handler: `thrown`,
and the worker is gone.
Abstracted: the content of results; results that the client has not read yet count as one;
a client that loses its connection may lose its last events.  A V2 session has no call, so the
manager is its timer, its table entry and two Redis commands.

### ClusterLifecycle

One action is one callback of the master or of a worker.  `workers` is `cluster.workers`, `proc` the
worker processes, `inbox` the messages on their way to a worker (`index`, `softkill`, `close`, and
Node's own `disconnect`), `timers` the timeouts of `forceShutdown`.  `exits` and `channelEnds` are
the two events by which Node tells the master of the end of a worker: they come in either order, and the
worker leaves `cluster.workers` with the second one.  `RecvExit` is the 'exit' handler: refork with
the same index, or the end of the master.  `Sighup`, `Sigint`, `ForceShutdown`, `KillWorkers`,
`ExitTimer` are the two signals and the three timeouts; that of SIGHUP reads
`this.softkillTimeout`, which is not set, so its timer is armed with NaN ms and may fire at
once, as any timer of the model may.  `RecvClose` is `server.close()` and the exit behind it: it waits for
nothing, and without a server it is a TypeError that ends the worker as well.
The behaviour of Node's cluster module is external, and modelled as far as the code depends on it.
Abstracted: `Server.start()` is one step with the message `index`.  What it awaits, `V1.start` and `V2.start`, resolves at once
(`v1/index.js` 12-20, `v2/index.js` 12-20); a server that cannot listen emits `error`, or throws in the callback of `listen`, which nobody
catches, so that the worker dies: `Crash`.  Only an argument that `listen` refuses by throwing would be logged (`server.js` 98)
and leave a worker that does not listen; `start()` passes a path of its own or a configured port.

### FileTransfer

`upload[u]` and `download[d]` are where the handlers of the two requests are, `handler` the worker
that runs them, `store` the results in Redis, `temp` the files multer has written.  A request whose worker
is gone gets no further.  SET/EXPIRE and GET/DEL are one action each, as they are MULTI.
A file without segments gives an empty text, which is stored and answered with a key, and which
the download then takes for `not found` (line 90).
Abstracted: the analysis is one step that returns a result or an error; it is assumed to answer
(`analyzeFile` has no timeout: if the engine never does, the request hangs, and so does the upload);
keys are random and fresh, so the upload itself is its key; Redis' download database is not
flushed when a master starts.

### RtpClient

`main` is where the main thread is, `sender[c]` the `send_audiodata` of channel c, first in its thread,
then from `before_end()`.  `pos`, `seq` and `raw` are the counters of `audiobuffer` and the length of the raw
file; `sent` are the packets handed to the network, with the position of their audio.  `request` is the HTTP
request under way: a start or terminate that the client gives up after 15 s may reach the server
afterwards.  `faults` here are circumstances of a run: a capture file (which always dies in
`prepare()`, line 187: captures have no `wavformat`), a mono file, X_RTP_STREAM off,
no socket, no output directory, an unreadable file, refusals, timeouts, an expired session.
Abstracted: the two files' headers and `sys.exit`, pacing (`time.sleep`), logging; several files are
independent runs.

All modules but SessionManager take `Scenarios`, a set of sets of faults: a behaviour has the
faults of one of them (`faults`), and a property that needs a disciplined environment says
which faults it excludes.  SessionManager has `Kinds` and `Races` in their place.

## 3. Runs

Every run sets CHECK_DEADLOCK FALSE: all calls over, all streams heard, all clients
closed, and a master that has ended are ends of the system (the model's clients and requests are finite).

| Run | Instance | Checks | Shows |
|---|---|---|---|
| `rtp_calls` | RTP; 2 sessions, workers, calls, requests; 1 crash; races early, slow; symmetry | LiveSessionHoldsKey, ImplementsCallRegistry | clients that do not overlap starts of a call or close a session twice at once get what CallRegistry promises |
| `races` | RTP and websocket; 2 sessions, 1 worker, 1 call, 1 request; 1 crash; all races | KeyNamesLiveSession, TimerGuardsSession, LiveSessionListed, TerminateReachesSession, EverySessionEnds, CallIDReleased | what survives every race, also for sessions that learn their call late and whose keys need expiry |
| `rtp_overlap` | RTP; race overlap | OneSessionPerCall: **violated** | see 5 |
| `reorder` | 5 packets, BufferMs 1, MaxDelay 2, wrap after 2 packets; scenarios: loss and close; loss and duplicates | InOrder, WaitersHaveTimer, SpokenTimeKept, NothingSkipped, WaitersHeard | order, silence and patience of the server; no packet waits for ever |
| `reorder_close` | fault close | WorkerSurvives: **violated** | see 5 |
| `engine_close` | 4 buffers; scenarios: all faults; all but early, unreachable, slowFfmpeg | NothingLeaks, EngineGetsConverted, AudioEnds, CallsSettle, ImplementsEngineContract | a client that is closed after it started leaves nothing; converted audio arrives, and none after its end; close() and start() come to an end under every fault; its owner sees no more of it than EngineContract |
| `engine_tail` | fault slowFfmpeg | EngineGetsAll: **violated** | see 5 |
| `websocket_protocol` | 2 buffers; scenarios: all faults; all but fast, slow, late | AnswersExpected, AudioTaken, EngineClosedFirst, CommandsAnswered, SessionEnds | the library and the server understand each other, the library never stays in the status of a command it has sent, nothing of a session stays |
| `socketio` | 2 buffers; four scenarios from "the engine refuses or the client goes" to all faults | TermAfterResults, StartedSessionsSurvive, EventsAnswered, NothingRemains | `term` is answered, after the results; no event kills the worker once the engine client has started, whoever sends it; a client that waits for `init` leaves nothing behind |
| `ports` | 2 ports; 3 servers with failures of the engine and of bind; 3 servers with second and late closes; 2 servers with all faults | PortsConserved, PortsChangeHands, NoStaleSocket, PortsComeBack | a port goes from the pool to a server that opens and back when a close() of that server takes effect; sockets belong to the server in use, and no port is lost |
| `cluster` | module FileTransfer; 2 indices, 3 processes, 2 signals, 1 upload, 2 downloads; four scenarios | OneWorkerPerIndex, IndexServed, ShutdownEnds, ResultInOnePlace, UploadEnds | every index has its worker until a shutdown, which ends all processes and forks none; a result is delivered once and not lost before |
| `rtp_client` | packets of 2 bytes, 2 numbers, up to 9 bytes of audio; nine circumstances | StreamContiguous, SentInsideCall, OnlyTailLost, NoOrphan | the client sends its audio in order, once, inside the call, and terminates it, if the start is answered in time; what it keeps back, and when it dies |

Why the bounds are enough.  Two sessions can compete for one call, and a call freed
by one can be taken by the other while the first is still closing; two workers give a
terminate that is published elsewhere (`rtp_calls`; the proofs cover every race with any number
of workers).  `Request` bounds terminates and `MaxCrashes` crashes and restarts: one of each can hit
every step.
With SHORT_SIZE 10 and First 8 the numbers wrap after two packets, and MaxDelay 2 lets a
packet be overtaken by two others; it is longer than BufferMs, so packets are
given up and arrive afterwards.  Five packets are more than MaxDelay by enough for silence to be
too short: two packets that were heard can be four apart, and SpokenTimeKept allows a
difference of two.  (With four packets and MaxDelay 3 only silence that is too long would be noticed.)
Of two copies of a packet the first arrives or is lost first: they are alike.  MaxTime is later than the last packet can be sent by a
timer, so no waiting packet is cut off by the bound.  Three servers and two ports make the
pool run empty and ports be used again, also by a third server when a second or late close() of the first one comes: PortsConserved and PortsComeBack survive that, PortsChangeHands leaves it out (see 5).  BUFFER_SIZE 1 and four buffers make
`buffer_store` keep a rest, send chunks and be flushed.  Two buffers on a
websocket allow one that is dropped before one that is taken, with `e` behind them; on Socket.IO
one whose results are read before `term` and one whose results are not.
Three processes for two indices let a worker of either index die at any step and be
replaced; OneWorkerPerIndex is proved for any number.  Two signals are SIGHUP and SIGINT in both orders and either twice.
Two downloads compete for the one key.  Nine bytes in packets of two with two numbers make
channels with no packet, a tail only, exactly as many packets as numbers, one and two more: the
cases that line 289 and the 16 bits tell apart.  The proofs have no bounds.

Mutants: every property of a passing run is violated by a plausible bug in a mapped
definition (`mutants` in PROJECT.json; the mutated definitions stand next to the
originals, marked "Mutant").

### Fairness

* SessionManager, `ServiceFairness`: Redis executes commands that were issued, live workers
  handle their messages, closes and starts go on after an answer.  This is the event
  loop's duty and Redis' (its failure is not modelled).  Nothing obliges a client to act or
  `session.start()` to settle.  Timers and key expiry are fair only in the properties
  that say so: `TerminateReachesSession` holds without them, `EverySessionEnds` needs
  `TimerFairness` (setTimeout), `CallIDReleased` for websockets also
  `ExpiryFairness` (SETEX).
* RtpReorder, `TimedSpec`: time passes, armed timers fire, what travels and is not lost arrives.
* EngineClient, `FairSpec`: the connection comes up, ffmpeg spawns or fails, the
  handshake is answered, timers fire.  The engine's reports are not assumed.
* WebsocketSession, `FairSpec`: messages arrive and are handled, Redis answers, the timer of the
  session fires, the engine client starts and closes (CallsSettle).  The
  client never has to send anything, and an engine client that was closed while it started need
  not settle.
* SocketIoSession, `FairSpec`: the same as WebsocketSession; results of audio that the engine has got
  arrive, or its report or the timeout does.  The client never has to send or to leave.
* RtpPorts, `FairSpec`: the session closes its servers (EverySessionEnds), the interval
  timer runs, and a close() of the engine client that waits returns (CallsSettle).
  These two assumptions are the liveness properties of the other modules.
* ClusterLifecycle, `ClusterFairness`: Redis answers the master's flushdb, processes start, messages and the
  two events of a worker's end arrive, armed timers fire, and a worker that is told to disconnect runs
  out of connections some time.  Nobody has to send a signal or to crash.
* FileTransfer, `FairSpec`: moreover the engine and Redis answer requests.
* RtpClient has safety properties only.

## 4. Proofs

All for every value of the constants that satisfies the named assumptions; no bound
on sessions, crashes, packets, ports or time is used.

**SessionManagerProofs** (from `ConstantsAssumption`).  `Inv` is inductive:

* `SessionInv(s)` relates where a start is to the rest of the session: before it is
  subscribed a session has no close under way, no table entry of its own making, ...;
  a served session that is not being closed has its timer, and is listed once
  its start has executed HSET.  Closing counts matter: a late HDEL belongs to a call that
  has already removed the session.
* `KeyInv(s)` (RTP): a key names a session of its call that is about to be
  served, served and before its DEL, or lost with its worker.
* `HolderInv(s)` (RTP, without the races overlap and double): from SETEX to DEL
  the session holds its key, nobody else is registering the same call, and at most one
  closeSession is under way.

From it: `TypeCorrect`, `KeysNameLiveSessions`, `TimersGuardSessions`,
`LiveSessionsListed` under every race, `LiveSessionsHoldKeys` and
`RegistryImplemented` (Spec implements `CallRegistry` with `holder` = the Redis keys and
`phase` = the phase of each session, from its own `start` and `closing`; a key is freed only by the DEL of the session
that holds it, or after that session died) for disciplined clients, and for them
`OneAtATime`: no two sessions serve one call, which `rtp_overlap` refutes of the others.
`KeyNamesLiveSession` is not inductive by itself: whether DEL frees the right key
depends on which sessions are between the lookup in `sessionById` and DEL.

**RtpReorderProofs** (from `ReorderAssumption`).  `Inv` (types, arrival times are past,
waiting packets have a timer) under every fault gives `TypeCorrect` and `WaitersGuarded`.
`CorrectExact` shows that correctSequence returns the true extended number whenever the
packet is less than half a cycle away from the last one, by arithmetic on div and mod.
`CleanInv` adds, without duplicates and zero: packets that travel and those that wait are
younger than `now` and numbered exactly, and the last packet sent is the youngest heard.
`OrderKept`: InOrder for every SHORT_SIZE, delay and loss.
`SpokenInv` adds when things happen: a packet is at most MaxDelay older than its arrival, the timer is armed
for the earliest waiting packet, gaps between waiting packets are gaps of what has not arrived, and two
packets that were heard are, but for MaxDelay, as far apart as they were said.  It gives `SilenceFits`
(`SpokenTimeKept`) and `InTimeMeansKept` (`NothingSkipped` as an action property, of networks that do not duplicate).
With duplicates, or a stream that starts at 0, the number of the last packet can move back: a copy that waits
in `delayedBuffers` is sent by a later timer.  `CleanInv` is then false, and `NothingSkipped`, which excludes
only `zero`, is model-checked for copies and not proved.

**RtpPortsProofs** (from `PortsAssumption`).  `Inv` (types, `PortsConserved`,
how the parts of a server go together) under every fault gives `TypeCorrect` and `Conserved`.
`HeldInv` (servers closed once and before they expire: who is not yet closed holds its
port, and whoever waits for the engine still does) gives `HeldUntilClosed`; `SocketInv`
(moreover not closed while they open) gives `SocketsOwned`.  With `EntryInv` (an entry of `InstanceByPort` is at the
server's own port; under every fault) and `SettledInv` (the close() that the engine client resolves is one that waits), ports of
servers closed once change hands in two ways only, from the pool to a server that opens, and back in the step in which a
close() of the server that holds the port is resolved: `PortsOwned`;
and the interval timer can free every port that is held: `NoPortForgotten`.

**EngineClientProofs** (from `EngineAssumption`), for any BUFFER_SIZE and any amount of audio.
`Accounted`: what was taken is in ffmpeg, in `buffer_store` or at the engine, and `Called`: only a call of
`close()` ends the audio, both under every fault.  `Converted` (without slowFfmpeg): nothing is in ffmpeg once `close()` was called, and
nothing in `buffer_store` once the end was sent; with `Accounted` this is `EngineGetsConverted`, and `AudioEnds`.
`CalmStart` and `CalmEnd` (without early and unreachable) give `NothingLeaks`.  NothingLeaks speaks of settled
starts only; that it holds when `start()` settles depends on `CalmStart`: which of connection,
process and `ffmpeg_c` exist at each of its awaits, and that no call of `close()` is among them.
`OwnerInv` (under every fault) says which calls of `close()` can be waiting, with which listeners and timers;
with it each step is one of `EngineContract` or changes nothing an owner sees: `KeepsContract`.  It also gives
`NobodyForgotten`: the first call that waits has a socket and an armed disconnectTimeout, so no answer of the
engine is needed for it to return.

**WebsocketSessionProofs** (from `WebsocketAssumption`).  `ServerInv` relates the status of the server to the handler of `s`, the
socket and the engine client; `QueueInv` says what can be on its way to a client in each status, `PeerInv`
what each side knows of the other.  The three hold under every fault and give `AnswersExpected`, for which the whole queue
matters: an answer that is expected now must not come after one that ends the session.
`StartInv` (without slow: while `s` is handled nothing is closed) gives `EngineClosedFirst`.
`AudioInv` (without fast: what was spoken is taken or in the queue, in front of `e`) gives `AudioTaken`.
`OwnerInv` and `CallsInv`, under every fault, tie the calls of `close()` to the engine client: `UsesContract`.
`LastWordInv` (what is on its way to a client, or the session's state, answers what the client waits for) and `TimeoutInv`
(a close() that can hang leaves another way out: a timer, another call, the end of the connection) give `NobodyForgotten`.

**SocketIoSessionProofs** (from `SocketIoAssumption`).  `OnceInv` holds under every fault: the one `init` finds nothing set.  `BeganInv`, also under every fault:
once `start()` of the engine client has resolved, it has a socket or is closed, whatever was sent and closed before; hence no
event throws from then on, `DataSafe`.  For clients
that wait for the answer to init (without hasty), `InitInv` says that `data` and `term` reach an engine client that
has started, also while they travel, `EngineInv` that nothing throws at all.
`TermInv` (also without timeout and error) says that no result is pending while `term` is answered: `TermAfterResults`.
`OwnerInv` and `TimerInv`, under every fault, tie the handlers and the timer that wait for a `close()` to the engine client:
`UsesContract`, and, with what each handler still owes its client, `NobodyForgotten`.

**RtpClientProofs** (from `RtpClientAssumption`), for any packet size, any number of bits and any length of audio.
`CallInv` relates the main thread to the request and the server's session and gives `NoOrphan`, with and without slow
requests;
`SenderInv` says which thread runs send_audiodata when, and gives `SentInsideCall` with it.  `StreamInv` relates the counters
`raw`, `pos` and `seq` of a channel to each other and to the packets sent; an exception leaves `pos` a
packet ahead, the case `Behind`, which makes `StreamContiguous` and `OnlyTailLost` inductive.

**FileTransferProofs** (from `ClusterAssumption` and `FileAssumption`), for any number of workers, signals, crashes,
uploads and downloads.  `ClusterInv`: ids are given away in order (`Forks`), before the shutdown no worker is told to
end and there is an id for whoever replaces the dead (`Undisturbed`), and each index has exactly one
process that lives or whose exit the master has not yet heard of (`Posted`); hence `OneWorkerPerIndex`.
`FileInv`: a result is stored before its key is known, downloads ask for known keys, and what was taken is not stored again;
hence `ResultInOnePlace`.
`ShutdownInv`: a master that was told to end always has a timer that goes on with it.  `CalmInv` (without early:
no signal while the master starts): whoever may be told to `disconnect` has been told to end before, in the order of its
queue; for that the workers that have left `cluster.workers` matter as well, which `killWorkers` does not reach.
Hence `ShutdownNeverStalls` (and none is left that only drains) and `ShutdownForksNobody`.  `UploadInv`: an upload that is
past its answer has one, and an upload that was lost had a worker that is gone; hence `NoFileForgotten`.

The type invariants of all modules are theorems (`TypeCorrect`) and not invariants of a run.

The refinements of `EngineContract` by `WebsocketSession` and `SocketIoSession`, `HeldUntilClosed` (a server that nobody has closed
holds its port), and the theorems `NobodyForgotten`, `NoPortForgotten`, `NoFileForgotten`, `ShutdownNeverStalls` and `ShutdownForksNobody` are stated by theorems only; no run lists
what they state.

**Safe halves.**  That something happens in the end cannot be proved here.  What can be is that the system never comes into
a state in which nobody is left to make it happen: the first half of a liveness argument, to which the run adds fairness.
This is `WaitersGuarded` for `WaitersHeard`, `TimersGuardSessions` for `EverySessionEnds`, the three
`NobodyForgotten` for `CallsSettle`, `EventsAnswered` and `CommandsAnswered`, `ShutdownNeverStalls` with `ShutdownForksNobody` for
`ShutdownEnds`, `NoFileForgotten` for `UploadEnds` and `NoPortForgotten` for `PortsComeBack`.

**Model-checked only.**  Liveness is out of the prover's reach: `TerminateReachesSession`, `EverySessionEnds`,
`CallIDReleased`, `WaitersHeard`, `CallsSettle`, `CommandsAnswered`, `SessionEnds`, `EventsAnswered`, `NothingRemains`,
`PortsComeBack`, `IndexServed`, `ShutdownEnds`, `UploadEnds`.  So is `NothingSkipped` where packets are duplicated.  The three properties that the code violates (section 5) are
refuted by TLC, on instances.

## 5. Where the code disagrees with its documents and tests

Each of these is a run that ends in a counterexample, with the quoted line under
`findings` in PROJECT.json.

* `rtp_overlap`: GET and SETEX of registerCallID (`session_manager.js` 14-18) are two
  commands; two starts of one call that overlap are both accepted.
* `reorder_close`: `close()` of an RtpServer leaves `delayedTimeout` armed; the timer then
  uses `this.engineClient`, which is null (`rtp_server.js` 205), and the exception ends the worker.
* `engine_tail`: `close()` flushes `buffer_store` in the turn in which it ends ffmpeg's input
  (`engine_client.js` 524-532); what ffmpeg puts out afterwards is never analysed.

Other behaviours that the models show when a fault is added to a passing run, or a
property's exclusion of a fault is dropped:

* A websocket session that is refused, or fails after its `s` command, deletes the key
  of the session that holds the call (`session_manager.js` 88): `OneSessionPerCall`
  with Kinds "websocket" and three sessions, without any race.
* A terminate that arrives before its start is answered leaves an entry in the hash of
  sessions: the start handler stores the session again (`v1/rtp.js` 286).
* A stream that starts with number 0 (`zero`), and a packet that arrives twice
  (`duplicate`), violate `InOrder`: `this.sequenceIndex || rtpPacket.seq`
  (`rtp_server.js` 92), and the copy that stays in `delayedBuffers`.
* `close()` during `start()` (`early`), or after a connect_error (`unreachable`),
  leaves a connection or an ffmpeg process: `NothingLeaks`.  That is why `NothingLeaks`
  excludes both.
* The close() of a session that finds the client closing itself after an analysis error
  never returns (`engine_client.js` 441, 443): CallsSettle is stated of the first call
  that waits.  RtpPorts has this as `CloseHangs`, and `checkExpire` as the way out.
* A websocket client that sends audio or `e` as soon as it has its `s` (`fast`) can lose them: the
  status is DONE_S only after another Redis command (`v1/websocket.js` 242-244), and everything
  before is ignored.  `AudioTaken`; the client then waits for `e` until the session's timer.  The
  sample client works around it by sleeping (`client_sourcecode/WebSobket/main.py` 128).
* A session timer during the `s` command (`slow`): the answer is sent on a null socket, the
  exception escapes the catch block (`v1/websocket.js` 252-254), and an engine client that
  connects late stays connected.  `EngineClosedFirst`, `SessionEnds`.
* When a websocket session is closed while its engine client closes itself after an
  error, and `e` comes in that time (`late`), both close() calls hang, no timer is left, and the client
  waits for ever: `CommandsAnswered`.  Without `late` the session's timer is the way out.
* A second flush by a second close() while ffmpeg still puts out audio (`double` with
  `slowFfmpeg`) sends audio behind its end: `AudioEnds`.
* A server closed while it opens binds a port that is already back in the pool
  (`early`): `NoStaleSocket`.  A server closed twice (`double`) frees the port of its
  successor: `PortsChangeHands`; with `late`, a closeSession that failed on Redis and is
  repeated after the expiry, both.
* Two closeSession calls of one session at once (`double`) both execute DEL, and the second one can free the key of a
  newer session of the call (`session_manager.js` 84-90): `ImplementsCallRegistry`, when `double` is added to `rtp_calls`.
* The client library changes its status when the connection ends, but settles no promise: `onclose` (`clientjs/src/v1.js` 30-33)
  and a `p` with an internal error (47-50) leave a caller that awaits `_sendS` or `finishAudio` waiting for ever.  The model
  has the status and not the promises, and `CommandsAnswered` is about the status.
* A Socket.IO client that sends audio before its `init` is answered (`hasty`) makes `sendBuffer`
  use a null socket: the exception is outside of any handler, and the worker ends with all its
  sessions (`v2/socketio.js` 75, `engine_client.js` 512).  `StartedSessionsSurvive` is therefore about sessions whose engine
  client has started.
* A Socket.IO client that disconnects, or sends `term`, while its `init` awaits the engine (`hasty`): `close()`
  finds no connection yet, `start()` goes on and connects, and as `this.engineClient` is already null the
  connection and its ffmpeg stay for ever: `NothingRemains`.
* A `term` that comes while the engine client closes itself is answered only by the session's
  timer; if that timer has fired as well (`late`), never: `EventsAnswered`.
* SIGINT or SIGHUP while the master awaits `flushdb` (`early`): `master()` forks all the same.  Workers that
  are forked after `forceShutdown` has sent `close` may only be told to disconnect, and then survive
  the master: `ShutdownEnds`.
* After SIGHUP workers have no time to finish: `this.softkillTimeout + 5000` is NaN (`cluster.js` 98), though the
  configuration gives it ten minutes (`config/test.js` 37).  `server.close()` of a worker does not wait either.
* A worker that dies during an upload leaves the temporary file: `UploadEnds` says "or its worker is gone".
  One that dies between GET/DEL and its answer loses the result: a download is at most once, not exactly once.
* The command line client never sends the last, incomplete packet of a channel (`app.py` 289; OnlyTailLost says
  that it is no more than that), ends without terminating its call when a channel has more than 65537
  packets (`app.py` 300), and leaves a session to the server's timer when a start times out
  at the client only (`NoOrphan` says that nothing else does).

## 6. Not modelled, and why

* Engine administration (`engine_client.js` 46-359): a sequential puppeteer script on web pages of the engine.
* `lib/logic.js`: floating-point formulas without state; TLA+ has integers only.
* `lib/index.js`: `flipEndian` reverses byte pairs of a buffer.  Audio is counted in buffers here, never in
  bytes; reading it shows that a buffer of a single byte is dropped instead of carried over (line 19).
* The realtime notification of V1 RTP sessions (`v1/rtp.js` 33-122): one POST that nothing waits for.
* Redis connections and counters, logger, HTTP routing, configuration: I/O and formatting
  without state of their own; commands are modelled where they are used.  Redis does not fail, an
  established engine connection is not lost (`engine_client.js` 632), and a crash of Redis is not modelled.
* Sample clients that do what the modelled peers may do (`main.py`, `SocketIO_Client`).
* `.bak` copies, test pages, assets, deployment, documents: not part of the running program.
  `get-pip.py` is a vendored installer of 32657 lines, most of them an encoded archive; it makes up nearly all
  of the Python lines of the repository and none of the system.
