--------------------------- MODULE SocketIoSession ---------------------------
(***************************************************************************)
(* One V2 session: the client library's SocketIoSession (clientjs/src/     *)
(* v2.js), the server's V2SocketIoSession (v2/socketio.js), its engine     *)
(* client and the manager.                                                 *)
(*                                                                         *)
(* The two sides exchange events in order; the side that disconnects puts  *)
(* "disconnect" behind its events.  One action is one handler up to its    *)
(* next await.  The handlers of init, term and disconnect await different  *)
(* things and so overlap, and no status tells them of one another as the   *)
(* status of a V1 websocket does: there are only this.engineClient and     *)
(* this.socket.  The engine client does what EngineContract says: its      *)
(* close() returns at once unless the engine has got audio, and of several *)
(* calls that wait only the first returns.                                 *)
(***************************************************************************)
EXTENDS Naturals, Sequences, SequencesExt

CONSTANTS
  MaxAudio,    \* bounds the buffers that the client sends
  Scenarios    \* sets of faults; a behaviour has those of one of them

(***************************************************************************)
(*   "refused"    the engine client does not start                         *)
(*   "error"      the engine reports an error: its client closes itself    *)
(*   "timeout"    the engine's report does not come in time                *)
(*   "gone"       the client disconnects, or loses the connection          *)
(*   "hasty"      the client goes on, or goes, before init is answered, or *)
(*                goes on when it has failed                               *)
(*   "late"       the session's timer fires while its engine client closes *)
(*                itself                                                   *)
(***************************************************************************)
Fault == {"refused", "error", "timeout", "gone", "hasty", "late"}

ASSUME SocketIoAssumption == MaxAudio \in Nat /\ Scenarios \subseteq SUBSET Fault

VARIABLES
  faults,       \* the scenario
  client,       \* what the client's application knows
  hungUp,       \* the client has disconnected
  spoken,       \* buffers that the client has sent
  toServer, toClient,
  socket,       \* whether this.socket is set
  init,         \* where the handler of init is
  engineClient, \* whether this.engineClient is set
  engine,       \* the engine client's connection
  closing,      \* the engine client's closing
  dataSent,     \* ... and its dataSent
  pending,      \* the engine has audio whose results have not come
  waiter,       \* the first call of the engine client's close() that waits
  closes,       \* the calls of close() in socketio.js, by their origin
  table,        \* whether the session is in sessionById
  timer,        \* closeTimeout
  thrown        \* an exception that nobody catches: the worker is gone

clientVars == <<client, hungUp, spoken>>
engineVars == <<engine, closing, dataSent, pending, waiter>>
managerVars == <<table, timer>>
vars == <<clientVars, toServer, toClient, socket, init, engineClient,
          engineVars, closes, managerVars, thrown>>
allVars == <<faults, vars>>

Closer == {"term", "disconnect", "manager"}

TypeOK ==
  /\ faults \in Scenarios
  /\ client \in {"new", "starting", "ready", "failed", "ending", "done", "closed"}
  /\ hungUp \in BOOLEAN
  /\ spoken \in 0 .. MaxAudio
  /\ toServer \in Seq({"init", "data", "term", "disconnect"})
  /\ toClient \in Seq({"init", "init error", "analyzed", "term", "term error",
                       "disconnect"})
  /\ socket \in BOOLEAN
  /\ init \in {"idle", "engine", "subscribe", "hset", "error", "done"}
  /\ engineClient \in BOOLEAN
  /\ engine \in {"none", "connecting", "handshake", "running", "gone"}
  /\ closing \in BOOLEAN /\ dataSent \in BOOLEAN /\ pending \in BOOLEAN
  /\ waiter \in {"none", "itself"} \cup Closer
  /\ closes \in [Closer -> {"idle", "redis", "waiting", "done"}]
  /\ table \in BOOLEAN /\ timer \in BOOLEAN
  /\ thrown \in BOOLEAN

Init ==
  /\ faults \in Scenarios
  /\ client = "new" /\ hungUp = FALSE /\ spoken = 0
  /\ toServer = <<>> /\ toClient = <<>>
  /\ socket = TRUE
  /\ init = "idle"
  /\ engineClient = FALSE /\ engine = "none"
  /\ closing = FALSE /\ dataSent = FALSE /\ pending = FALSE /\ waiter = "none"
  /\ closes = [c \in Closer |-> "idle"]
  /\ table = FALSE /\ timer = FALSE
  /\ thrown = FALSE

-----------------------------------------------------------------------------
(***************************************************************************)
(* The client.                                                             *)
(***************************************************************************)

\* What is sent to a server that has disconnected is lost.
ClientSends(m, from, to) ==
  /\ client \in from
  /\ client' = to
  /\ toServer' = IF socket THEN Append(toServer, m) ELSE toServer
  /\ UNCHANGED <<hungUp, toClient, socket, init, engineClient, engineVars,
                 closes, managerVars, thrown>>

\* Nothing keeps an application from sending before init is answered or after
\* it has failed, or a client that does not use the library from leaving it out.
Ready ==
  IF "hasty" \in faults THEN {"new", "starting", "ready", "failed"} ELSE {"ready"}

ClientInit == ClientSends("init", {"new"}, "starting") /\ UNCHANGED spoken

Send ==
  /\ spoken < MaxAudio
  /\ spoken' = spoken + 1
  /\ ClientSends("data", Ready, client)

Term == ClientSends("term", Ready, "ending") /\ UNCHANGED spoken

\* The client leaves; of its events, the last ones may be lost.
Leave ==
  /\ ~hungUp
  /\ (IF client = "starting" THEN "hasty" ELSE "gone") \in faults
  /\ \E n \in 0 .. Len(toServer) :
       toServer' = IF socket THEN Append(SubSeq(toServer, 1, n), "disconnect")
                   ELSE toServer
  /\ client' = "closed" /\ hungUp' = TRUE
  /\ toClient' = <<>>
  /\ UNCHANGED <<spoken, socket, init, engineClient, engineVars, closes,
                 managerVars, thrown>>

\* The answers to init and term, 'analyzed' and 'disconnect'.
Reaction(m) ==
  CASE m = "disconnect" -> IF client = "done" THEN "done" ELSE "closed"
    [] client = "starting" /\ m = "init" -> "ready"
    [] client = "starting" /\ m = "init error" -> "failed"
    [] client = "ending" /\ m = "term" -> "done"
    [] client = "ending" /\ m = "term error" -> "failed"
    [] OTHER -> client

ClientReceives ==
  /\ toClient # <<>>
  /\ client' = Reaction(Head(toClient))
  /\ toClient' = Tail(toClient)
  /\ hungUp' = (hungUp \/ Head(toClient) = "disconnect")
  /\ UNCHANGED <<spoken, toServer, socket, init, engineClient, engineVars,
                 closes, managerVars, thrown>>

-----------------------------------------------------------------------------
(***************************************************************************)
(* close(), of the engine client and of the session.                       *)
(***************************************************************************)

\* Events for a client that is gone, or was disconnected, are dropped.
Say(ms) ==
  toClient' = IF socket /\ ~hungUp THEN toClient \o ms ELSE toClient

\* The engine client has closed for c: term is answered, and the socket
\* disconnected, with what it had not read yet.
Closed(c) ==
  /\ engineClient' = FALSE
  /\ closes' = [closes EXCEPT ![c] = "done"]
  /\ Say(IF c = "term" THEN <<"term", "disconnect">> ELSE <<"disconnect">>)
  /\ socket' = FALSE
  /\ toServer' = <<>>

\* engineClient.close() waits for the report of audio.  Mutant: not for the
\* answer to term.
ReportingUnlessTerm(c) == engine = "running" /\ dataSent /\ c # "term"
Reporting(c) == engine \in {"handshake", "running"} /\ dataSent

\* Called for the first event of toServer, or by the manager.  A connection
\* that is still being made is made all the same.
CloseEngine(c) ==
  /\ closing' = TRUE
  /\ \/ /\ Reporting(c)
        /\ waiter' = IF waiter = "none" THEN c ELSE waiter
        /\ closes' = [closes EXCEPT ![c] = "waiting"]
        /\ toServer' = IF c = "manager" THEN toServer ELSE Tail(toServer)
        /\ UNCHANGED <<engine, engineClient, socket, toClient>>
     \/ /\ ~Reporting(c)
        /\ engine' = IF engine = "connecting" THEN engine ELSE "gone"
        /\ Closed(c)
        /\ UNCHANGED waiter

\* Lines 187-194.
CloseSession(c) ==
  \/ /\ engineClient
     /\ CloseEngine(c)
  \/ /\ ~engineClient
     /\ Closed(c)
     /\ UNCHANGED <<engine, closing, waiter>>

-----------------------------------------------------------------------------
(***************************************************************************)
(* init.                                                                   *)
(***************************************************************************)
Receives(m) == socket /\ toServer # <<>> /\ Head(toServer) = m

RecvInit ==
  /\ Receives("init")
  /\ toServer' = Tail(toServer)
  /\ init' = "engine"
  /\ engineClient' = TRUE
  /\ engine' = "connecting"
  /\ UNCHANGED <<clientVars, toClient, socket, closing, dataSent, pending,
                 waiter, closes, managerVars, thrown>>

\* A step of engineClient.start(): it is connected, or connect_error.
EngineConnects ==
  /\ engine = "connecting"
  /\ \/ engine' = "handshake" /\ UNCHANGED init
     \/ "refused" \in faults /\ engine' = "gone" /\ init' = "error"
  /\ UNCHANGED <<clientVars, toServer, toClient, socket, engineClient, closing,
                 dataSent, pending, waiter, closes, managerVars, thrown>>

\* Line 53 of session_manager.js.  Mutant: left out.
NoTimer == timer
ArmTimer == TRUE

\* ... and resolves or rejects.  startSession arms the timer first.
EngineStarts ==
  /\ init = "engine" /\ engine = "handshake"
  /\ \/ /\ engine' = "running"
        /\ init' = "subscribe"
        /\ timer' = ArmTimer
     \/ /\ "refused" \in faults
        /\ init' = "error"
        /\ UNCHANGED <<engine, timer>>
  /\ UNCHANGED <<clientVars, toServer, toClient, socket, engineClient, closing,
                 dataSent, pending, waiter, closes, table, thrown>>

\* An engine client that was closed after it had connected has no socket for
\* the handshake, or never sees it done.
EngineStartsClosed ==
  /\ init = "engine" /\ engine = "gone"
  /\ init' = "error"
  /\ UNCHANGED <<clientVars, toServer, toClient, socket, engineClient,
                 engineVars, closes, managerVars, thrown>>

Subscribed ==
  /\ init = "subscribe"
  /\ init' = "hset"
  /\ table' = TRUE
  /\ UNCHANGED <<clientVars, toServer, toClient, socket, engineClient,
                 engineVars, closes, timer, thrown>>

\* The session is listed, start() has nothing to wait for, init is answered.
Started ==
  /\ init = "hset"
  /\ init' = "done"
  /\ Say(<<"init">>)
  /\ UNCHANGED <<clientVars, toServer, socket, engineClient, engineVars,
                 closes, managerVars, thrown>>

\* Lines 56-69.
InitFails ==
  /\ init = "error"
  /\ init' = "done"
  /\ Say(<<"init error">>)
  /\ UNCHANGED <<clientVars, toServer, socket, engineClient, engineVars,
                 closes, managerVars, thrown>>

-----------------------------------------------------------------------------
(***************************************************************************)
(* data, term and disconnect, and the session's timer.                     *)
(***************************************************************************)

\* sendBuffer does nothing once the engine client closes.  Mutant: the test
\* forgotten.
AcceptingAnyTime == engineClient
Accepting == engineClient /\ ~closing

RecvData ==
  /\ Receives("data")
  /\ toServer' = Tail(toServer)
  /\ \/ /\ Accepting /\ engine \in {"handshake", "running"}
        /\ dataSent' = TRUE /\ pending' = TRUE
        /\ UNCHANGED thrown
     \/ /\ Accepting /\ engine \in {"connecting", "gone"}
        /\ thrown' = TRUE
        /\ UNCHANGED <<dataSent, pending>>
     \/ /\ ~Accepting
        /\ UNCHANGED <<dataSent, pending, thrown>>
  /\ UNCHANGED <<clientVars, toClient, socket, init, engineClient, engine,
                 closing, waiter, closes, managerVars>>

\* Without an engine client, its close() is a TypeError, answered as an error.
RecvTerm ==
  /\ Receives("term")
  /\ \/ /\ engineClient
        /\ CloseEngine("term")
     \/ /\ ~engineClient
        /\ toServer' = Tail(toServer)
        /\ Say(<<"term error">>)
        /\ UNCHANGED <<socket, engineClient, engine, closing, waiter, closes>>
  /\ UNCHANGED <<clientVars, init, dataSent, pending, managerVars, thrown>>

\* Line 161.  Mutant: left to the session's timer.
LeaveToTimer ==
  /\ toServer' = Tail(toServer)
  /\ UNCHANGED <<toClient, socket, engineClient, engine, closing, waiter,
                 closes>>
Disconnected == CloseSession("disconnect")

RecvDisconnect ==
  /\ Receives("disconnect")
  /\ Disconnected
  /\ UNCHANGED <<clientVars, init, dataSent, pending, managerVars, thrown>>

\* closeSession, the only way out of the table.  The timer, of an hour, does not
\* fire before the session is in it.
TimerFires ==
  /\ timer /\ table
  /\ "late" \in faults \/ waiter # "itself"
  /\ timer' = FALSE
  /\ closes' = [closes EXCEPT !["manager"] = "redis"]
  /\ UNCHANGED <<clientVars, toServer, toClient, socket, init, engineClient,
                 engineVars, table, thrown>>

ManagerCloses ==
  /\ closes["manager"] = "redis"
  /\ table' = FALSE
  /\ CloseSession("manager")
  /\ UNCHANGED <<clientVars, init, dataSent, pending, timer, thrown>>

-----------------------------------------------------------------------------
(***************************************************************************)
(* The engine.                                                             *)
(***************************************************************************)

\* Results; those that the client has not read yet count as one.
Analyzed ==
  /\ engine = "running" /\ pending
  /\ ~Contains(toClient, "analyzed")
  /\ pending' = FALSE
  /\ Say(<<"analyzed">>)
  /\ UNCHANGED <<clientVars, toServer, socket, init, engineClient, engine,
                 closing, dataSent, waiter, closes, managerVars, thrown>>

\* An error of the analysis: the engine client calls its own close().
EngineError ==
  /\ "error" \in faults
  /\ engine = "running" /\ dataSent /\ waiter = "none"
  /\ "late" \in faults \/ closes["manager"] = "idle"
  /\ waiter' = "itself"
  /\ closing' = TRUE
  /\ UNCHANGED <<clientVars, toServer, toClient, socket, init, engineClient,
                 engine, dataSent, pending, closes, managerVars, thrown>>

\* The report, or the timeout: the first close() of the engine client returns,
\* the others never do.
EngineClosed ==
  /\ waiter # "none"
  /\ pending => {"error", "timeout"} \cap faults # {} \/ engine # "running"
  /\ engine' = "gone"
  /\ waiter' = "none"
  /\ \/ /\ waiter = "itself"
        /\ UNCHANGED <<toServer, toClient, socket, engineClient, closes>>
     \/ /\ waiter # "itself"
        /\ Closed(waiter)
  /\ UNCHANGED <<clientVars, init, closing, dataSent, pending, managerVars,
                 thrown>>

Next ==
  /\ ~thrown
  /\ \/ ClientInit \/ Send \/ Term \/ Leave \/ ClientReceives
     \/ RecvInit \/ EngineConnects \/ EngineStarts \/ EngineStartsClosed
     \/ Subscribed \/ Started \/ InitFails
     \/ RecvData \/ RecvTerm \/ RecvDisconnect
     \/ TimerFires \/ ManagerCloses
     \/ Analyzed \/ EngineError \/ EngineClosed
  /\ UNCHANGED faults

Spec == Init /\ [][Next]_allVars

(***************************************************************************)
(* Events arrive and are handled, Redis answers, the session's timer       *)
(* fires, and the engine client starts and closes as EngineClient shows    *)
(* (CallsSettle).  Nobody has to send anything.                            *)
(***************************************************************************)
FairSpec ==
  /\ Spec
  /\ WF_vars(ClientReceives)
  /\ WF_vars(RecvInit) /\ WF_vars(RecvData) /\ WF_vars(RecvTerm)
  /\ WF_vars(RecvDisconnect)
  /\ WF_vars(EngineConnects) /\ WF_vars(EngineStarts)
  /\ WF_vars(Subscribed) /\ WF_vars(Started) /\ WF_vars(InitFails)
  /\ WF_vars(TimerFires) /\ WF_vars(ManagerCloses)
  /\ WF_vars(Analyzed) /\ WF_vars(EngineClosed)

-----------------------------------------------------------------------------
(***************************************************************************)
(* Properties.                                                             *)
(***************************************************************************)

\* "After term, all the results that are still pending are returned with
\* analyzed, then the socket is disconnected" (esas-dev-v2.md:59), if the
\* client waits for init and the engine reports in time and without error.
TermAfterResults ==
  (/\ {"hasty", "timeout", "error"} \cap faults = {}
   /\ Contains(toClient, "term") \/ client = "done") => ~pending

\* startSession has been called: engineClient.start() has resolved.
Began == timer \/ closes["manager"] # "idle"

\* From then on no event kills the worker with all its sessions, whoever sends
\* it and whichever close() of the engine client it meets, even one that began
\* before start() resolved.  Before, a data event of a hasty client does kill it
\* (v2/socketio.js:75).
StartedSessionsSurvive == [][Began => thrown' = thrown]_allVars

\* The init of a client that waits is answered, or the client disconnected.  So
\* is its term, at the latest when the session's timer fires, unless that is
\* while the engine client closes itself.
EventsAnswered ==
  /\ (client = "starting" /\ "hasty" \notin faults) ~> client # "starting"
  /\ (client = "ending" /\ {"hasty", "late"} \cap faults = {}) ~> client # "ending"

\* Nothing is left of a client that waited for init and has gone: the engine
\* is disconnected, and the session leaves the table, if only by its timer.
NothingRemains ==
  (hungUp /\ "hasty" \notin faults) ~>
    [](~table /\ engine \in {"none", "gone"})

\* The session uses of its engine client what an engine client promises to its
\* owners (EngineContract, which EngineClient implements), nothing else.
ClientState ==
  CASE engine = "none"                                          -> "none"
    [] engine # "none" /\ waiter # "none"                       -> "closing"
    [] engine # "none" /\ waiter = "none" /\ closing            -> "closed"
    [] OTHER                                                    -> "open"

Outcomes == [c \in Closer |->
               CASE closes[c] = "done"    -> "returned"
                 [] closes[c] = "waiting" -> "waiting"
                 [] OTHER                 -> "idle"]

Contract == INSTANCE EngineContract WITH
  Call <- Closer, Self <- "itself", NoCall <- "none",
  state <- ClientState, fed <- dataSent, waiter <- waiter, calls <- Outcomes

ImplementsEngineContract == Contract!Spec

=============================================================================
