-------------------------- MODULE WebsocketSession --------------------------
(***************************************************************************)
(* One websocket: the client library's WebsocketSession (clientjs/src/     *)
(* v1.js), the server's WebsocketServer and V1WebsocketSession             *)
(* (v1/websocket.js), and the manager that starts and closes the session.  *)
(*                                                                         *)
(* The two sides exchange messages over two queues; a side that closes the *)
(* connection puts "close" behind its messages.  One action is one         *)
(* callback or call up to its next await.  The engine client does what     *)
(* EngineContract says, the manager what SessionManager shows:             *)
(* closeSession is a few Redis commands, then session.close().             *)
(***************************************************************************)
EXTENDS Naturals, Sequences, SequencesExt

CONSTANTS
  MaxAudio,    \* bounds the buffers that the client sends
  Scenarios    \* sets of faults; a behaviour has those of one of them

(***************************************************************************)
(*   "bad"        the client sends an s command that is not valid          *)
(*   "refused"    the engine client does not start                         *)
(*   "taken"      the call is already being analysed                       *)
(*   "error"      the engine reports an error: its client closes itself    *)
(*   "gone"       the client closes the connection, or loses it            *)
(*   "fast"       the client goes on as soon as it has the answer to s     *)
(*   "slow"       the session's timer fires while the s command is handled *)
(*   "late"       the session ends while its client closes itself          *)
(***************************************************************************)
Fault == {"bad", "refused", "taken", "error", "gone", "fast", "slow", "late"}

ASSUME WebsocketAssumption == MaxAudio \in Nat /\ Scenarios \subseteq SUBSET Fault

VARIABLES
  faults,       \* the scenario
  client,       \* the client's status
  hungUp,       \* the client has closed its side
  spoken,       \* audio that the client has sent
  toServer, toClient,
  status,       \* the server's status
  socket,       \* whether this.socket is set
  handler,      \* where the handler of the s command is
  engineClient, \* whether this.engineClient is set
  engine,       \* the engine client itself
  taken,        \* audio given to it
  waiter,       \* the first call of its close() that waits for the engine
  start,        \* where startSession is
  table,        \* whether the session is in sessionById
  timer,        \* closeTimeout
  closes,       \* the calls of WebsocketServer.close(), by their origin
  thrown        \* an exception that nobody catches

clientVars == <<client, hungUp, spoken>>
engineVars == <<engineClient, engine, waiter>>
managerVars == <<start, table, timer>>
\* What a close() of the server changes.
closeVars == <<toClient, status, socket, engineVars, closes>>
vars == <<clientVars, toServer, toClient, status, socket, handler, engineVars,
          taken, managerVars, closes, thrown>>
allVars == <<faults, vars>>

ManagerCall == {"timer", "failed", "hangup"}
Caller == {"s", "e"} \cup ManagerCall

TypeOK ==
  /\ faults \in Scenarios
  /\ client \in {"OPENED", "SENDING_S", "DONE_S", "SENDING_E", "DONE_E", "CLOSED"}
  /\ hungUp \in BOOLEAN
  /\ spoken \in 0 .. MaxAudio
  /\ toServer \in Seq({"s", "bad", "audio", "e", "close"})
  /\ toClient \in Seq({"s", "s error", "p", "p error", "e", "close"})
  /\ status \in {"OPENED", "RECV_S", "DONE_S", "RECV_E", "CLOSED"}
  /\ socket \in BOOLEAN
  /\ handler \in {"idle", "engine", "success", "error", "done"}
  /\ engineClient \in BOOLEAN
  /\ engine \in {"none", "starting", "idle", "used", "gone"}
  /\ taken \in Nat
  /\ waiter \in {"none", "itself"} \cup Caller
  /\ start \in {"redis", "open", "register", "served", "failed"}
  /\ table \in BOOLEAN
  /\ timer \in BOOLEAN
  /\ closes \in [Caller -> {"idle", "redis", "waiting", "done"}]
  /\ thrown \in BOOLEAN

Init ==
  /\ faults \in Scenarios
  /\ client = "OPENED" /\ hungUp = FALSE /\ spoken = 0
  /\ toServer = <<>> /\ toClient = <<>>
  /\ status = "OPENED" /\ socket = TRUE
  /\ handler = "idle"
  /\ engineClient = FALSE /\ engine = "none" /\ taken = 0 /\ waiter = "none"
  /\ start = "redis" /\ table = FALSE /\ timer = TRUE
  /\ closes = [c \in Caller |-> "idle"]
  /\ thrown = FALSE

-----------------------------------------------------------------------------
(***************************************************************************)
(* The client.                                                             *)
(***************************************************************************)

\* The s command is on its way or being handled.
Starting ==
  \/ handler \in {"engine", "success", "error"}
  \/ status = "OPENED" /\ \E m \in {"s", "bad"} : Contains(toServer, m)

ClientSends(m, from, to) ==
  /\ client = from
  /\ ~hungUp
  /\ client' = to
  /\ toServer' = Append(toServer, m)
  /\ UNCHANGED <<hungUp, handler, taken, managerVars, thrown, closeVars>>

SendS(m) ==
  /\ m = "bad" => "bad" \in faults
  /\ "slow" \in faults \/ timer
  /\ ClientSends(m, "OPENED", "SENDING_S")
  /\ UNCHANGED spoken

SendAudio ==
  /\ "fast" \in faults \/ handler = "done"
  /\ spoken < MaxAudio
  /\ spoken' = spoken + 1
  /\ ClientSends("audio", "DONE_S", "DONE_S")

FinishAudio ==
  /\ "fast" \in faults \/ handler = "done"
  /\ ClientSends("e", "DONE_S", "SENDING_E")
  /\ UNCHANGED spoken

HangUp(to, queue) ==
  /\ client' = to
  /\ hungUp' = TRUE
  /\ toServer' = Append(queue, "close")
  /\ toClient' = <<>>

\* The client leaves; of its messages, the last ones may be lost.
Leave ==
  /\ "gone" \in faults
  /\ ~hungUp
  /\ \E n \in 0 .. Len(toServer) : HangUp("CLOSED", SubSeq(toServer, 1, n))
  /\ UNCHANGED <<spoken, status, socket, handler, engineVars, taken,
                 managerVars, closes, thrown>>

\* onmessage, onclose and the '_recvS' and '_recvE' callbacks: the status after
\* m.  A message that the status does not allow is dropped; after "p error" the
\* library has given up but not closed.  The promises of _sendS and finishAudio
\* are not modelled: only '_recvS' and '_recvE' settle them, onclose (30-33) and
\* a p that is no JSON (47-50) change the status and leave them pending.
Reaction(m) ==
  CASE client = "SENDING_S" /\ m = "s" -> "DONE_S"
    [] client = "SENDING_S" /\ m = "s error" -> "CLOSED"
    [] client \in {"DONE_S", "SENDING_E"} /\ m = "p error" -> "CLOSED"
    [] client = "SENDING_E" /\ m = "e" -> "DONE_E"
    [] m = "close" -> "CLOSED"
    [] OTHER -> client

ClientReceives ==
  /\ toClient # <<>>
  /\ LET m == Head(toClient)
         last == m = "close" \/ (m \in {"s error", "e"} /\ Reaction(m) # client)
     IN \/ last /\ HangUp(Reaction(m), toServer)
        \/ /\ ~last
           /\ client' = Reaction(m)
           /\ toClient' = Tail(toClient)
           /\ UNCHANGED <<hungUp, toServer>>
  /\ UNCHANGED <<spoken, status, socket, handler, engineVars, taken,
                 managerVars, closes, thrown>>

-----------------------------------------------------------------------------
(***************************************************************************)
(* WebsocketServer.close() and closeSession().                             *)
(***************************************************************************)

\* A message to a connection that is closed is dropped.
Say(ms) == toClient' = IF hungUp THEN toClient ELSE toClient \o ms

\* What close() says.  Mutant: the same for every status.
PartingE(st) == <<"e">>
Parting(st) ==
  CASE st = "RECV_E" -> <<"e">>
    [] st = "DONE_S" -> <<"p error">>
    [] OTHER -> <<>>

\* Lines 307-313.
Ending(st) == Append(Parting(st), "close")

\* The engine client has closed.  calls and st are closes and status at that
\* point, out is what this turn has already said.
Finish(c, calls, st, out) ==
  /\ engineClient' = FALSE
  /\ closes' = [calls EXCEPT ![c] = "done"]
  /\ socket' = FALSE
  /\ \/ /\ socket
        /\ Say(out \o Ending(st))
        /\ status' = "CLOSED"
     \/ /\ ~socket
        /\ Say(out)
        /\ status' = st

\* Mutant: the engine client is not waited for, nor closed.
Abandon(c, calls, st, out) ==
  /\ Finish(c, calls, st, out)
  /\ UNCHANGED <<engine, waiter>>

\* engineClient.close() returns at once unless the engine has got audio.
CloseServer(c, calls, st, out) ==
  \/ /\ ~(engineClient /\ engine = "used")
     /\ engine' = IF engine \in {"starting", "idle"} THEN "gone" ELSE engine
     /\ UNCHANGED waiter
     /\ Finish(c, calls, st, out)
  \/ /\ engineClient /\ engine = "used"
     /\ waiter' = IF waiter = "none" THEN c ELSE waiter
     /\ closes' = [calls EXCEPT ![c] = "waiting"]
     /\ status' = st
     /\ Say(out)
     /\ UNCHANGED <<engineClient, engine, socket>>

\* closeSession: nothing to do for a session that is not in the table.
\* Mutant: nor for one that is not served.
CloseServed(c) ==
  IF table /\ start = "served" THEN [closes EXCEPT ![c] = "redis"] ELSE closes
CloseSession(c) == IF table THEN [closes EXCEPT ![c] = "redis"] ELSE closes

\* ... after its Redis commands.  V1WebsocketSession.close() forgets the
\* WebsocketServer when its close() has returned.
SessionClose(c) ==
  /\ closes[c] = "redis"
  /\ table' = FALSE
  /\ \/ /\ \A d \in ManagerCall : closes[d] # "done"
        /\ CloseServer(c, closes, status, <<>>)
     \/ /\ \E d \in ManagerCall : closes[d] = "done"
        /\ closes' = [closes EXCEPT ![c] = "done"]
        /\ UNCHANGED <<toClient, status, socket, engineVars>>
  /\ UNCHANGED <<clientVars, toServer, handler, taken, start, timer, thrown>>

\* Mutant: a session that has got its e is left alone.
TimeoutUnlessE == IF status = "RECV_E" THEN closes ELSE CloseSession("timer")
Timeout == CloseSession("timer")

TimerFires ==
  /\ timer /\ table
  /\ "slow" \in faults \/ ~Starting
  /\ "late" \in faults \/ waiter # "itself"
  /\ timer' = FALSE
  /\ closes' = Timeout
  /\ UNCHANGED <<clientVars, toServer, toClient, status, socket, handler,
                 engineVars, taken, start, table, thrown>>

-----------------------------------------------------------------------------
(***************************************************************************)
(* startSession().                                                         *)
(***************************************************************************)
Open ==
  /\ start = "redis"
  /\ start' = "open"
  /\ table' = TRUE
  /\ UNCHANGED <<clientVars, toServer, handler, taken, timer, thrown,
                 closeVars>>

\* The call is stored and registered; from here on the end of the connection
\* is listened to.  Otherwise the session is closed.
Register ==
  /\ start = "register"
  /\ \/ /\ start' = "served"
        /\ UNCHANGED <<timer, closes>>
     \/ /\ "taken" \in faults
        /\ "late" \in faults \/ waiter # "itself"
        /\ start' = "failed"
        /\ closes' = CloseSession("failed")
        /\ timer' = (timer /\ ~table)
  /\ UNCHANGED <<clientVars, toServer, toClient, status, socket, handler,
                 engineVars, taken, table, thrown>>

-----------------------------------------------------------------------------
(***************************************************************************)
(* The s command.                                                          *)
(***************************************************************************)
RecvS ==
  /\ toServer # <<>> /\ status = "OPENED"
  /\ \/ /\ Head(toServer) = "s"
        /\ handler' = "engine"
        /\ engineClient' = TRUE
        /\ engine' = "starting"
     \/ /\ Head(toServer) = "bad"
        /\ handler' = "error"
        /\ UNCHANGED <<engineClient, engine>>
  /\ status' = "RECV_S"
  /\ toServer' = Tail(toServer)
  /\ UNCHANGED <<clientVars, toClient, socket, taken, waiter, managerVars,
                 closes, thrown>>

\* The answer is sent, then the success counted.  Without a socket the answer
\* is a TypeError.
Answer ==
  /\ engine' = "idle"
  /\ \/ socket /\ handler' = "success" /\ Say(<<"s">>)
     \/ ~socket /\ handler' = "error" /\ UNCHANGED toClient
  /\ UNCHANGED <<clientVars, toServer, status, socket, engineClient, taken,
                 waiter, managerVars, closes, thrown>>

Refuse ==
  /\ handler' = "error"
  /\ engine' = IF engine = "starting" THEN "idle" ELSE engine
  /\ UNCHANGED <<clientVars, toServer, toClient, status, socket, engineClient,
                 taken, waiter, managerVars, closes, thrown>>

EngineStarts ==
  /\ handler = "engine" /\ engine = "starting"
  /\ Answer \/ ("refused" \in faults /\ Refuse)

\* An engine client that was closed while it started may fail, or be connected
\* all the same, or never settle.
EngineStartsClosed ==
  /\ handler = "engine" /\ engine = "gone"
  /\ Answer \/ Refuse

\* 'doneS' is lost unless open() listens.
CountedSuccess ==
  /\ handler = "success"
  /\ handler' = "done"
  /\ status' = "DONE_S"
  /\ start' = IF start = "open" THEN "register" ELSE start
  /\ UNCHANGED <<clientVars, toServer, toClient, socket, engineVars, taken,
                 table, timer, closes, thrown>>

\* The error is counted, answered, the server closed, and start() rejected.
CountedError ==
  /\ handler = "error"
  /\ handler' = "done"
  /\ \/ /\ socket
        /\ LET rejected == start = "open" IN
             /\ start' = IF rejected THEN "failed" ELSE start
             /\ timer' = (timer /\ ~(rejected /\ table))
             /\ CloseServer("s",
                            IF rejected THEN CloseSession("failed") ELSE closes,
                            status, <<"s error">>)
        /\ UNCHANGED thrown
     \/ /\ ~socket
        /\ thrown' = TRUE
        /\ UNCHANGED <<start, timer, closeVars>>
  /\ UNCHANGED <<clientVars, toServer, taken, table>>

-----------------------------------------------------------------------------
(***************************************************************************)
(* Audio, the e command, the end of the connection.                        *)
(***************************************************************************)
\* Line 269.  Mutant: only once the session is served.
IfServed == engineClient /\ start = "served"
HasEngine == engineClient

\* Line 265: an e command itself is cut off.
Audio(m) == IF m = "audio" THEN 1 ELSE 0

RecvData ==
  /\ toServer # <<>> /\ status = "DONE_S"
  /\ toServer' = Tail(toServer)
  /\ LET m == Head(toServer)
     IN /\ taken' = IF HasEngine THEN taken + Audio(m) ELSE taken
        /\ \/ /\ m = "audio"
              /\ engine' = IF HasEngine /\ engine = "idle" THEN "used" ELSE engine
              /\ UNCHANGED <<toClient, status, socket, engineClient, waiter,
                             closes>>
           \/ /\ m = "e"
              /\ CloseServer("e", closes, "RECV_E", <<>>)
  /\ UNCHANGED <<clientVars, handler, managerVars, thrown>>

\* Everything else is ignored, audio and e before the status is DONE_S too.
Ignore ==
  /\ toServer # <<>> /\ Head(toServer) # "close"
  /\ Head(toServer) \in {"s", "bad"} => status # "OPENED"
  /\ Head(toServer) \in {"audio", "e"} => status # "DONE_S"
  /\ toServer' = Tail(toServer)
  /\ UNCHANGED <<clientVars, handler, taken, managerVars, thrown, closeVars>>

\* The socket's 'close': listened to once the session is served.
RecvClose ==
  /\ toServer # <<>> /\ Head(toServer) = "close"
  /\ toServer' = Tail(toServer)
  /\ \/ /\ start = "served"
        /\ closes' = CloseSession("hangup")
        /\ timer' = (timer /\ ~table)
     \/ /\ start # "served"
        /\ UNCHANGED <<closes, timer>>
  /\ UNCHANGED <<clientVars, toClient, status, socket, handler, engineVars,
                 taken, start, table, thrown>>

-----------------------------------------------------------------------------
(***************************************************************************)
(* The engine client.                                                      *)
(***************************************************************************)

\* 'analyzed', in the middle of the audio or at its end.  Results that the
\* client has not read yet count as one.
Analyzed ==
  /\ engine = "used"
  /\ ~Contains(toClient, "p")
  /\ Say(IF socket THEN <<"p">> ELSE <<>>)
  /\ thrown' = (thrown \/ ~socket)
  /\ UNCHANGED <<clientVars, toServer, status, socket, handler, engineVars,
                 taken, managerVars, closes>>

\* An error of the analysis: the engine client calls its own close().
EngineError ==
  /\ "error" \in faults
  /\ engine = "used" /\ waiter = "none"
  /\ "late" \in faults \/ \A c \in ManagerCall : closes[c] = "idle"
  /\ waiter' = "itself"
  /\ UNCHANGED <<clientVars, toServer, toClient, status, socket, handler,
                 engineClient, engine, taken, managerVars, closes, thrown>>

\* The report, or the timeout: the first close() of the engine client returns,
\* the others never do.
EngineClosed ==
  /\ waiter # "none"
  /\ engine' = "gone"
  /\ waiter' = "none"
  /\ \/ /\ waiter = "itself"
        /\ UNCHANGED <<toClient, status, socket, engineClient, closes>>
     \/ /\ waiter # "itself"
        /\ Finish(waiter, closes, status, <<>>)
  /\ UNCHANGED <<clientVars, toServer, handler, taken, managerVars, thrown>>

Next ==
  /\ \/ \E m \in {"s", "bad"} : SendS(m)
     \/ SendAudio \/ FinishAudio \/ Leave \/ ClientReceives
     \/ Open \/ Register \/ TimerFires
     \/ \E c \in ManagerCall : SessionClose(c)
     \/ RecvS \/ EngineStarts \/ EngineStartsClosed
     \/ CountedSuccess \/ CountedError
     \/ RecvData \/ Ignore \/ RecvClose
     \/ Analyzed \/ EngineError \/ EngineClosed
  /\ UNCHANGED faults

Spec == Init /\ [][Next]_allVars

(***************************************************************************)
(* Messages arrive and are handled, Redis answers, the session's timer     *)
(* fires, and the engine client starts and closes as EngineClient shows    *)
(* (CallsSettle).  Nobody has to send anything.                            *)
(***************************************************************************)
FairSpec ==
  /\ Spec
  /\ WF_vars(ClientReceives)
  /\ WF_vars(RecvS) /\ WF_vars(RecvData) /\ WF_vars(Ignore)
  /\ WF_vars(RecvClose)
  /\ WF_vars(Open) /\ WF_vars(Register) /\ WF_vars(TimerFires)
  /\ \A c \in ManagerCall : WF_vars(SessionClose(c))
  /\ WF_vars(EngineStarts) /\ WF_vars(EngineClosed)
  /\ WF_vars(CountedSuccess) /\ WF_vars(CountedError)

-----------------------------------------------------------------------------
(***************************************************************************)
(* Properties.                                                             *)
(***************************************************************************)

\* The two status machines agree, whatever the faults: the server never says
\* what the library, in the status in which it reads it, silently drops.
AnswersExpected ==
  toClient # <<>> =>
    CASE Head(toClient) \in {"s", "s error"} -> client = "SENDING_S"
      [] Head(toClient) \in {"p", "p error"} -> client \in {"DONE_S", "SENDING_E"}
      [] Head(toClient) = "e" -> client = "SENDING_E"
      [] OTHER -> TRUE

\* An e answer means that all the audio has been given to the engine client,
\* if the client does not speak before the server's status is DONE_S.
AudioTaken ==
  ("fast" \notin faults /\ (client = "DONE_E" \/ Contains(toClient, "e"))) =>
    taken = spoken

\* The server closes a connection only when the engine client is closed, and
\* uses neither afterwards, if the session's timer waits for the s command.
EngineClosedFirst ==
  "slow" \notin faults =>
    /\ ~socket => engine \in {"none", "gone"}
    /\ ~thrown

\* The library's status does not stay in SENDING_S or SENDING_E: after every s
\* and e command it gets the answer, "p internal error" or the end of the
\* connection; after the e, unless the session is closed while its engine client
\* closes itself.  This is about the status.  A caller that awaits _sendS or
\* finishAudio is told so only by an answer: when the connection ends instead,
\* or "p internal error" comes, its promise stays pending.
CommandsAnswered ==
  /\ client = "SENDING_S" ~> client # "SENDING_S"
  /\ (client = "SENDING_E" /\ "late" \notin faults) ~> client # "SENDING_E"

\* A session ends with its connection: it leaves the table and the engine is
\* disconnected, at the latest when the session's timer fires.
SessionEnds ==
  (hungUp /\ "slow" \notin faults) ~> (~table /\ engine \in {"none", "gone"})

\* The server uses of its engine client what an engine client promises to its
\* owners (EngineContract, which EngineClient implements), nothing else.  Audio
\* that comes when the client has closed itself counts as taken by the server.
ClientState ==
  CASE engine = "none"                                -> "none"
    [] engine # "none" /\ waiter # "none"             -> "closing"
    [] /\ engine # "none" /\ waiter = "none"
       /\ ~engineClient \/ engine = "gone"            -> "closed"
    [] OTHER                                          -> "open"

Fed == taken > 0 /\ engine \in {"used", "gone"}

Outcomes == [c \in Caller |->
               CASE closes[c] = "done"    -> "returned"
                 [] closes[c] = "waiting" -> "waiting"
                 [] OTHER                 -> "idle"]

Contract == INSTANCE EngineContract WITH
  Call <- Caller, Self <- "itself", NoCall <- "none",
  state <- ClientState, fed <- Fed, waiter <- waiter, calls <- Outcomes

ImplementsEngineContract == Contract!Spec

=============================================================================
