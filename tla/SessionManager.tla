--------------------------- MODULE SessionManager ---------------------------
(***************************************************************************)
(* The session manager of the ESAS core server (session_manager.js), with  *)
(* the request handlers that call it.                                      *)
(*                                                                         *)
(* Every worker process keeps a table sessionById of the sessions it       *)
(* serves.  All workers share one Redis: a key per call identifier         *)
(* (CallID#manager#callID -> session), a hash of the open sessions (the    *)
(* GET /V1RtpSessions listing) and one pub/sub channel per session, over   *)
(* which a worker that does not own a session asks the owner to close it.  *)
(*                                                                         *)
(* One action is one await: the Redis command (or callback) it waits for,  *)
(* with the JavaScript that runs between its answer and the next await.    *)
(* Commands that were issued and not yet executed are state, so those of   *)
(* several requests interleave in every order.                             *)
(*                                                                         *)
(* One behaviour is one manager: kind says which server owns it.           *)
(*   "rtp"        POST /CallOperation; the call identifier is in the start *)
(*                request, and is registered before the session opens.     *)
(*   "websocket"  the identifier arrives with the 's' command, before or   *)
(*                while session.start() runs, and is registered after it.  *)
(*   "socketio"   the V2 server; its sessions have no call identifier.     *)
(***************************************************************************)
EXTENDS Naturals

CONSTANTS
  Worker,       \* worker processes, one per server index
  Session,      \* session identifiers (uuid v4: fresh for every start)
  CallID,       \* call identifiers chosen by the clients
  NoSession,    \* "no key" in Redis
  NoCall,       \* an undefined callID1
  NoWorker,     \* a session that was not started
  Kinds,        \* the servers that may use the manager
  Races,        \* the races the environment may produce, see below
  Request,      \* bounds the terminate requests of a behaviour
  MaxCrashes    \* bounds the crashes and restarts of a behaviour

(***************************************************************************)
(* What the callers are allowed to do, so that a run can say which race a  *)
(* property does or does not survive:                                      *)
(*   "overlap"  two starts for one call identifier, neither one answered   *)
(*   "early"    a terminate for a call whose start is not answered yet     *)
(*   "double"   a second closeSession for a session that is being closed   *)
(*   "slow"     a session.start() that lasts as long as maxTermMS          *)
(***************************************************************************)
RaceKinds == {"overlap", "early", "double", "slow"}

ASSUME ConstantsAssumption ==
  /\ NoSession \notin Session
  /\ NoCall \notin CallID
  /\ NoWorker \notin Worker
  /\ Kinds \subseteq {"rtp", "websocket", "socketio"}
  /\ Races \subseteq RaceKinds
  /\ MaxCrashes \in Nat

VARIABLES
  kind,         \* which server uses the manager
  start,        \* where startSession and its caller are, per session
  home,         \* the worker that runs the session
  callID1,      \* session.callID1
  timer,        \* sessions whose closeTimeout is armed
  sessionById,  \* sessions in their worker's sessionById, channel subscribed
  closing,      \* closeSession calls that wait, per session and command
  down,         \* sessions whose session.close() has completed
  callKey,      \* Redis: CallID key -> session
  table,        \* Redis: fields of the manager's hash
  publishing,   \* PUBLISH commands issued and not executed, per channel
  inbox,        \* terminateCallOperation messages on their way to the home
  lookups,      \* terminate requests that wait for the GET of a CallID key
  used,         \* terminate requests made so far
  crashes       \* worker crashes and restarts so far

vars == <<start, home, callID1, timer, sessionById, closing, down, callKey,
          table, publishing, inbox, lookups, used, crashes>>
allVars == <<kind, vars>>

\* Variables that a step of startSession leaves alone, and those that a step
\* of a terminate request does.
closeVars == <<closing, down, publishing, inbox>>
askVars   == <<lookups, used>>
idVars    == <<home, callID1>>

StartStates ==
  {"none",       \* not requested
   "get",        \* registerCallID waits for GET (10-14)
   "setex",      \* registerCallID waits for SETEX (18)
   "subscribe",  \* startSession waits for SUBSCRIBE (60)
   "hset",       \* startSession waits for HSET (63)
   "starting",   \* startSession waits for session.start() (64)
   "rehset",     \* the second setSessionRedis is on its way
   "get2",       \* the second registerCallID (66-68) waits for GET
   "setex2",     \* ... and for SETEX
   "done",       \* the client has been told that the session started
   "failed",     \* the client has been told that it did not
   "left",       \* the client's websocket was closed
   "lost"}       \* the worker died

ClosePhases == {"del", "unsubscribe", "hdel", "close"}

TypeOK ==
  /\ kind \in Kinds
  /\ start \in [Session -> StartStates]
  /\ home \in [Session -> Worker \cup {NoWorker}]
  /\ callID1 \in [Session -> CallID \cup {NoCall}]
  /\ timer \subseteq Session
  /\ sessionById \subseteq Session
  /\ closing \in [Session -> [ClosePhases -> Nat]]
  /\ down \subseteq Session
  /\ callKey \in [CallID -> Session \cup {NoSession}]
  /\ table \subseteq Session
  /\ publishing \in [Session -> Nat]
  /\ inbox \in [Session -> Nat]
  /\ lookups \subseteq Request \X Worker \X CallID
  /\ used \subseteq Request
  /\ crashes \in Nat

Init ==
  /\ kind \in Kinds
  /\ start = [s \in Session |-> "none"]
  /\ home = [s \in Session |-> NoWorker]
  /\ callID1 = [s \in Session |-> NoCall]
  /\ timer = {}
  /\ sessionById = {}
  /\ closing = [s \in Session |-> [p \in ClosePhases |-> 0]]
  /\ down = {}
  /\ callKey = [c \in CallID |-> NoSession]
  /\ table = {}
  /\ publishing = [s \in Session |-> 0]
  /\ inbox = [s \in Session |-> 0]
  /\ lookups = {}
  /\ used = {}
  /\ crashes = 0

-----------------------------------------------------------------------------
(***************************************************************************)
(* closeSession({sessionId: s}) on the home worker of s, up to its first   *)
(* await.  The session is looked up by identifier; one that is not in the  *)
(* table is escalated to its channel, whoever listens there.               *)
(***************************************************************************)
Idle(s) == \A p \in {"del", "unsubscribe"} : closing[s][p] = 0

CloseFound(s) ==
  LET first == IF callID1[s] = NoCall THEN "unsubscribe" ELSE "del"
  IN  /\ s \in sessionById
      /\ "double" \in Races \/ Idle(s)
      /\ closing' = [closing EXCEPT ![s][first] = @ + 1]
      /\ timer' = timer \ {s}
      /\ UNCHANGED publishing

\* Mutant: line 85 forgotten, an unknown session goes through the whole close.
CloseUnknown(s) ==
  /\ closing' = [closing EXCEPT ![s]["del"] = @ + 1]
  /\ UNCHANGED <<publishing, timer>>

CloseNotFound(s) ==
  /\ s \notin sessionById
  /\ publishing' = [publishing EXCEPT ![s] = @ + 1]
  /\ UNCHANGED <<closing, timer>>

CloseSession(s) == CloseFound(s) \/ CloseNotFound(s)

\* deregisterCallID: DEL of the call identifier's key, whoever holds it.
\* Mutant: the DEL forgotten.
KeepKey(s) == callKey
DelKey(s) == [callKey EXCEPT ![callID1[s]] = NoSession]

Deregister(s) ==
  /\ closing[s]["del"] > 0
  /\ closing' = [closing EXCEPT ![s]["del"] = @ - 1,
                                ![s]["unsubscribe"] = @ + 1]
  /\ callKey' = DelKey(s)
  /\ UNCHANGED <<start, idVars, timer, sessionById, down, table, publishing,
                 inbox, askVars, crashes>>

Unsubscribe(s) ==
  /\ closing[s]["unsubscribe"] > 0
  /\ closing' = [closing EXCEPT ![s]["unsubscribe"] = @ - 1,
                                ![s]["hdel"] = @ + 1]
  /\ sessionById' = sessionById \ {s}
  /\ UNCHANGED <<start, idVars, timer, down, callKey, table, publishing,
                 inbox, askVars, crashes>>

\* Mutant: HDEL sent before UNSUBSCRIBE.
RemoveFromTableEarly(s) ==
  /\ closing[s]["unsubscribe"] > 0
  /\ table' = table \ {s}
  /\ UNCHANGED <<start, idVars, timer, sessionById, closing, down, callKey,
                 publishing, inbox, askVars, crashes>>

RemoveFromTable(s) ==
  /\ closing[s]["hdel"] > 0
  /\ closing' = [closing EXCEPT ![s]["hdel"] = @ - 1, ![s]["close"] = @ + 1]
  /\ table' = table \ {s}
  /\ UNCHANGED <<start, idVars, timer, sessionById, down, callKey,
                 publishing, inbox, askVars, crashes>>

\* session.close() completes: an RTP session has no rtpServers any more.
SessionClosed(s) ==
  /\ closing[s]["close"] > 0
  /\ closing' = [closing EXCEPT ![s]["close"] = @ - 1]
  /\ down' = down \cup {s}
  /\ UNCHANGED <<start, idVars, timer, sessionById, callKey, table,
                 publishing, inbox, askVars, crashes>>

-----------------------------------------------------------------------------
(***************************************************************************)
(* startSession.                                                           *)
(***************************************************************************)

\* The states in which s is between its GET and the end of its SETEX, or
\* will get there with an identifier it has already read.
Registering(s) ==
  start[s] \in IF kind = "rtp"
                 THEN {"get", "setex"}
                 ELSE {"subscribe", "hset", "starting", "rehset", "get2",
                       "setex2"}

MayRegister(s, c) ==
  "overlap" \in Races \/ \A o \in Session \ {s} :
                           ~(callID1[o] = c /\ Registering(o))

\* session.closeTimeout = setTimeout(...).  Mutant: maxTermMS not configured.
NoTimer(s) == timer
ArmTimer(s) == timer \cup {s}

\* A start request reaches worker w.  Without a callID1 registerCallID is a
\* no-op that returns false, and SUBSCRIBE is the first await.
StartSession(s, w) ==
  /\ start[s] = "none"
  /\ home' = [home EXCEPT ![s] = w]
  /\ timer' = ArmTimer(s)
  /\ \/ /\ kind = "rtp"
        /\ \E c \in CallID : /\ MayRegister(s, c)
                             /\ callID1' = [callID1 EXCEPT ![s] = c]
        /\ start' = [start EXCEPT ![s] = "get"]
     \/ /\ kind # "rtp"
        /\ start' = [start EXCEPT ![s] = "subscribe"]
        /\ UNCHANGED callID1
  /\ UNCHANGED <<sessionById, closeVars, callKey, table, askVars, crashes>>

\* startSession rejects.  The caller's catch block answers with the error
\* and closes the session; the V2 server only answers.
Refuse(s) ==
  /\ start' = [start EXCEPT ![s] = "failed"]
  /\ IF kind = "socketio" THEN UNCHANGED <<closing, publishing, timer>>
                          ELSE CloseSession(s)

\* What the GET of registerCallID sees.  Mutant: the answer ignored.
AnyCall(s) == TRUE
CallFree(s) == callKey[callID1[s]] = NoSession

\* The GET of registerCallID finds a session: callID1 is processing.
CallIsProcessing(s) ==
  /\ start[s] \in {"get", "get2"}
  /\ ~CallFree(s)
  /\ Refuse(s)
  /\ UNCHANGED <<idVars, sessionById, down, callKey, table, inbox, askVars,
                 crashes>>

CallIsFree(s) ==
  /\ start[s] \in {"get", "get2"}
  /\ CallFree(s)
  /\ start' = [start EXCEPT ![s] = IF @ = "get" THEN "setex" ELSE "setex2"]
  /\ UNCHANGED <<idVars, timer, sessionById, closeVars, callKey, table,
                 askVars, crashes>>

\* The SETEX of registerCallID.  It is the last await of a websocket start.
RegisterCallID(s) ==
  /\ start[s] \in {"setex", "setex2"}
  /\ callKey' = [callKey EXCEPT ![callID1[s]] = s]
  /\ start' = [start EXCEPT ![s] = IF @ = "setex" THEN "subscribe" ELSE "done"]
  /\ UNCHANGED <<idVars, timer, sessionById, closeVars, table, askVars,
                 crashes>>

Subscribe(s) ==
  /\ start[s] = "subscribe"
  /\ sessionById' = sessionById \cup {s}
  /\ start' = [start EXCEPT ![s] = "hset"]
  /\ UNCHANGED <<idVars, timer, closeVars, callKey, table, askVars, crashes>>

SetSessionRedis(s) ==
  /\ start[s] = "hset"
  /\ table' = table \cup {s}
  /\ start' = [start EXCEPT ![s] = "starting"]
  /\ UNCHANGED <<idVars, timer, sessionById, closeVars, callKey, askVars,
                 crashes>>

\* The 's' command of a websocket brings the call identifier; its handler is
\* registered before startSession is called, so a client may be that quick.
RecvContext(s, c) ==
  /\ kind = "websocket"
  /\ start[s] \in {"subscribe", "hset", "starting"}
  /\ callID1[s] = NoCall
  /\ MayRegister(s, c)
  /\ callID1' = [callID1 EXCEPT ![s] = c]
  /\ UNCHANGED <<start, home, timer, sessionById, closeVars, callKey, table,
                 askVars, crashes>>

\* session.start() resolves.  A websocket session then stores its context; the
\* RTP handler reads the ports of rtpServers before it stores the session
\* again, and fails if close() has emptied rtpServers in the meantime.
SessionStarted(s) ==
  /\ start[s] = "starting"
  /\ \/ /\ kind = "rtp" => s \notin down
        /\ start' = [start EXCEPT ![s] = IF kind = "socketio" THEN "done"
                                                              ELSE "rehset"]
        /\ UNCHANGED <<closing, publishing, timer>>
     \/ /\ kind = "rtp" /\ s \in down
        /\ Refuse(s)
  /\ UNCHANGED <<idVars, sessionById, down, callKey, table, inbox, askVars,
                 crashes>>

\* session.start() rejects: no port, no engine, an invalid 's' command.
SessionStartFails(s) ==
  /\ kind # "socketio"
  /\ start[s] = "starting"
  /\ Refuse(s)
  /\ UNCHANGED <<idVars, sessionById, down, callKey, table, inbox, askVars,
                 crashes>>

\* The second HSET of an RTP start (after it) or a websocket start (in it).
SetSessionRedisAgain(s) ==
  /\ start[s] = "rehset"
  /\ table' = table \cup {s}
  /\ start' = [start EXCEPT ![s] = IF kind = "rtp" \/ callID1[s] = NoCall
                                     THEN "done" ELSE "get2"]
  /\ UNCHANGED <<idVars, timer, sessionById, closeVars, callKey, askVars,
                 crashes>>

-----------------------------------------------------------------------------
(***************************************************************************)
(* Who closes sessions.                                                    *)
(***************************************************************************)

\* When closeTimeout may fire: maxTermMS is far longer than the Redis commands
\* that precede session.start(), and no bound on session.start() itself: a
\* websocket client may take as long as it likes to send its 's' command.
\* Mutant: a maxTermMS that is shorter than those commands.
TermOverAnyTime(s) == TRUE
TermOver(s) ==
  \/ start[s] \in {"done", "failed", "left"}
  \/ "slow" \in Races /\ start[s] \in {"starting", "rehset", "get2", "setex2"}

\* closeTimeout fires and calls closeSession.
SessionTimeout(s) ==
  /\ s \in timer
  /\ TermOver(s)
  /\ \/ CloseFound(s)
     \/ /\ s \notin sessionById
        /\ publishing' = [publishing EXCEPT ![s] = @ + 1]
        /\ timer' = timer \ {s}
        /\ UNCHANGED closing
  /\ UNCHANGED <<start, idVars, sessionById, down, callKey, table, inbox,
                 askVars, crashes>>

\* The 'close' event of a websocket whose start succeeded.
SocketClosed(s) ==
  /\ kind = "websocket"
  /\ start[s] = "done"
  /\ start' = [start EXCEPT ![s] = "left"]
  /\ CloseSession(s)
  /\ UNCHANGED <<idVars, sessionById, down, callKey, table, inbox, askVars,
                 crashes>>

\* A terminate request with the sessionId that the start was answered with.
\* Any worker may receive it; only the home finds the session.
TerminateBySessionId(r, w, s) ==
  /\ kind = "rtp"
  /\ r \notin used
  /\ start[s] = "done"
  /\ used' = used \cup {r}
  /\ \/ home[s] = w /\ CloseSession(s)
     \/ /\ home[s] # w
        /\ publishing' = [publishing EXCEPT ![s] = @ + 1]
        /\ UNCHANGED <<closing, timer>>
  /\ UNCHANGED <<start, idVars, sessionById, down, callKey, table, inbox,
                 lookups, crashes>>

\* A terminate request with a call identifier: the key names the session.
TerminateByCallID(r, w, c) ==
  /\ kind = "rtp"
  /\ r \notin used
  /\ "early" \in Races \/ \A s \in Session :
       callID1[s] = c => start[s] \in {"done", "failed", "lost"}
  /\ used' = used \cup {r}
  /\ lookups' = lookups \cup {<<r, w, c>>}
  /\ UNCHANGED <<start, idVars, timer, sessionById, closeVars, callKey,
                 table, crashes>>

\* The GET of a terminate request: no key is an error for the client, a key is
\* escalated, even when the session lives on this very worker.
LookupCallID(q) ==
  /\ q \in lookups
  /\ lookups' = lookups \ {q}
  /\ \/ /\ callKey[q[3]] = NoSession
        /\ UNCHANGED publishing
     \/ /\ callKey[q[3]] # NoSession
        /\ publishing' = [publishing EXCEPT ![callKey[q[3]]] = @ + 1]
  /\ UNCHANGED <<start, idVars, timer, sessionById, closing, down, callKey,
                 table, inbox, used, crashes>>

\* PUBLISH: a message to a channel without a subscriber is gone.
Publish(s) ==
  /\ publishing[s] > 0
  /\ publishing' = [publishing EXCEPT ![s] = @ - 1]
  /\ inbox' = IF s \in sessionById THEN [inbox EXCEPT ![s] = @ + 1] ELSE inbox
  /\ UNCHANGED <<start, idVars, timer, sessionById, closing, down, callKey,
                 table, askVars, crashes>>

\* The 'message' handler of the subscribing client.
\* Mutant: a message that carries another op is ignored.
IgnoreTerminate(s) ==
  /\ inbox[s] > 0
  /\ inbox' = [inbox EXCEPT ![s] = @ - 1]
  /\ UNCHANGED <<start, idVars, timer, sessionById, closing, down, callKey,
                 table, publishing, askVars, crashes>>

RecvTerminate(s) ==
  /\ inbox[s] > 0
  /\ inbox' = [inbox EXCEPT ![s] = @ - 1]
  /\ CloseSession(s)
  /\ UNCHANGED <<start, idVars, sessionById, down, callKey, table, askVars,
                 crashes>>

-----------------------------------------------------------------------------
(***************************************************************************)
(* Crashes and Redis expiry.                                               *)
(***************************************************************************)

\* The sessions of dead workers: nothing of them is left but Redis data.
Lose(dead) ==
  /\ start' = [s \in Session |-> IF s \in dead THEN "lost" ELSE start[s]]
  /\ timer' = timer \ dead
  /\ sessionById' = sessionById \ dead
  /\ closing' = [s \in Session |-> IF s \in dead THEN [p \in ClosePhases |-> 0]
                                                 ELSE closing[s]]
  /\ inbox' = [s \in Session |-> IF s \in dead THEN 0 ELSE inbox[s]]
  /\ UNCHANGED <<idVars, down, publishing, used>>

\* A worker dies and the master forks another one with the same index.
WorkerCrash(w) ==
  /\ crashes < MaxCrashes
  /\ crashes' = crashes + 1
  /\ Lose({s \in Session : home[s] = w})
  /\ lookups' = {q \in lookups : q[2] # w}
  /\ UNCHANGED <<callKey, table>>

\* The master starts again: it flushes the session database, then forks.
MasterRestart ==
  /\ crashes < MaxCrashes
  /\ crashes' = crashes + 1
  /\ Lose({s \in Session : home[s] # NoWorker})
  /\ lookups' = {}
  /\ callKey' = [c \in CallID |-> NoSession]
  /\ table' = {}

\* The key expires 60 s after the closeTimeout of the session that set it.
\* Mutant: SET instead of SETEX.
NeverExpires(c) == FALSE /\ UNCHANGED vars

CallIDExpires(c) ==
  /\ callKey[c] \in Session
  /\ callKey[c] \notin sessionById
  /\ callKey[c] \notin timer
  /\ callKey' = [callKey EXCEPT ![c] = NoSession]
  /\ UNCHANGED <<start, idVars, timer, sessionById, closeVars, table, askVars,
                 crashes>>

-----------------------------------------------------------------------------
StartStep(s) ==
  \/ \E w \in Worker : StartSession(s, w)
  \/ CallIsProcessing(s)
  \/ CallIsFree(s)
  \/ RegisterCallID(s)
  \/ Subscribe(s)
  \/ SetSessionRedis(s)
  \/ \E c \in CallID : RecvContext(s, c)
  \/ SessionStarted(s)
  \/ SessionStartFails(s)
  \/ SetSessionRedisAgain(s)

CloseStep(s) ==
  \/ Deregister(s)
  \/ Unsubscribe(s)
  \/ RemoveFromTable(s)
  \/ SessionClosed(s)

Trigger(s) ==
  \/ SessionTimeout(s)
  \/ SocketClosed(s)
  \/ Publish(s)
  \/ RecvTerminate(s)

Terminate(r, w) ==
  \/ \E s \in Session : TerminateBySessionId(r, w, s)
  \/ \E c \in CallID : TerminateByCallID(r, w, c)

Step ==
  \/ \E s \in Session : StartStep(s) \/ CloseStep(s) \/ Trigger(s)
  \/ \E r \in Request, w \in Worker : Terminate(r, w)
  \/ \E q \in lookups : LookupCallID(q)
  \/ \E w \in Worker : WorkerCrash(w)
  \/ MasterRestart
  \/ \E c \in CallID : CallIDExpires(c)

Next == Step /\ UNCHANGED kind

Spec == Init /\ [][Next]_allVars

-----------------------------------------------------------------------------
(***************************************************************************)
(* Fairness.  Redis answers, messages to a live worker are handled and     *)
(* closing goes on: these are the event loop's duties.  Nothing obliges a  *)
(* client to act, session.start() to settle, or a worker to crash.         *)
(***************************************************************************)
ServiceFairness ==
  /\ \A s \in Session : /\ WF_vars(Deregister(s))
                        /\ WF_vars(Unsubscribe(s))
                        /\ WF_vars(RemoveFromTable(s))
                        /\ WF_vars(CallIsProcessing(s))
                        /\ WF_vars(CallIsFree(s))
                        /\ WF_vars(RegisterCallID(s))
                        /\ WF_vars(Subscribe(s))
                        /\ WF_vars(SetSessionRedis(s))
                        /\ WF_vars(SetSessionRedisAgain(s))
                        /\ WF_vars(Publish(s))
                        /\ WF_vars(RecvTerminate(s))
  /\ \A q \in Request \X Worker \X CallID : WF_vars(LookupCallID(q))

\* Timers: closeTimeout, and the expiry of the Redis keys of dead workers.
TimerFairness == \A s \in Session : WF_vars(SessionTimeout(s))
ExpiryFairness == \A c \in CallID : WF_vars(CallIDExpires(c))

\* Whether timers are fair is part of the properties that need them.
ServedSpec == Spec /\ ServiceFairness

-----------------------------------------------------------------------------
(***************************************************************************)
(* Properties.                                                             *)
(***************************************************************************)

\* A call identifier is blocked only by a session that still serves it: the
\* key of an RTP call names a session of that call which is either about to
\* enter sessionById, or in it and not yet deregistered, or died with its
\* worker.  However starts, terminates and timeouts interleave, no session
\* that ended leaves its key behind (registerCallID / deregisterCallID).
KeyNamesLiveSession ==
  kind = "rtp" =>
    \A c \in CallID, s \in Session : callKey[c] = s =>
      /\ callID1[s] = c
      /\ \/ start[s] \in {"subscribe", "lost"}
         \/ s \in sessionById /\ closing[s]["unsubscribe"] = 0

\* Every session that an RTP worker serves and is not closing holds the key of
\* its call: another start is refused and a terminate by call finds it.
LiveSessionHoldsKey ==
  kind = "rtp" =>
    \A s \in sessionById :
      closing[s]["unsubscribe"] = 0 => callKey[callID1[s]] = s

\* No two sessions serve one call at the same time: "callID1 X is processing"
\* (session_manager.js:16) is what the second start is told.
OneSessionPerCall ==
  \A s, o \in sessionById :
    /\ s # o
    /\ start[s] = "done" /\ start[o] = "done"
    /\ \A p \in ClosePhases : closing[s][p] = 0 /\ closing[o][p] = 0
    => callID1[s] = NoCall \/ callID1[s] # callID1[o]

\* A session that a worker serves cannot be forgotten: unless it is being
\* closed its closeTimeout is armed, in every interleaving of the start with
\* terminates and with closeSession calls that clear the timer.
TimerGuardsSession ==
  \A s \in sessionById : Idle(s) => s \in timer

\* GET /V1RtpSessions shows every session that is served: no close of another
\* request, and no late HDEL, removes a live session from the hash.
LiveSessionListed ==
  \A s \in sessionById : start[s] # "hset" => s \in table

\* A terminate that is on its way to a session some worker serves ends that
\* session, whichever worker received it, and even if no timeout ever fires.
TerminateReachesSession ==
  \A s \in Session :
    (publishing[s] > 0 /\ s \in sessionById) ~> (s \notin sessionById)

\* If timers fire no session is served for ever, even if its client disappears
\* or its session.start() never settles.
EverySessionEnds ==
  TimerFairness =>
    \A s \in Session : (s \in sessionById) ~> (s \notin sessionById)

\* A call identifier that is in use becomes usable again.  An RTP session that
\* does not die with its worker gives it back itself; the keys of websocket
\* sessions, which a race can leave behind, expire at the latest.
CallIDReleased ==
  TimerFairness /\ (kind # "rtp" => ExpiryFairness) =>
    \A c \in CallID, s \in Session :
      callKey[c] = s ~> callKey[c] # s \/ (kind = "rtp" /\ start[s] = "lost")

\* Where the session is in CallRegistry.  It is read off the session's own
\* start and its own closeSession, never off the keys: the session holds its
\* call from its own SETEX to its own DEL.
Phase(s) ==
  CASE start[s] \in {"none", "get", "setex"} -> "new"
    [] start[s] = "lost" -> "lost"
    [] \/ start[s] = "subscribe"
       \/ s \in sessionById /\ closing[s]["unsubscribe"] = 0 -> "holds"
    [] OTHER -> "over"

Phases == [s \in Session |-> Phase(s)]

Registry == INSTANCE CallRegistry WITH holder <- callKey, phase <- Phases

\* The keys of an RTP manager implement the registry: a key is set only while
\* it is free, and the DEL of a closeSession (session_manager.js:88), which
\* asks nobody whose key it is, never takes the call of another session.
ImplementsCallRegistry == Registry!Spec

=============================================================================
