------------------------ MODULE SessionManagerProofs ------------------------
(***************************************************************************)
(* Proofs about SessionManager, for every set of workers, sessions, calls  *)
(* and requests, every kind of server and every number of crashes.         *)
(***************************************************************************)
EXTENDS SessionManager, TLAPS

(***************************************************************************)
(* Type correctness.                                                       *)
(***************************************************************************)

\* closeSession moves one more call to its first command, or issues a PUBLISH,
\* and disarms at most the timer of the session.
LEMMA CloseSessionType ==
  ASSUME TypeOK, NEW s \in Session, CloseSession(s)
  PROVE  /\ closing' \in [Session -> [ClosePhases -> Nat]]
         /\ publishing' \in [Session -> Nat]
         /\ timer' \subseteq Session
<1>1. CASE CloseFound(s)
  BY <1>1 DEF TypeOK, CloseFound, ClosePhases
<1>2. CASE CloseNotFound(s)
  BY <1>2 DEF TypeOK, CloseNotFound
<1>3. QED
  BY <1>1, <1>2 DEF CloseSession

LEMMA RefuseType ==
  ASSUME TypeOK, NEW s \in Session, Refuse(s)
  PROVE  /\ start' \in [Session -> StartStates]
         /\ closing' \in [Session -> [ClosePhases -> Nat]]
         /\ publishing' \in [Session -> Nat]
         /\ timer' \subseteq Session
<1>1. start' \in [Session -> StartStates]
  BY DEF TypeOK, Refuse, StartStates
<1>2. CASE kind = "socketio"
  BY <1>1, <1>2 DEF TypeOK, Refuse
<1>3. CASE kind # "socketio"
  BY <1>1, <1>3, CloseSessionType DEF Refuse
<1>4. QED
  BY <1>2, <1>3

LEMMA StartStepType ==
  ASSUME TypeOK, kind' = kind, NEW s \in Session, StartStep(s)
  PROVE  TypeOK'
<1>1. ASSUME NEW w \in Worker, StartSession(s, w) PROVE TypeOK'
  BY <1>1 DEF TypeOK, StartSession, ArmTimer, StartStates, closeVars, askVars
<1>2. CASE CallIsProcessing(s)
  BY <1>2, RefuseType DEF TypeOK, CallIsProcessing, idVars, askVars
<1>3. CASE CallIsFree(s)
  BY <1>3 DEF TypeOK, CallIsFree, StartStates, idVars, askVars, closeVars
<1>4. CASE RegisterCallID(s)
  BY <1>4 DEF TypeOK, RegisterCallID, StartStates, idVars, askVars, closeVars
<1>5. CASE Subscribe(s)
  BY <1>5 DEF TypeOK, Subscribe, StartStates, idVars, askVars, closeVars
<1>6. CASE SetSessionRedis(s)
  BY <1>6 DEF TypeOK, SetSessionRedis, StartStates, idVars, askVars, closeVars
<1>7. ASSUME NEW c \in CallID, RecvContext(s, c) PROVE TypeOK'
  BY <1>7 DEF TypeOK, RecvContext, askVars, closeVars
<1>8. CASE SessionStarted(s)
  <2>1. CASE kind = "rtp" /\ s \in down
    BY <1>8, <2>1, RefuseType DEF TypeOK, SessionStarted, idVars, askVars
  <2>2. CASE ~(kind = "rtp" /\ s \in down)
    BY <1>8, <2>2 DEF TypeOK, SessionStarted, StartStates, idVars, askVars
  <2>3. QED
    BY <2>1, <2>2
<1>9. CASE SessionStartFails(s)
  BY <1>9, RefuseType DEF TypeOK, SessionStartFails, idVars, askVars
<1>10. CASE SetSessionRedisAgain(s)
  BY <1>10
  DEF TypeOK, SetSessionRedisAgain, StartStates, idVars, askVars, closeVars
<1>11. QED
  BY <1>1, <1>2, <1>3, <1>4, <1>5, <1>6, <1>7, <1>8, <1>9, <1>10 DEF StartStep

LEMMA CloseStepType ==
  ASSUME TypeOK, kind' = kind, NEW s \in Session, CloseStep(s)
  PROVE  TypeOK'
<1> USE DEF idVars, askVars, ClosePhases
<1>1. CASE Deregister(s)
  BY <1>1 DEF TypeOK, Deregister, DelKey
<1>2. CASE Unsubscribe(s)
  BY <1>2 DEF TypeOK, Unsubscribe
<1>3. CASE RemoveFromTable(s)
  BY <1>3 DEF TypeOK, RemoveFromTable
<1>4. CASE SessionClosed(s)
  BY <1>4 DEF TypeOK, SessionClosed
<1>5. QED
  BY <1>1, <1>2, <1>3, <1>4 DEF CloseStep

LEMMA TriggerType ==
  ASSUME TypeOK, kind' = kind, NEW s \in Session, Trigger(s)
  PROVE  TypeOK'
<1>1. CASE SessionTimeout(s)
  <2>1. CASE CloseFound(s)
    BY <1>1, <2>1, CloseSessionType
    DEF TypeOK, SessionTimeout, CloseSession, idVars, askVars
  <2>2. CASE ~CloseFound(s)
    BY <1>1, <2>2 DEF TypeOK, SessionTimeout, idVars, askVars
  <2>3. QED
    BY <2>1, <2>2
<1>2. CASE SocketClosed(s)
  <2>1. start' \in [Session -> StartStates]
    BY <1>2 DEF TypeOK, SocketClosed, StartStates
  <2>2. QED
    BY <1>2, <2>1, CloseSessionType DEF TypeOK, SocketClosed, idVars, askVars
<1>3. CASE Publish(s)
  BY <1>3 DEF TypeOK, Publish, idVars, askVars
<1>4. CASE RecvTerminate(s)
  <2>1. inbox' \in [Session -> Nat]
    BY <1>4 DEF TypeOK, RecvTerminate
  <2>2. QED
    BY <1>4, <2>1, CloseSessionType DEF TypeOK, RecvTerminate, idVars, askVars
<1>5. QED
  BY <1>1, <1>2, <1>3, <1>4 DEF Trigger

LEMMA TerminateType ==
  ASSUME TypeOK, kind' = kind,
         NEW r \in Request, NEW w \in Worker, Terminate(r, w)
  PROVE  TypeOK'
<1>1. ASSUME NEW s \in Session, TerminateBySessionId(r, w, s) PROVE TypeOK'
  <2>1. /\ closing' \in [Session -> [ClosePhases -> Nat]]
        /\ publishing' \in [Session -> Nat]
        /\ timer' \subseteq Session
    <3>1. CASE home[s] = w /\ CloseSession(s)
      BY <3>1, CloseSessionType
    <3>2. CASE ~(home[s] = w /\ CloseSession(s))
      BY <1>1, <3>2 DEF TypeOK, TerminateBySessionId
    <3>3. QED
      BY <3>1, <3>2
  <2>2. QED
    BY <1>1, <2>1 DEF TypeOK, TerminateBySessionId, idVars
<1>2. ASSUME NEW c \in CallID, TerminateByCallID(r, w, c) PROVE TypeOK'
  BY <1>2 DEF TypeOK, TerminateByCallID, idVars, closeVars
<1>3. QED
  BY <1>1, <1>2 DEF Terminate

LEMMA LoseType ==
  ASSUME TypeOK, NEW dead \in SUBSET Session, Lose(dead)
  PROVE  /\ start' \in [Session -> StartStates]
         /\ home' \in [Session -> Worker \cup {NoWorker}]
         /\ callID1' \in [Session -> CallID \cup {NoCall}]
         /\ timer' \subseteq Session
         /\ sessionById' \subseteq Session
         /\ closing' \in [Session -> [ClosePhases -> Nat]]
         /\ down' \subseteq Session
         /\ publishing' \in [Session -> Nat]
         /\ inbox' \in [Session -> Nat]
         /\ used' \subseteq Request
BY DEF TypeOK, Lose, idVars, StartStates

LEMMA TypeStep ==
  ASSUME TypeOK, [Next]_allVars
  PROVE  TypeOK'
<1>0. kind' = kind
  BY DEF Next, allVars
<1>1. ASSUME NEW s \in Session, StartStep(s) PROVE TypeOK'
  BY <1>1, <1>0, StartStepType
<1>2. ASSUME NEW s \in Session, CloseStep(s) PROVE TypeOK'
  BY <1>2, <1>0, CloseStepType
<1>3. ASSUME NEW s \in Session, Trigger(s) PROVE TypeOK'
  BY <1>3, <1>0, TriggerType
<1>4. ASSUME NEW r \in Request, NEW w \in Worker, Terminate(r, w)
      PROVE  TypeOK'
  BY <1>4, <1>0, TerminateType
<1>5. ASSUME NEW q \in lookups, LookupCallID(q) PROVE TypeOK'
  BY <1>0, <1>5 DEF TypeOK, LookupCallID, idVars
<1>6. ASSUME NEW w \in Worker, WorkerCrash(w) PROVE TypeOK'
  <2>1. {s \in Session : home[s] = w} \in SUBSET Session
    OBVIOUS
  <2>2. QED
    BY <1>0, <1>6, <2>1, LoseType DEF TypeOK, WorkerCrash
<1>7. CASE MasterRestart
  <2>1. {s \in Session : home[s] # NoWorker} \in SUBSET Session
    OBVIOUS
  <2>2. QED
    BY <1>0, <1>7, <2>1, LoseType DEF TypeOK, MasterRestart
<1>8. ASSUME NEW c \in CallID, CallIDExpires(c) PROVE TypeOK'
  BY <1>0, <1>8 DEF TypeOK, CallIDExpires, idVars, closeVars, askVars
<1>9. CASE UNCHANGED allVars
  BY <1>0, <1>9 DEF TypeOK, vars, allVars
<1>10. QED
  BY <1>1, <1>2, <1>3, <1>4, <1>5, <1>6, <1>7, <1>8, <1>9 DEF Next, Step

-----------------------------------------------------------------------------
(***************************************************************************)
(* The inductive invariant.                                                *)
(***************************************************************************)

\* What a session is between its start, its place in sessionById, its timer,
\* its place in the listing and the closeSession calls that work on it.
Unserved == {"none", "get", "setex", "subscribe", "lost"}

SessionInv(s) ==
  /\ start[s] = "none" <=> home[s] = NoWorker
  /\ start[s] \in Unserved => s \notin sessionById
  /\ start[s] \in Unserved => \A p \in ClosePhases : closing[s][p] = 0
  /\ start[s] \in {"get", "setex", "subscribe"} => s \in timer
  /\ s \in sessionById => closing[s]["hdel"] = 0
  /\ s \in sessionById /\ Idle(s) => s \in timer
  /\ s \in sessionById /\ start[s] # "hset" => s \in table

\* What the key of an RTP call says about the session that it names.
KeyInv(s) ==
  /\ start[s] # "none" => callID1[s] \in CallID
  /\ start[s] \notin {"get2", "setex2"}
  /\ start[s] \in {"none", "get", "setex"} => \A c \in CallID : callKey[c] # s
  /\ \A c \in CallID : callKey[c] = s =>
       /\ callID1[s] = c
       /\ \/ start[s] \in {"subscribe", "lost"}
          \/ s \in sessionById /\ closing[s]["unsubscribe"] = 0

\* Clients that neither start a call twice at once nor close a session twice
\* at once: then no key is overwritten, and none is deleted but by its holder.
Disciplined == Kinds = {"rtp"} /\ "overlap" \notin Races /\ "double" \notin Races

HolderInv(s) ==
  /\ start[s] = "setex" => callKey[callID1[s]] = NoSession
  /\ start[s] = "subscribe" => callKey[callID1[s]] = s
  /\ s \in sessionById /\ closing[s]["unsubscribe"] = 0
       => callKey[callID1[s]] = s
  /\ closing[s]["del"] > 0
       => /\ closing[s]["del"] = 1
          /\ closing[s]["unsubscribe"] = 0
          /\ s \in sessionById
  /\ \A o \in Session \ {s} :
       start[s] \in {"get", "setex"} /\ start[o] \in {"get", "setex"}
         => callID1[s] # callID1[o]

Inv ==
  /\ TypeOK
  /\ \A s \in Session : SessionInv(s)
  /\ kind = "rtp" => \A s \in Session : KeyInv(s)
  /\ Disciplined => \A s \in Session : HolderInv(s)

\* SessionInv is kept by every step.
LEMMA StartStepSessionInv ==
  ASSUME TypeOK, \A t \in Session : SessionInv(t),
         NEW s \in Session, StartStep(s), NEW x \in Session
  PROVE  SessionInv(x)'
<1> USE ConstantsAssumption
    DEF TypeOK, SessionInv, Unserved, Idle, StartStates, ClosePhases, idVars,
        askVars, closeVars
<1>1. ASSUME NEW w \in Worker, StartSession(s, w) PROVE SessionInv(x)'
  BY <1>1 DEF StartSession, ArmTimer
<1>2. CASE CallIsProcessing(s)
  BY <1>2 DEF CallIsProcessing, Refuse, CloseSession, CloseFound,
  CloseNotFound
<1>3. CASE CallIsFree(s)
  BY <1>3 DEF CallIsFree, CallFree
<1>4. CASE RegisterCallID(s)
  BY <1>4 DEF RegisterCallID
<1>5. CASE Subscribe(s)
  BY <1>5 DEF Subscribe
<1>6. CASE SetSessionRedis(s)
  BY <1>6 DEF SetSessionRedis
<1>7. ASSUME NEW c \in CallID, RecvContext(s, c) PROVE SessionInv(x)'
  BY <1>7 DEF RecvContext
<1>8. CASE SessionStarted(s)
  BY <1>8 DEF SessionStarted, Refuse, CloseSession, CloseFound, CloseNotFound
<1>9. CASE SessionStartFails(s)
  BY <1>9 DEF SessionStartFails, Refuse, CloseSession, CloseFound,
  CloseNotFound
<1>10. CASE SetSessionRedisAgain(s)
  BY <1>10 DEF SetSessionRedisAgain
<1>11. QED
  BY <1>1, <1>2, <1>3, <1>4, <1>5, <1>6, <1>7, <1>8, <1>9, <1>10 DEF StartStep

LEMMA CloseStepSessionInv ==
  ASSUME TypeOK, \A t \in Session : SessionInv(t),
         NEW s \in Session, CloseStep(s), NEW x \in Session
  PROVE  SessionInv(x)'
<1> USE ConstantsAssumption
    DEF TypeOK, SessionInv, Unserved, Idle, StartStates, ClosePhases, idVars,
        askVars, closeVars
<1>1. CASE Deregister(s)
  BY <1>1 DEF Deregister, DelKey
<1>2. CASE Unsubscribe(s)
  BY <1>2 DEF Unsubscribe
<1>3. CASE RemoveFromTable(s)
  BY <1>3 DEF RemoveFromTable
<1>4. CASE SessionClosed(s)
  BY <1>4 DEF SessionClosed
<1>5. QED
  BY <1>1, <1>2, <1>3, <1>4 DEF CloseStep

LEMMA TriggerSessionInv ==
  ASSUME TypeOK, \A t \in Session : SessionInv(t),
         NEW s \in Session, Trigger(s), NEW x \in Session
  PROVE  SessionInv(x)'
<1> USE ConstantsAssumption
    DEF TypeOK, SessionInv, Unserved, Idle, StartStates, ClosePhases, idVars,
        askVars, closeVars
<1>1. CASE SessionTimeout(s)
  BY <1>1 DEF SessionTimeout, TermOver, CloseFound
<1>2. CASE SocketClosed(s)
  BY <1>2 DEF SocketClosed, CloseSession, CloseFound, CloseNotFound
<1>3. CASE Publish(s)
  BY <1>3 DEF Publish
<1>4. CASE RecvTerminate(s)
  BY <1>4 DEF RecvTerminate, CloseSession, CloseFound, CloseNotFound
<1>5. QED
  BY <1>1, <1>2, <1>3, <1>4 DEF Trigger

LEMMA TerminateSessionInv ==
  ASSUME TypeOK, \A t \in Session : SessionInv(t),
         NEW r \in Request, NEW w \in Worker, Terminate(r, w), NEW x \in Session
  PROVE  SessionInv(x)'
<1> USE ConstantsAssumption
    DEF TypeOK, SessionInv, Unserved, Idle, StartStates, ClosePhases, idVars,
        closeVars
<1>1. ASSUME NEW s \in Session, TerminateBySessionId(r, w, s)
      PROVE  SessionInv(x)'
  BY <1>1 DEF TerminateBySessionId, CloseSession, CloseFound, CloseNotFound
<1>2. ASSUME NEW c \in CallID, TerminateByCallID(r, w, c) PROVE SessionInv(x)'
  BY <1>2 DEF TerminateByCallID
<1>3. QED
  BY <1>1, <1>2 DEF Terminate

LEMMA OtherSessionInv ==
  ASSUME TypeOK, \A t \in Session : SessionInv(t),
         NEW x \in Session,
         \/ \E q \in lookups : LookupCallID(q)
         \/ \E w \in Worker : WorkerCrash(w)
         \/ MasterRestart
         \/ \E c \in CallID : CallIDExpires(c)
         \/ UNCHANGED allVars
  PROVE  SessionInv(x)'
<1> USE ConstantsAssumption
    DEF TypeOK, SessionInv, Unserved, Idle, StartStates, ClosePhases, idVars,
        askVars, closeVars
<1>1. ASSUME NEW q \in lookups, LookupCallID(q) PROVE SessionInv(x)'
  BY <1>1 DEF LookupCallID
<1>2. ASSUME NEW w \in Worker, WorkerCrash(w) PROVE SessionInv(x)'
  BY <1>2 DEF WorkerCrash, Lose
<1>3. CASE MasterRestart
  BY <1>3 DEF MasterRestart, Lose
<1>4. ASSUME NEW c \in CallID, CallIDExpires(c) PROVE SessionInv(x)'
  BY <1>4 DEF CallIDExpires
<1>5. CASE UNCHANGED allVars
  BY <1>5 DEF vars, allVars
<1>6. QED
  BY <1>1, <1>2, <1>3, <1>4, <1>5

LEMMA SessionInvStep ==
  ASSUME TypeOK, \A t \in Session : SessionInv(t),
         [Next]_allVars
  PROVE  \A x \in Session : SessionInv(x)'
<1> SUFFICES ASSUME NEW x \in Session PROVE SessionInv(x)'
  OBVIOUS
<1>1. ASSUME NEW s \in Session, StartStep(s) PROVE SessionInv(x)'
  BY <1>1, StartStepSessionInv
<1>2. ASSUME NEW s \in Session, CloseStep(s) PROVE SessionInv(x)'
  BY <1>2, CloseStepSessionInv
<1>3. ASSUME NEW s \in Session, Trigger(s) PROVE SessionInv(x)'
  BY <1>3, TriggerSessionInv
<1>4. ASSUME NEW r \in Request, NEW w \in Worker, Terminate(r, w)
      PROVE  SessionInv(x)'
  BY <1>4, TerminateSessionInv
<1>5. QED
  BY <1>1, <1>2, <1>3, <1>4, OtherSessionInv DEF Next, Step

-----------------------------------------------------------------------------
\* KeyInv is kept by every step of an RTP manager.
LEMMA StartStepKeyInv ==
  ASSUME TypeOK, \A t \in Session : SessionInv(t) /\ KeyInv(t), kind = "rtp",
         NEW s \in Session, StartStep(s), NEW x \in Session
  PROVE  KeyInv(x)'
<1> USE ConstantsAssumption
    DEF TypeOK, SessionInv, KeyInv, Unserved, StartStates, ClosePhases,
        idVars, askVars, closeVars
<1>1. ASSUME NEW w \in Worker, StartSession(s, w) PROVE KeyInv(x)'
  BY <1>1 DEF StartSession, ArmTimer
<1>2. CASE CallIsProcessing(s)
  BY <1>2 DEF CallIsProcessing, Refuse, CloseSession, CloseFound,
  CloseNotFound
<1>3. CASE CallIsFree(s)
  BY <1>3 DEF CallIsFree, CallFree
<1>4. CASE RegisterCallID(s)
  BY <1>4 DEF RegisterCallID
<1>5. CASE Subscribe(s)
  BY <1>5 DEF Subscribe
<1>6. CASE SetSessionRedis(s)
  BY <1>6 DEF SetSessionRedis
<1>7. ASSUME NEW c \in CallID, RecvContext(s, c) PROVE KeyInv(x)'
  BY <1>7 DEF RecvContext
<1>8. CASE SessionStarted(s)
  BY <1>8 DEF SessionStarted, Refuse, CloseSession, CloseFound, CloseNotFound
<1>9. CASE SessionStartFails(s)
  BY <1>9 DEF SessionStartFails, Refuse, CloseSession, CloseFound,
  CloseNotFound
<1>10. CASE SetSessionRedisAgain(s)
  BY <1>10 DEF SetSessionRedisAgain
<1>11. QED
  BY <1>1, <1>2, <1>3, <1>4, <1>5, <1>6, <1>7, <1>8, <1>9, <1>10 DEF StartStep

LEMMA CloseStepKeyInv ==
  ASSUME TypeOK, \A t \in Session : SessionInv(t) /\ KeyInv(t), kind = "rtp",
         NEW s \in Session, CloseStep(s), NEW x \in Session
  PROVE  KeyInv(x)'
<1> USE ConstantsAssumption
    DEF TypeOK, SessionInv, KeyInv, Unserved, StartStates, ClosePhases,
        idVars, askVars, closeVars
<1>1. CASE Deregister(s)
  BY <1>1 DEF Deregister, DelKey
<1>2. CASE Unsubscribe(s)
  BY <1>2 DEF Unsubscribe
<1>3. CASE RemoveFromTable(s)
  BY <1>3 DEF RemoveFromTable
<1>4. CASE SessionClosed(s)
  BY <1>4 DEF SessionClosed
<1>5. QED
  BY <1>1, <1>2, <1>3, <1>4 DEF CloseStep

LEMMA TriggerKeyInv ==
  ASSUME TypeOK, \A t \in Session : SessionInv(t) /\ KeyInv(t), kind = "rtp",
         NEW s \in Session, Trigger(s), NEW x \in Session
  PROVE  KeyInv(x)'
<1> USE ConstantsAssumption
    DEF TypeOK, SessionInv, KeyInv, Unserved, StartStates, ClosePhases,
        idVars, askVars, closeVars
<1>1. CASE SessionTimeout(s)
  BY <1>1 DEF SessionTimeout, TermOver, CloseFound
<1>2. CASE SocketClosed(s)
  BY <1>2 DEF SocketClosed, CloseSession, CloseFound, CloseNotFound
<1>3. CASE Publish(s)
  BY <1>3 DEF Publish
<1>4. CASE RecvTerminate(s)
  BY <1>4 DEF RecvTerminate, CloseSession, CloseFound, CloseNotFound
<1>5. QED
  BY <1>1, <1>2, <1>3, <1>4 DEF Trigger

LEMMA TerminateKeyInv ==
  ASSUME TypeOK, \A t \in Session : SessionInv(t) /\ KeyInv(t), kind = "rtp",
         NEW r \in Request, NEW w \in Worker, Terminate(r, w), NEW x \in Session
  PROVE  KeyInv(x)'
<1> USE ConstantsAssumption
    DEF TypeOK, SessionInv, KeyInv, Unserved, StartStates, ClosePhases,
        idVars, closeVars
<1>1. ASSUME NEW s \in Session, TerminateBySessionId(r, w, s) PROVE KeyInv(x)'
  <2>1. CASE CloseSession(s)
    BY <1>1, <2>1 DEF TerminateBySessionId, CloseSession, CloseFound, CloseNotFound
  <2>2. CASE UNCHANGED <<closing, timer>>
    BY <1>1, <2>2 DEF TerminateBySessionId
  <2>3. QED
    BY <1>1, <2>1, <2>2 DEF TerminateBySessionId
<1>2. ASSUME NEW c \in CallID, TerminateByCallID(r, w, c) PROVE KeyInv(x)'
  BY <1>2 DEF TerminateByCallID
<1>3. QED
  BY <1>1, <1>2 DEF Terminate

LEMMA OtherKeyInv ==
  ASSUME TypeOK, \A t \in Session : SessionInv(t) /\ KeyInv(t), kind = "rtp",
         NEW x \in Session,
         \/ \E q \in lookups : LookupCallID(q)
         \/ \E w \in Worker : WorkerCrash(w)
         \/ MasterRestart
         \/ \E c \in CallID : CallIDExpires(c)
         \/ UNCHANGED allVars
  PROVE  KeyInv(x)'
<1> USE ConstantsAssumption
    DEF TypeOK, SessionInv, KeyInv, Unserved, StartStates, ClosePhases,
        idVars, askVars, closeVars
<1>1. ASSUME NEW q \in lookups, LookupCallID(q) PROVE KeyInv(x)'
  BY <1>1 DEF LookupCallID
<1>2. ASSUME NEW w \in Worker, WorkerCrash(w) PROVE KeyInv(x)'
  BY <1>2 DEF WorkerCrash, Lose
<1>3. CASE MasterRestart
  BY <1>3 DEF MasterRestart, Lose
<1>4. ASSUME NEW c \in CallID, CallIDExpires(c) PROVE KeyInv(x)'
  BY <1>4 DEF CallIDExpires
<1>5. CASE UNCHANGED allVars
  BY <1>5 DEF vars, allVars
<1>6. QED
  BY <1>1, <1>2, <1>3, <1>4, <1>5

LEMMA KeyInvStep ==
  ASSUME TypeOK, \A t \in Session : SessionInv(t) /\ KeyInv(t), kind = "rtp",
         [Next]_allVars
  PROVE  \A x \in Session : KeyInv(x)'
<1> SUFFICES ASSUME NEW x \in Session PROVE KeyInv(x)'
  OBVIOUS
<1>1. ASSUME NEW s \in Session, StartStep(s) PROVE KeyInv(x)'
  BY <1>1, StartStepKeyInv
<1>2. ASSUME NEW s \in Session, CloseStep(s) PROVE KeyInv(x)'
  BY <1>2, CloseStepKeyInv
<1>3. ASSUME NEW s \in Session, Trigger(s) PROVE KeyInv(x)'
  BY <1>3, TriggerKeyInv
<1>4. ASSUME NEW r \in Request, NEW w \in Worker, Terminate(r, w)
      PROVE  KeyInv(x)'
  BY <1>4, TerminateKeyInv
<1>5. QED
  BY <1>1, <1>2, <1>3, <1>4, OtherKeyInv DEF Next, Step

-----------------------------------------------------------------------------
\* HolderInv is kept by every step when the clients are disciplined.
LEMMA StartStepHolderInv ==
  ASSUME TypeOK, Disciplined,
         \A t \in Session : SessionInv(t) /\ KeyInv(t) /\ HolderInv(t),
         NEW s \in Session, StartStep(s), NEW x \in Session
  PROVE  HolderInv(x)'
<1> USE ConstantsAssumption
    DEF TypeOK, SessionInv, KeyInv, HolderInv, Unserved, Idle, Disciplined,
        StartStates, ClosePhases, idVars, askVars, closeVars
<1>1. ASSUME NEW w \in Worker, StartSession(s, w) PROVE HolderInv(x)'
  BY <1>1 DEF MayRegister, Registering, StartSession, ArmTimer
<1>2. CASE CallIsProcessing(s)
  BY <1>2 DEF CallIsProcessing, Refuse, CloseSession, CloseFound,
  CloseNotFound
<1>3. CASE CallIsFree(s)
  BY <1>3 DEF CallIsFree, CallFree
<1>4. CASE RegisterCallID(s)
  BY <1>4 DEF RegisterCallID
<1>5. CASE Subscribe(s)
  BY <1>5 DEF Subscribe
<1>6. CASE SetSessionRedis(s)
  BY <1>6 DEF SetSessionRedis
<1>7. ASSUME NEW c \in CallID, RecvContext(s, c) PROVE HolderInv(x)'
  BY <1>7 DEF RecvContext
<1>8. CASE SessionStarted(s)
  BY <1>8 DEF SessionStarted, Refuse, CloseSession, CloseFound, CloseNotFound
<1>9. CASE SessionStartFails(s)
  BY <1>9 DEF SessionStartFails, Refuse, CloseSession, CloseFound,
  CloseNotFound
<1>10. CASE SetSessionRedisAgain(s)
  BY <1>10 DEF SetSessionRedisAgain
<1>11. QED
  BY <1>1, <1>2, <1>3, <1>4, <1>5, <1>6, <1>7, <1>8, <1>9, <1>10 DEF StartStep

LEMMA CloseStepHolderInv ==
  ASSUME TypeOK, Disciplined,
         \A t \in Session : SessionInv(t) /\ KeyInv(t) /\ HolderInv(t),
         NEW s \in Session, CloseStep(s), NEW x \in Session
  PROVE  HolderInv(x)'
<1> USE ConstantsAssumption
    DEF TypeOK, SessionInv, KeyInv, HolderInv, Unserved, Idle, Disciplined,
        StartStates, ClosePhases, idVars, askVars, closeVars
<1>1. CASE Deregister(s)
  BY <1>1 DEF Deregister, DelKey
<1>2. CASE Unsubscribe(s)
  BY <1>2 DEF Unsubscribe
<1>3. CASE RemoveFromTable(s)
  BY <1>3 DEF RemoveFromTable
<1>4. CASE SessionClosed(s)
  BY <1>4 DEF SessionClosed
<1>5. QED
  BY <1>1, <1>2, <1>3, <1>4 DEF CloseStep

LEMMA TriggerHolderInv ==
  ASSUME TypeOK, Disciplined,
         \A t \in Session : SessionInv(t) /\ KeyInv(t) /\ HolderInv(t),
         NEW s \in Session, Trigger(s), NEW x \in Session
  PROVE  HolderInv(x)'
<1> USE ConstantsAssumption
    DEF TypeOK, SessionInv, KeyInv, HolderInv, Unserved, Idle, Disciplined,
        StartStates, ClosePhases, idVars, askVars, closeVars
<1>1. CASE SessionTimeout(s)
  BY <1>1 DEF SessionTimeout, TermOver, CloseFound
<1>2. CASE SocketClosed(s)
  BY <1>2 DEF SocketClosed, CloseSession, CloseFound, CloseNotFound
<1>3. CASE Publish(s)
  BY <1>3 DEF Publish
<1>4. CASE RecvTerminate(s)
  BY <1>4 DEF RecvTerminate, CloseSession, CloseFound, CloseNotFound
<1>5. QED
  BY <1>1, <1>2, <1>3, <1>4 DEF Trigger

LEMMA TerminateHolderInv ==
  ASSUME TypeOK, Disciplined,
         \A t \in Session : SessionInv(t) /\ KeyInv(t) /\ HolderInv(t),
         NEW r \in Request, NEW w \in Worker, Terminate(r, w), NEW x \in Session
  PROVE  HolderInv(x)'
<1> USE ConstantsAssumption
    DEF TypeOK, SessionInv, KeyInv, HolderInv, Unserved, Idle, Disciplined,
        StartStates, ClosePhases, idVars, closeVars
<1>1. ASSUME NEW s \in Session, TerminateBySessionId(r, w, s)
      PROVE  HolderInv(x)'
  BY <1>1 DEF TerminateBySessionId, CloseSession, CloseFound, CloseNotFound
<1>2. ASSUME NEW c \in CallID, TerminateByCallID(r, w, c) PROVE HolderInv(x)'
  BY <1>2 DEF TerminateByCallID
<1>3. QED
  BY <1>1, <1>2 DEF Terminate

LEMMA OtherHolderInv ==
  ASSUME TypeOK, Disciplined,
         \A t \in Session : SessionInv(t) /\ KeyInv(t) /\ HolderInv(t),
         NEW x \in Session,
         \/ \E q \in lookups : LookupCallID(q)
         \/ \E w \in Worker : WorkerCrash(w)
         \/ MasterRestart
         \/ \E c \in CallID : CallIDExpires(c)
         \/ UNCHANGED allVars
  PROVE  HolderInv(x)'
<1> USE ConstantsAssumption
    DEF TypeOK, SessionInv, KeyInv, HolderInv, Unserved, Idle, Disciplined,
        StartStates, ClosePhases, idVars, askVars, closeVars
<1>1. ASSUME NEW q \in lookups, LookupCallID(q) PROVE HolderInv(x)'
  BY <1>1 DEF LookupCallID
<1>2. ASSUME NEW w \in Worker, WorkerCrash(w) PROVE HolderInv(x)'
  BY <1>2 DEF WorkerCrash, Lose
<1>3. CASE MasterRestart
  BY <1>3 DEF MasterRestart, Lose
<1>4. ASSUME NEW c \in CallID, CallIDExpires(c) PROVE HolderInv(x)'
  BY <1>4 DEF CallIDExpires
<1>5. CASE UNCHANGED allVars
  BY <1>5 DEF vars, allVars
<1>6. QED
  BY <1>1, <1>2, <1>3, <1>4, <1>5

LEMMA HolderInvStep ==
  ASSUME TypeOK, Disciplined,
         \A t \in Session : SessionInv(t) /\ KeyInv(t) /\ HolderInv(t),
         [Next]_allVars
  PROVE  \A x \in Session : HolderInv(x)'
<1> SUFFICES ASSUME NEW x \in Session PROVE HolderInv(x)'
  OBVIOUS
<1>1. ASSUME NEW s \in Session, StartStep(s) PROVE HolderInv(x)'
  BY <1>1, StartStepHolderInv
<1>2. ASSUME NEW s \in Session, CloseStep(s) PROVE HolderInv(x)'
  BY <1>2, CloseStepHolderInv
<1>3. ASSUME NEW s \in Session, Trigger(s) PROVE HolderInv(x)'
  BY <1>3, TriggerHolderInv
<1>4. ASSUME NEW r \in Request, NEW w \in Worker, Terminate(r, w)
      PROVE  HolderInv(x)'
  BY <1>4, TerminateHolderInv
<1>5. QED
  BY <1>1, <1>2, <1>3, <1>4, OtherHolderInv DEF Next, Step

-----------------------------------------------------------------------------
(***************************************************************************)
(* The theorems.                                                           *)
(***************************************************************************)

LEMMA InvInit == Init => Inv
<1> SUFFICES ASSUME Init PROVE Inv
  OBVIOUS
<1>1. TypeOK
  BY DEF Init, TypeOK, StartStates
<1>2. ASSUME NEW s \in Session PROVE SessionInv(s)
  BY DEF Init, SessionInv, Unserved
<1>3. ASSUME NEW s \in Session PROVE KeyInv(s)
  BY ConstantsAssumption DEF Init, KeyInv
<1>4. ASSUME NEW s \in Session PROVE HolderInv(s)
  BY DEF Init, HolderInv, ClosePhases
<1>5. QED
  BY <1>1, <1>2, <1>3, <1>4 DEF Inv

LEMMA InvStep == Inv /\ [Next]_allVars => Inv'
<1> SUFFICES ASSUME Inv, [Next]_allVars PROVE Inv'
  OBVIOUS
<1>0. kind' = kind
  BY DEF Next, allVars
<1>1. TypeOK'
  BY TypeStep DEF Inv
<1>2. \A s \in Session : SessionInv(s)'
  BY SessionInvStep DEF Inv
<1>3. kind = "rtp" => \A s \in Session : KeyInv(s)'
  BY KeyInvStep DEF Inv
<1>4. Disciplined => \A s \in Session : HolderInv(s)'
  BY HolderInvStep DEF Inv, TypeOK, Disciplined
<1>5. QED
  BY <1>0, <1>1, <1>2, <1>3, <1>4 DEF Inv, Disciplined

THEOREM Invariance == Spec => []Inv
BY InvInit, InvStep, PTL DEF Spec

\* Every variable keeps its type: the counters of closeSession calls, messages
\* and PUBLISH commands never go below zero, keys hold sessions.
THEOREM TypeCorrect == Spec => []TypeOK
<1>1. Inv => TypeOK
  BY DEF Inv
<1>2. QED
  BY <1>1, Invariance, PTL

\* No session that ended keeps its call blocked (registerCallID against
\* deregisterCallID), whatever its clients do and whenever a worker dies.
THEOREM KeysNameLiveSessions == Spec => []KeyNamesLiveSession
<1>1. Inv => KeyNamesLiveSession
  BY DEF Inv, KeyInv, KeyNamesLiveSession
<1>2. QED
  BY <1>1, Invariance, PTL

\* No served session is without its closeTimeout, for every kind of server.
THEOREM TimersGuardSessions == Spec => []TimerGuardsSession
<1>1. Inv => TimerGuardsSession
  BY DEF Inv, TypeOK, SessionInv, TimerGuardsSession
<1>2. QED
  BY <1>1, Invariance, PTL

\* Every served session is in the listing, for every kind of server.
THEOREM LiveSessionsListed == Spec => []LiveSessionListed
<1>1. Inv => LiveSessionListed
  BY DEF Inv, TypeOK, SessionInv, LiveSessionListed
<1>2. QED
  BY <1>1, Invariance, PTL

\* With disciplined clients a session holds its call for as long as it is
\* served and not being closed.
THEOREM LiveSessionsHoldKeys ==
  ASSUME Disciplined PROVE Spec => []LiveSessionHoldsKey
<1>1. Inv => LiveSessionHoldsKey
  BY Disciplined DEF Inv, TypeOK, HolderInv, LiveSessionHoldsKey
<1>2. QED
  BY <1>1, Invariance, PTL

\* With disciplined clients no two sessions serve one call: the "processing"
\* answer of registerCallID is missed only when two starts overlap or a session
\* is closed twice at once, which the run rtp_overlap shows.
THEOREM OneAtATime ==
  ASSUME Disciplined PROVE Spec => []OneSessionPerCall
<1>1. ASSUME Inv PROVE OneSessionPerCall
  <2> SUFFICES ASSUME NEW s \in sessionById, NEW o \in sessionById,
                      \A p \in ClosePhases : closing[s][p] = 0 /\ closing[o][p] = 0,
                      callID1[s] = callID1[o]
               PROVE  s = o
    BY DEF OneSessionPerCall
  <2>1. s \in Session /\ o \in Session
    BY <1>1 DEF Inv, TypeOK
  <2>2. closing[s]["unsubscribe"] = 0 /\ closing[o]["unsubscribe"] = 0
    BY DEF ClosePhases
  <2>3. callKey[callID1[s]] = s /\ callKey[callID1[o]] = o
    BY <1>1, <2>1, <2>2, Disciplined DEF Inv, HolderInv
  <2> QED
    BY <2>3
<1>2. QED
  BY <1>1, Invariance, PTL

-----------------------------------------------------------------------------
(***************************************************************************)
(* The manager implements the abstract registry.                           *)
(***************************************************************************)

\* The phase of a session as its state says it.
Holding(s) ==
  \/ start[s] = "subscribe"
  \/ s \in sessionById /\ closing[s]["unsubscribe"] = 0

LEMMA PhaseIs ==
  ASSUME NEW s \in Session, SessionInv(s)
  PROVE  /\ start[s] \in {"none", "get", "setex"} => Phase(s) = "new"
         /\ start[s] = "lost" => Phase(s) = "lost"
         /\ Holding(s) => Phase(s) = "holds"
         /\ /\ start[s] \notin {"none", "get", "setex", "lost"}
            /\ ~Holding(s)
            => Phase(s) = "over"
BY DEF Phase, Holding, SessionInv, Unserved

\* The same after a step.
LEMMA PhaseBecomes ==
  ASSUME NEW s \in Session, SessionInv(s)'
  PROVE  /\ start'[s] \in {"none", "get", "setex"} => Phase(s)' = "new"
         /\ start'[s] = "lost" => Phase(s)' = "lost"
         /\ Holding(s)' => Phase(s)' = "holds"
         /\ /\ start'[s] \notin {"none", "get", "setex", "lost"}
            /\ ~Holding(s)'
            => Phase(s)' = "over"
BY DEF Phase, Holding, SessionInv, Unserved

LEMMA PhaseKept ==
  ASSUME NEW s \in Session,
         start'[s] = start[s],
         s \in sessionById' <=> s \in sessionById,
         closing'[s]["unsubscribe"] = closing[s]["unsubscribe"]
  PROVE  Phase(s)' = Phase(s)
BY DEF Phase

LEMMA RegistryInit == Init => Registry!Init
BY DEF Init, Registry!Init, Phases, Phase

\* A step that changes the state of one session changes its phase alone.
LEMMA OnePhase ==
  ASSUME NEW s \in Session, \A t \in Session \ {s} : Phase(t)' = Phase(t)
  PROVE  /\ Phases' = [Phases EXCEPT ![s] = Phase(s)']
         /\ Phase(s)' = Phase(s) => Phases' = Phases
BY DEF Phases

LEMMA RegistryStartStep ==
  ASSUME Disciplined, Inv, Inv', NEW s \in Session, StartStep(s)
  PROVE  [Registry!Next]_<<callKey, Phases>>
<1> USE DEF Inv, TypeOK, Disciplined
<1>0. Phases[s] = Phase(s)
  BY DEF Phases
<1>1. \A t \in Session \ {s} : Phase(t)' = Phase(t)
  <2> SUFFICES ASSUME NEW t \in Session \ {s} PROVE Phase(t)' = Phase(t)
    OBVIOUS
  <2>1. /\ start'[t] = start[t]
        /\ t \in sessionById' <=> t \in sessionById
        /\ closing'[t] = closing[t]
    BY DEF StartStep, StartSession, CallIsProcessing, CallIsFree,
           RegisterCallID, Subscribe, SetSessionRedis, RecvContext,
           SessionStarted, SessionStartFails, SetSessionRedisAgain, Refuse,
           CloseSession, CloseFound, CloseNotFound, closeVars
  <2>2. QED
    BY <2>1, PhaseKept
<1>2. CASE RegisterCallID(s)
  <2>1. start[s] = "setex" /\ callID1[s] \in CallID
    BY <1>2 DEF RegisterCallID, KeyInv
  <2>2. callKey[callID1[s]] = NoSession
    BY <2>1 DEF HolderInv
  <2>3. callKey' = [callKey EXCEPT ![callID1[s]] = s] /\ start'[s] = "subscribe"
    BY <1>2, <2>1 DEF RegisterCallID
  <2>4. Phase(s) = "new" /\ Phase(s)' = "holds"
    BY <2>1, <2>3, PhaseIs, PhaseBecomes DEF Holding
  <2>5. Registry!Acquire(s, callID1[s])
    BY <1>0, <1>1, <2>2, <2>3, <2>4, OnePhase DEF Registry!Acquire
  <2>6. QED
    BY <2>1, <2>5 DEF Registry!Next
<1>3. CASE CallIsProcessing(s)
  <2>1. start[s] = "get"
    BY <1>3 DEF CallIsProcessing, KeyInv
  <2>2. s \notin sessionById
    BY <2>1 DEF SessionInv, Unserved
  <2>3. callKey' = callKey /\ start'[s] = "failed" /\ sessionById' = sessionById
    BY <1>3 DEF CallIsProcessing, Refuse
  <2>4. Phase(s) = "new" /\ Phase(s)' = "over"
    BY <2>1, <2>2, <2>3, PhaseIs, PhaseBecomes DEF Holding
  <2>5. Registry!Refuse(s)
    BY <1>0, <1>1, <2>3, <2>4, OnePhase DEF Registry!Refuse
  <2>6. QED
    BY <2>5 DEF Registry!Next
<1>4. CASE ~RegisterCallID(s) /\ ~CallIsProcessing(s)
  <2>1. callKey' = callKey
    BY <1>4 DEF StartStep, StartSession, CallIsFree, Subscribe,
                SetSessionRedis, RecvContext, SessionStarted,
                SessionStartFails, SetSessionRedisAgain
  <2>2. start[s] # "lost" /\ start'[s] # "lost"
    BY <1>4 DEF StartStep, StartSession, CallIsFree, Subscribe,
                SetSessionRedis, RecvContext, SessionStarted,
                SessionStartFails, SetSessionRedisAgain, Refuse
  <2>3. start[s] \in {"none", "get", "setex"}
          <=> start'[s] \in {"none", "get", "setex"}
    BY <1>4 DEF StartStep, StartSession, CallIsFree, Subscribe,
                SetSessionRedis, RecvContext, SessionStarted,
                SessionStartFails, SetSessionRedisAgain, Refuse
  <2>4. Holding(s)' <=> Holding(s)
    <3>1. CASE Subscribe(s)
      BY <3>1 DEF Subscribe, Holding, SessionInv, Unserved, ClosePhases,
                  closeVars
    <3>2. CASE ~Subscribe(s)
      <4>1. sessionById' = sessionById
        BY <1>4, <3>2 DEF StartStep, StartSession, CallIsFree,
           SetSessionRedis, RecvContext, SessionStarted, SessionStartFails,
           SetSessionRedisAgain
      <4>2. start[s] = "subscribe" <=> start'[s] = "subscribe"
        BY <1>4, <3>2 DEF StartStep, StartSession, CallIsFree,
           SetSessionRedis, RecvContext, SessionStarted, SessionStartFails,
           SetSessionRedisAgain, Refuse
      <4>3. CASE closing' = closing
        BY <4>1, <4>2, <4>3 DEF Holding
      <4>4. CASE CloseSession(s) /\ kind = "rtp"
        <5>1. s \in sessionById => callID1[s] # NoCall
          BY ConstantsAssumption DEF KeyInv, SessionInv, Unserved
        <5>2. closing'[s]["unsubscribe"] = closing[s]["unsubscribe"]
          BY <4>4, <5>1 DEF CloseSession, CloseFound, CloseNotFound,
                            ClosePhases
        <5>3. QED
          BY <4>1, <4>2, <5>2 DEF Holding
      <4>5. QED
        BY <1>4, <3>2, <4>3, <4>4 DEF StartStep, StartSession, CallIsFree,
           SetSessionRedis, RecvContext, SessionStarted, SessionStartFails,
           SetSessionRedisAgain, Refuse, closeVars
    <3>3. QED
      BY <3>1, <3>2
  <2>5. Phase(s)' = Phase(s)
    BY <2>2, <2>3, <2>4, PhaseIs, PhaseBecomes
  <2>6. QED
    BY <1>1, <2>1, <2>5, OnePhase
<1>5. QED
  BY <1>2, <1>3, <1>4

LEMMA RegistryCloseStep ==
  ASSUME Disciplined, Inv, Inv', NEW s \in Session, CloseStep(s)
  PROVE  [Registry!Next]_<<callKey, Phases>>
<1> USE DEF Inv, TypeOK, Disciplined
<1>0. Phases[s] = Phase(s)
  BY DEF Phases
<1>1. \A t \in Session \ {s} : Phase(t)' = Phase(t)
  <2> SUFFICES ASSUME NEW t \in Session \ {s} PROVE Phase(t)' = Phase(t)
    OBVIOUS
  <2>1. /\ start'[t] = start[t]
        /\ t \in sessionById' <=> t \in sessionById
        /\ closing'[t] = closing[t]
    BY DEF CloseStep, Deregister, Unsubscribe, RemoveFromTable, SessionClosed
  <2>2. QED
    BY <2>1, PhaseKept
<1>2. CASE Deregister(s)
  <2>1. /\ callKey[callID1[s]] = s /\ s \in sessionById
        /\ closing[s]["unsubscribe"] = 0
    BY <1>2 DEF Deregister, HolderInv, ClosePhases
  <2>2. start[s] \notin {"none", "get", "setex", "subscribe", "lost"}
    BY <2>1 DEF SessionInv, Unserved
  <2>3. callID1[s] \in CallID
    BY <2>2 DEF KeyInv
  <2>4. /\ callKey' = [callKey EXCEPT ![callID1[s]] = NoSession]
        /\ start' = start
        /\ closing'[s]["unsubscribe"] = 1
    BY <1>2, <2>1 DEF Deregister, DelKey, ClosePhases
  <2>5. Phase(s) = "holds" /\ Phase(s)' = "over"
    BY <2>1, <2>2, <2>4, PhaseIs, PhaseBecomes DEF Holding
  <2>6. Registry!Release(s, callID1[s])
    BY <1>0, <1>1, <2>1, <2>4, <2>5, OnePhase DEF Registry!Release
  <2>7. QED
    BY <2>3, <2>6 DEF Registry!Next
<1>3. CASE ~Deregister(s)
  <2>1. callKey' = callKey /\ start' = start
    BY <1>3 DEF CloseStep, Unsubscribe, RemoveFromTable, SessionClosed
  <2>2. Holding(s)' <=> Holding(s)
    <3>1. CASE Unsubscribe(s)
      BY <3>1 DEF Unsubscribe, Holding, ClosePhases
    <3>2. CASE ~Unsubscribe(s)
      BY <1>3, <3>2 DEF CloseStep, RemoveFromTable, SessionClosed, Holding,
                        ClosePhases
    <3>3. QED
      BY <3>1, <3>2
  <2>3. Phase(s)' = Phase(s)
    <3>1. CASE Holding(s)
      BY <2>2, <3>1, PhaseIs, PhaseBecomes
    <3>2. CASE ~Holding(s)
      <4>1. ~Holding(s)' /\ start'[s] = start[s]
        BY <2>1, <2>2, <3>2
      <4>2. QED
        BY <3>2, <4>1, PhaseIs, PhaseBecomes
    <3>3. QED
      BY <3>1, <3>2
  <2>4. QED
    BY <1>1, <2>1, <2>3, OnePhase
<1>4. QED
  BY <1>2, <1>3

\* An RTP session is given up by its closeSession, by nothing else.
LEMMA RegistryTriggerStep ==
  ASSUME Disciplined, Inv, NEW s \in Session, Trigger(s)
  PROVE  UNCHANGED <<callKey, Phases>>
<1> USE DEF Inv, TypeOK, Disciplined
<1>1. callKey' = callKey /\ start' = start /\ sessionById' = sessionById
  BY DEF Trigger, SessionTimeout, SocketClosed, Publish, RecvTerminate, idVars
<1>2. \A t \in Session :
        closing'[t]["unsubscribe"] = closing[t]["unsubscribe"]
  <2>1. \A t \in Session : callID1[t] = NoCall => t \notin sessionById
    BY ConstantsAssumption DEF KeyInv, SessionInv, Unserved
  <2>2. QED
    BY <2>1 DEF Trigger, SessionTimeout, SocketClosed, Publish, RecvTerminate,
                CloseSession, CloseFound, CloseNotFound, ClosePhases
<1>3. QED
  BY <1>1, <1>2, PhaseKept DEF Phases

LEMMA RegistryTerminateStep ==
  ASSUME Disciplined, Inv, NEW r \in Request, NEW w \in Worker, Terminate(r, w)
  PROVE  UNCHANGED <<callKey, Phases>>
<1> USE DEF Inv, TypeOK, Disciplined
<1>1. callKey' = callKey /\ start' = start /\ sessionById' = sessionById
  BY DEF Terminate, TerminateBySessionId, TerminateByCallID
<1>2. \A t \in Session :
        closing'[t]["unsubscribe"] = closing[t]["unsubscribe"]
  <2>1. \A t \in Session : callID1[t] = NoCall => t \notin sessionById
    BY ConstantsAssumption DEF KeyInv, SessionInv, Unserved
  <2>2. QED
    BY <2>1 DEF Terminate, TerminateBySessionId, TerminateByCallID, closeVars,
                CloseSession, CloseFound, CloseNotFound, ClosePhases
<1>3. QED
  BY <1>1, <1>2, PhaseKept DEF Phases

\* The sessions that a crash takes away, and nobody else, are lost.
LEMMA LosePhases ==
  ASSUME Inv, Inv', NEW dead \in SUBSET Session, Lose(dead)
  PROVE  Phases' = Registry!LoseTo(dead)
<1> USE DEF Inv, TypeOK
<1>1. ASSUME NEW s \in dead PROVE Phase(s)' = "lost"
  BY <1>1, PhaseBecomes DEF Lose
<1>2. ASSUME NEW s \in Session \ dead PROVE Phase(s)' = Phase(s)
  BY <1>2, PhaseKept DEF Lose
<1>3. QED
  BY <1>1, <1>2 DEF Phases, Registry!LoseTo

LEMMA RegistryCrash ==
  ASSUME Disciplined, Inv, Inv', NEW w \in Worker, WorkerCrash(w)
  PROVE  [Registry!Next]_<<callKey, Phases>>
<1> DEFINE gone == {s \in Session : home[s] = w}
<1>1. callKey' = callKey /\ Lose(gone)
  BY DEF WorkerCrash
<1>2. gone \in SUBSET Session
  OBVIOUS
<1>3. Registry!Lose
  BY <1>1, <1>2, LosePhases DEF Registry!Lose
<1>4. QED
  BY <1>3 DEF Registry!Next

LEMMA RegistryRestart ==
  ASSUME Disciplined, Inv, Inv', MasterRestart
  PROVE  [Registry!Next]_<<callKey, Phases>>
<1> DEFINE gone == {s \in Session : home[s] # NoWorker}
<1> USE DEF Inv, TypeOK, Disciplined
<1>1. callKey' = [c \in CallID |-> NoSession] /\ Lose(gone)
  BY DEF MasterRestart
<1>2. \A c \in CallID : callKey[c] \in gone \cup {NoSession}
  BY DEF KeyInv, SessionInv
<1>3. gone \in SUBSET Session
  OBVIOUS
<1>4. Registry!Reset
  BY <1>1, <1>2, <1>3, LosePhases DEF Registry!Reset
<1>5. QED
  BY <1>4 DEF Registry!Next

\* Only keys of lost sessions live long enough to expire.
LEMMA RegistryExpiry ==
  ASSUME Disciplined, Inv, NEW c \in CallID, CallIDExpires(c)
  PROVE  [Registry!Next]_<<callKey, Phases>>
<1> USE DEF Inv, TypeOK, Disciplined
<1> DEFINE s == callKey[c]
<1>1. s \in Session
  BY DEF CallIDExpires
<1>2. start[s] = "lost"
  BY <1>1 DEF CallIDExpires, KeyInv, SessionInv
<1>3. Phases[s] = "lost"
  BY <1>1, <1>2, PhaseIs DEF Phases
<1>4. callKey' = [callKey EXCEPT ![c] = NoSession]
  BY DEF CallIDExpires
<1>5. Phases' = Phases
  BY PhaseKept DEF Phases, CallIDExpires, closeVars
<1>6. Registry!Expire(s, c)
  BY <1>3, <1>4, <1>5 DEF Registry!Expire
<1>7. QED
  BY <1>1, <1>6 DEF Registry!Next

LEMMA RegistryStep ==
  ASSUME Disciplined, Inv, Inv', [Next]_allVars
  PROVE  [Registry!Next]_<<callKey, Phases>>
<1>1. ASSUME NEW s \in Session, StartStep(s)
      PROVE  [Registry!Next]_<<callKey, Phases>>
  BY <1>1, RegistryStartStep
<1>2. ASSUME NEW s \in Session, CloseStep(s)
      PROVE  [Registry!Next]_<<callKey, Phases>>
  BY <1>2, RegistryCloseStep
<1>3. ASSUME NEW s \in Session, Trigger(s)
      PROVE  [Registry!Next]_<<callKey, Phases>>
  BY <1>3, RegistryTriggerStep
<1>4. ASSUME NEW r \in Request, NEW w \in Worker, Terminate(r, w)
      PROVE  [Registry!Next]_<<callKey, Phases>>
  BY <1>4, RegistryTerminateStep
<1>5. ASSUME NEW q \in lookups, LookupCallID(q)
      PROVE  [Registry!Next]_<<callKey, Phases>>
  BY <1>5, PhaseKept DEF LookupCallID, Phases
<1>6. ASSUME NEW w \in Worker, WorkerCrash(w)
      PROVE  [Registry!Next]_<<callKey, Phases>>
  BY <1>6, RegistryCrash
<1>7. ASSUME NEW c \in CallID, CallIDExpires(c)
      PROVE  [Registry!Next]_<<callKey, Phases>>
  BY <1>7, RegistryExpiry
<1>8. CASE UNCHANGED allVars
  BY <1>8, PhaseKept DEF vars, allVars, Phases
<1>9. QED
  BY <1>1, <1>2, <1>3, <1>4, <1>5, <1>6, <1>7, <1>8, RegistryRestart DEF Next, Step

\* With disciplined clients the keys in Redis behave as a registry in which a
\* call has one holder at a time: it is freed in the step in which its own
\* session deregisters, or when that session is lost, and by no other close.
THEOREM RegistryImplemented ==
  ASSUME Disciplined PROVE Spec => ImplementsCallRegistry
<1>1. Inv /\ Inv' /\ [Next]_allVars => [Registry!Next]_<<callKey, Phases>>
  BY Disciplined, RegistryStep
<1>2. QED
  BY <1>1, RegistryInit, Invariance, PTL
  DEF Spec, ImplementsCallRegistry, Registry!Spec

=============================================================================
