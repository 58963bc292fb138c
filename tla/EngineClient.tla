---------------------------- MODULE EngineClient ----------------------------
(***************************************************************************)
(* One engine client (engine_client.js): a socket.io connection to the     *)
(* analysis engine, an ffmpeg process that converts the audio, and the     *)
(* calls start(), sendBuffer() and close() of the session that owns it.    *)
(*                                                                         *)
(* One action is one callback or one call, up to its next await.  close()  *)
(* may be called again while a call of it waits, by the session or by the  *)
(* client itself when the engine reports an error; every call adds its own *)
(* timer and its own listeners.  Audio is counted in units of one          *)
(* sendBuffer.                                                             *)
(***************************************************************************)
EXTENDS Naturals, Sequences, SequencesExt

CONSTANTS
  BUFFER_SIZE,  \* buffer_size: an emit happens when more than this waits
  MaxAudio,     \* bounds the buffers that the session sends
  Scenarios     \* sets of faults; a behaviour has those of one of them

(***************************************************************************)
(*   "refused"        the engine refuses the handshake                     *)
(*   "noFfmpeg"       ffmpeg cannot be spawned                             *)
(*   "unreachable"    the engine cannot be connected to at first           *)
(*   "slowFfmpeg"     close() is called before ffmpeg has converted all    *)
(*   "analysisError"  the engine reports an error during the analysis      *)
(*   "completedError" ... or at its end                                    *)
(*   "early"          close() is called while start() runs                 *)
(*   "impatient"      sendBuffer() is called before start() has resolved   *)
(*   "double"         the session calls close() while a call of it waits   *)
(***************************************************************************)
Fault == {"refused", "noFfmpeg", "unreachable", "slowFfmpeg", "analysisError",
          "completedError", "early", "impatient", "double"}

ASSUME EngineAssumption ==
  /\ BUFFER_SIZE \in Nat \ {0}
  /\ MaxAudio \in Nat
  /\ Scenarios \subseteq SUBSET Fault

VARIABLES
  faults,       \* the scenario
  start,        \* where start() is
  socket,       \* whether this.socket is set
  connection,   \* the connection itself
  ffmpeg_c,     \* whether this.ffmpeg_c is set
  ffmpeg,       \* the process itself
  closing,      \* this.closing
  dataSent,     \* this.dataSent
  bytes,        \* audio taken by sendBuffer
  piped,        \* audio that ffmpeg has not put out
  buffer_store, \* audio that ffmpeg has put out, not sent to the engine
  sent,         \* audio sent to the engine
  engine,       \* what the engine has been told and has answered
  closes,       \* the calls of close()
  listeners,    \* close() calls in the order in which they added listeners
  timers        \* close() calls whose disconnectTimeout is armed

vars == <<start, socket, connection, ffmpeg_c, ffmpeg, closing, dataSent,
          bytes, piped, buffer_store, sent, engine, closes, listeners, timers>>
allVars == <<faults, vars>>

audioVars == <<bytes, piped, buffer_store, sent>>
closeVars == <<closing, closes, listeners, timers>>

\* The session calls close(), and perhaps again; the client calls it when an
\* analysis fails or ends with an error.
SessionCalls == {"session", "again"}
CloseCall == SessionCalls \cup {"analysisError", "completedError"}

Settled == {"running", "failed"}

TypeOK ==
  /\ faults \in Scenarios
  /\ start \in {"none", "connect", "spawn", "handshake"} \cup Settled
  /\ socket \in BOOLEAN
  /\ connection \in {"none", "connecting", "up", "down"}
  /\ ffmpeg_c \in BOOLEAN
  /\ ffmpeg \in {"none", "spawning", "running", "ended"}
  /\ closing \in BOOLEAN
  /\ dataSent \in BOOLEAN
  /\ bytes \in Nat /\ piped \in Nat /\ buffer_store \in Nat /\ sent \in Nat
  /\ engine \in {"idle", "eof", "fetch", "ready"}
  /\ closes \in [CloseCall -> {"idle", "waiting", "resolved"}]
  /\ listeners \in Seq(CloseCall)
  /\ timers \subseteq {c \in CloseCall : closes[c] = "waiting"}

Init ==
  /\ faults \in Scenarios
  /\ start = "none"
  /\ socket = FALSE
  /\ connection = "none"
  /\ ffmpeg_c = FALSE
  /\ ffmpeg = "none"
  /\ closing = FALSE
  /\ dataSent = FALSE
  /\ bytes = 0 /\ piped = 0 /\ buffer_store = 0 /\ sent = 0
  /\ engine = "idle"
  /\ closes = [c \in CloseCall |-> "idle"]
  /\ listeners = <<>>
  /\ timers = {}

-----------------------------------------------------------------------------
(***************************************************************************)
(* start(): connect, spawn ffmpeg, shake hands.                            *)
(***************************************************************************)
Start ==
  /\ start = "none"
  /\ start' = "connect"
  /\ connection' = "connecting"
  /\ UNCHANGED <<socket, ffmpeg_c, ffmpeg, dataSent, audioVars, engine,
                 closeVars>>

\* 'connect'.  A start() that was rejected is not resolved any more.
Connected ==
  /\ connection = "connecting"
  /\ connection' = "up"
  /\ \/ /\ start = "connect"
        /\ start' = "spawn"
        /\ socket' = TRUE
        /\ ffmpeg' = "spawning"
     \/ /\ start # "connect"
        /\ UNCHANGED <<start, socket, ffmpeg>>
  /\ UNCHANGED <<ffmpeg_c, dataSent, audioVars, engine, closeVars>>

\* 'connect_error': start() rejects, socket.io goes on trying.
ConnectError ==
  /\ "unreachable" \in faults
  /\ connection = "connecting"
  /\ start = "connect"
  /\ start' = "failed"
  /\ UNCHANGED <<socket, connection, ffmpeg_c, ffmpeg, dataSent, audioVars,
                 engine, closeVars>>

\* ffmpeg was spawned, or was not and start() goes on without it.  The
\* handshake is a TypeError if this.socket is gone.
Spawned ==
  /\ start = "spawn"
  /\ \/ /\ ffmpeg' = "running"
        /\ ffmpeg_c' = TRUE
     \/ /\ "noFfmpeg" \in faults
        /\ ffmpeg' = "none"
        /\ UNCHANGED ffmpeg_c
  /\ start' = IF socket THEN "handshake" ELSE "failed"
  /\ UNCHANGED <<socket, connection, dataSent, audioVars, engine, closeVars>>

\* 'handshake-done'.
HandshakeDone ==
  /\ start = "handshake"
  /\ connection = "up"
  /\ \/ start' = "running"
     \/ "refused" \in faults /\ start' = "failed"
  /\ UNCHANGED <<socket, connection, ffmpeg_c, ffmpeg, dataSent, audioVars,
                 engine, closeVars>>

-----------------------------------------------------------------------------
(***************************************************************************)
(* The audio.                                                              *)
(***************************************************************************)
\* calBufferSize: what one sendBuffer takes out of buffer_store.
Chunk == IF buffer_store > BUFFER_SIZE THEN BUFFER_SIZE ELSE 0

\* Line 491.  Mutant: the test forgotten.
AnyTime == TRUE
Accepting == ~closing

\* sendBuffer().  ffmpeg answers later: what is emitted came from earlier calls.
\* Without a socket it throws: see WorkerSurvives of SocketIoSession.
SendBuffer ==
  /\ start = "running" \/ "impatient" \in faults
  /\ socket
  /\ bytes < MaxAudio
  /\ Accepting
  /\ dataSent' = TRUE
  /\ bytes' = bytes + 1
  /\ \/ /\ ffmpeg_c
        /\ piped' = piped + 1
        /\ buffer_store' = buffer_store - Chunk
        /\ sent' = sent + Chunk
     \/ /\ ~ffmpeg_c
        /\ sent' = sent + 1
        /\ UNCHANGED <<piped, buffer_store>>
  /\ UNCHANGED <<start, socket, connection, ffmpeg_c, ffmpeg, engine,
                 closeVars>>

\* ffmpeg's stdout: it goes on after the end of its input.
FfmpegData ==
  /\ piped > 0
  /\ piped' = piped - 1
  /\ buffer_store' = buffer_store + 1
  /\ UNCHANGED <<start, socket, connection, ffmpeg_c, ffmpeg, closing,
                 dataSent, bytes, sent, engine, closes, listeners, timers>>

-----------------------------------------------------------------------------
(***************************************************************************)
(* close().                                                                *)
(***************************************************************************)

\* sendZeroBuffer: what was converted is sent, then a buffer of length 0 that
\* ends the audio.  Mutant: the rest of buffer_store is forgotten.
EndOnly ==
  /\ ffmpeg' = IF ffmpeg_c THEN "ended" ELSE ffmpeg
  /\ engine' = IF engine = "idle" THEN "eof" ELSE engine
  /\ UNCHANGED audioVars

SendZeroBuffer ==
  /\ \/ /\ ffmpeg_c
        /\ ffmpeg' = "ended"
        /\ sent' = sent + buffer_store
        /\ buffer_store' = 0
     \/ /\ ~ffmpeg_c
        /\ UNCHANGED <<ffmpeg, sent, buffer_store>>
  /\ engine' = IF engine = "idle" THEN "eof" ELSE engine
  /\ UNCHANGED <<bytes, piped>>

Disconnect == socket' = FALSE /\ connection' = "down"

\* Mutant: a client that never sent anything is not disconnected.
ForgetSocket(c) == socket' = FALSE /\ UNCHANGED connection
DisconnectUnused(c) == Disconnect

CloseUnconnected(c) ==
  /\ ~socket
  /\ closes' = [closes EXCEPT ![c] = "resolved"]
  /\ UNCHANGED <<socket, connection, ffmpeg, audioVars, engine, listeners,
                 timers>>

CloseUnused(c) ==
  /\ socket
  /\ ~dataSent
  /\ SendZeroBuffer
  /\ DisconnectUnused(c)
  /\ closes' = [closes EXCEPT ![c] = "resolved"]
  /\ UNCHANGED <<listeners, timers>>

\* The engine has audio: wait for its report, or for disconnectTimeout.
\* Mutant: no disconnectTimeout.
NoTimer(c) == timers
ArmTimer(c) == timers \cup {c}

CloseAndWait(c) ==
  /\ socket
  /\ dataSent
  /\ SendZeroBuffer
  /\ closes' = [closes EXCEPT ![c] = "waiting"]
  /\ timers' = ArmTimer(c)
  /\ listeners' = Append(listeners, c)
  /\ UNCHANGED <<socket, connection>>

CloseCalled(c) ==
  /\ closes[c] = "idle"
  /\ "slowFfmpeg" \in faults \/ piped = 0
  /\ closing' = TRUE
  /\ CloseUnconnected(c) \/ CloseUnused(c) \/ CloseAndWait(c)

\* The session closes its client.
Close(c) ==
  /\ start # "none"
  /\ "early" \in faults \/ start \in Settled
  /\ \/ c = "session"
     \/ /\ c = "again"
        /\ \/ closes["session"] = "resolved"
           \/ "double" \in faults /\ closes["session"] = "waiting"
  /\ CloseCalled(c)
  /\ UNCHANGED <<start, ffmpeg_c, dataSent>>

\* disconnectTimeout, the oldest one first.  Without a socket the call is not
\* resolved.
DisconnectTimeout(c) ==
  /\ c \in timers
  /\ \E i \in DOMAIN listeners :
       listeners[i] = c /\ \A j \in 1 .. i - 1 : listeners[j] \notin timers
  /\ timers' = timers \ {c}
  /\ \/ /\ socket
        /\ Disconnect
        /\ closes' = [closes EXCEPT ![c] = "resolved"]
     \/ /\ ~socket
        /\ UNCHANGED <<socket, connection, closes>>
  /\ UNCHANGED <<start, ffmpeg_c, ffmpeg, closing, dataSent, audioVars, engine,
                 listeners>>

-----------------------------------------------------------------------------
(***************************************************************************)
(* What the engine says.                                                   *)
(***************************************************************************)

\* 'audio-analysis' without success: the client closes itself.
AnalysisError ==
  /\ "analysisError" \in faults
  /\ start = "running" /\ connection = "up" /\ engine \in {"idle", "eof"}
  /\ CloseCalled("analysisError")
  /\ UNCHANGED <<start, ffmpeg_c, dataSent>>

\* 'audio-analysis-completed': the close() calls that wait emit the last
\* segment and ask for the report.
Completed ==
  /\ engine = "eof" /\ connection = "up" /\ listeners # <<>>
  /\ engine' = "fetch"
  /\ UNCHANGED <<start, socket, connection, ffmpeg_c, ffmpeg, dataSent,
                 audioVars, closeVars>>

\* ... without success: the client closes itself.
CompletedError ==
  /\ "completedError" \in faults
  /\ engine = "eof" /\ connection = "up" /\ listeners # <<>>
  /\ CloseCalled("completedError")
  /\ UNCHANGED <<start, ffmpeg_c, dataSent>>

ClearTimers(ls) == timers \ ToSet(ls)

\* 'analysis-report-ready': every listener stops its timer, and the first one
\* that finds a socket disconnects it and resolves its call.
ReportReady ==
  /\ engine = "fetch" /\ connection = "up"
  /\ engine' = "ready"
  /\ timers' = ClearTimers(listeners)
  /\ Disconnect
  /\ closes' = [closes EXCEPT ![Head(listeners)] = "resolved"]
  /\ UNCHANGED <<start, ffmpeg_c, ffmpeg, closing, dataSent, audioVars,
                 listeners>>

Next ==
  /\ \/ Start \/ Connected \/ ConnectError \/ Spawned \/ HandshakeDone
     \/ SendBuffer \/ FfmpegData
     \/ \E c \in SessionCalls : Close(c)
     \/ \E c \in CloseCall : DisconnectTimeout(c)
     \/ AnalysisError \/ Completed \/ CompletedError \/ ReportReady
  /\ UNCHANGED faults

Spec == Init /\ [][Next]_allVars

(***************************************************************************)
(* Timers fire, processes start, and the engine accepts a connection and   *)
(* answers a handshake.  That it ever reports an analysis is not assumed.  *)
(***************************************************************************)
FairSpec ==
  /\ Spec
  /\ WF_vars(Connected) /\ WF_vars(Spawned) /\ WF_vars(HandshakeDone)
  /\ \A c \in CloseCall : WF_vars(DisconnectTimeout(c))

-----------------------------------------------------------------------------
(***************************************************************************)
(* Properties.                                                             *)
(***************************************************************************)

\* After close() nothing of the client is left: once start() has settled and a
\* close() of the session has returned, the engine is disconnected and ffmpeg
\* has been told to end, if the session waits for start() and socket.io does
\* not go on connecting after a connect_error.
NothingLeaks ==
  (/\ faults \cap {"early", "unreachable"} = {}
   /\ start \in Settled
   /\ \E c \in SessionCalls : closes[c] = "resolved") =>
    /\ connection \in {"none", "down"}
    /\ ffmpeg \in {"none", "ended"}

\* The engine gets all the audio before it is told that the audio ends: "after
\* term ... all pending results are returned" (esas-dev-v2.md:59).
EngineGetsAll == engine # "idle" => sent = bytes

\* ... which holds for the audio that ffmpeg has converted when close() comes.
EngineGetsConverted == "slowFfmpeg" \notin faults => EngineGetsAll

\* No audio follows the buffer that ends it, whoever calls sendBuffer and
\* close() in whatever order, if ffmpeg has converted it by then.
AudioEnds ==
  [][("slowFfmpeg" \notin faults /\ engine # "idle") => sent' = sent]_vars

\* The owner of an engine client sees no more of all this than EngineContract:
\* close() makes its caller wait if and only if the engine has got audio; of the
\* calls that wait the first one returns and no other, whatever ends the waiting
\* (the report, a timer, an error); and a client that was closed, were it before
\* it had a socket (line 423), takes no audio when start() goes on.
Reporting == socket /\ listeners # <<>>

ClientState ==
  CASE start = "none"                              -> "none"
    [] start # "none" /\ Reporting                 -> "closing"
    [] start # "none" /\ ~Reporting /\ closing     -> "closed"
    [] OTHER                                       -> "open"

FirstCall ==
  CASE ~Reporting                                       -> "none"
    [] Reporting /\ Head(listeners) \in SessionCalls    -> Head(listeners)
    [] OTHER                                            -> "client"

Outcomes == [c \in SessionCalls |->
               IF closes[c] = "resolved" THEN "returned" ELSE closes[c]]

Contract == INSTANCE EngineContract WITH
  Call <- SessionCalls, Self <- "client", NoCall <- "none",
  state <- ClientState, fed <- dataSent, waiter <- FirstCall, calls <- Outcomes

ImplementsEngineContract == Contract!Spec

\* start() resolves or rejects, unless the session is closed in the meantime: a
\* request that starts a session is answered.  close() returns, even if the
\* engine never answers or reports errors: of the calls that wait, the one that
\* came first is resolved, by the report or by its disconnectTimeout.
CallsSettle ==
  /\ start # "none" ~> (start \in Settled \/ closing)
  /\ \A c \in CloseCall :
       (closes[c] = "waiting" /\ Head(listeners) = c) ~> closes[c] = "resolved"

=============================================================================
