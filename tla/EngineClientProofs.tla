------------------------- MODULE EngineClientProofs -------------------------
(***************************************************************************)
(* Proofs about one engine client, for every buffer size, every amount of  *)
(* audio and every scenario.                                               *)
(*                                                                         *)
(* Accounted: audio that was taken is in ffmpeg, in buffer_store or at the *)
(* engine.  Converted: if ffmpeg has converted what it has when close()    *)
(* comes, nothing is left of it once the engine is told that the audio     *)
(* ends.  CalmStart and CalmEnd tie the connection and the process to      *)
(* start() and to the calls of close(), if the session waits for start()   *)
(* and the engine can be connected to.  OwnerInv, which holds under every  *)
(* fault, says which calls of close() can be waiting; with it every step   *)
(* is one of EngineContract, or one that an owner does not notice, and     *)
(* the first call that waits has a timer.                                  *)
(***************************************************************************)
EXTENDS EngineClient, TLAPS

\* The type invariant in two parts: the provers treat truth values apart.
Flags ==
  /\ socket \in BOOLEAN /\ ffmpeg_c \in BOOLEAN
  /\ closing \in BOOLEAN /\ dataSent \in BOOLEAN

Progress == {"none", "connect", "spawn", "handshake"} \cup Settled

Values ==
  /\ faults \in Scenarios
  /\ start \in Progress
  /\ connection \in {"none", "connecting", "up", "down"}
  /\ ffmpeg \in {"none", "spawning", "running", "ended"}
  /\ bytes \in Nat /\ piped \in Nat /\ buffer_store \in Nat /\ sent \in Nat
  /\ engine \in {"idle", "eof", "fetch", "ready"}
  /\ closes \in [CloseCall -> {"idle", "waiting", "resolved"}]
  /\ listeners \in Seq(CloseCall)
  /\ timers \subseteq CloseCall

Timed == \A c \in timers : closes[c] = "waiting"

LEMMA Types == TypeOK <=> Flags /\ Values /\ Timed
BY DEF TypeOK, Flags, Values, Timed, Progress

LEMMA TypesNext == TypeOK' <=> Flags' /\ Values' /\ Timed'
BY DEF TypeOK, Flags, Values, Timed, Progress

-----------------------------------------------------------------------------
(***************************************************************************)
(* The invariant.                                                          *)
(***************************************************************************)
Accounted ==
  /\ bytes = sent + buffer_store + piped
  /\ ~ffmpeg_c => piped = 0 /\ buffer_store = 0

Called ==
  /\ engine # "idle" => closing
  /\ engine = "fetch" => listeners # <<>>
  /\ timers # {} => closing

Converted ==
  "slowFfmpeg" \notin faults =>
    /\ closing => piped = 0
    /\ engine # "idle" => buffer_store = 0

\* The session waits for start(), and the engine can be connected to.
Calm == faults \cap {"early", "unreachable"} = {}

LEMMA CalmFaults == Calm => "early" \notin faults /\ "unreachable" \notin faults
BY DEF Calm

\* start() runs alone.
CalmStart ==
  Calm =>
    /\ start \notin Settled => ~closing /\ \A c \in CloseCall : closes[c] = "idle"
    /\ start = "none" => connection = "none" /\ ~socket /\ ffmpeg = "none"
    /\ start = "connect" => connection = "connecting" /\ ~socket /\ ffmpeg = "none"
    /\ start \in {"spawn", "handshake"} => connection = "up" /\ socket
    /\ start = "spawn" => ffmpeg = "spawning"
    /\ start \in {"none", "connect", "spawn"} => ~ffmpeg_c
    /\ start \in {"handshake", "running", "failed"} /\ ~ffmpeg_c => ffmpeg = "none"

\* What it has opened is closed by the first call that resolves.
CalmEnd ==
  Calm =>
    /\ start \in Settled => connection \in {"up", "down"}
    /\ start \in Settled /\ socket => connection = "up"
    /\ start \in Settled /\ ~socket => connection = "down" /\ closing
    /\ closing => ffmpeg \in {"none", "ended"}
    /\ \A c \in CloseCall : closes[c] = "resolved" => ~socket

Inv == TypeOK /\ Accounted /\ Called /\ Converted /\ CalmStart /\ CalmEnd

-----------------------------------------------------------------------------
(***************************************************************************)
(* Every step preserves the invariant.                                     *)
(***************************************************************************)
LEMMA StartStep ==
  ASSUME Inv, Start, UNCHANGED faults
  PROVE  Inv'
<1>f. Flags
  BY Types DEF Inv
<1>v. Values
  BY Types DEF Inv
<1>t. Timed
  BY Types DEF Inv
<1>a. Accounted
  BY DEF Inv
<1>b. Called
  BY DEF Inv
<1>d. Converted
  BY DEF Inv
<1>s. CalmStart
  BY DEF Inv
<1>e. CalmEnd
  BY DEF Inv
<1>1. Flags'
  BY <1>f DEF Start, audioVars, closeVars, Flags
<1>2. Values'
  BY <1>v DEF Start, audioVars, closeVars, Values, Progress, Settled
<1>3. Timed'
  BY <1>t DEF Start, audioVars, closeVars, Timed
<1>4. Accounted'
  BY <1>a DEF Start, audioVars, closeVars, Accounted
<1>5. Called'
  BY <1>b DEF Start, audioVars, closeVars, Called
<1>6. Converted'
  BY <1>d DEF Start, audioVars, closeVars, Converted
<1>7. CalmStart'
  BY <1>s DEF Start, audioVars, closeVars, CalmStart, Calm, Settled
<1>8. CalmEnd'
  BY <1>e DEF Start, audioVars, closeVars, CalmEnd, Calm, Settled
<1>. QED
  BY <1>1, <1>2, <1>3, <1>4, <1>5, <1>6, <1>7, <1>8, TypesNext DEF Inv

LEMMA ConnectedStep ==
  ASSUME Inv, Connected, UNCHANGED faults
  PROVE  Inv'
<1>f. Flags
  BY Types DEF Inv
<1>v. Values
  BY Types DEF Inv
<1>t. Timed
  BY Types DEF Inv
<1>a. Accounted
  BY DEF Inv
<1>b. Called
  BY DEF Inv
<1>d. Converted
  BY DEF Inv
<1>s. CalmStart
  BY DEF Inv
<1>e. CalmEnd
  BY DEF Inv
<1>1. Flags'
  BY <1>f DEF Connected, audioVars, closeVars, Flags
<1>2. Values'
  BY <1>v DEF Connected, audioVars, closeVars, Values, Progress, Settled
<1>3. Timed'
  BY <1>t DEF Connected, audioVars, closeVars, Timed
<1>4. Accounted'
  BY <1>a DEF Connected, audioVars, closeVars, Accounted
<1>5. Called'
  BY <1>b DEF Connected, audioVars, closeVars, Called
<1>6. Converted'
  BY <1>d DEF Connected, audioVars, closeVars, Converted
<1>7. CalmStart'
  BY <1>s, <1>e, <1>v DEF Connected, audioVars, closeVars, CalmStart, Calm,
     Settled, CalmEnd, Values, Progress
<1>8. CalmEnd'
  BY <1>e, <1>s DEF Connected, audioVars, closeVars, CalmEnd, Calm, Settled,
     CalmStart
<1>. QED
  BY <1>1, <1>2, <1>3, <1>4, <1>5, <1>6, <1>7, <1>8, TypesNext DEF Inv

LEMMA ConnectErrorStep ==
  ASSUME Inv, ConnectError, UNCHANGED faults
  PROVE  Inv'
<1>f. Flags
  BY Types DEF Inv
<1>v. Values
  BY Types DEF Inv
<1>t. Timed
  BY Types DEF Inv
<1>a. Accounted
  BY DEF Inv
<1>b. Called
  BY DEF Inv
<1>d. Converted
  BY DEF Inv
<1>s. CalmStart
  BY DEF Inv
<1>e. CalmEnd
  BY DEF Inv
<1>1. Flags'
  BY <1>f DEF ConnectError, audioVars, closeVars, Flags
<1>2. Values'
  BY <1>v DEF ConnectError, audioVars, closeVars, Values, Progress, Settled
<1>3. Timed'
  BY <1>t DEF ConnectError, audioVars, closeVars, Timed
<1>4. Accounted'
  BY <1>a DEF ConnectError, audioVars, closeVars, Accounted
<1>5. Called'
  BY <1>b DEF ConnectError, audioVars, closeVars, Called
<1>6. Converted'
  BY <1>d DEF ConnectError, audioVars, closeVars, Converted
<1>7. CalmStart'
  BY <1>s, CalmFaults DEF ConnectError, audioVars, closeVars, CalmStart, Calm,
     Settled
<1>8. CalmEnd'
  BY <1>e, CalmFaults DEF ConnectError, audioVars, closeVars, CalmEnd, Calm, Settled
<1>. QED
  BY <1>1, <1>2, <1>3, <1>4, <1>5, <1>6, <1>7, <1>8, TypesNext DEF Inv

LEMMA SpawnedStep ==
  ASSUME Inv, Spawned, UNCHANGED faults
  PROVE  Inv'
<1>f. Flags
  BY Types DEF Inv
<1>v. Values
  BY Types DEF Inv
<1>t. Timed
  BY Types DEF Inv
<1>a. Accounted
  BY DEF Inv
<1>b. Called
  BY DEF Inv
<1>d. Converted
  BY DEF Inv
<1>s. CalmStart
  BY DEF Inv
<1>e. CalmEnd
  BY DEF Inv
<1>1. Flags'
  BY <1>f DEF Spawned, audioVars, closeVars, Flags
<1>2. Values'
  BY <1>v DEF Spawned, audioVars, closeVars, Values, Progress, Settled
<1>3. Timed'
  BY <1>t DEF Spawned, audioVars, closeVars, Timed
<1>4. Accounted'
  BY <1>a DEF Spawned, audioVars, closeVars, Accounted
<1>5. Called'
  BY <1>b DEF Spawned, audioVars, closeVars, Called
<1>6. Converted'
  BY <1>d DEF Spawned, audioVars, closeVars, Converted
<1>7. CalmStart'
  BY <1>s DEF Spawned, audioVars, closeVars, CalmStart, Calm, Settled
<1>8. CalmEnd'
  BY <1>e, <1>s DEF Spawned, audioVars, closeVars, CalmEnd, Calm, Settled, CalmStart
<1>. QED
  BY <1>1, <1>2, <1>3, <1>4, <1>5, <1>6, <1>7, <1>8, TypesNext DEF Inv

LEMMA HandshakeDoneStep ==
  ASSUME Inv, HandshakeDone, UNCHANGED faults
  PROVE  Inv'
<1>f. Flags
  BY Types DEF Inv
<1>v. Values
  BY Types DEF Inv
<1>t. Timed
  BY Types DEF Inv
<1>a. Accounted
  BY DEF Inv
<1>b. Called
  BY DEF Inv
<1>d. Converted
  BY DEF Inv
<1>s. CalmStart
  BY DEF Inv
<1>e. CalmEnd
  BY DEF Inv
<1>1. Flags'
  BY <1>f DEF HandshakeDone, audioVars, closeVars, Flags
<1>2. Values'
  BY <1>v DEF HandshakeDone, audioVars, closeVars, Values, Progress, Settled
<1>3. Timed'
  BY <1>t DEF HandshakeDone, audioVars, closeVars, Timed
<1>4. Accounted'
  BY <1>a DEF HandshakeDone, audioVars, closeVars, Accounted
<1>5. Called'
  BY <1>b DEF HandshakeDone, audioVars, closeVars, Called
<1>6. Converted'
  BY <1>d DEF HandshakeDone, audioVars, closeVars, Converted
<1>7. CalmStart'
  BY <1>s DEF HandshakeDone, audioVars, closeVars, CalmStart, Calm, Settled
<1>8. CalmEnd'
  BY <1>e, <1>s DEF HandshakeDone, audioVars, closeVars, CalmEnd, Calm, Settled,
     CalmStart
<1>. QED
  BY <1>1, <1>2, <1>3, <1>4, <1>5, <1>6, <1>7, <1>8, TypesNext DEF Inv

LEMMA SendBufferStep ==
  ASSUME Inv, SendBuffer, UNCHANGED faults
  PROVE  Inv'
<1>f. Flags
  BY Types DEF Inv
<1>v. Values
  BY Types DEF Inv
<1>t. Timed
  BY Types DEF Inv
<1>a. Accounted
  BY DEF Inv
<1>b. Called
  BY DEF Inv
<1>d. Converted
  BY DEF Inv
<1>s. CalmStart
  BY DEF Inv
<1>e. CalmEnd
  BY DEF Inv
<1>g. /\ UNCHANGED <<start, socket, connection, ffmpeg_c, ffmpeg, engine, closing, closes,
                     listeners, timers>>
      /\ ~closing /\ dataSent' = TRUE
  BY DEF SendBuffer, Accepting, closeVars
<1>h. Chunk \in Nat /\ Chunk <= buffer_store /\ buffer_store \in Nat
  BY <1>v, EngineAssumption DEF Chunk, Values
<1>i. /\ bytes' \in Nat /\ piped' \in Nat /\ buffer_store' \in Nat /\ sent' \in Nat
      /\ bytes' = sent' + buffer_store' + piped'
      /\ ~ffmpeg_c => piped' = piped /\ buffer_store' = buffer_store
  <2>1. bytes \in Nat /\ piped \in Nat /\ buffer_store \in Nat /\ sent \in Nat
        /\ bytes = sent + buffer_store + piped
    BY <1>v, <1>a DEF Values, Accounted
  <2>2. CASE ffmpeg_c /\ piped' = piped + 1 /\ buffer_store' = buffer_store - Chunk
             /\ sent' = sent + Chunk
    BY <1>h, <2>1, <2>2 DEF SendBuffer
  <2>3. CASE ~ffmpeg_c /\ sent' = sent + 1 /\ UNCHANGED <<piped, buffer_store>>
    BY <2>1, <2>3 DEF SendBuffer
  <2>. QED
    BY <2>2, <2>3 DEF SendBuffer
<1>1. Flags'
  BY <1>f, <1>g, <1>i DEF Flags
<1>2. Values'
  BY <1>v, <1>g, <1>i DEF Values, Progress, Settled
<1>3. Timed'
  BY <1>t, <1>g, <1>i DEF Timed
<1>4. Accounted'
  BY <1>a, <1>g, <1>i DEF Accounted
<1>5. Called'
  BY <1>b, <1>g, <1>i DEF Called
<1>6. Converted'
  BY <1>b, <1>g DEF Converted, Called
<1>7. CalmStart'
  BY <1>s, <1>g, <1>i DEF CalmStart, Calm, Settled
<1>8. CalmEnd'
  BY <1>e, <1>g, <1>i DEF CalmEnd, Calm, Settled
<1>. QED
  BY <1>1, <1>2, <1>3, <1>4, <1>5, <1>6, <1>7, <1>8, TypesNext DEF Inv

LEMMA FfmpegDataStep ==
  ASSUME Inv, FfmpegData, UNCHANGED faults
  PROVE  Inv'
<1>f. Flags
  BY Types DEF Inv
<1>v. Values
  BY Types DEF Inv
<1>t. Timed
  BY Types DEF Inv
<1>a. Accounted
  BY DEF Inv
<1>b. Called
  BY DEF Inv
<1>d. Converted
  BY DEF Inv
<1>s. CalmStart
  BY DEF Inv
<1>e. CalmEnd
  BY DEF Inv
<1>1. Flags'
  BY <1>f DEF FfmpegData, audioVars, closeVars, Flags
<1>2. Values'
  BY <1>v DEF FfmpegData, audioVars, closeVars, Values, Progress, Settled
<1>3. Timed'
  BY <1>t DEF FfmpegData, audioVars, closeVars, Timed
<1>4. Accounted'
  BY <1>a, <1>v DEF FfmpegData, audioVars, closeVars, Accounted, Values
<1>5. Called'
  BY <1>b DEF FfmpegData, audioVars, closeVars, Called
<1>6. Converted'
  BY <1>d, <1>v, <1>b DEF FfmpegData, audioVars, closeVars, Converted, Values,
     Called
<1>7. CalmStart'
  BY <1>s DEF FfmpegData, audioVars, closeVars, CalmStart, Calm, Settled
<1>8. CalmEnd'
  BY <1>e DEF FfmpegData, audioVars, closeVars, CalmEnd, Calm, Settled
<1>. QED
  BY <1>1, <1>2, <1>3, <1>4, <1>5, <1>6, <1>7, <1>8, TypesNext DEF Inv

\* What sendZeroBuffer does to the audio.
LEMMA ZeroBuffer ==
  ASSUME Values, Accounted, SendZeroBuffer
  PROVE  /\ bytes' = bytes /\ piped' = piped /\ buffer_store' = 0
         /\ sent' = sent + buffer_store /\ sent' \in Nat
         /\ ffmpeg' = IF ffmpeg_c THEN "ended" ELSE ffmpeg
         /\ engine' = IF engine = "idle" THEN "eof" ELSE engine
BY DEF SendZeroBuffer, Values, Accounted

LEMMA CloseCalledStep ==
  ASSUME Inv, NEW c \in CloseCall, CloseCalled(c), UNCHANGED <<start, ffmpeg_c, dataSent>>,
         Calm => start \in Settled, UNCHANGED faults
  PROVE  Inv'
<1>f. Flags
  BY Types DEF Inv
<1>v. Values
  BY Types DEF Inv
<1>t. Timed
  BY Types DEF Inv
<1>a. Accounted
  BY DEF Inv
<1>b. Called
  BY DEF Inv
<1>d. Converted
  BY DEF Inv
<1>s. CalmStart
  BY DEF Inv
<1>e. CalmEnd
  BY DEF Inv
<1>g. closing' = TRUE /\ ("slowFfmpeg" \in faults \/ piped = 0) /\ closes[c] = "idle"
  BY DEF CloseCalled
<1>h. c \notin timers
  BY <1>t, <1>g DEF Timed
<1>i. Calm => start \in Settled
  OBVIOUS
<1>1. CASE CloseUnconnected(c)
  <2>0. /\ UNCHANGED <<socket, connection, ffmpeg, bytes, piped, buffer_store, sent, engine,
                       listeners, timers>>
        /\ ~socket /\ closes' = [closes EXCEPT ![c] = "resolved"]
    BY <1>1 DEF CloseUnconnected, audioVars
  <2>a. closes' \in [CloseCall -> {"idle", "waiting", "resolved"}]
    BY <1>v, <2>0 DEF Values
  <2>1. Flags'
    BY <1>f, <1>g, <2>0 DEF Flags
  <2>2. Values'
    BY <1>v, <2>0, <2>a DEF Values
  <2>3. Timed'
    BY <1>v, <1>t, <1>h, <2>0 DEF Values, Timed
  <2>4. Accounted'
    BY <1>a, <2>0 DEF Accounted
  <2>5. Called'
    BY <1>b, <1>g, <2>0 DEF Called
  <2>6. Converted'
    BY <1>d, <1>g, <2>0 DEF Converted
  <2>7. CalmStart'
    BY <1>s, <1>i, <2>0 DEF CalmStart, Calm
  <2>8. CalmEnd'
    BY <1>e, <1>g, <1>i, <2>0 DEF CalmEnd, Calm
  <2>. QED
    BY <2>1, <2>2, <2>3, <2>4, <2>5, <2>6, <2>7, <2>8, TypesNext DEF Inv
<1>2. CASE CloseUnused(c) \/ CloseAndWait(c)
  <2>0. /\ bytes' = bytes /\ piped' = piped /\ buffer_store' = 0
        /\ sent' = sent + buffer_store /\ sent' \in Nat
        /\ ffmpeg' = IF ffmpeg_c THEN "ended" ELSE ffmpeg
        /\ engine' = IF engine = "idle" THEN "eof" ELSE engine
        /\ socket
    BY <1>2, <1>v, <1>a, ZeroBuffer DEF CloseUnused, CloseAndWait
  <2>a. \/ /\ socket' = FALSE /\ connection' = "down"
           /\ closes' = [closes EXCEPT ![c] = "resolved"]
           /\ listeners' = listeners /\ timers' = timers
        \/ /\ socket' = socket /\ connection' = connection
           /\ closes' = [closes EXCEPT ![c] = "waiting"]
           /\ listeners' = Append(listeners, c) /\ timers' = timers \cup {c}
    BY <1>2 DEF CloseUnused, CloseAndWait, DisconnectUnused, Disconnect, ArmTimer
  <2>b. /\ closes' \in [CloseCall -> {"idle", "waiting", "resolved"}]
        /\ \A d \in CloseCall : d # c => closes'[d] = closes[d]
        /\ closes'[c] = "waiting" \/ (closes'[c] = "resolved" /\ ~socket' /\ c \notin timers')
    BY <1>v, <1>h, <2>a DEF Values
  <2>c. /\ listeners' \in Seq(CloseCall) /\ (listeners # <<>> => listeners' # <<>>)
        /\ timers' \subseteq CloseCall /\ \A d \in timers' : d \in timers \/ d = c
        /\ connection' \in {"none", "connecting", "up", "down"}
    BY <1>v, <2>a DEF Values
  <2>d. /\ ffmpeg' \in {"none", "spawning", "running", "ended"}
        /\ engine' \in {"idle", "eof", "fetch", "ready"}
        /\ engine' = "fetch" => engine = "fetch"
    BY <1>v, <2>0 DEF Values
  <2>e. /\ socket' => socket /\ connection' = connection
        /\ ~socket' => connection' = "down"
        /\ socket' \in BOOLEAN
    BY <1>f, <2>0, <2>a DEF Flags
  <2>1. Flags'
    BY <1>f, <1>g, <2>e DEF Flags
  <2>2. Values'
    BY <1>v, <2>0, <2>b, <2>c, <2>d DEF Values
  <2>3. Timed'
    BY <1>v, <1>t, <2>b, <2>c DEF Values, Timed
  <2>4. Accounted'
    BY <1>a, <1>v, <2>0 DEF Accounted, Values
  <2>5. Called'
    BY <1>b, <1>g, <2>c, <2>d DEF Called
  <2>6. Converted'
    BY <1>d, <1>g, <2>0 DEF Converted
  <2>7. CalmStart'
    BY <1>s, <1>i, <2>0 DEF CalmStart, Calm, Settled
  <2>8. CalmEnd'
    <3>1. Calm => ffmpeg' \in {"none", "ended"}
      BY <1>s, <1>i, <2>0 DEF CalmStart, Settled
    <3>2. Calm => \A d \in CloseCall : closes'[d] = "resolved" => ~socket'
      BY <1>e, <2>0, <2>b, <2>e DEF CalmEnd
    <3>. QED
      BY <1>e, <1>g, <1>i, <2>0, <2>e, <3>1, <3>2 DEF CalmEnd, Calm
  <2>. QED
    BY <2>1, <2>2, <2>3, <2>4, <2>5, <2>6, <2>7, <2>8, TypesNext DEF Inv
<1>. QED
  BY <1>1, <1>2 DEF CloseCalled

LEMMA DisconnectTimeoutStep ==
  ASSUME Inv, NEW c \in CloseCall, DisconnectTimeout(c), UNCHANGED faults
  PROVE  Inv'
<1>f. Flags
  BY Types DEF Inv
<1>v. Values
  BY Types DEF Inv
<1>t. Timed
  BY Types DEF Inv
<1>a. Accounted
  BY DEF Inv
<1>b. Called
  BY DEF Inv
<1>d. Converted
  BY DEF Inv
<1>s. CalmStart
  BY DEF Inv
<1>e. CalmEnd
  BY DEF Inv
<1>g. /\ UNCHANGED <<start, ffmpeg_c, ffmpeg, closing, dataSent, bytes, piped, buffer_store,
                     sent, engine, listeners>>
      /\ c \in timers /\ timers' = timers \ {c} /\ closing
  BY <1>b DEF DisconnectTimeout, Called, audioVars
<1>h. \/ /\ socket /\ socket' = FALSE /\ connection' = "down"
         /\ closes' = [closes EXCEPT ![c] = "resolved"]
      \/ ~socket /\ UNCHANGED <<socket, connection, closes>>
  BY DEF DisconnectTimeout, Disconnect
<1>i. /\ closes' \in [CloseCall -> {"idle", "waiting", "resolved"}]
      /\ \A d \in CloseCall : d # c => closes'[d] = closes[d]
      /\ connection' \in {"none", "connecting", "up", "down"}
  BY <1>v, <1>h DEF Values
<1>j. ~socket' /\ (connection' = connection \/ connection' = "down")
      /\ (~socket => connection' = connection) /\ (socket => connection' = "down")
  BY <1>h
<1>k. Calm => start \in Settled
  BY <1>s, <1>g DEF CalmStart
<1>l. socket' \in BOOLEAN
  BY <1>f, <1>h DEF Flags
<1>1. Flags'
  BY <1>f, <1>g, <1>l DEF Flags
<1>2. Values'
  BY <1>v, <1>g, <1>i DEF Values
<1>3. Timed'
  BY <1>t, <1>v, <1>g, <1>i DEF Timed, Values
<1>4. Accounted'
  BY <1>a, <1>g DEF Accounted
<1>5. Called'
  BY <1>b, <1>g DEF Called
<1>6. Converted'
  BY <1>d, <1>g DEF Converted
<1>7. CalmStart'
  BY <1>s, <1>g, <1>k DEF CalmStart, Calm, Settled
<1>8. CalmEnd'
  BY <1>e, <1>g, <1>j, <1>k DEF CalmEnd, Calm
<1>. QED
  BY <1>1, <1>2, <1>3, <1>4, <1>5, <1>6, <1>7, <1>8, TypesNext DEF Inv

LEMMA CompletedStep ==
  ASSUME Inv, Completed, UNCHANGED faults
  PROVE  Inv'
<1>f. Flags
  BY Types DEF Inv
<1>v. Values
  BY Types DEF Inv
<1>t. Timed
  BY Types DEF Inv
<1>a. Accounted
  BY DEF Inv
<1>b. Called
  BY DEF Inv
<1>d. Converted
  BY DEF Inv
<1>s. CalmStart
  BY DEF Inv
<1>e. CalmEnd
  BY DEF Inv
<1>1. Flags'
  BY <1>f DEF Completed, audioVars, closeVars, Flags
<1>2. Values'
  BY <1>v DEF Completed, audioVars, closeVars, Values, Progress, Settled
<1>3. Timed'
  BY <1>t DEF Completed, audioVars, closeVars, Timed
<1>4. Accounted'
  BY <1>a DEF Completed, audioVars, closeVars, Accounted
<1>5. Called'
  BY <1>b DEF Completed, audioVars, closeVars, Called
<1>6. Converted'
  BY <1>d DEF Completed, audioVars, closeVars, Converted
<1>7. CalmStart'
  BY <1>s DEF Completed, audioVars, closeVars, CalmStart, Calm, Settled
<1>8. CalmEnd'
  BY <1>e DEF Completed, audioVars, closeVars, CalmEnd, Calm, Settled
<1>. QED
  BY <1>1, <1>2, <1>3, <1>4, <1>5, <1>6, <1>7, <1>8, TypesNext DEF Inv

LEMMA ReportReadyStep ==
  ASSUME Inv, ReportReady, UNCHANGED faults
  PROVE  Inv'
<1>f. Flags
  BY Types DEF Inv
<1>v. Values
  BY Types DEF Inv
<1>t. Timed
  BY Types DEF Inv
<1>a. Accounted
  BY DEF Inv
<1>b. Called
  BY DEF Inv
<1>d. Converted
  BY DEF Inv
<1>s. CalmStart
  BY DEF Inv
<1>e. CalmEnd
  BY DEF Inv
<1>g. /\ UNCHANGED <<start, ffmpeg_c, ffmpeg, closing, dataSent, bytes, piped, buffer_store,
                     sent, listeners>>
      /\ engine = "fetch" /\ engine' = "ready" /\ closing
      /\ socket' = FALSE /\ connection' = "down"
  BY <1>b DEF ReportReady, Disconnect, Called, audioVars
<1>. DEFINE c == Head(listeners)
<1>h. listeners \in Seq(CloseCall) /\ listeners # <<>>
  BY <1>v, <1>b, <1>g DEF Values, Called
<1>i. c \in CloseCall /\ c \in ToSet(listeners)
  <2>1. c \in CloseCall /\ 1 \in 1 .. Len(listeners) /\ c = listeners[1]
    BY <1>h
  <2>. QED
    BY <2>1 DEF ToSet
<1>. HIDE DEF c
<1>j. /\ closes' = [closes EXCEPT ![c] = "resolved"]
      /\ timers' \subseteq timers /\ c \notin timers'
  BY <1>i DEF ReportReady, ClearTimers, c
<1>k. /\ closes' \in [CloseCall -> {"idle", "waiting", "resolved"}]
      /\ \A d \in CloseCall : d # c => closes'[d] = closes[d]
  BY <1>v, <1>j DEF Values
<1>l. Calm => start \in Settled
  BY <1>s, <1>g DEF CalmStart
<1>1. Flags'
  BY <1>f, <1>g DEF Flags
<1>2. Values'
  BY <1>v, <1>g, <1>j, <1>k DEF Values
<1>3. Timed'
  BY <1>t, <1>v, <1>g, <1>j, <1>k DEF Timed, Values
<1>4. Accounted'
  BY <1>a, <1>g DEF Accounted
<1>5. Called'
  BY <1>b, <1>g DEF Called
<1>6. Converted'
  BY <1>d, <1>g DEF Converted
<1>7. CalmStart'
  BY <1>s, <1>g, <1>l DEF CalmStart, Calm, Settled
<1>8. CalmEnd'
  BY <1>e, <1>g, <1>l DEF CalmEnd, Calm
<1>. QED
  BY <1>1, <1>2, <1>3, <1>4, <1>5, <1>6, <1>7, <1>8, TypesNext DEF Inv

-----------------------------------------------------------------------------
(***************************************************************************)
(* The theorems.                                                           *)
(***************************************************************************)
LEMMA InitInv == Init => Inv
<1>. SUFFICES ASSUME Init
              PROVE  Inv
  OBVIOUS
<1>1. Flags
  BY DEF Init, Flags
<1>2. closes \in [CloseCall -> {"idle", "waiting", "resolved"}] /\ <<>> \in Seq(CloseCall)
  BY DEF Init
<1>3. Values
  BY <1>2 DEF Init, Values, Progress
<1>4. Timed /\ Accounted /\ Called /\ Converted
  BY DEF Init, Timed, Accounted, Called, Converted
<1>5. \A c \in CloseCall : closes[c] = "idle"
  BY DEF Init
<1>6. CalmStart /\ CalmEnd
  BY <1>5 DEF Init, CalmStart, CalmEnd, Settled
<1>. QED
  BY <1>1, <1>3, <1>4, <1>6, Types DEF Inv

LEMMA StepInv == Inv /\ [Next]_allVars => Inv'
<1>. SUFFICES ASSUME Inv, [Next]_allVars
              PROVE  Inv'
  OBVIOUS
<1>1. CASE Next
  <2>1. faults' = faults
    BY <1>1 DEF Next
  <2>2. CASE Start
    BY <2>1, <2>2, StartStep
  <2>3. CASE Connected
    BY <2>1, <2>3, ConnectedStep
  <2>4. CASE ConnectError
    BY <2>1, <2>4, ConnectErrorStep
  <2>5. CASE Spawned
    BY <2>1, <2>5, SpawnedStep
  <2>6. CASE HandshakeDone
    BY <2>1, <2>6, HandshakeDoneStep
  <2>7. CASE SendBuffer
    BY <2>1, <2>7, SendBufferStep
  <2>8. CASE FfmpegData
    BY <2>1, <2>8, FfmpegDataStep
  <2>9. ASSUME NEW c \in SessionCalls, Close(c)
        PROVE  Inv'
    <3>1. c \in CloseCall
      BY DEF CloseCall
    <3>2. /\ CloseCalled(c) /\ UNCHANGED <<start, ffmpeg_c, dataSent>>
          /\ Calm => start \in Settled
      BY <2>9, CalmFaults DEF Close
    <3>. QED
      BY <2>1, <3>1, <3>2, CloseCalledStep
  <2>10. ASSUME NEW c \in CloseCall, DisconnectTimeout(c)
         PROVE  Inv'
    BY <2>1, <2>10, DisconnectTimeoutStep
  <2>11. CASE AnalysisError
    <3>1. "analysisError" \in CloseCall
      BY DEF CloseCall
    <3>2. /\ CloseCalled("analysisError") /\ UNCHANGED <<start, ffmpeg_c, dataSent>>
          /\ start \in Settled
      BY <2>11 DEF AnalysisError, Settled
    <3>. QED
      BY <2>1, <3>1, <3>2, CloseCalledStep
  <2>12. CASE Completed
    BY <2>1, <2>12, CompletedStep
  <2>13. CASE CompletedError
    <3>1. "completedError" \in CloseCall
      BY DEF CloseCall
    <3>2. /\ CloseCalled("completedError") /\ UNCHANGED <<start, ffmpeg_c, dataSent>>
          /\ engine = "eof"
      BY <2>13 DEF CompletedError
    <3>3. Calm => start \in Settled
      BY <3>2 DEF Inv, Called, CalmStart
    <3>. QED
      BY <2>1, <3>1, <3>2, <3>3, CloseCalledStep
  <2>14. CASE ReportReady
    BY <2>1, <2>14, ReportReadyStep
  <2>. QED
    BY <1>1, <2>2, <2>3, <2>4, <2>5, <2>6, <2>7, <2>8, <2>9, <2>10, <2>11, <2>12,
       <2>13, <2>14 DEF Next
<1>2. CASE UNCHANGED allVars
  <2>1. UNCHANGED <<faults, start, socket, connection, ffmpeg_c, ffmpeg, closing, dataSent,
                    bytes, piped, buffer_store, sent, engine, closes, listeners, timers>>
    BY <1>2 DEF allVars, vars
  <2>2. Flags /\ Values /\ Timed
    BY Types DEF Inv
  <2>3. Flags'
    BY <2>1, <2>2 DEF Flags
  <2>4. Values'
    BY <2>1, <2>2 DEF Values
  <2>5. Timed'
    BY <2>1, <2>2 DEF Timed
  <2>6. Accounted' /\ Called' /\ Converted'
    BY <2>1 DEF Inv, Accounted, Called, Converted
  <2>7. CalmStart'
    BY <2>1 DEF Inv, CalmStart, Calm
  <2>8. CalmEnd'
    BY <2>1 DEF Inv, CalmEnd, Calm
  <2>. QED
    BY <2>3, <2>4, <2>5, <2>6, <2>7, <2>8, TypesNext DEF Inv
<1>. QED
  BY <1>1, <1>2

\* Every behaviour of the engine client keeps the invariant.
THEOREM Invariant == Spec => []Inv
BY InitInv, StepInv, PTL DEF Spec

\* The variables keep their types, and a disconnectTimeout is armed only for a
\* call of close() that waits.
THEOREM TypeCorrect == Spec => []TypeOK
<1>1. Inv => TypeOK
  BY DEF Inv
<1>. QED
  BY <1>1, Invariant, PTL

\* Once start() has settled and a close() of the session has returned, the
\* engine is disconnected and ffmpeg told to end.
THEOREM AllClosed == Spec => []NothingLeaks
<1>1. Inv => NothingLeaks
  <2>. SUFFICES ASSUME Inv, Calm, start \in Settled, NEW c \in SessionCalls,
                       closes[c] = "resolved"
                PROVE  connection \in {"none", "down"} /\ ffmpeg \in {"none", "ended"}
    BY DEF NothingLeaks, Calm
  <2>1. c \in CloseCall
    BY DEF CloseCall
  <2>. QED
    BY <2>1 DEF Inv, CalmEnd
<1>. QED
  BY <1>1, Invariant, PTL

\* The engine has all the audio when it is told that the audio ends, if ffmpeg
\* has converted it when close() is called.
THEOREM AudioComplete == Spec => []EngineGetsConverted
<1>1. Inv => EngineGetsConverted
  <2>. SUFFICES ASSUME Inv, "slowFfmpeg" \notin faults, engine # "idle"
                PROVE  sent = bytes
    BY DEF EngineGetsConverted, EngineGetsAll
  <2>1. piped = 0 /\ buffer_store = 0 /\ bytes = sent + buffer_store + piped /\ sent \in Nat
    BY Types DEF Inv, Called, Converted, Accounted, Values
  <2>. QED
    BY <2>1
<1>. QED
  BY <1>1, Invariant, PTL

\* No audio follows the buffer that ends it, if ffmpeg has converted it.
THEOREM NoAudioAfterEnd == Spec => AudioEnds
<1>1. Inv /\ [Next]_allVars =>
        [("slowFfmpeg" \notin faults /\ engine # "idle") => sent' = sent]_vars
  <2>. SUFFICES ASSUME Inv, Next, "slowFfmpeg" \notin faults, engine # "idle"
                PROVE  sent' = sent
    BY DEF allVars
  <2>1. closing /\ buffer_store = 0 /\ Values /\ Accounted
    BY Types DEF Inv, Called, Converted
  <2>2. ASSUME NEW c \in CloseCall, CloseCalled(c)
        PROVE  sent' = sent
    <3>1. CASE CloseUnconnected(c)
      BY <3>1 DEF CloseUnconnected, audioVars
    <3>2. CASE CloseUnused(c) \/ CloseAndWait(c)
      <4>1. sent' = sent + buffer_store /\ sent \in Nat
        BY <2>1, <3>2, ZeroBuffer DEF CloseUnused, CloseAndWait, Values
      <4>. QED
        BY <2>1, <4>1
    <3>. QED
      BY <2>2, <3>1, <3>2 DEF CloseCalled
  <2>3. CASE SendBuffer
    BY <2>1, <2>3 DEF SendBuffer, Accepting
  <2>4. CASE Start \/ Connected \/ ConnectError \/ Spawned \/ HandshakeDone
    BY <2>4 DEF Start, Connected, ConnectError, Spawned, HandshakeDone, audioVars
  <2>5. CASE FfmpegData \/ Completed \/ ReportReady
    BY <2>5 DEF FfmpegData, Completed, ReportReady, audioVars
  <2>6. ASSUME NEW c \in CloseCall, DisconnectTimeout(c)
        PROVE  sent' = sent
    BY <2>6 DEF DisconnectTimeout, audioVars
  <2>7. ASSUME NEW c \in SessionCalls, Close(c)
        PROVE  sent' = sent
    BY <2>2, <2>7 DEF Close, CloseCall
  <2>8. CASE AnalysisError \/ CompletedError
    BY <2>2, <2>8 DEF AnalysisError, CompletedError, CloseCall
  <2>. QED
    BY <2>3, <2>4, <2>5, <2>6, <2>7, <2>8 DEF Next
<1>. QED
  BY <1>1, Invariant, PTL DEF Spec, AudioEnds

-----------------------------------------------------------------------------
(***************************************************************************)
(* The contract with the owner.  Behind the mapping: who has a listener    *)
(* has sent audio and closes (Listens), audio needs a socket, which only   *)
(* close() takes away (Fed), and the first listener of a client that still *)
(* has its socket has its timer (Guarded).                                 *)
(***************************************************************************)
Fresh ==
  start = "none" => ~socket /\ ~closing /\ ~dataSent /\ listeners = <<>>

Wired == socket => connection = "up" /\ start \notin {"none", "connect"}

Fed ==
  dataSent =>
    /\ start \notin {"none", "connect"}
    /\ connection \in {"up", "down"}
    /\ connection = "up" => socket
    /\ socket \/ closing

Listens ==
  /\ listeners # <<>> => dataSent /\ closing
  /\ closing /\ dataSent /\ socket => listeners # <<>>

Guarded == Reporting => Head(listeners) \in timers

OwnerInv == Fresh /\ Wired /\ Fed /\ Listens /\ Guarded

ownerVars == <<ClientState, dataSent, FirstCall, Outcomes>>

LEMMA OwnerInit == Init => OwnerInv /\ Contract!Init
<1> SUFFICES ASSUME Init PROVE OwnerInv /\ Contract!Init
  OBVIOUS
<1>1. OwnerInv
  BY DEF Init, OwnerInv, Fresh, Wired, Fed, Listens, Guarded, Reporting
<1>2. ClientState = "none" /\ dataSent = FALSE /\ FirstCall = "none"
  BY DEF Init, ClientState, FirstCall, Reporting
<1>3. Outcomes = [c \in SessionCalls |-> "idle"]
  BY DEF Init, Outcomes, CloseCall
<1> QED
  BY <1>1, <1>2, <1>3 DEF Contract!Init

\* What start() does is nobody's business.
LEMMA OwnerStart ==
  ASSUME Inv, OwnerInv,
         Start \/ Connected \/ ConnectError \/ Spawned \/ HandshakeDone
  PROVE  OwnerInv' /\ [Contract!Next]_ownerVars
<1> USE DEF OwnerInv, Fresh, Wired, Fed, Listens, Guarded, Reporting
<1>1. CASE Start
  <2>1. /\ UNCHANGED <<socket, dataSent, closing, closes, listeners, timers>>
        /\ start = "none" /\ start' = "connect" /\ ~socket /\ ~closing
        /\ ~dataSent /\ listeners = <<>>
    BY <1>1 DEF Start, closeVars
  <2>2. OwnerInv'
    BY <2>1
  <2>3. ClientState = "none" /\ ClientState' = "open"
    BY <2>1 DEF ClientState
  <2>4. UNCHANGED <<dataSent, FirstCall, Outcomes>>
    BY <2>1 DEF FirstCall, Outcomes
  <2> QED
    BY <2>2, <2>3, <2>4 DEF Contract!Next, Contract!Open
<1>2. CASE Connected
  <2>1. /\ UNCHANGED <<dataSent, closing, closes, listeners, timers>>
        /\ connection = "connecting" /\ connection' = "up"
        /\ \/ start = "connect" /\ start' = "spawn" /\ socket' = TRUE
           \/ start # "connect" /\ UNCHANGED <<start, socket>>
    BY <1>2 DEF Connected, closeVars
  <2>2. ~dataSent /\ listeners = <<>> /\ ~socket
    BY <2>1
  <2>3. OwnerInv'
    BY <2>1, <2>2
  <2>4. UNCHANGED ownerVars
    <3>1. UNCHANGED <<dataSent, Outcomes, FirstCall>>
      BY <2>1, <2>2 DEF Outcomes, FirstCall
    <3>2. ClientState' = ClientState
      BY <2>1, <2>2 DEF ClientState
    <3> QED
      BY <3>1, <3>2 DEF ownerVars
  <2> QED
    BY <2>3, <2>4
<1>3. CASE ConnectError \/ Spawned \/ HandshakeDone
  <2>1. /\ UNCHANGED <<socket, connection, dataSent, closing, closes, listeners,
                       timers>>
        /\ start # "none" /\ start' \notin {"none", "connect"}
    BY <1>3 DEF ConnectError, Spawned, HandshakeDone, closeVars
  <2>2. OwnerInv'
    BY <2>1
  <2>3. UNCHANGED ownerVars
    BY <2>1 DEF ownerVars, ClientState, FirstCall, Outcomes
  <2> QED
    BY <2>2, <2>3
<1> QED
  BY <1>1, <1>2, <1>3

LEMMA OwnerAudio ==
  ASSUME Inv, OwnerInv, SendBuffer \/ FfmpegData \/ Completed
  PROVE  OwnerInv' /\ [Contract!Next]_ownerVars
<1> USE DEF OwnerInv, Fresh, Wired, Fed, Listens, Guarded, Reporting
<1>1. CASE SendBuffer
  <2>1. /\ UNCHANGED <<start, socket, connection, closing, closes, listeners,
                       timers>>
        /\ socket /\ ~closing /\ dataSent' = TRUE
    BY <1>1 DEF SendBuffer, Accepting, closeVars
  <2>2. OwnerInv'
    BY <2>1
  <2>3. ClientState = "open"
    BY <2>1 DEF ClientState
  <2>4. UNCHANGED <<ClientState, FirstCall, Outcomes>>
    BY <2>1 DEF ClientState, FirstCall, Outcomes
  <2> QED
    BY <2>1, <2>2, <2>3, <2>4 DEF Contract!Next, Contract!Feed
<1>2. CASE FfmpegData \/ Completed
  <2>1. UNCHANGED <<start, socket, connection, dataSent, closing, closes,
                    listeners, timers>>
    BY <1>2 DEF FfmpegData, Completed, closeVars
  <2>2. OwnerInv'
    BY <2>1
  <2>3. UNCHANGED ownerVars
    BY <2>1 DEF ownerVars, ClientState, FirstCall, Outcomes
  <2> QED
    BY <2>2, <2>3
<1> QED
  BY <1>1, <1>2

LEMMA OwnerCloseCalled ==
  ASSUME Inv, OwnerInv, NEW c \in CloseCall, CloseCalled(c), start # "none",
         UNCHANGED <<start, dataSent>>
  PROVE  OwnerInv' /\ [Contract!Next]_ownerVars
<1> USE DEF OwnerInv, Fresh, Wired, Fed, Listens, Guarded, Reporting
<1>1. /\ closing' = TRUE /\ UNCHANGED <<start, dataSent>> /\ start # "none"
      /\ closes \in [CloseCall -> {"idle", "waiting", "resolved"}]
      /\ listeners \in Seq(CloseCall) /\ SessionCalls \subseteq CloseCall
  BY Types DEF CloseCalled, Inv, Values, CloseCall
\* The call returns at once.
<1>2. ASSUME socket' = FALSE, UNCHANGED <<listeners, timers>>,
             closes' = [closes EXCEPT ![c] = "resolved"],
             connection' \in {connection, "down"}, socket => connection' = "down",
             ~socket \/ ~dataSent
      PROVE  OwnerInv' /\ [Contract!Next]_ownerVars
  <2>1. ~Reporting /\ ~Reporting'
    BY <1>2
  <2>2. OwnerInv'
    BY <1>1, <1>2, <2>1
  <2>3. /\ ClientState = IF closing THEN "closed" ELSE "open"
        /\ ~closing => ~dataSent
        /\ ClientState' = "closed"
    BY <1>1, <1>2, <2>1 DEF ClientState
  <2>4. FirstCall' = FirstCall
    BY <2>1 DEF FirstCall
  <2>5. CASE c \in SessionCalls
    <3>1. Outcomes' = [Outcomes EXCEPT ![c] = "returned"]
      BY <2>5, <1>1, <1>2 DEF Outcomes
    <3>2. Contract!CloseAtOnce(c)
      BY <3>1, <2>3, <2>4, <1>1 DEF Contract!CloseAtOnce
    <3> QED
      BY <3>2, <2>2, <2>5 DEF Contract!Next
  <2>6. CASE c \notin SessionCalls
    <3>1. Outcomes' = Outcomes
      BY <2>6, <1>1, <1>2 DEF Outcomes
    <3>2. Contract!CloseItself \/ UNCHANGED ownerVars
      BY <3>1, <2>3, <2>4, <1>1 DEF Contract!CloseItself, ownerVars
    <3> QED
      BY <3>2, <2>2 DEF Contract!Next
  <2> QED
    BY <2>5, <2>6
\* The call waits: it is the first one, or hangs.
<1>3. ASSUME socket, dataSent, UNCHANGED <<socket, connection>>,
             closes' = [closes EXCEPT ![c] = "waiting"],
             timers' = timers \cup {c}, listeners' = Append(listeners, c)
      PROVE  OwnerInv' /\ [Contract!Next]_ownerVars
  <2>1. /\ listeners' # <<>> /\ Reporting'
        /\ Head(listeners') = IF listeners = <<>> THEN c ELSE Head(listeners)
    BY <1>1, <1>3
  <2>2. OwnerInv'
    BY <1>1, <1>3, <2>1
  <2>3. ClientState' = "closing"
    BY <1>1, <2>1 DEF ClientState
  <2>4. /\ c \in SessionCalls => Outcomes' = [Outcomes EXCEPT ![c] = "waiting"]
        /\ c \notin SessionCalls => Outcomes' = Outcomes
    BY <1>1, <1>3 DEF Outcomes
  <2>5. CASE listeners = <<>>
    <3>1. ClientState = "open"
      BY <2>5, <1>1, <1>3 DEF ClientState
    <3>2. FirstCall' = IF c \in SessionCalls THEN c ELSE "client"
      BY <2>1, <2>5 DEF FirstCall
    <3>3. c \in SessionCalls => Contract!CloseAndWait(c)
      BY <3>1, <3>2, <2>3, <2>4, <1>1, <1>3 DEF Contract!CloseAndWait
    <3>4. c \notin SessionCalls => Contract!CloseItself
      BY <3>1, <3>2, <2>3, <2>4, <1>1, <1>3 DEF Contract!CloseItself
    <3> QED
      BY <3>3, <3>4, <2>2 DEF Contract!Next
  <2>6. CASE listeners # <<>>
    <3>1. ClientState = "closing"
      BY <2>6, <1>1, <1>3 DEF ClientState
    <3>2. FirstCall' = FirstCall
      BY <2>1, <2>6, <1>3 DEF FirstCall
    <3>3. c \in SessionCalls => Contract!CloseHangs(c)
      BY <3>1, <3>2, <2>3, <2>4, <1>1 DEF Contract!CloseHangs
    <3>4. c \notin SessionCalls => UNCHANGED ownerVars
      BY <3>1, <3>2, <2>3, <2>4, <1>1 DEF ownerVars
    <3> QED
      BY <3>3, <3>4, <2>2 DEF Contract!Next
  <2> QED
    BY <2>5, <2>6
<1>4. CASE CloseUnconnected(c)
  <2>1. /\ ~socket /\ UNCHANGED <<socket, connection, listeners, timers>>
        /\ closes' = [closes EXCEPT ![c] = "resolved"]
    BY <1>4 DEF CloseUnconnected
  <2>2. socket' = FALSE
    BY <2>1, Types DEF Inv, Flags
  <2> QED
    BY <2>1, <2>2, <1>2
<1>5. CASE CloseUnused(c)
  <2>1. /\ ~dataSent /\ socket' = FALSE /\ connection' = "down"
        /\ UNCHANGED <<listeners, timers>>
        /\ closes' = [closes EXCEPT ![c] = "resolved"]
    BY <1>5 DEF CloseUnused, DisconnectUnused, Disconnect
  <2> QED
    BY <2>1, <1>2
<1>6. CASE CloseAndWait(c)
  BY <1>3, <1>6 DEF CloseAndWait, ArmTimer
<1> QED
  BY <1>4, <1>5, <1>6 DEF CloseCalled

\* What ends the waiting ends it for the first call.
LEMMA OwnerSettled ==
  ASSUME Inv, OwnerInv, Reporting, UNCHANGED <<start, closing, dataSent, listeners>>,
         socket' = FALSE, connection' = "down",
         closes' = [closes EXCEPT ![Head(listeners)] = "resolved"]
  PROVE  OwnerInv' /\ [Contract!Next]_ownerVars
<1> USE DEF OwnerInv, Fresh, Wired, Fed, Listens, Guarded
<1> DEFINE l == Head(listeners)
<1>1. /\ socket /\ listeners # <<>> /\ dataSent /\ closing /\ start # "none"
      /\ l \in CloseCall /\ SessionCalls \subseteq CloseCall
      /\ closes \in [CloseCall -> {"idle", "waiting", "resolved"}]
      /\ ~Reporting'
  BY Types DEF Inv, Values, Reporting, CloseCall
<1>2. OwnerInv'
  BY <1>1
<1>3. ClientState = "closing" /\ ClientState' = "closed"
  BY <1>1 DEF ClientState
<1>4. FirstCall = (IF l \in SessionCalls THEN l ELSE "client") /\ FirstCall' = "none"
  BY <1>1 DEF FirstCall
<1>5. Outcomes' =
        [c \in SessionCalls |-> IF c = FirstCall THEN "returned" ELSE Outcomes[c]]
  <2>1. "client" \notin SessionCalls
    BY DEF SessionCalls
  <2>2. \A c \in SessionCalls : c = FirstCall <=> c = l
    BY <1>4, <2>1
  <2> QED
    BY <1>1, <2>2 DEF Outcomes
<1>6. Contract!Closed
  BY <1>3, <1>4, <1>5 DEF Contract!Closed
<1> QED
  BY <1>2, <1>6 DEF Contract!Next

LEMMA OwnerEnds ==
  ASSUME Inv, OwnerInv,
         (\E c \in CloseCall : DisconnectTimeout(c)) \/ ReportReady
  PROVE  OwnerInv' /\ [Contract!Next]_ownerVars
<1> USE DEF OwnerInv, Fresh, Wired, Fed, Listens, Guarded
<1>1. ASSUME NEW c \in CloseCall, DisconnectTimeout(c)
      PROVE  OwnerInv' /\ [Contract!Next]_ownerVars
  <2>1. UNCHANGED <<start, closing, dataSent, listeners>>
    BY <1>1 DEF DisconnectTimeout
  <2>2. CASE socket
    <3>1. PICK i \in DOMAIN listeners :
            listeners[i] = c /\ \A j \in 1 .. i - 1 : listeners[j] \notin timers
      BY <1>1 DEF DisconnectTimeout
    <3>2. listeners \in Seq(CloseCall) /\ i \in 1 .. Len(listeners)
      BY <3>1, Types DEF Inv, Values
    <3>3. listeners # <<>> /\ Head(listeners) = listeners[1] /\ Reporting
      BY <2>2, <3>2 DEF Reporting
    <3>4. i = 1
      <4>1. listeners[1] \in timers
        BY <3>3
      <4>2. ~(1 \in 1 .. i - 1)
        BY <3>1, <4>1
      <4> QED
        BY <3>2, <4>2
    <3>5. c = Head(listeners)
      BY <3>1, <3>3, <3>4
    <3>6. /\ socket' = FALSE /\ connection' = "down"
          /\ closes' = [closes EXCEPT ![Head(listeners)] = "resolved"]
      BY <1>1, <2>2, <3>5 DEF DisconnectTimeout, Disconnect
    <3> QED
      BY <2>1, <3>3, <3>6, OwnerSettled
  <2>3. CASE ~socket
    <3>1. UNCHANGED <<socket, connection, closes>>
      BY <1>1, <2>3 DEF DisconnectTimeout
    <3>2. OwnerInv'
      BY <2>1, <2>3, <3>1 DEF Reporting
    <3>3. UNCHANGED ownerVars
      BY <2>1, <3>1 DEF ownerVars, ClientState, FirstCall, Outcomes, Reporting
    <3> QED
      BY <3>2, <3>3
  <2> QED
    BY <2>2, <2>3
<1>2. CASE ReportReady
  <2>1. /\ UNCHANGED <<start, closing, dataSent, listeners>>
        /\ socket' = FALSE /\ connection' = "down"
        /\ closes' = [closes EXCEPT ![Head(listeners)] = "resolved"]
        /\ engine = "fetch" /\ connection = "up"
    BY <1>2 DEF ReportReady, Disconnect
  <2>2. listeners # <<>>
    BY <2>1 DEF Inv, Called
  <2>3. Reporting
    BY <2>1, <2>2 DEF Reporting
  <2> QED
    BY <2>1, <2>3, OwnerSettled
<1> QED
  BY <1>1, <1>2

LEMMA OwnerNext ==
  Inv /\ OwnerInv /\ [Next]_allVars => OwnerInv' /\ [Contract!Next]_ownerVars
<1> SUFFICES ASSUME Inv, OwnerInv, [Next]_allVars
             PROVE  OwnerInv' /\ [Contract!Next]_ownerVars
  OBVIOUS
<1>1. CASE Start \/ Connected \/ ConnectError \/ Spawned \/ HandshakeDone
  BY <1>1, OwnerStart
<1>2. CASE SendBuffer \/ FfmpegData \/ Completed
  BY <1>2, OwnerAudio
<1>3. ASSUME NEW c \in SessionCalls, Close(c)
      PROVE  OwnerInv' /\ [Contract!Next]_ownerVars
  <2>1. c \in CloseCall /\ CloseCalled(c) /\ start # "none" /\ UNCHANGED <<start, dataSent>>
    BY <1>3 DEF Close, CloseCall
  <2> QED
    BY <2>1, OwnerCloseCalled
<1>4. CASE AnalysisError
  <2>1. "analysisError" \in CloseCall /\ CloseCalled("analysisError")
        /\ start # "none" /\ UNCHANGED <<start, dataSent>>
    BY <1>4 DEF AnalysisError, CloseCall
  <2> QED
    BY <2>1, OwnerCloseCalled
<1>5. CASE CompletedError
  <2>1. "completedError" \in CloseCall /\ CloseCalled("completedError")
        /\ listeners # <<>> /\ UNCHANGED <<start, dataSent>>
    BY <1>5 DEF CompletedError, CloseCall
  <2>2. start # "none"
    BY <2>1 DEF OwnerInv, Fresh
  <2> QED
    BY <2>1, <2>2, OwnerCloseCalled
<1>6. CASE (\E c \in CloseCall : DisconnectTimeout(c)) \/ ReportReady
  BY <1>6, OwnerEnds
<1>7. CASE UNCHANGED allVars
  BY <1>7 DEF allVars, vars, OwnerInv, Fresh, Wired, Fed, Listens, Guarded,
     ownerVars,
              ClientState, FirstCall, Outcomes, Reporting
<1> QED
  BY <1>1, <1>2, <1>3, <1>4, <1>5, <1>6, <1>7 DEF Next

\* An engine client keeps the contract that its owners rely on, whatever the
\* engine, ffmpeg and the timers do and however often close() is called: it is
\* waited for if and only if the engine has got audio, the first call that
\* waits returns and no other does, and a closed client never takes audio.
THEOREM KeepsContract == Spec => ImplementsEngineContract
<1>1. Init => OwnerInv /\ Contract!Init
  BY OwnerInit
<1>2. Inv /\ OwnerInv /\ [Next]_allVars => OwnerInv' /\ [Contract!Next]_ownerVars
  BY OwnerNext
<1> QED
  BY <1>1, <1>2, Invariant, PTL
     DEF Spec, ImplementsEngineContract, Contract!Spec, ownerVars

-----------------------------------------------------------------------------
(***************************************************************************)
(* Nobody waits for nothing: the safe half of CallsSettle.                 *)
(***************************************************************************)

\* The first close() that waits is owed an answer: the client still has its
\* socket, and disconnectTimeout is armed and will find it.
FirstCallGuarded ==
  listeners # <<>> /\ closes[Head(listeners)] = "waiting" =>
    socket /\ Head(listeners) \in timers

LEMMA GuardedCloseCalled ==
  ASSUME Inv, OwnerInv, FirstCallGuarded, NEW c \in CloseCall, CloseCalled(c)
  PROVE  listeners' # <<>> /\ closes'[Head(listeners')] = "waiting" => socket'
<1>1. /\ closes \in [CloseCall -> {"idle", "waiting", "resolved"}]
      /\ listeners \in Seq(CloseCall)
  BY Types DEF Inv, Values
<1>2. CASE CloseUnconnected(c)
  <2>1. /\ ~socket /\ UNCHANGED <<socket, listeners>>
        /\ closes' = [closes EXCEPT ![c] = "resolved"]
    BY <1>2 DEF CloseUnconnected
  <2>2. listeners # <<>> => Head(listeners) \in CloseCall
    BY <1>1
  <2> QED
    BY <1>1, <2>1, <2>2 DEF FirstCallGuarded
<1>3. CASE CloseUnused(c)
  BY <1>3 DEF CloseUnused, OwnerInv, Listens
<1>4. CASE CloseAndWait(c)
  BY <1>4 DEF CloseAndWait
<1> QED
  BY <1>2, <1>3, <1>4 DEF CloseCalled

LEMMA GuardedEnds ==
  ASSUME Inv, OwnerInv, FirstCallGuarded,
         (\E c \in CloseCall : DisconnectTimeout(c)) \/ ReportReady
  PROVE  listeners' # <<>> /\ closes'[Head(listeners')] = "waiting" => socket'
<1>1. /\ closes \in [CloseCall -> {"idle", "waiting", "resolved"}]
      /\ listeners \in Seq(CloseCall)
  BY Types DEF Inv, Values
<1>2. ASSUME NEW c \in CloseCall, DisconnectTimeout(c), socket, listeners # <<>>
      PROVE  c = Head(listeners)
  <2>1. PICK i \in DOMAIN listeners :
          listeners[i] = c /\ \A j \in 1 .. i - 1 : listeners[j] \notin timers
    BY <1>2 DEF DisconnectTimeout
  <2>2. i \in 1 .. Len(listeners) /\ Head(listeners) = listeners[1]
    BY <1>1, <1>2, <2>1
  <2>3. listeners[1] \in timers
    BY <1>2, <2>2 DEF OwnerInv, Guarded, Reporting
  <2>4. ~(1 \in 1 .. i - 1)
    BY <2>1, <2>3
  <2> QED
    BY <2>1, <2>2, <2>4
<1>3. ASSUME NEW c \in CloseCall, DisconnectTimeout(c)
      PROVE  listeners' # <<>> /\ closes'[Head(listeners')] = "waiting" => socket'
  <2>1. listeners' = listeners
    BY <1>3 DEF DisconnectTimeout
  <2>2. CASE socket
    <3>1. closes' = [closes EXCEPT ![c] = "resolved"]
      BY <1>3, <2>2 DEF DisconnectTimeout
    <3> QED
      BY <1>1, <1>2, <1>3, <2>1, <2>2, <3>1
  <2>3. CASE ~socket
    BY <1>3, <2>1, <2>3 DEF DisconnectTimeout, FirstCallGuarded
  <2> QED
    BY <2>2, <2>3
<1>4. CASE ReportReady
  <2>1. /\ listeners' = listeners
        /\ closes' = [closes EXCEPT ![Head(listeners)] = "resolved"]
    BY <1>4 DEF ReportReady
  <2>2. listeners # <<>> => Head(listeners) \in CloseCall
    BY <1>1
  <2> QED
    BY <1>1, <2>1, <2>2
<1> QED
  BY <1>3, <1>4

LEMMA GuardedNext ==
  ASSUME Inv, OwnerInv, FirstCallGuarded, [Next]_allVars, OwnerInv'
  PROVE  FirstCallGuarded'
<1> DEFINE Held == listeners # <<>> /\ closes[Head(listeners)] = "waiting" => socket
<1>1. Held'
  <2>1. CASE Start \/ Connected \/ ConnectError \/ Spawned \/ HandshakeDone
    <3>1. UNCHANGED <<listeners, closes>>
      BY <2>1 DEF Start, Connected, ConnectError, Spawned, HandshakeDone, closeVars
    <3>2. socket => socket'
      BY <2>1 DEF Start, Connected, ConnectError, Spawned, HandshakeDone
    <3> QED
      BY <3>1, <3>2 DEF FirstCallGuarded
  <2>2. CASE SendBuffer \/ FfmpegData \/ Completed \/ UNCHANGED allVars
    BY <2>2 DEF SendBuffer, FfmpegData, Completed, closeVars, allVars, vars,
                FirstCallGuarded
  <2>3. ASSUME NEW c \in SessionCalls, Close(c)
        PROVE  Held'
    <3>1. c \in CloseCall /\ CloseCalled(c)
      BY <2>3 DEF Close, CloseCall
    <3> QED
      BY <3>1, GuardedCloseCalled
  <2>4. CASE AnalysisError \/ CompletedError
    <3>1. \E c \in CloseCall : CloseCalled(c)
      BY <2>4 DEF AnalysisError, CompletedError, CloseCall
    <3> QED
      BY <3>1, GuardedCloseCalled
  <2>5. CASE (\E c \in CloseCall : DisconnectTimeout(c)) \/ ReportReady
    BY <2>5, GuardedEnds
  <2> QED
    BY <2>1, <2>2, <2>3, <2>4, <2>5 DEF Next
<1> QED
  BY <1>1 DEF FirstCallGuarded, OwnerInv, Guarded, Reporting

\* However often and by whom close() is called, and whatever the engine says:
\* as long as the first of its calls waits, its timer runs and nothing takes the
\* socket away without answering that call.
THEOREM NobodyForgotten == Spec => []FirstCallGuarded
<1>1. Init => OwnerInv /\ FirstCallGuarded
  BY OwnerInit DEF Init, FirstCallGuarded
<1>2. Inv /\ OwnerInv /\ FirstCallGuarded /\ [Next]_allVars
        => OwnerInv' /\ FirstCallGuarded'
  BY OwnerNext, GuardedNext
<1> QED
  BY <1>1, <1>2, Invariant, PTL DEF Spec

=============================================================================
