------------------------- MODULE SocketIoSessionProofs -------------------------
(***************************************************************************)
(* Proofs about a V2 session, for every amount of audio and every scenario.*)
(*                                                                         *)
(* OnceInv: the one event init finds nothing set, whoever sends it.  The   *)
(* rest is about clients that wait for its answer.  InitInv: they send     *)
(* data and term to a server whose engine client has started.  EngineInv   *)
(* says what that means for the engine client, TermInv what is true when   *)
(* the answer to term is said.  OwnerInv and TimerInv, which hold for all  *)
(* clients, tie the handlers and the timer that wait for a close() to the  *)
(* engine client, for the refinement of EngineContract, and show that a    *)
(* client that waits for an answer never waits for nothing.                *)
(***************************************************************************)
EXTENDS SocketIoSession, TLAPS

\* The type invariant in two parts: the provers treat truth values apart.
Flags ==
  /\ hungUp \in BOOLEAN /\ socket \in BOOLEAN /\ engineClient \in BOOLEAN
  /\ closing \in BOOLEAN /\ dataSent \in BOOLEAN /\ pending \in BOOLEAN
  /\ table \in BOOLEAN /\ timer \in BOOLEAN /\ thrown \in BOOLEAN

Values ==
  /\ faults \in Scenarios
  /\ client \in {"new", "starting", "ready", "failed", "ending", "done", "closed"}
  /\ spoken \in 0 .. MaxAudio
  /\ toServer \in Seq({"init", "data", "term", "disconnect"})
  /\ toClient \in Seq({"init", "init error", "analyzed", "term", "term error",
                       "disconnect"})
  /\ init \in {"idle", "engine", "subscribe", "hset", "error", "done"}
  /\ engine \in {"none", "connecting", "handshake", "running", "gone"}
  /\ waiter \in {"none", "itself"} \cup Closer
  /\ closes \in [Closer -> {"idle", "redis", "waiting", "done"}]

LEMMA Types == TypeOK <=> Flags /\ Values
BY DEF TypeOK, Flags, Values

LEMMA TypesNext == TypeOK' <=> Flags' /\ Values'
BY DEF TypeOK, Flags, Values

Has(queue, ms) == \E i \in 1 .. Len(queue) : queue[i] \in ms

Once(queue) ==
  \A i, j \in 1 .. Len(queue) : queue[i] = "init" /\ queue[j] = "init" => i = j

OnceInv ==
  /\ Once(toServer)
  /\ client = "new" => init = "idle" /\ ~Has(toServer, {"init"})
  /\ Has(toServer, {"init"}) => init = "idle"
  /\ init = "idle" => engine = "none" /\ ~engineClient
  /\ waiter # "none" => closing /\ dataSent /\ engine \in {"handshake", "running"}

InitInv ==
  /\ init \in {"subscribe", "hset"} => Began
  /\ Has(toServer, {"data", "term"}) => Began
  /\ Has(toClient, {"init"}) => Began
  /\ client \in {"ready", "ending", "done"} => Began

EngineInv ==
  /\ Began =>
       /\ init \in {"subscribe", "hset", "done"}
       /\ engine \in {"running", "gone"}
       /\ engine = "gone" => closing
  /\ ~Began => ~dataSent
  /\ pending => dataSent
  /\ ~thrown

TermInv ==
  {"timeout", "error"} \cap faults = {} =>
    /\ waiter # "itself"
    /\ Began /\ engine = "gone" => ~engineClient
    /\ Has(toClient, {"term"}) \/ client = "done" => ~pending /\ ~socket

WaitingInv == "hasty" \notin faults => InitInv /\ EngineInv /\ TermInv

Inv == TypeOK /\ OnceInv /\ WaitingInv

-----------------------------------------------------------------------------
(***************************************************************************)
(* Queues.                                                                 *)
(***************************************************************************)
ToServer == {"init", "data", "term", "disconnect"}
ToClient == {"init", "init error", "analyzed", "term", "term error", "disconnect"}

LEMMA HasEmpty ==
  ASSUME NEW ms
  PROVE  ~Has(<<>>, ms)
BY DEF Has

LEMMA HasHead ==
  ASSUME NEW M, NEW q \in Seq(M), NEW ms, q # <<>>, Head(q) \in ms
  PROVE  Has(q, ms)
BY DEF Has

LEMMA HasTail ==
  ASSUME NEW M, NEW q \in Seq(M), q # <<>>
  PROVE  /\ Tail(q) \in Seq(M)
         /\ \A ms : Has(Tail(q), ms) => Has(q, ms)
         /\ Once(q) => Once(Tail(q)) /\ (Head(q) = "init" => ~Has(Tail(q), {"init"}))
<1>1. Tail(q) \in Seq(M) /\ Len(Tail(q)) = Len(q) - 1 /\ Len(q) \in Nat \ {0}
  OBVIOUS
<1>2. \A i \in 1 .. Len(Tail(q)) : i + 1 \in 1 .. Len(q) /\ Tail(q)[i] = q[i + 1]
  BY <1>1
<1>3. \A ms : Has(Tail(q), ms) => Has(q, ms)
  BY <1>2 DEF Has
<1>4. Once(q) => Once(Tail(q))
  BY <1>1, <1>2 DEF Once
<1>5. Once(q) /\ Head(q) = "init" => ~Has(Tail(q), {"init"})
  <2>. SUFFICES ASSUME Once(q), Head(q) = "init", NEW i \in 1 .. Len(Tail(q)),
                       Tail(q)[i] = "init"
                PROVE  FALSE
    BY DEF Has
  <2>1. 1 \in 1 .. Len(q) /\ q[1] = "init"
    BY <1>1
  <2>2. i + 1 \in 1 .. Len(q) /\ q[i + 1] = "init"
    BY <1>2
  <2>3. 1 = i + 1
    BY <2>1, <2>2 DEF Once
  <2>. QED
    BY <2>3, <1>1
<1>. QED
  BY <1>1, <1>3, <1>4, <1>5

LEMMA HasAppend ==
  ASSUME NEW M, NEW q \in Seq(M), NEW m \in M
  PROVE  /\ Append(q, m) \in Seq(M)
         /\ \A ms : Has(Append(q, m), ms) => Has(q, ms) \/ m \in ms
         /\ Once(q) /\ (m = "init" => ~Has(q, {"init"})) => Once(Append(q, m))
<1>1. /\ Append(q, m) \in Seq(M) /\ Len(Append(q, m)) = Len(q) + 1 /\ Len(q) \in Nat
      /\ Append(q, m)[Len(q) + 1] = m
      /\ \A i \in 1 .. Len(q) : Append(q, m)[i] = q[i]
  OBVIOUS
<1>2. \A i \in 1 .. Len(q) + 1 : i \in 1 .. Len(q) \/ i = Len(q) + 1
  BY <1>1
<1>3. \A ms : Has(Append(q, m), ms) => Has(q, ms) \/ m \in ms
  BY <1>1, <1>2 DEF Has
<1>4. ASSUME Once(q), m = "init" => ~Has(q, {"init"})
      PROVE  Once(Append(q, m))
  BY <1>1, <1>2, <1>4 DEF Once, Has
<1>. QED
  BY <1>1, <1>3, <1>4

LEMMA HasSubSeq ==
  ASSUME NEW M, NEW q \in Seq(M), NEW n \in 0 .. Len(q)
  PROVE  /\ SubSeq(q, 1, n) \in Seq(M)
         /\ \A ms : Has(SubSeq(q, 1, n), ms) => Has(q, ms)
         /\ Once(q) => Once(SubSeq(q, 1, n))
<1>1. SubSeq(q, 1, n) \in Seq(M) /\ Len(SubSeq(q, 1, n)) = n /\ Len(q) \in Nat
  OBVIOUS
<1>2. \A i \in 1 .. n : i \in 1 .. Len(q) /\ SubSeq(q, 1, n)[i] = q[i]
  BY <1>1
<1>. QED
  BY <1>1, <1>2 DEF Has, Once

LEMMA HasConcat ==
  ASSUME NEW M, NEW q \in Seq(M), NEW r \in Seq(M)
  PROVE  /\ q \o r \in Seq(M)
         /\ \A ms : Has(q \o r, ms) => Has(q, ms) \/ Has(r, ms)
<1>1. /\ q \o r \in Seq(M) /\ Len(q \o r) = Len(q) + Len(r)
      /\ Len(q) \in Nat /\ Len(r) \in Nat
  OBVIOUS
<1>2. \A i \in 1 .. Len(q \o r) :
        \/ i \in 1 .. Len(q) /\ (q \o r)[i] = q[i]
        \/ i - Len(q) \in 1 .. Len(r) /\ (q \o r)[i] = r[i - Len(q)]
  BY <1>1
<1>. QED
  BY <1>1, <1>2 DEF Has

\* What is said is added to what the client has not read, or dropped.
LEMMA Said ==
  ASSUME TypeOK, NEW r \in Seq(ToClient), Say(r)
  PROVE  /\ toClient' \in Seq(ToClient)
         /\ \A ms : Has(toClient', ms) => Has(toClient, ms) \/ (socket /\ Has(r, ms))
BY HasConcat DEF Say, TypeOK, ToClient

LEMMA ClosedFacts ==
  ASSUME TypeOK, NEW c \in Closer, Closed(c)
  PROVE  /\ ~engineClient' /\ ~socket' /\ toServer' = <<>>
         /\ engineClient' \in BOOLEAN /\ socket' \in BOOLEAN
         /\ closes' = [closes EXCEPT ![c] = "done"]
         /\ toClient' \in Seq(ToClient)
         /\ \A ms : Has(toClient', ms) =>
              \/ Has(toClient, ms)
              \/ "disconnect" \in ms
              \/ "term" \in ms /\ c = "term" /\ socket
<1>1. CASE c = "term"
  <2>1. <<"term", "disconnect">> \in Seq(ToClient) /\ Say(<<"term", "disconnect">>)
    BY <1>1 DEF Closed, ToClient
  <2>2. \A ms : Has(<<"term", "disconnect">>, ms) => "term" \in ms \/ "disconnect" \in ms
    BY DEF Has
  <2>. QED
    BY <1>1, <2>1, <2>2, Said DEF Closed
<1>2. CASE c # "term"
  <2>1. <<"disconnect">> \in Seq(ToClient) /\ Say(<<"disconnect">>)
    BY <1>2 DEF Closed, ToClient
  <2>2. \A ms : Has(<<"disconnect">>, ms) => "disconnect" \in ms
    BY DEF Has
  <2>. QED
    BY <1>2, <2>1, <2>2, Said DEF Closed
<1>. QED
  BY <1>1, <1>2

\* One event is said.
LEMMA SaidOne ==
  ASSUME TypeOK, NEW m \in ToClient, Say(<<m>>)
  PROVE  /\ toClient' \in Seq(ToClient)
         /\ \A ms : Has(toClient', ms) => Has(toClient, ms) \/ (socket /\ m \in ms)
<1>1. <<m>> \in Seq(ToClient) /\ \A ms : Has(<<m>>, ms) => m \in ms
  BY DEF Has
<1>. QED
  BY <1>1, Said

LEMMA Sent ==
  ASSUME TypeOK, NEW m \in ToServer, NEW from, NEW to, ClientSends(m, from, to)
  PROVE  /\ toServer' \in Seq(ToServer)
         /\ \A ms : Has(toServer', ms) => Has(toServer, ms) \/ m \in ms
         /\ Once(toServer) /\ (m = "init" => ~Has(toServer, {"init"})) => Once(toServer')
BY HasAppend DEF ClientSends, TypeOK, ToServer

LEMMA Received ==
  ASSUME TypeOK, NEW m \in ToServer, Receives(m)
  PROVE  /\ Tail(toServer) \in Seq(ToServer)
         /\ \A ms : Has(Tail(toServer), ms) => Has(toServer, ms)
         /\ \A ms : m \in ms => Has(toServer, ms)
         /\ Once(toServer) => Once(Tail(toServer))
         /\ Once(toServer) /\ m = "init" => ~Has(Tail(toServer), {"init"})
BY HasHead, HasTail DEF Receives, TypeOK, ToServer

LEMMA Left ==
  ASSUME TypeOK, Leave
  PROVE  /\ toServer' \in Seq(ToServer) /\ (Once(toServer) => Once(toServer'))
         /\ \A ms : Has(toServer', ms) => Has(toServer, ms) \/ "disconnect" \in ms
<1>1. PICK n \in 0 .. Len(toServer) :
        toServer' = IF socket THEN Append(SubSeq(toServer, 1, n), "disconnect")
                    ELSE toServer
  BY DEF Leave
<1>2. toServer \in Seq(ToServer)
  BY DEF TypeOK, ToServer
<1>3. /\ SubSeq(toServer, 1, n) \in Seq(ToServer)
      /\ \A ms : Has(SubSeq(toServer, 1, n), ms) => Has(toServer, ms)
      /\ Once(toServer) => Once(SubSeq(toServer, 1, n))
  BY <1>2, HasSubSeq
<1>4. \A q \in Seq(ToServer) :
        /\ Append(q, "disconnect") \in Seq(ToServer)
        /\ \A ms : Has(Append(q, "disconnect"), ms) => Has(q, ms) \/ "disconnect" \in ms
        /\ Once(q) => Once(Append(q, "disconnect"))
  BY HasAppend DEF ToServer
<1>. QED
  BY <1>1, <1>2, <1>3, <1>4

LEMMA Heard ==
  ASSUME TypeOK, toClient # <<>>
  PROVE  /\ Tail(toClient) \in Seq(ToClient) /\ Head(toClient) \in ToClient
         /\ \A ms : Has(Tail(toClient), ms) => Has(toClient, ms)
         /\ \A ms : Head(toClient) \in ms => Has(toClient, ms)
<1>1. toClient \in Seq(ToClient)
  BY DEF TypeOK, ToClient
<1>2. \A ms : Head(toClient) \in ms => Has(toClient, ms)
  BY <1>1, HasHead
<1>3. /\ Tail(toClient) \in Seq(ToClient)
      /\ \A ms : Has(Tail(toClient), ms) => Has(toClient, ms)
  BY <1>1, HasTail
<1>. QED
  BY <1>1, <1>2, <1>3

LEMMA EmptyFacts ==
  /\ <<>> \in Seq(ToServer) /\ <<>> \in Seq(ToClient)
  /\ Once(<<>>) /\ \A ms : ~Has(<<>>, ms)
BY HasEmpty DEF Once

-----------------------------------------------------------------------------
(***************************************************************************)
(* The steps.                                                              *)
(***************************************************************************)
LEMMA Step ==
  ASSUME Inv, Next
  PROVE  Inv'
<1>. USE DEF clientVars, engineVars, managerVars
<1>. SUFFICES Flags' /\ Values' /\ OnceInv' /\ WaitingInv'
  BY TypesNext DEF Inv
<1>. TypeOK /\ Flags /\ Values /\ OnceInv /\ WaitingInv /\ faults' = faults
  BY Types DEF Inv, Next
<1>0. closes \in [Closer -> {"idle", "redis", "waiting", "done"}]
  BY DEF Values
<1>1. CASE ClientInit
  <2>1. /\ toServer' \in Seq(ToServer)
        /\ Once(toServer) /\ ~Has(toServer, {"init"}) => Once(toServer')
        /\ \A ms : Has(toServer', ms) => Has(toServer, ms) \/ "init" \in ms
    BY <1>1, Sent DEF ClientInit, ToServer
  <2>2. Flags'
    BY <1>1, <2>1 DEF ClientInit, ClientSends, Flags
  <2>3. Values'
    BY <1>1, <2>1 DEF ClientInit, ClientSends, Values, Closer, ToServer, ToClient
  <2>4. OnceInv'
    BY <1>1, <2>1 DEF ClientInit, ClientSends, OnceInv, Closer
  <2>5. WaitingInv'
    BY <1>1, <2>1 DEF ClientInit, ClientSends, OnceInv, WaitingInv, InitInv,
       EngineInv, TermInv, Began, Closer
  <2>. QED
    BY <2>2, <2>3, <2>4, <2>5
<1>2. CASE Send
  <2>1. /\ toServer' \in Seq(ToServer) /\ (Once(toServer) => Once(toServer'))
        /\ \A ms : Has(toServer', ms) => Has(toServer, ms) \/ "data" \in ms
    BY <1>2, Sent DEF Send, ToServer
  <2>2. Flags'
    BY <1>2, <2>1 DEF Send, ClientSends, Ready, Flags
  <2>3. Values'
    <3>0. spoken \in 0 .. MaxAudio
      BY DEF Values
    <3>1. spoken' \in 0 .. MaxAudio
      BY <1>2, <3>0, SocketIoAssumption DEF Send
    <3>. QED
      BY <1>2, <2>1, <3>1 DEF Send, ClientSends, Ready, Values, ToServer
  <2>4. OnceInv'
    BY <1>2, <2>1 DEF Send, ClientSends, Ready, OnceInv, Closer
  <2>5. WaitingInv'
    BY <1>2, <2>1 DEF Send, ClientSends, Ready, OnceInv, WaitingInv, InitInv,
       EngineInv, TermInv, Began, Closer
  <2>. QED
    BY <2>2, <2>3, <2>4, <2>5
<1>3. CASE Term
  <2>1. /\ toServer' \in Seq(ToServer) /\ (Once(toServer) => Once(toServer'))
        /\ \A ms : Has(toServer', ms) => Has(toServer, ms) \/ "term" \in ms
    BY <1>3, Sent DEF Term, ToServer
  <2>2. Flags'
    BY <1>3, <2>1 DEF Term, ClientSends, Ready, Flags
  <2>3. Values'
    BY <1>3, <2>1 DEF Term, ClientSends, Ready, Values, Closer, ToServer, ToClient
  <2>4. OnceInv'
    BY <1>3, <2>1 DEF Term, ClientSends, Ready, OnceInv, Closer
  <2>5. WaitingInv'
    BY <1>3, <2>1 DEF Term, ClientSends, Ready, OnceInv, WaitingInv, InitInv,
       EngineInv, TermInv, Began, Closer
  <2>. QED
    BY <2>2, <2>3, <2>4, <2>5
<1>4. CASE Leave
  <2>1. /\ toServer' \in Seq(ToServer) /\ (Once(toServer) => Once(toServer'))
        /\ \A ms : Has(toServer', ms) => Has(toServer, ms) \/ "disconnect" \in ms
    BY <1>4, Left DEF Leave, TypeOK, ToServer
  <2>2. Flags'
    BY <1>4, <2>1, EmptyFacts DEF Leave, Flags
  <2>3. Values'
    BY <1>4, <2>1, EmptyFacts DEF Leave, Values, Closer, ToServer, ToClient
  <2>4. OnceInv'
    BY <1>4, <2>1, EmptyFacts DEF Leave, OnceInv, Closer
  <2>5. WaitingInv'
    BY <1>4, <2>1, EmptyFacts DEF Leave, OnceInv, WaitingInv, InitInv, EngineInv,
       TermInv, Began, Closer
  <2>. QED
    BY <2>2, <2>3, <2>4, <2>5
<1>5. CASE ClientReceives
  <2>1. /\ toClient' \in Seq(ToClient) /\ Head(toClient) \in ToClient
        /\ \A ms : Has(toClient', ms) => Has(toClient, ms)
        /\ \A ms : Head(toClient) \in ms => Has(toClient, ms)
    BY <1>5, Heard DEF ClientReceives
  <2>2. Flags'
    BY <1>5, <2>1 DEF ClientReceives, Reaction, Flags
  <2>3. Values'
    BY <1>5, <2>1 DEF ClientReceives, Reaction, Values, Closer, ToServer, ToClient
  <2>4. OnceInv'
    BY <1>5, <2>1 DEF ClientReceives, Reaction, OnceInv, Closer
  <2>5. WaitingInv'
    BY <1>5, <2>1 DEF ClientReceives, Reaction, OnceInv, WaitingInv, InitInv,
       EngineInv, TermInv, Began, Closer
  <2>. QED
    BY <2>2, <2>3, <2>4, <2>5
<1>6. CASE RecvInit
  <2>1. /\ Tail(toServer) \in Seq(ToServer) /\ Has(toServer, {"init"})
        /\ Once(toServer) => Once(Tail(toServer)) /\ ~Has(Tail(toServer), {"init"})
        /\ \A ms : Has(Tail(toServer), ms) => Has(toServer, ms)
    BY <1>6, Received DEF RecvInit, ToServer
  <2>2. Flags'
    BY <1>6, <2>1 DEF RecvInit, Flags
  <2>3. Values'
    BY <1>6, <2>1 DEF RecvInit, Values, Closer, ToServer, ToClient
  <2>4. OnceInv'
    BY <1>6, <2>1 DEF RecvInit, OnceInv, Closer
  <2>5. WaitingInv'
    BY <1>6, <2>1 DEF RecvInit, OnceInv, WaitingInv, InitInv, EngineInv, TermInv,
       Began, Closer
  <2>. QED
    BY <2>2, <2>3, <2>4, <2>5
<1>7. CASE EngineConnects
  <2>1. Flags'
    BY <1>7 DEF EngineConnects, Flags
  <2>2. Values'
    BY <1>7 DEF EngineConnects, Values, Closer, ToServer, ToClient
  <2>3. OnceInv'
    BY <1>7 DEF EngineConnects, OnceInv, Closer
  <2>4. WaitingInv'
    BY <1>7 DEF EngineConnects, OnceInv, WaitingInv, InitInv, EngineInv, TermInv,
       Began, Closer
  <2>. QED
    BY <2>1, <2>2, <2>3, <2>4
<1>8. CASE EngineStarts
  <2>1. Flags'
    BY <1>8 DEF EngineStarts, ArmTimer, Flags
  <2>2. Values'
    BY <1>8 DEF EngineStarts, ArmTimer, Values, Closer, ToServer, ToClient
  <2>3. OnceInv'
    BY <1>8 DEF EngineStarts, ArmTimer, OnceInv, Closer
  <2>4. WaitingInv'
    BY <1>8 DEF EngineStarts, ArmTimer, OnceInv, WaitingInv, InitInv, EngineInv,
       TermInv, Began, Closer
  <2>. QED
    BY <2>1, <2>2, <2>3, <2>4
<1>9. CASE EngineStartsClosed
  <2>1. Flags'
    BY <1>9 DEF EngineStartsClosed, Flags
  <2>2. Values'
    BY <1>9 DEF EngineStartsClosed, Values, Closer, ToServer, ToClient
  <2>3. OnceInv'
    BY <1>9 DEF EngineStartsClosed, OnceInv, Closer
  <2>4. WaitingInv'
    BY <1>9 DEF EngineStartsClosed, OnceInv, WaitingInv, InitInv, EngineInv,
       TermInv, Began, Closer
  <2>. QED
    BY <2>1, <2>2, <2>3, <2>4
<1>10. CASE Subscribed
  <2>1. Flags'
    BY <1>10 DEF Subscribed, Flags
  <2>2. Values'
    BY <1>10 DEF Subscribed, Values, Closer, ToServer, ToClient
  <2>3. OnceInv'
    BY <1>10 DEF Subscribed, OnceInv, Closer
  <2>4. WaitingInv'
    BY <1>10 DEF Subscribed, OnceInv, WaitingInv, InitInv, EngineInv, TermInv,
       Began, Closer
  <2>. QED
    BY <2>1, <2>2, <2>3, <2>4
<1>11. CASE Started
  <2>1. /\ toClient' \in Seq(ToClient)
        /\ \A ms : Has(toClient', ms) => Has(toClient, ms) \/ "init" \in ms
    BY <1>11, SaidOne DEF Started, ToClient
  <2>2. Flags'
    BY <1>11, <2>1 DEF Started, Flags
  <2>3. Values'
    BY <1>11, <2>1 DEF Started, Values, Closer, ToServer, ToClient
  <2>4. OnceInv'
    BY <1>11, <2>1 DEF Started, OnceInv, Closer
  <2>5. WaitingInv'
    BY <1>11, <2>1 DEF Started, OnceInv, WaitingInv, InitInv, EngineInv, TermInv,
       Began, Closer
  <2>. QED
    BY <2>2, <2>3, <2>4, <2>5
<1>12. CASE InitFails
  <2>1. /\ toClient' \in Seq(ToClient)
        /\ \A ms : Has(toClient', ms) => Has(toClient, ms) \/ "init error" \in ms
    BY <1>12, SaidOne DEF InitFails, ToClient
  <2>2. Flags'
    BY <1>12, <2>1 DEF InitFails, Flags
  <2>3. Values'
    BY <1>12, <2>1 DEF InitFails, Values, Closer, ToServer, ToClient
  <2>4. OnceInv'
    BY <1>12, <2>1 DEF InitFails, OnceInv, Closer
  <2>5. WaitingInv'
    BY <1>12, <2>1 DEF InitFails, OnceInv, WaitingInv, InitInv, EngineInv,
       TermInv, Began, Closer
  <2>. QED
    BY <2>2, <2>3, <2>4, <2>5
<1>13. CASE RecvData
  <2>1. /\ Tail(toServer) \in Seq(ToServer) /\ Has(toServer, {"data", "term"}) /\ socket
        /\ Once(toServer) => Once(Tail(toServer))
        /\ \A ms : Has(Tail(toServer), ms) => Has(toServer, ms)
    BY <1>13, Received DEF RecvData, Receives, ToServer
  <2>2. Flags'
    BY <1>13, <2>1 DEF RecvData, Accepting, Flags
  <2>3. Values'
    BY <1>13, <2>1 DEF RecvData, Accepting, Values, Closer, ToServer, ToClient
  <2>4. OnceInv'
    BY <1>13, <2>1 DEF RecvData, Accepting, OnceInv, Closer
  <2>5. WaitingInv'
    BY <1>13, <2>1 DEF RecvData, Accepting, OnceInv, WaitingInv, InitInv,
       EngineInv, TermInv, Began, Closer
  <2>. QED
    BY <2>2, <2>3, <2>4, <2>5
<1>14. CASE RecvTerm
  <2>1. /\ Tail(toServer) \in Seq(ToServer) /\ Has(toServer, {"data", "term"}) /\ socket
        /\ Once(toServer) => Once(Tail(toServer))
        /\ \A ms : Has(Tail(toServer), ms) => Has(toServer, ms)
    BY <1>14, Received DEF RecvTerm, Receives, ToServer
  <2>2. CASE engineClient /\ Reporting("term")
    <3>1. Flags'
      BY <1>14, <2>1, <2>2, EmptyFacts DEF RecvTerm, CloseEngine, Reporting, Flags
    <3>2. Values'
      BY <1>14, <2>1, <2>2, EmptyFacts DEF RecvTerm, CloseEngine, Reporting,
         Values, Closer, ToServer, ToClient
    <3>3. OnceInv'
      BY <1>14, <2>1, <2>2, EmptyFacts DEF RecvTerm, CloseEngine, Reporting,
         OnceInv, Closer
    <3>4. WaitingInv'
      BY <1>0, <1>14, <2>1, <2>2, EmptyFacts DEF RecvTerm, CloseEngine,
         Reporting, OnceInv, WaitingInv, InitInv, EngineInv, TermInv, Began,
         Closer
    <3>. QED
      BY <3>1, <3>2, <3>3, <3>4
  <2>3. CASE engineClient /\ ~Reporting("term")
    <3>1. "term" \in Closer /\ Closed("term")
      BY <1>14, <2>1, <2>3 DEF RecvTerm, CloseEngine, Reporting, Closer, TypeOK
    <3>2. /\ ~engineClient' /\ ~socket' /\ toServer' = <<>>
          /\ engineClient' \in BOOLEAN /\ socket' \in BOOLEAN
          /\ closes' = [closes EXCEPT !["term"] = "done"]
          /\ toClient' \in Seq(ToClient)
          /\ \A ms : Has(toClient', ms) =>
               Has(toClient, ms) \/ "disconnect" \in ms \/ ("term" \in ms /\ socket)
      BY <3>1, ClosedFacts
    <3>3. Flags'
      BY <1>14, <2>1, <2>3, <3>1, <3>2, EmptyFacts DEF RecvTerm, CloseEngine,
         Reporting, Flags
    <3>4. Values'
      BY <1>14, <2>1, <2>3, <3>1, <3>2, EmptyFacts DEF RecvTerm, CloseEngine,
         Reporting, Values, Closer, ToServer, ToClient
    <3>5. OnceInv'
      BY <1>14, <2>1, <2>3, <3>1, <3>2, EmptyFacts DEF RecvTerm, CloseEngine,
         Reporting, OnceInv, Closer
    <3>6. WaitingInv'
      BY <1>0, <1>14, <2>1, <2>3, <3>1, <3>2, EmptyFacts DEF RecvTerm,
         CloseEngine, Reporting, OnceInv, WaitingInv, InitInv, EngineInv,
         TermInv, Began, Closer
    <3>. QED
      BY <3>3, <3>4, <3>5, <3>6
  <2>4. CASE ~engineClient
    <3>1. /\ toClient' \in Seq(ToClient)
          /\ \A ms : Has(toClient', ms) => Has(toClient, ms) \/ "term error" \in ms
      BY <1>14, <2>1, <2>4, SaidOne DEF RecvTerm, ToClient
    <3>1a. /\ toServer' = Tail(toServer)
          /\ UNCHANGED <<client, socket, init, engineClient, engine, closing, dataSent,
                         pending, waiter, closes, timer, thrown>>
      BY <1>14, <2>4 DEF RecvTerm
    <3>2. Flags'
      BY <1>14, <2>1, <2>4, <3>1, EmptyFacts DEF RecvTerm, Flags
    <3>3. Values'
      BY <1>14, <2>1, <2>4, <3>1, EmptyFacts DEF RecvTerm, Values, Closer,
         ToServer, ToClient
    <3>4. OnceInv'
      BY <2>1, <3>1, <3>1a DEF OnceInv
    <3>5. WaitingInv'
      BY <1>0, <2>1, <3>1, <3>1a DEF WaitingInv, InitInv, EngineInv, TermInv,
         Began, Closer
    <3>. QED
      BY <3>2, <3>3, <3>4, <3>5
  <2>. QED
    BY <2>2, <2>3, <2>4
<1>15. CASE RecvDisconnect
  <2>1. /\ Tail(toServer) \in Seq(ToServer)
        /\ Once(toServer) => Once(Tail(toServer))
        /\ \A ms : Has(Tail(toServer), ms) => Has(toServer, ms)
    BY <1>15, Received DEF RecvDisconnect, ToServer
  <2>2. CASE engineClient /\ Reporting("disconnect")
    <3>1. Flags'
      BY <1>15, <2>1, <2>2, EmptyFacts DEF RecvDisconnect, Disconnected,
         CloseSession, CloseEngine, Reporting, Flags
    <3>2. Values'
      BY <1>15, <2>1, <2>2, EmptyFacts DEF RecvDisconnect, Disconnected,
         CloseSession, CloseEngine, Reporting, Values, Closer, ToServer, ToClient
    <3>3. OnceInv'
      BY <1>15, <2>1, <2>2, EmptyFacts DEF RecvDisconnect, Disconnected,
         CloseSession, CloseEngine, Reporting, OnceInv, Closer
    <3>4. WaitingInv'
      BY <1>0, <1>15, <2>1, <2>2, EmptyFacts DEF RecvDisconnect, Disconnected,
         CloseSession, CloseEngine, Reporting, OnceInv, WaitingInv, InitInv,
         EngineInv, TermInv, Began, Closer
    <3>. QED
      BY <3>1, <3>2, <3>3, <3>4
  <2>3. CASE ~(engineClient /\ Reporting("disconnect"))
    <3>1. "disconnect" \in Closer /\ Closed("disconnect")
      BY <1>15, <2>1, <2>3 DEF RecvDisconnect, Disconnected, CloseSession,
         CloseEngine, Reporting, Closer, TypeOK
    <3>2. /\ ~engineClient' /\ ~socket' /\ toServer' = <<>>
          /\ engineClient' \in BOOLEAN /\ socket' \in BOOLEAN
          /\ closes' = [closes EXCEPT !["disconnect"] = "done"]
          /\ toClient' \in Seq(ToClient)
          /\ \A ms : Has(toClient', ms) =>
               Has(toClient, ms) \/ "disconnect" \in ms
      BY <3>1, ClosedFacts
    <3>3. Flags'
      BY <1>15, <2>1, <2>3, <3>1, <3>2, EmptyFacts DEF RecvDisconnect,
         Disconnected, CloseSession, CloseEngine, Reporting, Flags
    <3>4. Values'
      BY <1>15, <2>1, <2>3, <3>1, <3>2, EmptyFacts DEF RecvDisconnect,
         Disconnected, CloseSession, CloseEngine, Reporting, Values, Closer,
         ToServer, ToClient
    <3>5. OnceInv'
      BY <1>15, <2>1, <2>3, <3>1, <3>2, EmptyFacts DEF RecvDisconnect,
         Disconnected, CloseSession, CloseEngine, Reporting, OnceInv, Closer
    <3>6. WaitingInv'
      BY <1>0, <1>15, <2>1, <2>3, <3>1, <3>2, EmptyFacts DEF RecvDisconnect,
         Disconnected, CloseSession, CloseEngine, Reporting, OnceInv, WaitingInv,
         InitInv, EngineInv, TermInv, Began, Closer
    <3>. QED
      BY <3>3, <3>4, <3>5, <3>6
  <2>. QED
    BY <2>2, <2>3
<1>16. CASE TimerFires
  <2>1. Flags'
    BY <1>16 DEF TimerFires, Flags
  <2>2. Values'
    BY <1>16 DEF TimerFires, Values, Closer, ToServer, ToClient
  <2>3. OnceInv'
    BY <1>16 DEF TimerFires, OnceInv, Closer
  <2>4. WaitingInv'
    BY <1>0, <1>16 DEF TimerFires, OnceInv, WaitingInv, InitInv, EngineInv,
       TermInv, Began, Closer
  <2>. QED
    BY <2>1, <2>2, <2>3, <2>4
<1>17. CASE ManagerCloses
  <2>1. CASE engineClient /\ Reporting("manager")
    <3>1. Flags'
      BY <1>17, <2>1, EmptyFacts DEF ManagerCloses, CloseSession, CloseEngine,
         Reporting, Flags
    <3>2. Values'
      BY <1>17, <2>1, EmptyFacts DEF ManagerCloses, CloseSession, CloseEngine,
         Reporting, Values, Closer, ToServer, ToClient
    <3>3. OnceInv'
      BY <1>17, <2>1, EmptyFacts DEF ManagerCloses, CloseSession, CloseEngine,
         Reporting, OnceInv, Closer
    <3>4. WaitingInv'
      BY <1>0, <1>17, <2>1, EmptyFacts DEF ManagerCloses, CloseSession,
         CloseEngine, Reporting, OnceInv, WaitingInv, InitInv, EngineInv,
         TermInv, Began, Closer
    <3>. QED
      BY <3>1, <3>2, <3>3, <3>4
  <2>2. CASE ~(engineClient /\ Reporting("manager"))
    <3>1. "manager" \in Closer /\ Closed("manager")
      BY <1>17, <2>2 DEF ManagerCloses, CloseSession, CloseEngine, Reporting,
         Closer, TypeOK
    <3>2. /\ ~engineClient' /\ ~socket' /\ toServer' = <<>>
          /\ engineClient' \in BOOLEAN /\ socket' \in BOOLEAN
          /\ closes' = [closes EXCEPT !["manager"] = "done"]
          /\ toClient' \in Seq(ToClient)
          /\ \A ms : Has(toClient', ms) =>
               Has(toClient, ms) \/ "disconnect" \in ms
      BY <3>1, ClosedFacts
    <3>3. Flags'
      BY <1>17, <2>2, <3>1, <3>2, EmptyFacts DEF ManagerCloses, CloseSession,
         CloseEngine, Reporting, Flags
    <3>4. Values'
      <4>1. /\ engine' \in {engine, "gone"} /\ waiter' = waiter
            /\ UNCHANGED <<clientVars, init>>
        BY <1>17, <2>2 DEF ManagerCloses, CloseSession, CloseEngine
      <4>2. toServer' \in Seq(ToServer) /\ toClient' \in Seq(ToClient)
        BY <3>2, EmptyFacts DEF ToServer
      <4>3. closes' \in [Closer -> {"idle", "redis", "waiting", "done"}]
        BY <3>1, <3>2 DEF Values
      <4>. QED
        BY <4>1, <4>2, <4>3 DEF Values, ToServer, ToClient, clientVars
    <3>5. OnceInv'
      BY <1>17, <2>2, <3>1, <3>2, EmptyFacts DEF ManagerCloses, CloseSession,
         CloseEngine, Reporting, OnceInv, Closer
    <3>6. WaitingInv'
      BY <1>0, <1>17, <2>2, <3>1, <3>2, EmptyFacts DEF ManagerCloses,
         CloseSession, CloseEngine, Reporting, OnceInv, WaitingInv, InitInv,
         EngineInv, TermInv, Began, Closer
    <3>. QED
      BY <3>3, <3>4, <3>5, <3>6
  <2>. QED
    BY <2>1, <2>2
<1>18. CASE Analyzed
  <2>1. /\ toClient' \in Seq(ToClient)
        /\ \A ms : Has(toClient', ms) => Has(toClient, ms) \/ "analyzed" \in ms
    BY <1>18, SaidOne DEF Analyzed, ToClient
  <2>2. Flags'
    BY <1>18, <2>1 DEF Analyzed, Flags
  <2>3. Values'
    BY <1>18, <2>1 DEF Analyzed, Values, Closer, ToServer, ToClient
  <2>4. OnceInv'
    BY <1>18, <2>1 DEF Analyzed, OnceInv, Closer
  <2>5. WaitingInv'
    BY <1>18, <2>1 DEF Analyzed, OnceInv, WaitingInv, InitInv, EngineInv,
       TermInv, Began, Closer
  <2>. QED
    BY <2>2, <2>3, <2>4, <2>5
<1>19. CASE EngineError
  <2>1. Flags'
    BY <1>19 DEF EngineError, Flags
  <2>2. Values'
    BY <1>19 DEF EngineError, Values, Closer, ToServer, ToClient
  <2>3. OnceInv'
    BY <1>19 DEF EngineError, OnceInv, Closer
  <2>4. WaitingInv'
    BY <1>19 DEF EngineError, OnceInv, WaitingInv, InitInv, EngineInv, TermInv,
       Began, Closer
  <2>. QED
    BY <2>1, <2>2, <2>3, <2>4
<1>20. CASE EngineClosed
  <2>1. CASE waiter = "itself"
    <3>1. Flags'
      BY <1>20, <2>1, EmptyFacts DEF EngineClosed, Flags
    <3>2. Values'
      BY <1>20, <2>1, EmptyFacts DEF EngineClosed, Values, Closer, ToServer,
         ToClient
    <3>3. OnceInv'
      BY <1>20, <2>1, EmptyFacts DEF EngineClosed, OnceInv, Closer
    <3>4. WaitingInv'
      BY <1>20, <2>1, EmptyFacts DEF EngineClosed, OnceInv, WaitingInv, InitInv,
         EngineInv, TermInv, Began, Closer
    <3>. QED
      BY <3>1, <3>2, <3>3, <3>4
  <2>2. CASE waiter # "itself"
    <3>1. waiter \in Closer /\ Closed(waiter)
      BY <1>20, <2>2 DEF EngineClosed, Closer, TypeOK
    <3>2. /\ ~engineClient' /\ ~socket' /\ toServer' = <<>>
          /\ engineClient' \in BOOLEAN /\ socket' \in BOOLEAN
          /\ closes' = [closes EXCEPT ![waiter] = "done"]
          /\ toClient' \in Seq(ToClient)
          /\ \A ms : Has(toClient', ms) =>
               Has(toClient, ms) \/ "disconnect" \in ms \/ ("term" \in ms /\ waiter = "term" /\ socket)
      BY <3>1, ClosedFacts
    <3>3. Flags'
      BY <1>20, <2>2, <3>1, <3>2, EmptyFacts DEF EngineClosed, Flags
    <3>4. Values'
      BY <1>20, <2>2, <3>1, <3>2, EmptyFacts DEF EngineClosed, Values, Closer,
         ToServer, ToClient
    <3>5. OnceInv'
      BY <1>20, <2>2, <3>1, <3>2, EmptyFacts DEF EngineClosed, OnceInv, Closer
    <3>6. WaitingInv'
      BY <1>20, <2>2, <3>1, <3>2, EmptyFacts DEF EngineClosed, OnceInv,
         WaitingInv, InitInv, EngineInv, TermInv, Began, Closer
    <3>. QED
      BY <3>3, <3>4, <3>5, <3>6
  <2>. QED
    BY <2>1, <2>2
<1>. QED
  BY <1>1, <1>2, <1>3, <1>4, <1>5, <1>6, <1>7, <1>8, <1>9, <1>10, <1>11, <1>12,
     <1>13, <1>14, <1>15, <1>16, <1>17, <1>18, <1>19, <1>20 DEF Next

THEOREM Invariant == Spec => []Inv
<1>1. Init => Inv
  <2>. SUFFICES ASSUME Init PROVE Inv
    OBVIOUS
  <2>1. Flags
    BY DEF Init, Flags
  <2>4. Values
    <3>1. spoken \in 0 .. MaxAudio
      BY SocketIoAssumption DEF Init
    <3>2. closes \in [Closer -> {"idle", "redis", "waiting", "done"}]
      BY DEF Init
    <3>. QED
      BY <3>1, <3>2, EmptyFacts DEF Init, Values, ToServer, ToClient
  <2>2. OnceInv
    BY EmptyFacts DEF Init, OnceInv
  <2>3. WaitingInv
    BY EmptyFacts DEF Init, WaitingInv, InitInv, EngineInv, TermInv, Began, Closer
  <2>. QED
    BY <2>1, <2>2, <2>3, <2>4, Types DEF Inv
<1>2. Inv /\ [Next]_allVars => Inv'
  <2>1. CASE Next
    BY <2>1, Step
  <2>2. CASE UNCHANGED allVars
    <3>1. Inv => Flags /\ Values
      BY Types DEF Inv
    <3>2. Inv => Flags'
      BY <2>2, <3>1 DEF allVars, vars, clientVars, engineVars, managerVars, Flags
    <3>3. Inv => Values'
      BY <2>2, <3>1 DEF allVars, vars, clientVars, engineVars, managerVars, Values
    <3>4. Inv => OnceInv' /\ WaitingInv'
      BY <2>2 DEF allVars, vars, clientVars, engineVars, managerVars, Inv,
         OnceInv,
                  WaitingInv, InitInv, EngineInv, TermInv, Began
    <3>. QED
      BY <3>2, <3>3, <3>4, TypesNext DEF Inv
  <2>. QED
    BY <2>1, <2>2
<1>. QED
  BY <1>1, <1>2, PTL DEF Spec

\* Every variable keeps its type, whatever fails and whatever clients send.
THEOREM TypeCorrect == Spec => []TypeOK
<1>1. Inv => TypeOK
  BY DEF Inv
<1>. QED
  BY <1>1, Invariant, PTL

\* When term is answered no result is missing.
THEOREM TermLast == Spec => []TermAfterResults
<1>1. Inv => TermAfterResults
  <2>1. TypeOK /\ Contains(toClient, "term") => Has(toClient, {"term"})
    BY DEF Contains, Has
  <2>. QED
    BY <2>1 DEF Inv, WaitingInv, TermInv, TermAfterResults
<1>. QED
  BY <1>1, Invariant, PTL

-----------------------------------------------------------------------------
(***************************************************************************)
(* The engine client as its owner sees it.                                 *)
(***************************************************************************)

\* What the session knows of an engine client that has been created, fed,
\* closed and forgotten, for every client and scenario.
OwnerInv ==
  /\ engine = "none" => ~engineClient /\ ~closing /\ ~dataSent /\ waiter = "none"
  /\ dataSent => engine \in {"handshake", "running", "gone"}
  /\ dataSent /\ engine = "gone" => closing
  /\ dataSent /\ closing /\ waiter = "none" => engine = "gone"
  /\ ~engineClient => waiter = "none" /\ (engine = "none" \/ closing)

\* The timer is armed once, and not before the engine client has started.
TimerInv ==
  /\ timer => closes["manager"] = "idle"
  /\ Began => init \in {"subscribe", "hset", "done"}
  /\ engine = "connecting" => init = "engine"
  /\ waiter = "manager" => closes["manager"] # "idle"

ownerVars == <<ClientState, dataSent, waiter, Outcomes>>

LEMMA TimerNext == Inv /\ TimerInv /\ [Next]_allVars => TimerInv'
<1> SUFFICES ASSUME Inv, TimerInv, [Next]_allVars PROVE TimerInv'
  OBVIOUS
<1>0. closes \in [Closer -> {"idle", "redis", "waiting", "done"}] /\ timer \in BOOLEAN
  BY Types DEF Inv, Values, Flags
<1>1. CASE RecvInit
  <2>1. init = "idle"
    <3>1. Has(toServer, {"init"})
      BY <1>1, Received DEF RecvInit, Inv, ToServer
    <3> QED
      BY <3>1 DEF Inv, OnceInv
  <2>2. ~Began
    BY <2>1 DEF TimerInv
  <2> QED
    BY <1>1, <2>2 DEF RecvInit, TimerInv, Began, managerVars, engineVars
<1>2. CASE EngineConnects
  <2>1. engine = "connecting" /\ UNCHANGED <<closes, timer, waiter>>
        /\ engine' \in {"handshake", "gone"}
        /\ init' \in {init, "error"}
    BY <1>2 DEF EngineConnects, managerVars
  <2>2. ~Began
    BY <2>1 DEF TimerInv
  <2> QED
    BY <2>1, <2>2 DEF TimerInv, Began
<1>3. CASE EngineStarts
  <2>1. /\ init = "engine" /\ UNCHANGED <<closes, waiter>> /\ engine' # "connecting"
        /\ \/ init' = "subscribe"
           \/ init' = "error" /\ timer' = timer
    BY <1>3 DEF EngineStarts
  <2>2. ~Began
    BY <2>1 DEF TimerInv
  <2> QED
    BY <2>1, <2>2 DEF TimerInv, Began
<1>4. CASE EngineStartsClosed \/ Subscribed \/ Started \/ InitFails
  <2>1. /\ UNCHANGED <<timer, closes, engine, waiter>>
        /\ \/ init = "engine" /\ engine = "gone" /\ init' = "error"
           \/ init = "subscribe" /\ init' = "hset"
           \/ init = "hset" /\ init' = "done"
           \/ init = "error" /\ init' = "done"
    BY <1>4 DEF EngineStartsClosed, Subscribed, Started, InitFails, engineVars,
       managerVars
  <2> QED
    BY <2>1 DEF TimerInv, Began
<1>5. CASE TimerFires
  <2>1. /\ timer /\ timer' = FALSE /\ UNCHANGED <<init, engine, waiter>>
        /\ closes' = [closes EXCEPT !["manager"] = "redis"]
    BY <1>5 DEF TimerFires, engineVars
  <2> QED
    BY <1>0, <2>1 DEF TimerInv, Began, Closer
<1>6. CASE RecvTerm \/ RecvDisconnect
  <2>1. /\ UNCHANGED <<timer, init>> /\ engine' \in {engine, "gone"}
        /\ closes'["manager"] = closes["manager"]
        /\ waiter' \in {waiter, "term", "disconnect"}
    <3>1. ASSUME NEW c \in {"term", "disconnect"}, CloseEngine(c) \/ CloseSession(c)
          PROVE  /\ engine' \in {engine, "gone"}
                 /\ closes'["manager"] = closes["manager"]
                 /\ waiter' \in {waiter, c}
      BY <1>0, <3>1 DEF CloseEngine, CloseSession, Closed, Closer
    <3> QED
      BY <1>6, <3>1 DEF RecvTerm, RecvDisconnect, Disconnected, managerVars
  <2> QED
    BY <2>1 DEF TimerInv, Began
<1>7. CASE ManagerCloses
  <2>1. /\ UNCHANGED <<timer, init>> /\ engine' \in {engine, "gone"}
        /\ closes["manager"] = "redis" /\ closes'["manager"] \in {"waiting", "done"}
    BY <1>0, <1>7 DEF ManagerCloses, CloseSession, CloseEngine, Closed, Closer
  <2> QED
    BY <2>1 DEF TimerInv, Began
<1>8. CASE EngineClosed
  <2>1. /\ UNCHANGED <<timer, init>> /\ engine' = "gone" /\ waiter # "none"
        /\ \/ closes' = closes
           \/ waiter \in Closer /\ closes' = [closes EXCEPT ![waiter] = "done"]
    BY <1>8, Types DEF EngineClosed, Closed, Inv, Values, managerVars
  <2>2. waiter' = "none"
    BY <1>8 DEF EngineClosed
  <2> QED
    BY <1>0, <2>1, <2>2 DEF TimerInv, Began, Closer
<1>9. CASE \/ ClientInit \/ Send \/ Term \/ Leave \/ ClientReceives \/ RecvData
           \/ Analyzed \/ EngineError \/ UNCHANGED allVars
  <2>1. /\ UNCHANGED <<timer, closes, init, engine>>
        /\ waiter' \in {waiter, "itself"}
    BY <1>9 DEF ClientInit, Send, Term, ClientSends, Leave, ClientReceives,
       RecvData,
       Analyzed, EngineError, engineVars, managerVars, allVars, vars
  <2> QED
    BY <2>1 DEF TimerInv, Began
<1> QED
  BY <1>1, <1>2, <1>3, <1>4, <1>5, <1>6, <1>7, <1>8, <1>9 DEF Next

LEMMA OwnerInit == Init => OwnerInv /\ TimerInv /\ Contract!Init
<1> SUFFICES ASSUME Init PROVE OwnerInv /\ TimerInv /\ Contract!Init
  OBVIOUS
<1>1. OwnerInv /\ TimerInv
  BY DEF Init, OwnerInv, TimerInv, Began, Closer
<1>2. ClientState = "none" /\ dataSent = FALSE /\ waiter = "none"
  BY DEF Init, ClientState
<1>3. Outcomes = [c \in Closer |-> "idle"]
  BY DEF Init, Outcomes
<1> QED
  BY <1>1, <1>2, <1>3 DEF Contract!Init

\* A close() of the engine client for c, and one of the session without one.
LEMMA OwnerCloseEngine ==
  ASSUME Inv, OwnerInv, NEW c \in Closer, engineClient, CloseEngine(c), UNCHANGED dataSent
  PROVE  OwnerInv' /\ [Contract!Next]_ownerVars
<1>1. /\ engine # "none" /\ closing' = TRUE /\ c # "none"
      /\ closes \in [Closer -> {"idle", "redis", "waiting", "done"}]
      /\ waiter # "none" => closing /\ dataSent /\ engine \in {"handshake", "running"}
  BY Types DEF Inv, OwnerInv, OnceInv, CloseEngine, Values, Closer
<1>2. CASE Reporting(c)
  <2>1. /\ dataSent /\ engine \in {"handshake", "running"}
        /\ waiter' = IF waiter = "none" THEN c ELSE waiter
        /\ closes' = [closes EXCEPT ![c] = "waiting"]
        /\ UNCHANGED <<engine, engineClient>>
    BY <1>2 DEF CloseEngine, Reporting
  <2>2. OwnerInv'
    BY <1>1, <2>1 DEF OwnerInv
  <2>3. ClientState' = "closing"
    BY <1>1, <2>1 DEF ClientState
  <2>4. Outcomes' = [Outcomes EXCEPT ![c] = "waiting"]
    BY <1>1, <2>1 DEF Outcomes
  <2>5. CASE waiter = "none"
    <3>1. ClientState = "open"
      BY <2>1, <2>5 DEF ClientState, OwnerInv
    <3>2. Contract!CloseAndWait(c)
      BY <2>1, <2>3, <2>4, <2>5, <3>1 DEF Contract!CloseAndWait
    <3> QED
      BY <2>2, <3>2 DEF Contract!Next
  <2>6. CASE waiter # "none"
    <3>1. ClientState = "closing"
      BY <2>1, <2>6 DEF ClientState
    <3>2. Contract!CloseHangs(c)
      BY <2>1, <2>3, <2>4, <2>6, <3>1 DEF Contract!CloseHangs
    <3> QED
      BY <2>2, <3>2 DEF Contract!Next
  <2> QED
    BY <2>5, <2>6
<1>3. CASE ~Reporting(c)
  <2>1. /\ ~(dataSent /\ engine \in {"handshake", "running"})
        /\ engine' = IF engine = "connecting" THEN engine ELSE "gone"
        /\ engineClient' = FALSE /\ waiter' = waiter
        /\ closes' = [closes EXCEPT ![c] = "done"]
    BY <1>3 DEF CloseEngine, Reporting, Closed
  <2>2. waiter = "none" /\ engine' # "none"
    BY <1>1, <2>1
  <2>3. OwnerInv'
    BY <1>1, <2>1, <2>2 DEF OwnerInv
  <2>4. ClientState \in {"open", "closed"} /\ (ClientState = "open" => ~dataSent)
    BY <1>1, <2>1, <2>2 DEF ClientState, OwnerInv
  <2>5. ClientState' = "closed"
    BY <1>1, <2>1, <2>2 DEF ClientState
  <2>6. Outcomes' = [Outcomes EXCEPT ![c] = "returned"]
    BY <1>1, <2>1 DEF Outcomes
  <2>7. Contract!CloseAtOnce(c)
    BY <2>1, <2>4, <2>5, <2>6 DEF Contract!CloseAtOnce
  <2> QED
    BY <2>3, <2>7 DEF Contract!Next
<1> QED
  BY <1>2, <1>3

LEMMA OwnerCloseSession ==
  ASSUME Inv, OwnerInv, NEW c \in Closer, CloseSession(c), UNCHANGED dataSent
  PROVE  OwnerInv' /\ [Contract!Next]_ownerVars
<1>1. CASE engineClient
  BY <1>1, OwnerCloseEngine DEF CloseSession
<1>2. CASE ~engineClient
  <2>1. /\ UNCHANGED <<engine, closing, waiter>> /\ engineClient' = FALSE
        /\ closes' = [closes EXCEPT ![c] = "done"]
        /\ closes \in [Closer -> {"idle", "redis", "waiting", "done"}]
    BY <1>2, Types DEF CloseSession, Closed, Inv, Values
  <2>2. OwnerInv'
    BY <1>2, <2>1 DEF OwnerInv
  <2>3. ClientState \in {"none", "closed"} /\ ClientState' = ClientState
    BY <1>2, <2>1 DEF ClientState, OwnerInv
  <2>4. Outcomes' = [Outcomes EXCEPT ![c] = "returned"]
    BY <2>1 DEF Outcomes
  <2>5. Contract!CloseAtOnce(c)
    BY <2>1, <2>3, <2>4 DEF Contract!CloseAtOnce
  <2> QED
    BY <2>2, <2>5 DEF Contract!Next
<1> QED
  BY <1>1, <1>2

LEMMA OwnerClosed ==
  ASSUME Inv, OwnerInv, EngineClosed
  PROVE  OwnerInv' /\ [Contract!Next]_ownerVars
<1>1. /\ waiter # "none" /\ engine' = "gone" /\ waiter' = "none"
      /\ UNCHANGED <<closing, dataSent>> /\ closing /\ engine # "none"
      /\ waiter \in {"itself"} \cup Closer
      /\ closes \in [Closer -> {"idle", "redis", "waiting", "done"}]
  BY Types DEF EngineClosed, Inv, OnceInv, Values
<1>2. ClientState = "closing" /\ ClientState' = "closed"
  BY <1>1 DEF ClientState
<1>3. CASE waiter = "itself"
  <2>1. UNCHANGED <<engineClient, closes>>
    BY <1>3 DEF EngineClosed
  <2>2. OwnerInv'
    BY <1>1, <2>1 DEF OwnerInv
  <2>3. Outcomes' = [c \in Closer |-> IF c = waiter THEN "returned" ELSE Outcomes[c]]
    BY <1>3, <2>1 DEF Outcomes, Closer
  <2>4. Contract!Closed
    BY <1>1, <1>2, <2>3 DEF Contract!Closed
  <2> QED
    BY <2>2, <2>4 DEF Contract!Next
<1>4. CASE waiter # "itself"
  <2>1. engineClient' = FALSE /\ closes' = [closes EXCEPT ![waiter] = "done"]
    BY <1>4 DEF EngineClosed, Closed
  <2>2. OwnerInv'
    BY <1>1, <2>1 DEF OwnerInv
  <2>3. Outcomes' = [c \in Closer |-> IF c = waiter THEN "returned" ELSE Outcomes[c]]
    BY <1>1, <1>4, <2>1 DEF Outcomes
  <2>4. Contract!Closed
    BY <1>1, <1>2, <2>3 DEF Contract!Closed
  <2> QED
    BY <2>2, <2>4 DEF Contract!Next
<1> QED
  BY <1>3, <1>4

\* What else changes the engine client.
LEMMA OwnerStarts ==
  ASSUME Inv, OwnerInv, RecvInit \/ EngineConnects \/ EngineStarts
  PROVE  OwnerInv' /\ [Contract!Next]_ownerVars
<1>1. CASE RecvInit
  <2>1. engine = "none"
    <3>1. Has(toServer, {"init"})
      BY <1>1, Received DEF RecvInit, Inv, ToServer
    <3> QED
      BY <3>1 DEF Inv, OnceInv
  <2>2. /\ engine' = "connecting" /\ engineClient' = TRUE
        /\ UNCHANGED <<closing, dataSent, waiter, closes>>
    BY <1>1 DEF RecvInit
  <2>3. OwnerInv'
    BY <2>1, <2>2 DEF OwnerInv
  <2>4. ClientState = "none" /\ ClientState' = "open"
    BY <2>1, <2>2 DEF ClientState, OwnerInv
  <2>5. Outcomes' = Outcomes
    BY <2>2 DEF Outcomes
  <2>6. Contract!Open
    BY <2>2, <2>4, <2>5 DEF Contract!Open
  <2> QED
    BY <2>3, <2>6 DEF Contract!Next
<1>2. CASE EngineConnects \/ EngineStarts
  <2>1. /\ UNCHANGED <<engineClient, closing, dataSent, waiter, closes>>
        /\ \/ engine = "connecting" /\ engine' \in {"handshake", "gone"}
           \/ engine = "handshake" /\ engine' \in {"handshake", "running"}
    BY <1>2 DEF EngineConnects, EngineStarts
  <2>2. OwnerInv'
    BY <2>1 DEF OwnerInv
  <2>3. ClientState' = ClientState /\ Outcomes' = Outcomes
    BY <2>1 DEF ClientState, Outcomes
  <2> QED
    BY <2>1, <2>2, <2>3 DEF ownerVars
<1> QED
  BY <1>1, <1>2

LEMMA OwnerFed ==
  ASSUME Inv, OwnerInv, RecvData \/ EngineError
  PROVE  OwnerInv' /\ [Contract!Next]_ownerVars
<1>1. CASE RecvData
  <2>1. /\ UNCHANGED <<engineClient, engine, closing, waiter, closes>>
        /\ \/ /\ engineClient /\ ~closing /\ engine \in {"handshake", "running"}
              /\ dataSent' = TRUE
           \/ UNCHANGED dataSent
    BY <1>1 DEF RecvData, Accepting
  <2>2. OwnerInv'
    BY <2>1 DEF OwnerInv
  <2>3. ClientState' = ClientState /\ Outcomes' = Outcomes
    BY <2>1 DEF ClientState, Outcomes
  <2>4. CASE UNCHANGED dataSent
    BY <2>1, <2>2, <2>3, <2>4 DEF ownerVars
  <2>5. CASE ~UNCHANGED dataSent
    <3>1. ClientState = "open" /\ dataSent' = TRUE
      BY <2>1, <2>5 DEF ClientState, Inv, OnceInv
    <3>2. Contract!Feed
      BY <2>1, <2>3, <3>1 DEF Contract!Feed
    <3> QED
      BY <2>2, <3>2 DEF Contract!Next
  <2> QED
    BY <2>4, <2>5
<1>2. CASE EngineError
  <2>1. /\ engine = "running" /\ dataSent /\ waiter = "none"
        /\ waiter' = "itself" /\ closing' = TRUE
        /\ UNCHANGED <<engineClient, engine, dataSent, closes>>
    BY <1>2 DEF EngineError
  <2>2. ~closing /\ engineClient
    BY <2>1 DEF OwnerInv
  <2>3. OwnerInv'
    BY <2>1, <2>2 DEF OwnerInv
  <2>4. ClientState = "open" /\ ClientState' = "closing" /\ Outcomes' = Outcomes
    BY <2>1, <2>2 DEF ClientState, Outcomes
  <2>5. Contract!CloseItself
    BY <2>1, <2>4 DEF Contract!CloseItself
  <2> QED
    BY <2>3, <2>5 DEF Contract!Next
<1> QED
  BY <1>1, <1>2

LEMMA OwnerNext ==
  Inv /\ OwnerInv /\ TimerInv /\ [Next]_allVars =>
    OwnerInv' /\ [Contract!Next]_ownerVars
<1> SUFFICES ASSUME Inv, OwnerInv, TimerInv, [Next]_allVars
             PROVE  OwnerInv' /\ [Contract!Next]_ownerVars
  OBVIOUS
<1>1. CASE RecvInit \/ EngineConnects \/ EngineStarts
  BY <1>1, OwnerStarts
<1>2. CASE RecvData \/ EngineError
  BY <1>2, OwnerFed
<1>3. CASE RecvTerm
  <2>1. CASE engineClient
    BY <1>3, <2>1, OwnerCloseEngine DEF RecvTerm, Closer
  <2>2. CASE ~engineClient
    <3>1. UNCHANGED <<engineClient, engine, closing, dataSent, waiter, closes>>
      BY <1>3, <2>2 DEF RecvTerm
    <3> QED
      BY <3>1 DEF OwnerInv, ownerVars, ClientState, Outcomes
  <2> QED
    BY <2>1, <2>2
<1>4. CASE RecvDisconnect
  BY <1>4, OwnerCloseSession DEF RecvDisconnect, Disconnected, Closer
<1>5. CASE ManagerCloses
  BY <1>5, OwnerCloseSession DEF ManagerCloses, Closer
<1>6. CASE EngineClosed
  BY <1>6, OwnerClosed
<1>7. CASE TimerFires
  <2>1. UNCHANGED <<engineClient, engine, closing, dataSent, waiter>>
    BY <1>7 DEF TimerFires, engineVars
  <2>2. closes["manager"] = "idle" /\ closes' = [closes EXCEPT !["manager"] = "redis"]
    BY <1>7 DEF TimerFires, TimerInv
  <2>3. Outcomes' = Outcomes
    BY <2>2, Types DEF Outcomes, Inv, Values
  <2> QED
    BY <2>1, <2>3 DEF OwnerInv, ownerVars, ClientState
<1>8. CASE \/ ClientInit \/ Send \/ Term \/ Leave \/ ClientReceives
           \/ EngineStartsClosed \/ Subscribed \/ Started \/ InitFails \/ Analyzed
           \/ UNCHANGED allVars
  <2>1. UNCHANGED <<engineClient, engine, closing, dataSent, waiter, closes>>
    BY <1>8 DEF ClientInit, Send, Term, ClientSends, Leave, ClientReceives,
       EngineStartsClosed, Subscribed, Started, InitFails, Analyzed, engineVars,
       allVars, vars
  <2> QED
    BY <2>1 DEF OwnerInv, ownerVars, ClientState, Outcomes
<1> QED
  BY <1>1, <1>2, <1>3, <1>4, <1>5, <1>6, <1>7, <1>8 DEF Next

\* However init, term, disconnect and the timer overlap, a session asks nothing
\* of its engine client that the contract does not promise: it feeds none that
\* is closing and waits for none but by a close().
THEOREM UsesContract == Spec => ImplementsEngineContract
<1>1. Init => OwnerInv /\ TimerInv /\ Contract!Init
  BY OwnerInit
<1>2. Inv /\ OwnerInv /\ TimerInv /\ [Next]_allVars =>
        OwnerInv' /\ TimerInv' /\ [Contract!Next]_ownerVars
  BY OwnerNext, TimerNext
<1>3. Spec => Contract!Init /\ [][Contract!Next]_ownerVars
  BY <1>1, <1>2, Invariant, PTL DEF Spec
<1> QED
  BY <1>3 DEF ImplementsEngineContract, Contract!Spec, ownerVars

-----------------------------------------------------------------------------
(***************************************************************************)
(* Data of clients that do not wait.                                       *)
(***************************************************************************)

\* For every client: whatever it did before start() resolved, its engine client
\* has a socket from then on or is closed.
BeganInv == Began => engine = "running" \/ (engine = "gone" /\ closing)

LEMMA BeganNext ==
  ASSUME Inv, TimerInv, BeganInv, [Next]_allVars
  PROVE  BeganInv'
<1>0. /\ closes \in [Closer -> {"idle", "redis", "waiting", "done"}]
      /\ "manager" \in Closer
  BY Types DEF Inv, Values, Closer
<1>1. CASE RecvInit
  <2>1. Has(toServer, {"init"})
    BY <1>1, Received DEF RecvInit, Inv, ToServer
  <2>2. init = "idle" /\ UNCHANGED <<timer, closes>>
    BY <1>1, <2>1 DEF RecvInit, managerVars, Inv, OnceInv
  <2>. QED
    BY <2>2 DEF TimerInv, BeganInv, Began
<1>2. CASE EngineConnects \/ EngineStarts \/ EngineStartsClosed
  <2>1. init = "engine"
    BY <1>2 DEF EngineConnects, EngineStarts, EngineStartsClosed, TimerInv
  <2>2. ~Began /\ closes' = closes
    BY <1>2, <2>1 DEF EngineConnects, EngineStarts, EngineStartsClosed, TimerInv
  <2>3. engine' = "running" \/ timer' = timer
    BY <1>2 DEF EngineConnects, EngineStarts, EngineStartsClosed, managerVars
  <2>4. CASE engine' = "running"
    BY <2>4 DEF BeganInv
  <2>5. CASE timer' = timer
    <3>1. ~Began'
      BY <2>2, <2>5 DEF Began
    <3>. QED
      BY <3>1 DEF BeganInv
  <2>. QED
    BY <2>3, <2>4, <2>5
<1>3. CASE TimerFires
  <2>1. timer /\ UNCHANGED <<engine, closing>>
    BY <1>3 DEF TimerFires, engineVars
  <2>. QED
    BY <2>1 DEF BeganInv, Began
<1>4. CASE RecvTerm \/ RecvDisconnect \/ ManagerCloses
  <2>1. Began' => Began
    <3>1. CASE ManagerCloses
      BY <3>1 DEF ManagerCloses, Began
    <3>2. ASSUME NEW c \in {"term", "disconnect"},
                 closes' = closes \/ \E v : closes' = [closes EXCEPT ![c] = v],
                 timer' = timer
          PROVE  Began' => Began
      <4>1. c # "manager"
        OBVIOUS
      <4>2. closes'["manager"] = closes["manager"]
        BY <1>0, <3>2, <4>1
      <4>. QED
        BY <3>2, <4>2 DEF Began
    <3>3. CASE RecvTerm
      <4>1. /\ timer' = timer
            /\ closes' = closes \/ \E v : closes' = [closes EXCEPT !["term"] = v]
        BY <3>3 DEF RecvTerm, CloseEngine, Closed, managerVars
      <4>. QED
        BY <3>2, <4>1
    <3>4. CASE RecvDisconnect
      <4>1. /\ timer' = timer
            /\ closes' = closes \/ \E v : closes' = [closes EXCEPT !["disconnect"] = v]
        BY <3>4 DEF RecvDisconnect, Disconnected, CloseSession, CloseEngine,
           Closed, managerVars
      <4>. QED
        BY <3>2, <4>1
    <3>. QED
      BY <1>4, <3>1, <3>3, <3>4
  <2>2. \/ UNCHANGED <<engine, closing>>
        \/ closing' = TRUE /\ engine' \in {engine, "gone"}
    <3>1. ASSUME NEW c, CloseEngine(c)
          PROVE  closing' = TRUE /\ engine' \in {engine, "gone"}
      BY <3>1 DEF CloseEngine
    <3>. QED
      BY <1>4, <3>1 DEF RecvTerm, RecvDisconnect, Disconnected, ManagerCloses,
         CloseSession
  <2>. QED
    BY <2>1, <2>2 DEF BeganInv
<1>5. CASE EngineClosed
  BY <1>5 DEF EngineClosed, Inv, OnceInv, BeganInv
<1>6. CASE \/ ClientInit \/ Send \/ Term \/ Leave \/ ClientReceives
           \/ Subscribed \/ Started \/ InitFails
           \/ RecvData \/ Analyzed \/ EngineError \/ UNCHANGED allVars
  <2>1. CASE EngineError
    <3>1. closing' = TRUE /\ UNCHANGED <<engine, timer, closes>>
      BY <2>1 DEF EngineError, managerVars
    <3>. QED
      BY <3>1 DEF BeganInv, Began
  <2>2. CASE ~EngineError
    <3>1. UNCHANGED <<engine, closing, timer, closes>>
      BY <1>6, <2>2 DEF ClientInit, Send, Term, ClientSends, Leave,
         ClientReceives, Subscribed, Started, InitFails, RecvData, Analyzed,
         engineVars, managerVars, allVars, vars
    <3>. QED
      BY <3>1 DEF BeganInv, Began
  <2>. QED
    BY <2>1, <2>2
<1>. QED
  BY <1>1, <1>2, <1>3, <1>4, <1>5, <1>6 DEF Next

\* Only data throws, and only when it meets an engine client without a socket.
LEMMA BeganSurvives ==
  ASSUME BeganInv, [Next]_allVars, Began
  PROVE  thrown' = thrown
<1>1. CASE RecvData
  <2>1. Accepting => engine \notin {"connecting", "gone"}
    BY DEF BeganInv, Accepting
  <2>. QED
    BY <1>1, <2>1 DEF RecvData
<1>2. CASE ~RecvData
  BY <1>2 DEF Next, ClientInit, Send, Term, ClientSends, Leave, ClientReceives,
     RecvInit, EngineConnects, EngineStarts, EngineStartsClosed, Subscribed,
     Started, InitFails, RecvTerm, RecvDisconnect, TimerFires, ManagerCloses,
     Analyzed, EngineError, EngineClosed, allVars, vars
<1>. QED
  BY <1>1, <1>2

\* Whoever sends data, before or after init is answered, and whatever closes the
\* engine client: once it has started, no event ends the worker.
THEOREM DataSafe == Spec => StartedSessionsSurvive
<1>1. Init => TimerInv /\ BeganInv
  <2>1. Init => ~Began
    BY DEF Init, Began, Closer
  <2>. QED
    BY <2>1, OwnerInit DEF BeganInv
<1>2. Inv /\ TimerInv /\ BeganInv /\ [Next]_allVars =>
        TimerInv' /\ BeganInv' /\ [Began => thrown' = thrown]_allVars
  BY TimerNext, BeganNext, BeganSurvives
<1>. QED
  BY <1>1, <1>2, Invariant, PTL DEF Spec, StartedSessionsSurvive

-----------------------------------------------------------------------------
(***************************************************************************)
(* Nobody waits for nothing: the safe half of EventsAnswered.              *)
(***************************************************************************)

\* What ends the wait for the answer to init.
Final == {"init", "init error", "disconnect"}

\* A client that waits for init is owed an answer: its event, the handler of it
\* or the answer is on its way.  One that was answered, and may wait for term,
\* has at least the session's timer, a close() that will return or its result,
\* unless that timer fires while the engine client closes itself.
AnswersOwed ==
  "hasty" \notin faults =>
    /\ client = "starting" =>
         \/ socket /\ Has(toServer, {"init"})
         \/ init = "engine" /\ engine \in {"connecting", "handshake"}
         \/ init \in {"subscribe", "hset", "error"}
         \/ Has(toClient, Final)
    /\ client \in {"ready", "ending"} /\ "late" \notin faults =>
         \/ timer /\ (table \/ init = "subscribe")
         \/ closes["manager"] = "redis"
         \/ waiter \in Closer
         \/ Has(toClient, {"disconnect"})

\* The last word to a client that has not left is "disconnect".
LastWordInv ==
  /\ hungUp => client \in {"closed", "done"}
  /\ ~socket /\ ~hungUp => Has(toClient, {"disconnect"})

TimeoutInv ==
  /\ timer => table \/ init = "subscribe"
  /\ \A c \in Closer : closes[c] = "done" => ~socket
  /\ "late" \notin faults /\ closes["manager"] # "idle" =>
       /\ waiter # "itself"
       /\ closes["manager"] = "waiting" /\ socket => waiter # "none"

StartingInv ==
  /\ client = "new" => socket /\ toServer = <<>> /\ toClient = <<>>
  /\ Has(toServer, {"init"}) \/ init = "engine" =>
       /\ client = "starting" /\ socket
       /\ ~Has(toServer, {"disconnect"}) /\ ~Has(toClient, Final)
       /\ init = "engine" => engine \in {"connecting", "handshake"}
  /\ client = "starting" =>
       \/ Has(toServer, {"init"})
       \/ init \in {"engine", "subscribe", "hset", "error"}
       \/ Has(toClient, Final)

OwedInv ==
  LastWordInv /\ TimeoutInv /\ ("hasty" \notin faults => StartingInv)

\* What a queue keeps.
LEMMA HasKept ==
  ASSUME NEW M, NEW q \in Seq(M), NEW ms, Has(q, ms)
  PROVE  /\ Head(q) \in ms \/ Has(Tail(q), ms)
         /\ \A r \in Seq(M) : Has(q \o r, ms)
<1>1. PICK i \in 1 .. Len(q) : q[i] \in ms
  BY DEF Has
<1>2. Head(q) \in ms \/ Has(Tail(q), ms)
  <2>1. CASE i = 1
    BY <1>1, <2>1
  <2>2. CASE i # 1
    <3>1. i - 1 \in 1 .. Len(Tail(q)) /\ Tail(q)[i - 1] = q[i]
      BY <1>1, <2>2
    <3> QED
      BY <1>1, <3>1 DEF Has
  <2> QED
    BY <2>1, <2>2
<1>3. ASSUME NEW r \in Seq(M)
      PROVE  Has(q \o r, ms)
  <2>1. i \in 1 .. Len(q \o r) /\ (q \o r)[i] = q[i]
    BY <1>1
  <2> QED
    BY <1>1, <2>1 DEF Has
<1> QED
  BY <1>2, <1>3

LEMMA HasLast ==
  ASSUME NEW M, NEW q \in Seq(M), NEW r \in Seq(M), NEW ms, Has(r, ms)
  PROVE  Has(q \o r, ms)
<1>1. PICK i \in 1 .. Len(r) : r[i] \in ms
  BY DEF Has
<1>2. Len(q) + i \in 1 .. Len(q \o r) /\ (q \o r)[Len(q) + i] = r[i]
  BY <1>1
<1> QED
  BY <1>1, <1>2 DEF Has

LEMMA HasOne ==
  ASSUME NEW m \in ToClient, NEW ms, m \in ms
  PROVE  <<m>> \in Seq(ToClient) /\ Has(<<m>>, ms)
<1>1. 1 \in 1 .. Len(<<m>>) /\ <<m>>[1] = m
  OBVIOUS
<1> QED
  BY <1>1 DEF Has

\* The server takes back nothing it has said.
LEMMA SayKeeps ==
  ASSUME TypeOK, NEW r \in Seq(ToClient), Say(r)
  PROVE  /\ \A ms : Has(toClient, ms) => Has(toClient', ms)
         /\ socket /\ ~hungUp => \A ms : Has(r, ms) => Has(toClient', ms)
<1>1. toClient \in Seq(ToClient)
  BY DEF TypeOK, ToClient
<1> QED
  BY <1>1, HasKept, HasLast DEF Say

LEMMA ClosedKeeps ==
  ASSUME TypeOK, NEW c \in Closer, Closed(c)
  PROVE  /\ \A ms : Has(toClient, ms) => Has(toClient', ms)
         /\ socket /\ ~hungUp => Has(toClient', {"disconnect"})
<1>1. CASE c = "term"
  <2>1. <<"term", "disconnect">> \in Seq(ToClient) /\ Say(<<"term", "disconnect">>)
    BY <1>1 DEF Closed, ToClient
  <2>2. Has(<<"term", "disconnect">>, {"disconnect"})
    BY DEF Has
  <2> QED
    BY <2>1, <2>2, SayKeeps
<1>2. CASE c # "term"
  <2>1. <<"disconnect">> \in Seq(ToClient) /\ Say(<<"disconnect">>)
    BY <1>2 DEF Closed, ToClient
  <2>2. Has(<<"disconnect">>, {"disconnect"})
    BY DEF Has
  <2> QED
    BY <2>1, <2>2, SayKeeps
<1> QED
  BY <1>1, <1>2

\* The steps that can close the session, and what becomes of its client.
Closing == RecvTerm \/ RecvDisconnect \/ ManagerCloses \/ EngineClosed

LEMMA ClosingSays ==
  ASSUME TypeOK, Closing
  PROVE  /\ UNCHANGED clientVars /\ init' = init
         /\ \A ms : Has(toClient, ms) => Has(toClient', ms)
         /\ socket' = FALSE \/ socket' = socket
         /\ socket /\ ~socket' /\ ~hungUp => Has(toClient', {"disconnect"})
<1>1. /\ UNCHANGED clientVars /\ init' = init
  BY DEF Closing, RecvTerm, RecvDisconnect, ManagerCloses, EngineClosed
<1>2. CASE \E c \in Closer : Closed(c)
  <2>1. PICK c \in Closer : Closed(c)
    BY <1>2
  <2>2. socket' = FALSE
    BY <2>1 DEF Closed
  <2> QED
    BY <1>1, <2>1, <2>2, ClosedKeeps
<1>3. CASE UNCHANGED <<socket, toClient>>
  BY <1>1, <1>3
<1>4. CASE socket' = socket /\ Say(<<"term error">>)
  <2>1. <<"term error">> \in Seq(ToClient)
    BY DEF ToClient
  <2>2. \A ms : Has(toClient, ms) => Has(toClient', ms)
    BY <1>4, <2>1, SayKeeps
  <2> QED
    BY <1>1, <1>4, <2>2 DEF TypeOK
<1>5. ASSUME NEW c \in Closer, CloseEngine(c)
      PROVE  Closed(c) \/ UNCHANGED <<socket, toClient>>
  BY <1>5 DEF CloseEngine
<1>6. ASSUME NEW c \in Closer, CloseSession(c)
      PROVE  Closed(c) \/ UNCHANGED <<socket, toClient>>
  BY <1>5, <1>6 DEF CloseSession
<1>7. CASE RecvTerm
  BY <1>2, <1>3, <1>4, <1>5, <1>7 DEF RecvTerm, Closer
<1>8. CASE RecvDisconnect
  BY <1>2, <1>3, <1>6, <1>8 DEF RecvDisconnect, Disconnected, Closer
<1>9. CASE ManagerCloses
  BY <1>2, <1>3, <1>6, <1>9 DEF ManagerCloses, Closer
<1>10. CASE EngineClosed
  <2>1. waiter \in Closer \/ waiter \in {"none", "itself"}
    BY DEF TypeOK
  <2> QED
    BY <1>2, <1>3, <1>10, <2>1 DEF EngineClosed
<1> QED
  BY <1>7, <1>8, <1>9, <1>10 DEF Closing

LEMMA LastWordNext ==
  ASSUME Inv, LastWordInv, [Next]_allVars
  PROVE  LastWordInv'
<1>0. TypeOK /\ hungUp \in BOOLEAN
  BY Types DEF Inv, Flags
<1>1. CASE ClientInit \/ Send \/ Term
  <2>1. /\ UNCHANGED <<hungUp, socket, toClient>>
        /\ client \in {"new", "starting", "ready", "failed"}
    BY <1>1 DEF ClientInit, Send, Term, ClientSends, Ready
  <2> QED
    BY <2>1 DEF LastWordInv
<1>2. CASE Leave
  BY <1>2 DEF Leave, LastWordInv
<1>3. CASE ClientReceives
  <2>1. /\ toClient # <<>> /\ toClient' = Tail(toClient) /\ socket' = socket
        /\ client' = Reaction(Head(toClient))
        /\ hungUp' = (hungUp \/ Head(toClient) = "disconnect")
    BY <1>3 DEF ClientReceives
  <2>2. CASE Head(toClient) = "disconnect"
    BY <2>1, <2>2 DEF Reaction, LastWordInv
  <2>3. CASE Head(toClient) # "disconnect"
    <3>1. hungUp' = hungUp
      BY <1>0, <2>1, <2>3
    <3>2. hungUp => client' = client
      BY <2>1, <2>3 DEF Reaction, LastWordInv
    <3>3. toClient \in Seq(ToClient)
      BY <1>0 DEF TypeOK, ToClient
    <3>4. Has(toClient, {"disconnect"}) => Has(toClient', {"disconnect"})
      BY <2>1, <2>3, <3>3, HasKept
    <3> QED
      BY <2>1, <3>1, <3>2, <3>4 DEF LastWordInv
  <2> QED
    BY <2>2, <2>3
<1>4. CASE Closing
  BY <1>0, <1>4, ClosingSays DEF LastWordInv, clientVars
<1>5. CASE Started \/ InitFails \/ Analyzed
  <2>1. PICK m \in ToClient : Say(<<m>>)
    BY <1>5 DEF Started, InitFails, Analyzed, ToClient
  <2>2. <<m>> \in Seq(ToClient)
    OBVIOUS
  <2>3. Has(toClient, {"disconnect"}) => Has(toClient', {"disconnect"})
    BY <1>0, <2>1, <2>2, SayKeeps
  <2>4. UNCHANGED <<client, hungUp, socket>>
    BY <1>5 DEF Started, InitFails, Analyzed, clientVars
  <2> QED
    BY <2>3, <2>4 DEF LastWordInv
<1>6. CASE \/ RecvInit \/ EngineConnects \/ EngineStarts \/ EngineStartsClosed
           \/ Subscribed \/ RecvData \/ TimerFires \/ EngineError
           \/ UNCHANGED allVars
  <2>1. UNCHANGED <<client, hungUp, socket, toClient>>
    BY <1>6 DEF RecvInit, EngineConnects, EngineStarts, EngineStartsClosed,
       Subscribed, RecvData, TimerFires, EngineError, clientVars, allVars, vars
  <2> QED
    BY <2>1 DEF LastWordInv
<1> QED
  BY <1>1, <1>2, <1>3, <1>4, <1>5, <1>6 DEF Next, Closing

\* A close() for c: it waits, or the session is closed.
LEMMA ClosesOrWaits ==
  ASSUME TypeOK, NEW c \in Closer, CloseSession(c) \/ CloseEngine(c)
  PROVE  \/ /\ closes' = [closes EXCEPT ![c] = "waiting"]
            /\ waiter' = IF waiter = "none" THEN c ELSE waiter
            /\ socket' = socket
         \/ /\ closes' = [closes EXCEPT ![c] = "done"]
            /\ waiter' = waiter
            /\ socket' = FALSE
BY DEF CloseSession, CloseEngine, Closed

LEMMA TimeoutNext ==
  ASSUME Inv, TimerInv, TimeoutInv, [Next]_allVars
  PROVE  TimeoutInv'
<1>0. /\ closes \in [Closer -> {"idle", "redis", "waiting", "done"}]
      /\ timer \in BOOLEAN /\ socket \in BOOLEAN /\ table \in BOOLEAN
      /\ waiter \in {"none", "itself"} \cup Closer
      /\ TypeOK /\ "manager" \in Closer /\ "none" \notin Closer /\ "itself" \notin Closer
      /\ faults' = faults
  BY Types DEF Inv, Values, Flags, Closer, Next, allVars
<1>1. CASE RecvInit \/ EngineConnects \/ EngineStarts \/ EngineStartsClosed
  <2>1. init \in {"idle", "engine"}
    <3>1. RecvInit => Has(toServer, {"init"})
      BY <1>0, Received DEF RecvInit, ToServer
    <3>2. RecvInit => init = "idle"
      BY <3>1 DEF Inv, OnceInv
    <3> QED
      BY <1>1, <3>2 DEF EngineConnects, EngineStarts, EngineStartsClosed, TimerInv
  <2>2. ~timer /\ closes["manager"] = "idle"
    BY <2>1 DEF TimerInv, Began
  <2>3. /\ UNCHANGED <<closes, socket>>
        /\ timer' => init' = "subscribe"
    BY <1>1, <2>2 DEF RecvInit, EngineConnects, EngineStarts, EngineStartsClosed,
       managerVars, ArmTimer
  <2> QED
    BY <2>2, <2>3 DEF TimeoutInv
<1>2. CASE Subscribed \/ Started \/ InitFails
  <2>1. /\ UNCHANGED <<timer, closes, socket, waiter>>
        /\ \/ table' = TRUE
           \/ init # "subscribe" /\ table' = table
    BY <1>2 DEF Subscribed, Started, InitFails, engineVars, managerVars
  <2> QED
    BY <1>0, <2>1 DEF TimeoutInv
<1>3. CASE TimerFires
  <2>1. /\ timer' = FALSE /\ closes' = [closes EXCEPT !["manager"] = "redis"]
        /\ UNCHANGED <<socket, waiter>>
        /\ "late" \in faults \/ waiter # "itself"
    BY <1>3 DEF TimerFires, engineVars
  <2>2. closes'["manager"] = "redis"
    BY <1>0, <2>1
  <2>3. \A c \in Closer : closes'[c] = "done" => closes[c] = "done"
    BY <1>0, <2>1
  <2> QED
    BY <1>0, <2>1, <2>2, <2>3 DEF TimeoutInv
<1>4. CASE ManagerCloses
  <2>1. closes["manager"] = "redis" /\ ~timer /\ timer' = timer
    BY <1>4 DEF ManagerCloses, TimerInv
  <2>2. CloseSession("manager")
    BY <1>4 DEF ManagerCloses
  <2>3. CASE /\ closes' = [closes EXCEPT !["manager"] = "waiting"]
             /\ waiter' = IF waiter = "none" THEN "manager" ELSE waiter
             /\ socket' = socket
    <3>1. waiter' # "none" /\ ("late" \notin faults => waiter' # "itself")
      BY <1>0, <2>1, <2>3 DEF TimeoutInv
    <3>2. \A c \in Closer : closes'[c] = "done" => closes[c] = "done"
      BY <1>0, <2>3
    <3> QED
      BY <1>0, <2>1, <2>3, <3>1, <3>2 DEF TimeoutInv
  <2>4. CASE socket' = FALSE /\ waiter' = waiter
    BY <1>0, <2>1, <2>4 DEF TimeoutInv
  <2> QED
    BY <1>0, <2>2, <2>3, <2>4, ClosesOrWaits
<1>5. CASE RecvTerm \/ RecvDisconnect
  <2>1. UNCHANGED <<timer, table, init>>
    BY <1>5 DEF RecvTerm, RecvDisconnect, managerVars
  <2>2. CASE UNCHANGED <<socket, waiter, closes>>
    BY <1>0, <2>1, <2>2 DEF TimeoutInv
  <2>3. ASSUME NEW c \in {"term", "disconnect"}, CloseSession(c) \/ CloseEngine(c)
        PROVE  TimeoutInv'
    <3>1. c \in Closer /\ c # "manager"
      BY DEF Closer
    <3>2. CASE /\ closes' = [closes EXCEPT ![c] = "waiting"]
               /\ waiter' = IF waiter = "none" THEN c ELSE waiter
               /\ socket' = socket
      <4>1. closes'["manager"] = closes["manager"]
        BY <1>0, <3>1, <3>2
      <4>2. waiter' # "none" /\ (waiter' = "itself" => waiter = "itself")
        BY <1>0, <3>1, <3>2
      <4>3. \A d \in Closer : closes'[d] = "done" => closes[d] = "done"
        BY <1>0, <3>1, <3>2
      <4> QED
        BY <1>0, <2>1, <3>2, <4>1, <4>2, <4>3 DEF TimeoutInv
    <3>3. CASE /\ closes' = [closes EXCEPT ![c] = "done"]
               /\ waiter' = waiter
               /\ socket' = FALSE
      <4>1. closes'["manager"] = closes["manager"]
        BY <1>0, <3>1, <3>3
      <4> QED
        BY <1>0, <2>1, <3>3, <4>1 DEF TimeoutInv
    <3> QED
      BY <1>0, <2>3, <3>1, <3>2, <3>3, ClosesOrWaits
  <2> QED
    BY <1>5, <2>2, <2>3 DEF RecvTerm, RecvDisconnect, Disconnected
<1>6. CASE EngineClosed
  <2>1. UNCHANGED <<timer, table, init>>
    BY <1>6 DEF EngineClosed, managerVars
  <2>2. CASE waiter \in Closer
    <3>1. /\ socket' = FALSE /\ waiter' = "none"
          /\ closes' = [closes EXCEPT ![waiter] = "done"]
      BY <1>0, <1>6, <2>2 DEF EngineClosed, Closed
    <3> QED
      BY <1>0, <2>1, <3>1 DEF TimeoutInv
  <2>3. CASE waiter \notin Closer
    <3>1. waiter = "itself" /\ waiter' = "none" /\ UNCHANGED <<socket, closes>>
      BY <1>0, <1>6, <2>3 DEF EngineClosed
    <3> QED
      BY <1>0, <2>1, <3>1 DEF TimeoutInv
  <2> QED
    BY <2>2, <2>3
<1>7. CASE EngineError
  <2>1. /\ UNCHANGED <<timer, table, init, closes, socket>>
        /\ "late" \in faults \/ closes["manager"] = "idle"
    BY <1>7 DEF EngineError, managerVars
  <2> QED
    BY <1>0, <2>1 DEF TimeoutInv
<1>8. CASE \/ ClientInit \/ Send \/ Term \/ Leave \/ ClientReceives
           \/ RecvData \/ Analyzed \/ UNCHANGED allVars
  <2>1. UNCHANGED <<timer, table, init, closes, socket, waiter>>
    BY <1>8 DEF ClientInit, Send, Term, ClientSends, Leave, ClientReceives,
       RecvData, Analyzed, engineVars, managerVars, allVars, vars
  <2> QED
    BY <1>0, <2>1 DEF TimeoutInv
<1> QED
  BY <1>1, <1>2, <1>3, <1>4, <1>5, <1>6, <1>7, <1>8 DEF Next

\* Nobody closes a session while its client waits for init to begin.
LEMMA StartingClosed ==
  ASSUME Inv, TimerInv, StartingInv, "hasty" \notin faults, Closing
  PROVE  StartingInv'
<1>0. TypeOK
  BY DEF Inv
<1>1. Began \/ Has(toServer, {"disconnect"})
  <2>1. RecvTerm => Began
    <3>1. RecvTerm => Has(toServer, {"data", "term"})
      BY <1>0, Received DEF RecvTerm, ToServer
    <3> QED
      BY <3>1 DEF Inv, WaitingInv, InitInv
  <2>2. RecvDisconnect => Has(toServer, {"disconnect"})
    BY <1>0, Received DEF RecvDisconnect, ToServer
  <2>3. ManagerCloses => Began
    BY DEF ManagerCloses, Began
  <2>4. EngineClosed => Began
    BY DEF EngineClosed, Inv, OnceInv, WaitingInv, EngineInv
  <2> QED
    BY <2>1, <2>2, <2>3, <2>4 DEF Closing
<1>2. init # "engine" /\ ~Has(toServer, {"init"})
  BY <1>1 DEF TimerInv, Inv, OnceInv, StartingInv
<1>3. client # "new"
  <2>1. client = "new" => ~Has(toServer, {"disconnect"})
    BY EmptyFacts DEF StartingInv
  <2>2. client = "new" => ~Began
    BY DEF Inv, OnceInv, TimerInv
  <2> QED
    BY <1>1, <2>1, <2>2
<1>4. ~Has(toServer', {"init"})
  <2>1. \/ toServer' = toServer \/ toServer' = <<>>
        \/ toServer # <<>> /\ toServer' = Tail(toServer)
    BY DEF Closing, RecvTerm, RecvDisconnect, Disconnected, ManagerCloses,
       EngineClosed, CloseSession, CloseEngine, Closed, Receives
  <2>2. toServer \in Seq(ToServer)
    BY <1>0 DEF TypeOK, ToServer
  <2> QED
    BY <1>2, <2>1, <2>2, HasTail, EmptyFacts
<1>5. /\ UNCHANGED <<client, init>>
      /\ Has(toClient, Final) => Has(toClient', Final)
  BY <1>0, ClosingSays DEF clientVars
<1> QED
  BY <1>2, <1>3, <1>4, <1>5 DEF StartingInv

LEMMA StartingNext ==
  ASSUME Inv, TimerInv, LastWordInv, StartingInv, "hasty" \notin faults,
         [Next]_allVars
  PROVE  StartingInv'
<1>0. /\ TypeOK /\ socket \in BOOLEAN /\ hungUp \in BOOLEAN
      /\ toServer \in Seq(ToServer) /\ toClient \in Seq(ToClient)
  BY Types DEF Inv, TypeOK, Flags, ToServer, ToClient
<1>1. CASE ClientInit
  <2>1. /\ client = "new" /\ client' = "starting" /\ socket
        /\ UNCHANGED <<socket, init, engine, toClient>>
        /\ toServer' = Append(toServer, "init")
    BY <1>1 DEF ClientInit, ClientSends, StartingInv, engineVars
  <2>2. toServer' = <<"init">> /\ toClient = <<>> /\ init = "idle"
    BY <2>1 DEF StartingInv, Inv, OnceInv
  <2>3. /\ Has(<<"init">>, {"init"}) /\ ~Has(<<"init">>, {"disconnect"})
        /\ ~Has(<<>>, Final)
    BY DEF Has
  <2> QED
    BY <2>1, <2>2, <2>3 DEF StartingInv
<1>2. CASE Send \/ Term
  <2>1. /\ client = "ready" /\ client' \in {"ready", "ending"}
        /\ UNCHANGED <<socket, init, engine, toClient>>
    BY <1>2 DEF Send, Term, ClientSends, Ready, engineVars
  <2>2. Has(toServer', {"init"}) => Has(toServer, {"init"})
    BY <1>0, <1>2, Sent DEF Send, Term, ToServer
  <2> QED
    BY <2>1, <2>2 DEF StartingInv
<1>3. CASE Leave
  <2>1. client # "starting" /\ client' = "closed" /\ init' = init
    BY <1>3 DEF Leave
  <2>2. Has(toServer', {"init"}) => Has(toServer, {"init"})
    BY <1>0, <1>3, Left
  <2> QED
    BY <2>1, <2>2 DEF StartingInv
<1>4. CASE ClientReceives
  <2>1. /\ toClient # <<>> /\ toClient' = Tail(toClient)
        /\ client' = Reaction(Head(toClient))
        /\ UNCHANGED <<socket, init, engine, toServer>>
    BY <1>4 DEF ClientReceives, engineVars
  <2>2. client # "new" /\ client' # "new"
    BY <2>1 DEF StartingInv, Reaction
  <2>3. client' = "starting" => client = "starting" /\ Head(toClient) \notin Final
    BY <2>1 DEF Reaction, Final
  <2>4. client = "starting" /\ Head(toClient) \notin Final => client' = "starting"
    BY <2>1 DEF Reaction, Final
  <2>5. /\ Has(toClient', Final) => Has(toClient, Final)
        /\ Head(toClient) \in Final => Has(toClient, Final)
    BY <1>0, <2>1, Heard
  <2>6. Has(toClient, Final) => Head(toClient) \in Final \/ Has(toClient', Final)
    BY <1>0, <2>1, HasKept
  <2> QED
    BY <2>1, <2>2, <2>3, <2>4, <2>5, <2>6 DEF StartingInv
<1>5. CASE RecvInit
  <2>1. /\ Has(toServer, {"init"}) /\ ~Has(Tail(toServer), {"init"})
        /\ Has(Tail(toServer), {"disconnect"}) => Has(toServer, {"disconnect"})
    BY <1>0, <1>5, Received DEF RecvInit, ToServer, Inv, OnceInv
  <2>2. /\ toServer' = Tail(toServer) /\ init' = "engine" /\ engine' = "connecting"
        /\ UNCHANGED <<client, socket, toClient>>
    BY <1>5 DEF RecvInit, clientVars
  <2> QED
    BY <2>1, <2>2 DEF StartingInv
<1>6. CASE EngineConnects \/ EngineStarts \/ EngineStartsClosed
  <2>1. init = "engine" /\ ~Has(toServer, {"init"}) /\ engine \in {"connecting", "handshake"}
    BY <1>6 DEF EngineConnects, EngineStarts, EngineStartsClosed, TimerInv, Inv,
       OnceInv, StartingInv
  <2>2. /\ UNCHANGED <<client, socket, toServer, toClient>>
        /\ \/ init' = "engine" /\ engine' = "handshake"
           \/ init' \in {"subscribe", "error"}
    BY <1>6, <2>1 DEF EngineConnects, EngineStarts, EngineStartsClosed, clientVars
  <2> QED
    BY <2>1, <2>2 DEF StartingInv
<1>7. CASE Subscribed
  <2>1. /\ UNCHANGED <<client, socket, toServer, toClient>>
        /\ init = "subscribe" /\ init' = "hset"
    BY <1>7 DEF Subscribed, clientVars
  <2> QED
    BY <2>1 DEF StartingInv, Inv, OnceInv
<1>8. CASE Started \/ InitFails
  <2>1. /\ UNCHANGED <<client, hungUp, socket, toServer>>
        /\ init \in {"hset", "error"} /\ init' = "done"
    BY <1>8 DEF Started, InitFails, clientVars
  <2>2. PICK m \in {"init", "init error"} : Say(<<m>>)
    BY <1>8 DEF Started, InitFails
  <2>3. <<m>> \in Seq(ToClient) /\ Has(<<m>>, Final)
    <3>1. m \in ToClient /\ m \in Final
      BY DEF ToClient, Final
    <3> QED
      BY <3>1, HasOne
  <2>4. client = "starting" => Has(toClient', Final)
    <3>1. CASE socket /\ ~hungUp
      BY <1>0, <2>2, <2>3, <3>1, SayKeeps
    <3>2. CASE ~socket /\ ~hungUp
      <4>1. Has(toClient, {"disconnect"})
        BY <3>2 DEF LastWordInv
      <4>2. Has(toClient', {"disconnect"})
        BY <1>0, <2>2, <2>3, <4>1, SayKeeps
      <4> QED
        BY <4>2 DEF Has, Final
    <3>3. CASE hungUp
      BY <3>3 DEF LastWordInv
    <3> QED
      BY <1>0, <3>1, <3>2, <3>3
  <2>5. ~Has(toServer, {"init"}) /\ client # "new"
    BY <2>1 DEF Inv, OnceInv
  <2> QED
    BY <2>1, <2>4, <2>5 DEF StartingInv
<1>9. CASE RecvData
  <2>1. /\ UNCHANGED <<client, socket, init, engine, toClient>>
        /\ toServer # <<>> /\ Head(toServer) = "data" /\ toServer' = Tail(toServer)
    BY <1>9 DEF RecvData, Receives, clientVars
  <2>2. /\ Has(toServer, {"init"}) => Has(toServer', {"init"})
        /\ Has(toServer', {"init"}) => Has(toServer, {"init"})
        /\ Has(toServer', {"disconnect"}) => Has(toServer, {"disconnect"})
    <3>1. Has(toServer, {"init"}) => Has(Tail(toServer), {"init"})
      BY <1>0, <2>1, HasKept
    <3> QED
      BY <1>0, <2>1, <3>1, HasTail
  <2>3. client # "new"
    BY <2>1 DEF StartingInv
  <2> QED
    BY <2>1, <2>2, <2>3 DEF StartingInv
<1>10. CASE Closing
  BY <1>10, StartingClosed
<1>11. CASE Analyzed
  <2>1. /\ UNCHANGED <<client, socket, init, toServer>> /\ engine = "running"
        /\ Say(<<"analyzed">>)
    BY <1>11 DEF Analyzed, clientVars
  <2>2. init \notin {"idle", "engine"} /\ ~Has(toServer, {"init"}) /\ client # "new"
    BY <2>1 DEF Inv, OnceInv, StartingInv
  <2>3. Has(toClient, Final) => Has(toClient', Final)
    <3>1. <<"analyzed">> \in Seq(ToClient)
      BY DEF ToClient
    <3> QED
      BY <1>0, <2>1, <3>1, SayKeeps
  <2> QED
    BY <2>1, <2>2, <2>3 DEF StartingInv
<1>12. CASE TimerFires \/ EngineError \/ UNCHANGED allVars
  <2>1. UNCHANGED <<client, socket, init, engine, toServer, toClient>>
    BY <1>12 DEF TimerFires, EngineError, clientVars, engineVars, allVars, vars
  <2> QED
    BY <2>1 DEF StartingInv
<1> QED
  BY <1>1, <1>2, <1>3, <1>4, <1>5, <1>6, <1>7, <1>8, <1>9, <1>10, <1>11, <1>12
  DEF Next, Closing

LEMMA OwedNow ==
  ASSUME Inv, OwedInv
  PROVE  AnswersOwed
<1> SUFFICES ASSUME "hasty" \notin faults PROVE AnswersOwed
  BY DEF AnswersOwed
<1>0. /\ closes \in [Closer -> {"idle", "redis", "waiting", "done"}]
      /\ waiter \in {"none", "itself"} \cup Closer /\ "manager" \in Closer
  BY Types DEF Inv, Values, Closer
<1>1. ASSUME client = "starting"
      PROVE  \/ socket /\ Has(toServer, {"init"})
             \/ init = "engine" /\ engine \in {"connecting", "handshake"}
             \/ init \in {"subscribe", "hset", "error"}
             \/ Has(toClient, Final)
  BY <1>1 DEF OwedInv, StartingInv
<1>2. ASSUME client \in {"ready", "ending"}, "late" \notin faults
      PROVE  \/ timer /\ (table \/ init = "subscribe")
             \/ closes["manager"] = "redis"
             \/ waiter \in Closer
             \/ Has(toClient, {"disconnect"})
  <2>1. ~hungUp /\ (~socket => Has(toClient, {"disconnect"}))
    BY <1>2, Types DEF OwedInv, LastWordInv, Inv, Flags
  <2>2. timer \/ closes["manager"] # "idle"
    BY <1>2 DEF Inv, WaitingInv, InitInv, Began
  <2>3. timer => table \/ init = "subscribe"
    BY DEF OwedInv, TimeoutInv
  <2>4. closes["manager"] = "done" => ~socket
    BY <1>0 DEF OwedInv, TimeoutInv
  <2>5. closes["manager"] = "waiting" /\ socket => waiter \in Closer
    BY <1>0, <1>2 DEF OwedInv, TimeoutInv
  <2> QED
    BY <1>0, <2>1, <2>2, <2>3, <2>4, <2>5
<1> QED
  BY <1>1, <1>2 DEF AnswersOwed

\* However events, timer and engine overlap, no client that waits for an answer
\* is left without somebody who is about to give it one, or to disconnect it.
THEOREM NobodyForgotten == Spec => []AnswersOwed
<1>1. Init => OwedInv /\ TimerInv /\ OwnerInv
  <2>1. ASSUME Init PROVE LastWordInv /\ TimeoutInv
    <3>1. hungUp = FALSE /\ socket = TRUE /\ timer = FALSE
      BY <2>1 DEF Init
    <3>2. \A c \in Closer : closes[c] = "idle"
      BY <2>1 DEF Init
    <3>3. "manager" \in Closer
      BY DEF Closer
    <3>4. LastWordInv
      BY <3>1 DEF LastWordInv
    <3>5. TimeoutInv
      BY <3>1, <3>2, <3>3 DEF TimeoutInv
    <3> QED
      BY <3>4, <3>5
  <2>2. Init => StartingInv
    BY EmptyFacts DEF Init, StartingInv
  <2> QED
    BY <2>1, <2>2, OwnerInit DEF OwedInv
<1>2. Inv /\ TimerInv /\ OwedInv /\ [Next]_allVars => TimerInv' /\ OwedInv'
  <2> SUFFICES ASSUME Inv, TimerInv, OwedInv, [Next]_allVars
               PROVE  TimerInv' /\ OwedInv'
    OBVIOUS
  <2>1. faults' = faults
    BY DEF Next, allVars
  <2>2. "hasty" \notin faults => StartingInv'
    BY StartingNext DEF OwedInv
  <2> QED
    BY <2>1, <2>2, TimerNext, LastWordNext, TimeoutNext DEF OwedInv
<1> QED
  BY <1>1, <1>2, OwedNow, Invariant, PTL DEF Spec

=============================================================================
