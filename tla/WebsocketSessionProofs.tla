------------------------ MODULE WebsocketSessionProofs ------------------------
(***************************************************************************)
(* Proofs about a V1 websocket, for every amount of audio and every        *)
(* scenario.                                                               *)
(*                                                                         *)
(* ServerInv relates the parts of the server: its status, the handler of   *)
(* the s command, the socket and the engine client.  QueueInv says what    *)
(* can be on its way to a client, by the client's status; PeerInv what     *)
(* each side knows of the other, and so what the server may still say.     *)
(* Both hold under every fault.  StartInv: while the s command is handled  *)
(* nothing is closed, if the session's timer waits for it.  AudioInv: the  *)
(* audio that was sent is taken or on its way, if the client waits for the *)
(* server before it speaks.  OwnerInv and CallsInv tie the calls of        *)
(* close() to the engine client, for the refinement of EngineContract.     *)
(* LastWordInv and TimeoutInv, under every fault as well, say that a       *)
(* client that waits for an answer never waits for nothing.                *)
(***************************************************************************)
EXTENDS WebsocketSession, SequenceTheorems, TLAPS

\* The type invariant in two parts: the provers treat truth values apart.
Flags ==
  /\ hungUp \in BOOLEAN /\ socket \in BOOLEAN /\ engineClient \in BOOLEAN
  /\ table \in BOOLEAN /\ timer \in BOOLEAN /\ thrown \in BOOLEAN

ToServer == {"s", "bad", "audio", "e", "close"}
ToClient == {"s", "s error", "p", "p error", "e", "close"}

Values ==
  /\ faults \in Scenarios
  /\ client \in {"OPENED", "SENDING_S", "DONE_S", "SENDING_E", "DONE_E", "CLOSED"}
  /\ spoken \in 0 .. MaxAudio
  /\ toServer \in Seq(ToServer)
  /\ toClient \in Seq(ToClient)
  /\ status \in {"OPENED", "RECV_S", "DONE_S", "RECV_E", "CLOSED"}
  /\ handler \in {"idle", "engine", "success", "error", "done"}
  /\ engine \in {"none", "starting", "idle", "used", "gone"}
  /\ taken \in Nat
  /\ waiter \in {"none", "itself"} \cup Caller
  /\ start \in {"redis", "open", "register", "served", "failed"}
  /\ closes \in [Caller -> {"idle", "redis", "waiting", "done"}]

LEMMA Types == TypeOK <=> Flags /\ Values
BY DEF TypeOK, Flags, Values, ToServer, ToClient

LEMMA TypesNext == TypeOK' <=> Flags' /\ Values'
BY DEF TypeOK, Flags, Values, ToServer, ToClient

-----------------------------------------------------------------------------
(***************************************************************************)
(* The invariant.                                                          *)
(***************************************************************************)
Has(queue, ms) == \E i \in 1 .. Len(queue) : queue[i] \in ms

Busy == handler \in {"engine", "success", "error"}

ServerInv ==
  /\ status = "OPENED" => handler = "idle" /\ engine = "none" /\ ~engineClient
  /\ status \in {"DONE_S", "RECV_E"} => handler = "done"
  /\ ~socket => status # "OPENED" /\ ~engineClient
  /\ waiter # "none" => engine = "used"
  /\ engine = "used" => handler = "done"
  /\ socket /\ Busy => status = "RECV_S"
  /\ socket /\ handler = "done" => status \in {"DONE_S", "RECV_E"} /\ engineClient
  /\ socket /\ handler = "idle" => status = "OPENED"
  /\ socket /\ handler \in {"engine", "success"} => engineClient
  /\ start \in {"register", "served"} => handler = "done"

Final == {"s error", "p error", "e", "close"}
Answers == {"s", "s error", "p", "p error", "e"}

\* After the last answer the connection is closed.
Parted(queue) ==
  \A i, j \in 1 .. Len(queue) : i < j /\ queue[i] \in Final => queue[j] = "close"

FirstOnly(queue) ==
  \A i \in 1 .. Len(queue) : queue[i] \in {"s", "s error"} => i = 1

\* By what the client knows.
QueueInv ==
  /\ hungUp => toClient = <<>> /\ client \in {"CLOSED", "DONE_E"}
  /\ client = "DONE_E" => hungUp
  /\ client \in {"OPENED", "CLOSED"} => ~Has(toClient, Answers)
  /\ client = "SENDING_S" /\ Has(toClient, {"p", "p error"}) => Head(toClient) = "s"
  /\ client = "SENDING_S" => FirstOnly(toClient)
  /\ client \in {"DONE_S", "SENDING_E"} => ~Has(toClient, {"s", "s error"})
  /\ Has(toClient, {"e"}) => client = "SENDING_E"
  /\ Parted(toClient)

\* By what the server is doing.
Finishing == {"SENDING_E", "DONE_E", "CLOSED"}

PeerInv ==
  /\ socket => ~Has(toClient, Final)
  /\ client = "CLOSED" /\ ~hungUp => ~socket
  /\ client = "OPENED" => handler = "idle" /\ toServer = <<>>
  /\ client = "SENDING_S" => Len(toServer) <= 1
  /\ Has(toServer, {"s", "bad"}) /\ ~hungUp => client = "SENDING_S" /\ handler = "idle"
  /\ handler \in {"idle", "engine", "error"} => ~Has(toClient, Answers)
  /\ socket /\ handler \in {"idle", "engine", "error"} => toClient = <<>>
  /\ ~hungUp /\ handler \in {"engine", "error"} => client = "SENDING_S"
  /\ socket /\ ~hungUp /\ handler \in {"success", "done"} =>
       \/ client \in {"DONE_S", "SENDING_E"}
       \/ client = "SENDING_S" /\ toClient # <<>> /\ Head(toClient) = "s"
  /\ Has(toServer, {"e"}) => client \in Finishing
  /\ status = "RECV_E" => client \in Finishing

StartInv ==
  "slow" \notin faults =>
    /\ Busy \/ (status = "OPENED" /\ Has(toServer, {"s", "bad"})) => timer /\ socket
    /\ timer => waiter \notin ManagerCall /\ \A c \in ManagerCall : closes[c] = "idle"
    /\ handler = "engine" => engine = "starting"
    /\ ~socket => engine \in {"none", "gone"}
    /\ ~thrown

\* Audio, then perhaps the e command.
Stream(queue) ==
  \A i \in 1 .. Len(queue) : queue[i] = "audio" \/ (queue[i] = "e" /\ i = Len(queue))

Ends(queue) == IF Has(queue, {"e"}) THEN 1 ELSE 0

AudioInv ==
  "fast" \notin faults =>
    /\ handler # "done" => spoken = 0 /\ taken = 0
    /\ ~hungUp /\ Busy => toServer = <<>>
    /\ ~hungUp /\ handler = "done" => Stream(toServer)
    /\ ~hungUp /\ socket /\ handler = "done" =>
         taken + Len(toServer) = spoken + Ends(toServer)
    /\ ~hungUp /\ status = "RECV_E" => toServer = <<>>
    /\ Has(toClient, {"e"}) \/ client = "DONE_E" => taken = spoken /\ ~socket

Inv == TypeOK /\ ServerInv /\ QueueInv /\ PeerInv /\ StartInv /\ AudioInv

-----------------------------------------------------------------------------
(***************************************************************************)
(* Queues.                                                                 *)
(***************************************************************************)
LEMMA TailFacts ==
  ASSUME NEW M, NEW q \in Seq(M), q # <<>>
  PROVE  /\ Tail(q) \in Seq(M) /\ Head(q) \in M
         /\ Len(q) \in Nat /\ Len(q) > 0 /\ Len(Tail(q)) = Len(q) - 1
         /\ Len(q) <= 1 => Tail(q) = <<>>
         /\ \A ms : Has(Tail(q), ms) => Has(q, ms)
         /\ \A ms : Head(q) \in ms => Has(q, ms)
         /\ \A ms : Has(q, ms) => Head(q) \in ms \/ Has(Tail(q), ms)
         /\ Parted(q) => /\ Parted(Tail(q))
                         /\ Head(q) \in Final => ~Has(Tail(q), Answers)
         /\ FirstOnly(q) => ~Has(Tail(q), {"s", "s error"})
         /\ Stream(q) => /\ Stream(Tail(q)) /\ Head(q) \in {"audio", "e"}
                         /\ Head(q) = "e" => Tail(q) = <<>>
<1>1. /\ Tail(q) \in Seq(M) /\ Len(q) \in Nat /\ Len(q) > 0 /\ Head(q) \in M
      /\ Len(Tail(q)) = Len(q) - 1 /\ Head(q) = q[1]
  OBVIOUS
<1>2. \A i \in 1 .. Len(Tail(q)) : i + 1 \in 1 .. Len(q) /\ Tail(q)[i] = q[i + 1]
  BY <1>1
<1>. DEFINE n == Len(q)
            t == Len(Tail(q))
<1>a. n \in Nat /\ t \in Nat /\ t = n - 1
  BY <1>1
<1>. HIDE DEF n, t
<1>b. \A i \in 1 .. t : i \in Nat /\ i + 1 # 1 /\ (i + 1 = n => i = t)
  BY <1>a
<1>c. t = 0 => Tail(q) = <<>>
  <2>1. Tail(q) \in Seq(M)
    BY <1>1
  <2>. QED
    BY <2>1, EmptySeq DEF t
<1>3. 1 \in 1 .. Len(q)
  BY <1>1
<1>4. \A ms : Has(Tail(q), ms) => Has(q, ms)
  BY <1>2 DEF Has
<1>5. \A ms : Head(q) \in ms => Has(q, ms)
  BY <1>1, <1>3 DEF Has
<1>6. ASSUME NEW ms, Has(q, ms), Head(q) \notin ms
      PROVE  Has(Tail(q), ms)
  <2>1. PICK i \in 1 .. Len(q) : q[i] \in ms
    BY <1>6 DEF Has
  <2>2. i # 1
    BY <1>1, <1>6, <2>1
  <2>3. i - 1 \in 1 .. Len(Tail(q)) /\ Tail(q)[i - 1] = q[i]
    BY <1>1, <1>2, <2>2
  <2>. QED
    BY <2>1, <2>3 DEF Has
<1>7. ASSUME Parted(q)
      PROVE  Parted(Tail(q)) /\ (Head(q) \in Final => ~Has(Tail(q), Answers))
  <2>1. Parted(Tail(q))
    <3>. SUFFICES ASSUME NEW i \in 1 .. Len(Tail(q)), NEW j \in 1 .. Len(Tail(q)),
                         i < j, Tail(q)[i] \in Final
                  PROVE  Tail(q)[j] = "close"
      BY DEF Parted
    <3>1. i + 1 \in 1 .. Len(q) /\ j + 1 \in 1 .. Len(q) /\ i + 1 < j + 1
      BY <1>2, <1>1
    <3>. QED
      BY <1>2, <1>7, <3>1 DEF Parted
  <2>2. ASSUME Head(q) \in Final, NEW i \in 1 .. Len(Tail(q))
        PROVE  Tail(q)[i] = "close"
    <3>1. i + 1 \in 1 .. Len(q) /\ 1 < i + 1
      BY <1>2, <1>1
    <3>. QED
      BY <1>1, <1>2, <1>3, <1>7, <2>2, <3>1 DEF Parted
  <2>. QED
    BY <2>1, <2>2 DEF Has, Answers
<1>8. FirstOnly(q) => ~Has(Tail(q), {"s", "s error"})
  <2>. SUFFICES ASSUME FirstOnly(q), NEW i \in 1 .. Len(Tail(q)),
                       Tail(q)[i] \in {"s", "s error"}
                PROVE  FALSE
    BY DEF Has
  <2>1. i + 1 \in 1 .. Len(q) /\ q[i + 1] \in {"s", "s error"}
    BY <1>2
  <2>2. i + 1 = 1
    BY <2>1 DEF FirstOnly
  <2>. QED
    BY <2>2, <1>b DEF t
<1>9. ASSUME Stream(q)
      PROVE  /\ Stream(Tail(q)) /\ Head(q) \in {"audio", "e"}
             /\ Head(q) = "e" => Tail(q) = <<>>
  <2>1. Stream(Tail(q))
    <3>. SUFFICES ASSUME NEW i \in 1 .. Len(Tail(q)), Tail(q)[i] # "audio"
                  PROVE  Tail(q)[i] = "e" /\ i = Len(Tail(q))
      BY DEF Stream
    <3>1. q[i + 1] = "e" /\ i + 1 = Len(q)
      BY <1>2, <1>9 DEF Stream
    <3>. QED
      BY <1>2, <1>b, <3>1 DEF n, t
  <2>2. Head(q) = "audio" \/ (Head(q) = "e" /\ 1 = Len(q))
    BY <1>1, <1>3, <1>9 DEF Stream
  <2>3. Len(q) = 1 => Tail(q) = <<>>
    BY <1>a, <1>c DEF n
  <2>. QED
    BY <2>1, <2>2, <2>3
<1>10. Len(q) <= 1 => Tail(q) = <<>>
  <2>1. n > 0
    BY <1>1 DEF n
  <2>2. n <= 1 => t = 0
    BY <1>a, <2>1
  <2>. QED
    BY <1>c, <2>2 DEF n
<1>. QED
  BY <1>1, <1>4, <1>5, <1>6, <1>7, <1>8, <1>9, <1>10

LEMMA AppendIndex ==
  ASSUME NEW M, NEW q \in Seq(M), NEW m \in M
  PROVE  /\ Append(q, m) \in Seq(M) /\ Len(q) \in Nat
         /\ Len(Append(q, m)) = Len(q) + 1
         /\ Append(q, m)[Len(q) + 1] = m
         /\ \A i \in 1 .. Len(q) : Append(q, m)[i] = q[i]
OBVIOUS

LEMMA AppendFacts ==
  ASSUME NEW M, NEW q \in Seq(M), NEW m \in M
  PROVE  /\ Append(q, m) \in Seq(M)
         /\ Len(q) \in Nat /\ Len(Append(q, m)) = Len(q) + 1
         /\ \A ms : Has(Append(q, m), ms) <=> Has(q, ms) \/ m \in ms
         /\ Stream(q) /\ ~Has(q, {"e"}) /\ m \in {"audio", "e"} => Stream(Append(q, m))
<1>1. /\ Append(q, m) \in Seq(M) /\ Len(Append(q, m)) = Len(q) + 1 /\ Len(q) \in Nat
      /\ Append(q, m)[Len(q) + 1] = m
      /\ \A i \in 1 .. Len(q) : Append(q, m)[i] = q[i]
  BY AppendIndex
<1>2. \A i \in 1 .. Len(q) + 1 : i \in 1 .. Len(q) \/ i = Len(q) + 1
  BY <1>1
<1>3. Len(q) + 1 \in 1 .. Len(q) + 1 /\ \A i \in 1 .. Len(q) : i \in 1 .. Len(q) + 1
  BY <1>1
<1>4. \A ms : Has(Append(q, m), ms) <=> Has(q, ms) \/ m \in ms
  BY <1>1, <1>2, <1>3 DEF Has
<1>5. ASSUME Stream(q), ~Has(q, {"e"}), m \in {"audio", "e"}
      PROVE  Stream(Append(q, m))
  <2>1. \A i \in 1 .. Len(q) : q[i] = "audio"
    BY <1>5 DEF Stream, Has
  <2>. QED
    BY <1>1, <1>2, <1>5, <2>1 DEF Stream
<1>. QED
  BY <1>1, <1>4, <1>5

LEMMA SubSeqFacts ==
  ASSUME NEW M, NEW q \in Seq(M), NEW n \in 0 .. Len(q)
  PROVE  SubSeq(q, 1, n) \in Seq(M) /\ \A ms : Has(SubSeq(q, 1, n), ms) => Has(q, ms)
<1>1. SubSeq(q, 1, n) \in Seq(M) /\ Len(SubSeq(q, 1, n)) = n /\ Len(q) \in Nat
  OBVIOUS
<1>2. \A i \in 1 .. n : i \in 1 .. Len(q) /\ SubSeq(q, 1, n)[i] = q[i]
  BY <1>1
<1>. QED
  BY <1>1, <1>2 DEF Has

LEMMA ConcatFacts ==
  ASSUME NEW M, NEW q \in Seq(M), NEW r \in Seq(M)
  PROVE  /\ q \o r \in Seq(M)
         /\ \A ms : Has(q \o r, ms) => Has(q, ms) \/ Has(r, ms)
         /\ Parted(q) /\ ~Has(q, Final) /\ Parted(r) => Parted(q \o r)
         /\ FirstOnly(q) /\ ~Has(r, {"s", "s error"}) => FirstOnly(q \o r)
         /\ q # <<>> => q \o r # <<>> /\ Head(q \o r) = Head(q)
         /\ q = <<>> => q \o r = r
         /\ r = <<>> => q \o r = q
<1>1. /\ q \o r \in Seq(M) /\ Len(q \o r) = Len(q) + Len(r)
      /\ Len(q) \in Nat /\ Len(r) \in Nat
  OBVIOUS
<1>2. \A i \in 1 .. Len(q \o r) :
        \/ i \in 1 .. Len(q) /\ (q \o r)[i] = q[i]
        \/ i > Len(q) /\ i - Len(q) \in 1 .. Len(r) /\ (q \o r)[i] = r[i - Len(q)]
  BY <1>1
<1>3. \A ms : Has(q \o r, ms) => Has(q, ms) \/ Has(r, ms)
  BY <1>1, <1>2 DEF Has
<1>4. ASSUME Parted(q), ~Has(q, Final), Parted(r)
      PROVE  Parted(q \o r)
  <2>. SUFFICES ASSUME NEW i \in 1 .. Len(q \o r), NEW j \in 1 .. Len(q \o r),
                       i < j, (q \o r)[i] \in Final
                PROVE  (q \o r)[j] = "close"
    BY DEF Parted
  <2>1. /\ i > Len(q) /\ i - Len(q) \in 1 .. Len(r) /\ (q \o r)[i] = r[i - Len(q)]
    BY <1>2, <1>4 DEF Has
  <2>2. /\ j - Len(q) \in 1 .. Len(r) /\ (q \o r)[j] = r[j - Len(q)]
        /\ i - Len(q) < j - Len(q)
    BY <1>1, <1>2, <2>1
  <2>. QED
    BY <1>4, <2>1, <2>2 DEF Parted
<1>5. FirstOnly(q) /\ ~Has(r, {"s", "s error"}) => FirstOnly(q \o r)
  BY <1>2 DEF FirstOnly, Has
<1>6. q # <<>> => q \o r # <<>> /\ Head(q \o r) = Head(q)
  BY <1>1
<1>7. (q = <<>> => q \o r = r) /\ (r = <<>> => q \o r = q)
  OBVIOUS
<1>. QED
  BY <1>1, <1>3, <1>4, <1>5, <1>6, <1>7

LEMMA EmptyFacts ==
  /\ <<>> \in Seq(ToServer) /\ <<>> \in Seq(ToClient) /\ Len(<<>>) = 0
  /\ Parted(<<>>) /\ FirstOnly(<<>>) /\ Stream(<<>>) /\ \A ms : ~Has(<<>>, ms)
BY DEF Parted, FirstOnly, Stream, Has

LEMMA OneFacts ==
  ASSUME NEW m \in ToClient
  PROVE  /\ <<m>> \in Seq(ToClient) /\ <<m>> # <<>> /\ Head(<<m>>) = m
         /\ Parted(<<m>>) /\ FirstOnly(<<m>>) /\ \A ms : Has(<<m>>, ms) => m \in ms
<1>. DEFINE q == <<m>>
<1>1. q \in Seq(ToClient) /\ Len(q) = 1 /\ q[1] = m /\ q # <<>> /\ Head(q) = m
  OBVIOUS
<1>. HIDE DEF q
<1>2. \A i \in 1 .. Len(q) : i = 1
  BY <1>1
<1>3. Parted(q)
  BY <1>2 DEF Parted
<1>4. FirstOnly(q) /\ \A ms : Has(q, ms) => m \in ms
  BY <1>1, <1>2 DEF FirstOnly, Has
<1>. QED
  BY <1>1, <1>3, <1>4 DEF q

LEMMA TwoFacts ==
  ASSUME NEW m \in ToClient
  PROVE  /\ Append(<<m>>, "close") \in Seq(ToClient)
         /\ Parted(Append(<<m>>, "close")) /\ FirstOnly(Append(<<m>>, "close"))
         /\ \A ms : Has(Append(<<m>>, "close"), ms) => m \in ms \/ "close" \in ms
<1>. DEFINE q == Append(<<m>>, "close")
<1>1. "close" \in ToClient
  BY DEF ToClient
<1>2. q \in Seq(ToClient) /\ Len(q) = 2 /\ q[1] = m /\ q[2] = "close"
  <2>1. <<m>> \in Seq(ToClient) /\ Len(<<m>>) = 1 /\ <<m>>[1] = m
    OBVIOUS
  <2>. DEFINE r == <<m>>
  <2>. HIDE DEF r
  <2>2. r \in Seq(ToClient) /\ Len(r) = 1 /\ r[1] = m
    BY <2>1 DEF r
  <2>3. /\ Append(r, "close") \in Seq(ToClient) /\ Len(Append(r, "close")) = 2
        /\ Append(r, "close")[1] = m /\ Append(r, "close")[2] = "close"
    <3>1. /\ Append(r, "close") \in Seq(ToClient)
          /\ Len(Append(r, "close")) = Len(r) + 1
          /\ Append(r, "close")[Len(r) + 1] = "close"
          /\ \A i \in 1 .. Len(r) : Append(r, "close")[i] = r[i]
      <4>. DEFINE M == ToClient
                  c == "close"
      <4>1. r \in Seq(M) /\ c \in M
        BY <1>1, <2>2
      <4>. HIDE DEF M, c
      <4>2. /\ Append(r, c) \in Seq(M) /\ Len(Append(r, c)) = Len(r) + 1
            /\ Append(r, c)[Len(r) + 1] = c
            /\ \A i \in 1 .. Len(r) : Append(r, c)[i] = r[i]
        BY <4>1, AppendIndex
      <4>. QED
        BY <4>2 DEF M, c
    <3>2. 1 \in 1 .. Len(r) /\ Len(r) + 1 = 2
      BY <2>2
    <3>. QED
      BY <2>2, <3>1, <3>2
  <2>. QED
    BY <2>3 DEF r
<1>. HIDE DEF q
<1>3. \A i \in 1 .. Len(q) : i = 1 \/ i = 2
  BY <1>2
<1>4. Parted(q)
  <2>1. \A i, j \in 1 .. Len(q) : i < j => j = 2
    BY <1>3
  <2>. QED
    BY <1>2, <2>1 DEF Parted
<1>5. \A ms : Has(q, ms) => m \in ms \/ "close" \in ms
  BY <1>2, <1>3 DEF Has
<1>6. FirstOnly(q)
  BY <1>2, <1>3 DEF FirstOnly
<1>. QED
  BY <1>2, <1>4, <1>5, <1>6 DEF q

\* What close() says.
LEMMA EndingFacts ==
  ASSUME NEW st
  PROVE  /\ Ending(st) \in Seq(ToClient) /\ Parted(Ending(st))
         /\ \A ms : Has(Ending(st), ms) => \/ "close" \in ms
                                           \/ st = "DONE_S" /\ "p error" \in ms
                                           \/ st = "RECV_E" /\ "e" \in ms
         /\ st = "RECV_S" => Ending(st) = <<"close">>
<1>1. /\ st = "RECV_E" => Ending(st) = Append(<<"e">>, "close")
      /\ st = "DONE_S" => Ending(st) = Append(<<"p error">>, "close")
      /\ st # "RECV_E" /\ st # "DONE_S" => Ending(st) = <<"close">>
  <2>1. st = "RECV_E" => Parting(st) = <<"e">>
    BY DEF Parting
  <2>2. st = "DONE_S" => Parting(st) = <<"p error">>
    BY DEF Parting
  <2>3. st # "RECV_E" /\ st # "DONE_S" => Parting(st) = <<>>
    BY DEF Parting
  <2>4. Append(<<>>, "close") = <<"close">>
    OBVIOUS
  <2>. QED
    BY <2>1, <2>2, <2>3, <2>4 DEF Ending
<1>2. "e" \in ToClient /\ "p error" \in ToClient /\ "close" \in ToClient
  BY DEF ToClient
<1>. QED
  BY <1>1, <1>2, OneFacts, TwoFacts

-----------------------------------------------------------------------------
(***************************************************************************)
(* What is said.  May(ms): the server may say ms to a client that has not  *)
(* hung up.                                                                *)
(***************************************************************************)
May(ms) ==
  /\ ms # <<>> => ~Has(toClient, Final)
  /\ Has(ms, {"s", "s error"}) =>
       client = "SENDING_S" /\ toClient = <<>> /\ ~Has(ms, {"p", "p error"})
  /\ Has(ms, {"p", "p error"}) =>
       \/ client \in {"DONE_S", "SENDING_E"}
       \/ client = "SENDING_S" /\ toClient # <<>> /\ Head(toClient) = "s"
  /\ Has(ms, {"e"}) => client = "SENDING_E"

LEMMA AnswersAre ==
  ASSUME NEW q, Has(q, Answers)
  PROVE  Has(q, {"s", "s error"}) \/ Has(q, {"p", "p error"}) \/ Has(q, {"e"})
BY DEF Has, Answers

LEMMA AnswersHave ==
  ASSUME NEW q
  PROVE  /\ Has(q, {"s", "s error"}) => Has(q, Answers)
         /\ Has(q, {"p", "p error"}) => Has(q, Answers)
         /\ Has(q, {"p"}) => Has(q, {"p", "p error"})
         /\ Has(q, {"e"}) => Has(q, Answers) /\ Has(q, Final)
         /\ ~Has(q, {"s", "s error"}) => FirstOnly(q)
BY DEF Has, Answers, Final, FirstOnly

LEMMA Said ==
  ASSUME QueueInv, toClient \in Seq(ToClient), hungUp \in BOOLEAN,
         NEW ms \in Seq(ToClient), Parted(ms), FirstOnly(ms),
         ~hungUp => May(ms), Say(ms), UNCHANGED <<client, hungUp>>
  PROVE  /\ QueueInv'
         /\ toClient' \in Seq(ToClient)
         /\ hungUp => toClient' = toClient
         /\ ~hungUp => \A s : Has(toClient', s) => Has(toClient, s) \/ Has(ms, s)
         /\ toClient # <<>> => toClient' # <<>> /\ Head(toClient') = Head(toClient)
         /\ ~hungUp /\ toClient = <<>> => toClient' = ms
         /\ ms = <<>> => toClient' = toClient
<1>1. CASE hungUp
  <2>1. toClient' = toClient
    BY <1>1 DEF Say
  <2>2. QueueInv'
    BY <2>1 DEF QueueInv
  <2>. QED
    BY <1>1, <2>1, <2>2
<1>2. CASE ~hungUp
  <2>1. toClient' = toClient \o ms /\ May(ms) /\ ~hungUp'
    BY <1>2 DEF Say
  <2>2. /\ toClient' \in Seq(ToClient)
        /\ \A s : Has(toClient', s) => Has(toClient, s) \/ Has(ms, s)
        /\ Parted(toClient) /\ ~Has(toClient, Final) /\ Parted(ms) => Parted(toClient')
        /\ FirstOnly(toClient) /\ ~Has(ms, {"s", "s error"}) => FirstOnly(toClient')
        /\ toClient # <<>> => toClient' # <<>> /\ Head(toClient') = Head(toClient)
        /\ toClient = <<>> => toClient' = ms
        /\ ms = <<>> => toClient' = toClient
    BY <2>1, ConcatFacts
  <2>3. /\ client \in {"OPENED", "CLOSED"} => ~Has(toClient', Answers)
        /\ client = "SENDING_S" /\ Has(toClient', {"p", "p error"}) => Head(toClient') = "s"
    <3>1. ASSUME client \in {"OPENED", "CLOSED"}, Has(toClient', Answers)
          PROVE  FALSE
      <4>1. Has(ms, Answers)
        BY <2>2, <3>1 DEF QueueInv
      <4>. QED
        BY <2>1, <3>1, <4>1, AnswersAre DEF May
    <3>2. ASSUME client = "SENDING_S", Has(toClient', {"p", "p error"})
          PROVE  Head(toClient') = "s"
      <4>1. CASE Has(toClient, {"p", "p error"})
        <5>1. toClient # <<>>
          BY <4>1, EmptyFacts
        <5>. QED
          BY <2>2, <3>2, <4>1, <5>1 DEF QueueInv
      <4>2. CASE Has(ms, {"p", "p error"})
        BY <2>1, <2>2, <3>2, <4>2 DEF May
      <4>. QED
        BY <2>2, <3>2, <4>1, <4>2
    <3>. QED
      BY <3>1, <3>2
  <2>4. client = "SENDING_S" => FirstOnly(toClient')
    <3>. SUFFICES ASSUME client = "SENDING_S"
                  PROVE  FirstOnly(toClient')
      OBVIOUS
    <3>1. CASE Has(ms, {"s", "s error"})
      BY <2>1, <2>2, <3>1 DEF May
    <3>2. CASE ~Has(ms, {"s", "s error"})
      BY <2>2, <3>2 DEF QueueInv
    <3>. QED
      BY <3>1, <3>2
  <2>5. /\ client \in {"DONE_S", "SENDING_E"} => ~Has(toClient', {"s", "s error"})
        /\ Has(toClient', {"e"}) => client = "SENDING_E"
    BY <2>1, <2>2 DEF May, QueueInv
  <2>6. Parted(toClient')
    BY <2>1, <2>2 DEF May, QueueInv
  <2>7. client # "DONE_E"
    BY <1>2 DEF QueueInv
  <2>8. QueueInv'
    BY <2>1, <2>3, <2>4, <2>5, <2>6, <2>7 DEF QueueInv
  <2>. QED
    BY <1>2, <2>1, <2>2, <2>8
<1>. QED
  BY <1>1, <1>2

-----------------------------------------------------------------------------
\* What a call of closeSession changes.
LEMMA ClosesSession ==
  ASSUME Values, NEW c \in Caller
  PROVE  /\ CloseSession(c) \in [Caller -> {"idle", "redis", "waiting", "done"}]
         /\ ~table => CloseSession(c) = closes
BY DEF Values, CloseSession

LEMMA ManagerCalls == \A c \in ManagerCall : c \in Caller
BY DEF Caller

-----------------------------------------------------------------------------
(***************************************************************************)
(* The end of WebsocketServer.close().                                     *)
(***************************************************************************)
LEMMA EndingSays ==
  ASSUME NEW st
  PROVE  /\ ~Has(Ending(st), {"s", "s error"})
         /\ Has(Ending(st), {"p", "p error"}) => st = "DONE_S"
         /\ Has(Ending(st), {"e"}) => st = "RECV_E"
         /\ Has(Ending(st), Answers) => st \in {"DONE_S", "RECV_E"}
<1>1. /\ "close" \notin {"s", "s error"} /\ "p error" \notin {"s", "s error"}
      /\ "e" \notin {"s", "s error"}
      /\ "close" \notin {"p", "p error"} /\ "e" \notin {"p", "p error"}
      /\ "close" \notin {"e"} /\ "p error" \notin {"e"} /\ "close" \notin Answers
  BY DEF Answers
<1>2. \A ms : Has(Ending(st), ms) => \/ "close" \in ms
                                     \/ st = "DONE_S" /\ "p error" \in ms
                                     \/ st = "RECV_E" /\ "e" \in ms
  BY EndingFacts
<1>3. ~Has(Ending(st), {"s", "s error"})
  BY <1>1, <1>2
<1>4. Has(Ending(st), {"p", "p error"}) => st = "DONE_S"
  BY <1>1, <1>2
<1>5. Has(Ending(st), {"e"}) => st = "RECV_E"
  BY <1>1, <1>2
<1>6. Has(Ending(st), Answers) => st \in {"DONE_S", "RECV_E"}
  BY <1>1, <1>2
<1>. QED
  BY <1>3, <1>4, <1>5, <1>6

LEMMA EndingMay ==
  ASSUME QueueInv, PeerInv, ServerInv, Values, socket, ~hungUp, NEW st,
         st = "DONE_S" => handler = "done", st = "RECV_E" => client \in Finishing
  PROVE  May(Ending(st))
<1>1. ~Has(toClient, Final)
  BY DEF PeerInv
<1>3. ~Has(Ending(st), {"s", "s error"})
  BY EndingSays
<1>4. Has(Ending(st), {"p", "p error"}) =>
        \/ client \in {"DONE_S", "SENDING_E"}
        \/ client = "SENDING_S" /\ toClient # <<>> /\ Head(toClient) = "s"
  <2>1. Has(Ending(st), {"p", "p error"}) => st = "DONE_S"
    BY EndingSays
  <2>. QED
    BY <2>1 DEF PeerInv
<1>5. Has(Ending(st), {"e"}) => client = "SENDING_E"
  <2>1. Has(Ending(st), {"e"}) => st = "RECV_E"
    BY EndingSays
  <2>. QED
    BY <2>1 DEF PeerInv, QueueInv, Finishing
<1>. QED
  BY <1>1, <1>3, <1>4, <1>5 DEF May

\* What a client can read afterwards, when nothing was said before.
Parts(st) ==
  /\ QueueInv' /\ toClient' \in Seq(ToClient)
  /\ hungUp => toClient' = toClient
  /\ Has(toClient', Answers) =>
       \/ Has(toClient, Answers)
       \/ socket /\ st \in {"DONE_S", "RECV_E"}
  /\ Has(toClient', {"e"}) =>
       \/ Has(toClient, {"e"})
       \/ socket /\ ~hungUp /\ st = "RECV_E"

LEMMA FinishFacts ==
  ASSUME Flags, Values, QueueInv, PeerInv, ServerInv, NEW c, NEW calls, NEW st,
         Finish(c, calls, st, <<>>), UNCHANGED <<client, hungUp>>,
         st = "DONE_S" => handler = "done", st = "RECV_E" => client \in Finishing
  PROVE  /\ Parts(st)
         /\ engineClient' = FALSE /\ socket' = FALSE
         /\ closes' = [calls EXCEPT ![c] = "done"]
         /\ status' = IF socket THEN "CLOSED" ELSE st
<1>1. toClient \in Seq(ToClient) /\ hungUp \in BOOLEAN
  BY DEF Flags, Values
<1>2. CASE socket
  <2>1. Say(<<>> \o Ending(st)) /\ status' = "CLOSED"
    BY <1>2 DEF Finish
  <2>2. Ending(st) \in Seq(ToClient) /\ Parted(Ending(st))
    BY EndingFacts
  <2>3. <<>> \o Ending(st) = Ending(st)
    BY <2>2, EmptyFacts, ConcatFacts
  <2>4. ~hungUp => May(Ending(st))
    BY <1>2, EndingMay
  <2>5. FirstOnly(Ending(st))
    <3>1. ~Has(Ending(st), {"s", "s error"})
      BY EndingSays
    <3>. QED
      BY <3>1, AnswersHave
  <2>6. /\ QueueInv' /\ toClient' \in Seq(ToClient)
        /\ hungUp => toClient' = toClient
        /\ ~hungUp => \A s : Has(toClient', s) => Has(toClient, s) \/ Has(Ending(st), s)
    <3>1. Say(Ending(st))
      BY <2>1, <2>3
    <3>. QED
      BY <1>1, <2>2, <2>4, <2>5, <3>1, Said
  <2>7. /\ Has(Ending(st), Answers) => st \in {"DONE_S", "RECV_E"}
        /\ Has(Ending(st), {"e"}) => st = "RECV_E"
    BY EndingSays
  <2>8. /\ Has(toClient', Answers) => Has(toClient, Answers) \/ st \in {"DONE_S", "RECV_E"}
        /\ Has(toClient', {"e"}) => Has(toClient, {"e"}) \/ (~hungUp /\ st = "RECV_E")
    BY <2>6, <2>7
  <2>9. Parts(st)
    BY <1>2, <2>6, <2>8 DEF Parts
  <2>10. engineClient' = FALSE /\ socket' = FALSE /\ closes' = [calls EXCEPT ![c] = "done"]
    BY DEF Finish
  <2>. QED
    BY <1>2, <2>1, <2>9, <2>10
<1>3. CASE ~socket
  <2>1. Say(<<>>) /\ status' = st
    BY <1>3 DEF Finish
  <2>2. ~hungUp => May(<<>>)
    BY EmptyFacts DEF May
  <2>3. QueueInv' /\ toClient' = toClient
    BY <1>1, <2>1, <2>2, Said, EmptyFacts
  <2>4. Parts(st)
    BY <1>1, <2>3 DEF Parts
  <2>5. engineClient' = FALSE /\ socket' = FALSE /\ closes' = [calls EXCEPT ![c] = "done"]
    BY DEF Finish
  <2>. QED
    BY <1>3, <2>1, <2>4, <2>5
<1>. QED
  BY <1>2, <1>3

LEMMA CloseServerFacts ==
  ASSUME Flags, Values, QueueInv, PeerInv, ServerInv, NEW c, NEW calls, NEW st,
         CloseServer(c, calls, st, <<>>), UNCHANGED <<client, hungUp>>,
         st = "DONE_S" => handler = "done", st = "RECV_E" => client \in Finishing
  PROVE  \/ /\ Parts(st)
            /\ ~(engineClient /\ engine = "used") /\ waiter' = waiter
            /\ engine' = IF engine \in {"starting", "idle"} THEN "gone" ELSE engine
            /\ engineClient' = FALSE /\ socket' = FALSE
            /\ closes' = [calls EXCEPT ![c] = "done"]
            /\ status' = IF socket THEN "CLOSED" ELSE st
         \/ /\ QueueInv' /\ toClient' = toClient
            /\ engineClient /\ engine = "used"
            /\ engineClient' = engineClient /\ engine' = engine /\ socket' = socket
            /\ waiter' = IF waiter = "none" THEN c ELSE waiter
            /\ closes' = [calls EXCEPT ![c] = "waiting"]
            /\ status' = st
<1>1. CASE /\ ~(engineClient /\ engine = "used")
           /\ engine' = IF engine \in {"starting", "idle"} THEN "gone" ELSE engine
           /\ UNCHANGED waiter
           /\ Finish(c, calls, st, <<>>)
  BY <1>1, FinishFacts
<1>2. CASE /\ engineClient /\ engine = "used"
           /\ waiter' = IF waiter = "none" THEN c ELSE waiter
           /\ closes' = [calls EXCEPT ![c] = "waiting"]
           /\ status' = st
           /\ Say(<<>>)
           /\ UNCHANGED <<engineClient, engine, socket>>
  <2>1. toClient \in Seq(ToClient) /\ hungUp \in BOOLEAN
    BY DEF Flags, Values
  <2>2. ~hungUp => May(<<>>)
    BY EmptyFacts DEF May
  <2>3. QueueInv' /\ toClient' = toClient
    BY <1>2, <2>1, <2>2, Said, EmptyFacts
  <2>. QED
    BY <1>2, <2>3
<1>. QED
  BY <1>1, <1>2 DEF CloseServer

-----------------------------------------------------------------------------
(***************************************************************************)
(* Every step preserves the invariant.                                     *)
(***************************************************************************)

LEMMA SendSStep ==
  ASSUME Inv, NEW m \in {"s", "bad"}, SendS(m), UNCHANGED faults
  PROVE  Inv'
<1>f. Flags
  BY Types DEF Inv
<1>v. Values
  BY Types DEF Inv
<1>s. ServerInv
  BY DEF Inv
<1>q. QueueInv
  BY DEF Inv
<1>p. PeerInv
  BY DEF Inv
<1>t. StartInv
  BY DEF Inv
<1>u. AudioInv
  BY DEF Inv
<1>b. m \in ToServer /\ toServer \in Seq(ToServer)
  BY <1>v DEF Values, ToServer
<1>c. toServer' = Append(toServer, m) /\ ~hungUp /\ ~hungUp' /\ client = "OPENED" /\ client' = "SENDING_S"
  BY DEF SendS, ClientSends
<1>d. /\ toServer' \in Seq(ToServer) /\ Len(toServer) \in Nat
      /\ Len(toServer') = Len(toServer) + 1
      /\ \A ms : Has(toServer', ms) <=> Has(toServer, ms) \/ m \in ms
      /\ Stream(toServer) /\ ~Has(toServer, {"e"}) /\ m \in {"audio", "e"}
           => Stream(toServer')
  BY <1>b, <1>c, AppendFacts
<1>e. /\ handler = "idle" /\ toServer = <<>>
      /\ ~Has(toClient, Answers) /\ status # "RECV_E"
  BY <1>c, <1>p, <1>q DEF PeerInv, QueueInv, Finishing
<1>g. Len(toServer') = 1 /\ ~Has(toServer', {"e"})
  BY <1>d, <1>e, EmptyFacts
<1>h. /\ ~Has(toClient, {"s", "s error"}) /\ ~Has(toClient, {"p", "p error"})
      /\ ~Has(toClient, {"e"}) /\ FirstOnly(toClient)
  BY <1>e, AnswersHave
<1>i. handler' = "idle" /\ handler' # "done" /\ ~Busy'
  BY <1>e DEF SendS, ClientSends, Busy
<1>j. "slow" \notin faults /\ status = "OPENED" => timer /\ socket
  BY <1>s DEF SendS, ServerInv
<1>1. Flags'
  BY <1>f DEF SendS, ClientSends, clientVars, engineVars, managerVars, closeVars,
     Flags
<1>2. Values'
  BY <1>v, <1>d DEF SendS, ClientSends, clientVars, engineVars, managerVars,
     closeVars, Values
<1>3. ServerInv'
  BY <1>s DEF SendS, ClientSends, clientVars, engineVars, managerVars, closeVars,
     ServerInv, Busy
<1>4. QueueInv'
  BY <1>q, <1>c, <1>h DEF SendS, ClientSends, clientVars, engineVars, managerVars,
     closeVars, QueueInv
<1>5. PeerInv'
  BY <1>p, <1>c, <1>d, <1>g, <1>e, <1>i DEF SendS, ClientSends, clientVars,
     engineVars, managerVars, closeVars, PeerInv, Finishing
<1>6. StartInv'
  BY <1>t, <1>c, <1>e, <1>j, <1>i DEF SendS, ClientSends, clientVars, engineVars,
     managerVars, closeVars, StartInv, Busy
<1>7. AudioInv'
  BY <1>u, <1>c, <1>e, <1>i, <1>h DEF SendS, ClientSends, clientVars, engineVars,
     managerVars, closeVars, AudioInv, Busy, Ends
<1>. QED
  BY <1>1, <1>2, <1>3, <1>4, <1>5, <1>6, <1>7, TypesNext DEF Inv

LEMMA SendAudioStep ==
  ASSUME Inv, SendAudio, UNCHANGED faults
  PROVE  Inv'
<1>f. Flags
  BY Types DEF Inv
<1>v. Values
  BY Types DEF Inv
<1>s. ServerInv
  BY DEF Inv
<1>q. QueueInv
  BY DEF Inv
<1>p. PeerInv
  BY DEF Inv
<1>t. StartInv
  BY DEF Inv
<1>u. AudioInv
  BY DEF Inv
<1>b. "audio" \in ToServer /\ toServer \in Seq(ToServer)
  BY <1>v DEF Values, ToServer
<1>c. toServer' = Append(toServer, "audio") /\ ~hungUp /\ ~hungUp' /\ client = "DONE_S" /\ client' = "DONE_S"
  BY DEF SendAudio, ClientSends
<1>d. /\ toServer' \in Seq(ToServer) /\ Len(toServer) \in Nat
      /\ Len(toServer') = Len(toServer) + 1
      /\ \A ms : Has(toServer', ms) <=> Has(toServer, ms) \/ "audio" \in ms
      /\ Stream(toServer) /\ ~Has(toServer, {"e"}) /\ "audio" \in {"audio", "e"}
           => Stream(toServer')
  BY <1>b, <1>c, AppendFacts
<1>e. /\ ~Has(toServer, {"e"}) /\ status # "RECV_E" /\ ~Has(toClient, {"e"})
  BY <1>c, <1>p, <1>q DEF PeerInv, QueueInv, Finishing
<1>g. ~Has(toServer', {"e"})
  BY <1>d, <1>e
<1>h. "fast" \notin faults => handler = "done" /\ Stream(toServer')
  BY <1>c, <1>d, <1>e, <1>u DEF SendAudio, AudioInv
<1>i. taken \in Nat /\ spoken \in Nat /\ spoken' = spoken + 1
  BY <1>v, WebsocketAssumption DEF SendAudio, Values
<1>1. Flags'
  BY <1>f DEF SendAudio, ClientSends, clientVars, engineVars, managerVars,
     closeVars, Flags
<1>2. Values'
  BY <1>v, <1>d, WebsocketAssumption DEF SendAudio, ClientSends, clientVars,
     engineVars, managerVars, closeVars, Values
<1>3. ServerInv'
  BY <1>s DEF SendAudio, ClientSends, clientVars, engineVars, managerVars,
     closeVars, ServerInv, Busy
<1>4. QueueInv'
  BY <1>q, <1>c DEF SendAudio, ClientSends, clientVars, engineVars, managerVars,
     closeVars, QueueInv
<1>5. PeerInv'
  BY <1>p, <1>c, <1>d DEF SendAudio, ClientSends, clientVars, engineVars,
     managerVars, closeVars, PeerInv
<1>6. StartInv'
  BY <1>t, <1>c, <1>d, <1>s, <1>p DEF SendAudio, ClientSends, clientVars,
     engineVars, managerVars, closeVars, StartInv, Busy
<1>7. AudioInv'
  BY <1>u, <1>c, <1>d, <1>e, <1>g, <1>h, <1>i DEF SendAudio, ClientSends,
     clientVars, engineVars, managerVars, closeVars, AudioInv, Busy, Ends
<1>. QED
  BY <1>1, <1>2, <1>3, <1>4, <1>5, <1>6, <1>7, TypesNext DEF Inv

LEMMA FinishAudioStep ==
  ASSUME Inv, FinishAudio, UNCHANGED faults
  PROVE  Inv'
<1>f. Flags
  BY Types DEF Inv
<1>v. Values
  BY Types DEF Inv
<1>s. ServerInv
  BY DEF Inv
<1>q. QueueInv
  BY DEF Inv
<1>p. PeerInv
  BY DEF Inv
<1>t. StartInv
  BY DEF Inv
<1>u. AudioInv
  BY DEF Inv
<1>b. "e" \in ToServer /\ toServer \in Seq(ToServer)
  BY <1>v DEF Values, ToServer
<1>c. toServer' = Append(toServer, "e") /\ ~hungUp /\ ~hungUp' /\ client = "DONE_S" /\ client' = "SENDING_E"
  BY DEF FinishAudio, ClientSends
<1>d. /\ toServer' \in Seq(ToServer) /\ Len(toServer) \in Nat
      /\ Len(toServer') = Len(toServer) + 1
      /\ \A ms : Has(toServer', ms) <=> Has(toServer, ms) \/ "e" \in ms
      /\ Stream(toServer) /\ ~Has(toServer, {"e"}) /\ "e" \in {"audio", "e"}
           => Stream(toServer')
  BY <1>b, <1>c, AppendFacts
<1>e. /\ ~Has(toServer, {"e"}) /\ ~Has(toServer, {"s", "bad"})
      /\ status # "RECV_E" /\ ~Has(toClient, {"e"})
  BY <1>c, <1>p, <1>q DEF PeerInv, QueueInv, Finishing
<1>g. Has(toServer', {"e"}) /\ ~Has(toServer', {"s", "bad"})
  BY <1>d, <1>e
<1>h. "fast" \notin faults => handler = "done" /\ Stream(toServer')
  BY <1>c, <1>d, <1>e, <1>u DEF FinishAudio, AudioInv
<1>i. taken \in Nat /\ spoken \in Nat
  BY <1>v, WebsocketAssumption DEF Values
<1>1. Flags'
  BY <1>f DEF FinishAudio, ClientSends, clientVars, engineVars, managerVars,
     closeVars, Flags
<1>2. Values'
  BY <1>v, <1>d DEF FinishAudio, ClientSends, clientVars, engineVars, managerVars,
     closeVars, Values
<1>3. ServerInv'
  BY <1>s DEF FinishAudio, ClientSends, clientVars, engineVars, managerVars,
     closeVars, ServerInv, Busy
<1>4. QueueInv'
  BY <1>q, <1>c DEF FinishAudio, ClientSends, clientVars, engineVars, managerVars,
     closeVars, QueueInv
<1>5. PeerInv'
  BY <1>p, <1>c, <1>d, <1>g, <1>e DEF FinishAudio, ClientSends, clientVars,
     engineVars, managerVars, closeVars, PeerInv, Finishing
<1>6. StartInv'
  BY <1>t, <1>c, <1>d, <1>s, <1>p DEF FinishAudio, ClientSends, clientVars,
     engineVars, managerVars, closeVars, StartInv, Busy
<1>7. AudioInv'
  BY <1>u, <1>c, <1>d, <1>e, <1>g, <1>h, <1>i DEF FinishAudio, ClientSends,
     clientVars, engineVars, managerVars, closeVars, AudioInv, Busy, Ends
<1>. QED
  BY <1>1, <1>2, <1>3, <1>4, <1>5, <1>6, <1>7, TypesNext DEF Inv

LEMMA LeaveStep ==
  ASSUME Inv, Leave, UNCHANGED faults
  PROVE  Inv'
<1>f. Flags
  BY Types DEF Inv
<1>v. Values
  BY Types DEF Inv
<1>s. ServerInv
  BY DEF Inv
<1>q. QueueInv
  BY DEF Inv
<1>p. PeerInv
  BY DEF Inv
<1>t. StartInv
  BY DEF Inv
<1>u. AudioInv
  BY DEF Inv
<1>b. hungUp' /\ client' = "CLOSED" /\ toClient' = <<>>
  BY DEF Leave, HangUp
<1>c. PICK n \in 0 .. Len(toServer) : toServer' = Append(SubSeq(toServer, 1, n), "close")
  BY DEF Leave, HangUp
<1>d. /\ SubSeq(toServer, 1, n) \in Seq(ToServer)
      /\ \A ms : Has(SubSeq(toServer, 1, n), ms) => Has(toServer, ms)
  BY <1>v, SubSeqFacts DEF Values
<1>e. /\ toServer' \in Seq(ToServer)
      /\ \A ms : Has(toServer', ms) => Has(toServer, ms) \/ "close" \in ms
  <2>. DEFINE r == SubSeq(toServer, 1, n)
  <2>1. "close" \in ToServer /\ r \in Seq(ToServer)
    BY <1>d DEF ToServer
  <2>. HIDE DEF r
  <2>2. /\ Append(r, "close") \in Seq(ToServer)
        /\ \A ms : Has(Append(r, "close"), ms) => Has(r, ms) \/ "close" \in ms
    BY <2>1, AppendFacts
  <2>. QED
    BY <1>c, <1>d, <2>2 DEF r
<1>g. Has(toServer', {"s", "bad"}) => Has(toServer, {"s", "bad"})
  BY <1>e
<1>h. /\ ~Has(toClient', Answers) /\ ~Has(toClient', Final) /\ Parted(toClient')
      /\ ~Has(toClient', {"e"})
  BY <1>b, EmptyFacts
<1>1. Flags'
  BY <1>f, <1>b DEF Leave, HangUp, clientVars, engineVars, managerVars, closeVars,
     Flags
<1>2. Values'
  BY <1>v, <1>b, <1>e, EmptyFacts DEF Leave, HangUp, clientVars, engineVars,
     managerVars, closeVars, Values
<1>3. ServerInv'
  BY <1>s DEF Leave, HangUp, clientVars, engineVars, managerVars, closeVars,
     ServerInv, Busy
<1>4. QueueInv'
  BY <1>b, <1>h DEF QueueInv
<1>5. PeerInv'
  BY <1>p, <1>b, <1>g, <1>h DEF Leave, HangUp, clientVars, engineVars, managerVars,
     closeVars, PeerInv, Finishing
<1>6. StartInv'
  BY <1>t, <1>g DEF Leave, HangUp, clientVars, engineVars, managerVars, closeVars,
     StartInv, Busy
<1>7. AudioInv'
  BY <1>u, <1>b, <1>h DEF Leave, HangUp, clientVars, engineVars, managerVars,
     closeVars, AudioInv, Busy, Ends
<1>. QED
  BY <1>1, <1>2, <1>3, <1>4, <1>5, <1>6, <1>7, TypesNext DEF Inv

LEMMA ClientReceivesStep ==
  ASSUME Inv, ClientReceives, UNCHANGED faults
  PROVE  Inv'
<1>f. Flags
  BY Types DEF Inv
<1>v. Values
  BY Types DEF Inv
<1>s. ServerInv
  BY DEF Inv
<1>q. QueueInv
  BY DEF Inv
<1>p. PeerInv
  BY DEF Inv
<1>t. StartInv
  BY DEF Inv
<1>u. AudioInv
  BY DEF Inv
<1>. DEFINE m == Head(toClient)
            last == m = "close" \/ (m \in {"s error", "e"} /\ Reaction(m) # client)
<1>b. /\ toClient # <<>> /\ toClient \in Seq(ToClient) /\ toServer \in Seq(ToServer)
      /\ UNCHANGED <<spoken, status, socket, handler, engineClient, engine, waiter,
                     taken, start, table, timer, closes, thrown>>
  BY <1>v DEF ClientReceives, Values, engineVars, managerVars
<1>c. /\ m \in ToClient /\ Tail(toClient) \in Seq(ToClient)
      /\ \A ms : Has(Tail(toClient), ms) => Has(toClient, ms)
      /\ \A ms : m \in ms => Has(toClient, ms)
      /\ Parted(toClient) => /\ Parted(Tail(toClient))
                             /\ m \in Final => ~Has(Tail(toClient), Answers)
      /\ FirstOnly(toClient) => ~Has(Tail(toClient), {"s", "s error"})
  BY <1>b, TailFacts
<1>d. \/ last /\ HangUp(Reaction(m), toServer)
      \/ /\ ~last
         /\ client' = Reaction(m) /\ toClient' = Tail(toClient)
         /\ UNCHANGED <<hungUp, toServer>>
  BY DEF ClientReceives
<1>e. ~hungUp /\ client # "DONE_E"
  BY <1>b, <1>q DEF QueueInv
<1>g. /\ m = "s" \/ m = "s error" => client = "SENDING_S"
      /\ m = "p" \/ m = "p error" => client \in {"DONE_S", "SENDING_E"}
      /\ m = "e" => client = "SENDING_E"
  <2>1. m = "s" \/ m = "s error" => Has(toClient, {"s", "s error"}) /\ Has(toClient, Answers)
    BY <1>c DEF Answers
  <2>2. m = "p" \/ m = "p error" => Has(toClient, {"p", "p error"}) /\ Has(toClient, Answers)
    BY <1>c DEF Answers
  <2>3. m = "e" => Has(toClient, {"e"})
    BY <1>c
  <2>. QED
    BY <1>e, <1>v, <1>q, <2>1, <2>2, <2>3 DEF QueueInv, Values
<1>i. ServerInv'
  BY <1>s, <1>b DEF ServerInv, Busy
<1>1. CASE last
  <2>1. hungUp' /\ toServer' = Append(toServer, "close") /\ toClient' = <<>>
        /\ client' = Reaction(m)
    BY <1>d, <1>1 DEF HangUp
  <2>2. client' \in {"CLOSED", "DONE_E"} /\ (client' = "DONE_E" => m = "e")
    BY <1>1, <1>g, <2>1 DEF Reaction
  <2>3. /\ toServer' \in Seq(ToServer)
        /\ \A ms : Has(toServer', ms) => Has(toServer, ms) \/ "close" \in ms
    BY <1>b, <2>1, AppendFacts DEF ToServer
  <2>4. Has(toServer', {"s", "bad"}) => Has(toServer, {"s", "bad"})
    BY <2>3
  <2>5. /\ ~Has(toClient', Answers) /\ ~Has(toClient', Final) /\ Parted(toClient')
        /\ ~Has(toClient', {"e"}) /\ toClient' \in Seq(ToClient)
    BY <2>1, EmptyFacts
  <2>6. client' = "DONE_E" => Has(toClient, {"e"})
    BY <1>c, <2>2
  <2>7. Flags'
    BY <1>f, <1>b, <2>1 DEF Flags
  <2>8. Values'
    BY <1>v, <1>b, <2>2, <2>3, <2>5 DEF Values
  <2>9. QueueInv'
    BY <2>1, <2>2, <2>5 DEF QueueInv
  <2>10. PeerInv'
    BY <1>p, <1>b, <2>1, <2>2, <2>4, <2>5 DEF PeerInv, Finishing
  <2>11. StartInv'
    BY <1>t, <1>b, <2>4 DEF StartInv, Busy
  <2>12. AudioInv'
    BY <1>u, <1>b, <2>1, <2>5, <2>6 DEF AudioInv
  <2>. QED
    BY <1>i, <2>7, <2>8, <2>9, <2>10, <2>11, <2>12, TypesNext DEF Inv
<1>2. CASE ~last
  <2>1. /\ client' = Reaction(m) /\ toClient' = Tail(toClient)
        /\ hungUp' = hungUp /\ toServer' = toServer
    BY <1>d, <1>2
  <2>2. /\ m \in {"s", "p", "p error"}
        /\ m = "s" => client = "SENDING_S" /\ client' = "DONE_S"
        /\ m = "p" => client \in {"DONE_S", "SENDING_E"} /\ client' = client
        /\ m = "p error" => client \in {"DONE_S", "SENDING_E"} /\ client' = "CLOSED"
    BY <1>c, <1>g, <1>2, <2>1 DEF Reaction, ToClient
  <2>3. /\ Has(toClient, Answers)
        /\ Has(toClient', Final) => Has(toClient, Final)
        /\ Has(toClient', {"e"}) => Has(toClient, {"e"})
        /\ Has(toClient', {"s", "s error"}) => Has(toClient, {"s", "s error"})
        /\ m = "p error" => Has(toClient, Final)
    BY <1>c, <2>1, <2>2 DEF Answers, Final
  <2>4. /\ Parted(toClient') /\ toClient' \in Seq(ToClient)
        /\ m = "s" => ~Has(toClient', {"s", "s error"})
        /\ m = "p error" => ~Has(toClient', Answers)
    BY <1>c, <1>q, <2>1, <2>2 DEF QueueInv, Final
  <2>5. handler \in {"success", "done"}
    BY <1>p, <1>v, <2>3 DEF PeerInv, Values
  <2>6. m = "p error" => ~socket
    BY <1>p, <2>3 DEF PeerInv
  <2>7. Flags'
    BY <1>f, <1>b, <2>1 DEF Flags
  <2>8. Values'
    <3>1. client' \in {"DONE_S", "SENDING_E", "CLOSED"}
      BY <2>2
    <3>2. toServer' \in Seq(ToServer) /\ toClient' \in Seq(ToClient)
      BY <1>b, <2>1, <2>4
    <3>. QED
      BY <1>v, <1>b, <3>1, <3>2 DEF Values
  <2>9. QueueInv'
    <3>1. m = "s" => QueueInv'
      BY <1>q, <1>e, <2>1, <2>2, <2>3, <2>4 DEF QueueInv
    <3>2. m = "p" => QueueInv'
      BY <1>q, <1>e, <2>1, <2>2, <2>3, <2>4 DEF QueueInv
    <3>3. m = "p error" => ~Has(toClient', {"e"})
      BY <2>4, AnswersHave
    <3>4. m = "p error" => QueueInv'
      BY <1>q, <1>e, <2>1, <2>2, <2>4, <3>3 DEF QueueInv
    <3>. QED
      BY <2>2, <3>1, <3>2, <3>4
  <2>10. PeerInv'
    BY <1>p, <1>b, <1>e, <2>1, <2>2, <2>3, <2>5, <2>6 DEF PeerInv, Finishing
  <2>11. StartInv'
    BY <1>t, <1>b, <2>1 DEF StartInv, Busy
  <2>12. AudioInv'
    BY <1>u, <1>b, <1>e, <2>1, <2>2, <2>3 DEF AudioInv, Busy, Ends
  <2>. QED
    BY <1>i, <2>7, <2>8, <2>9, <2>10, <2>11, <2>12, TypesNext DEF Inv
<1>. QED
  BY <1>1, <1>2

LEMMA OpenStep ==
  ASSUME Inv, Open, UNCHANGED faults
  PROVE  Inv'
<1>f. Flags
  BY Types DEF Inv
<1>v. Values
  BY Types DEF Inv
<1>s. ServerInv
  BY DEF Inv
<1>q. QueueInv
  BY DEF Inv
<1>p. PeerInv
  BY DEF Inv
<1>t. StartInv
  BY DEF Inv
<1>u. AudioInv
  BY DEF Inv
<1>1. Flags'
  BY <1>f DEF Open, clientVars, engineVars, managerVars, closeVars, Flags
<1>2. Values'
  BY <1>v DEF Open, clientVars, engineVars, managerVars, closeVars, Values
<1>3. ServerInv'
  BY <1>s DEF Open, clientVars, engineVars, managerVars, closeVars, ServerInv, Busy
<1>4. QueueInv'
  BY <1>q DEF Open, clientVars, engineVars, managerVars, closeVars, QueueInv
<1>5. PeerInv'
  BY <1>p DEF Open, clientVars, engineVars, managerVars, closeVars, PeerInv
<1>6. StartInv'
  BY <1>t DEF Open, clientVars, engineVars, managerVars, closeVars, StartInv, Busy
<1>7. AudioInv'
  BY <1>u DEF Open, clientVars, engineVars, managerVars, closeVars, AudioInv, Busy,
     Ends
<1>. QED
  BY <1>1, <1>2, <1>3, <1>4, <1>5, <1>6, <1>7, TypesNext DEF Inv

LEMMA RegisterStep ==
  ASSUME Inv, Register, UNCHANGED faults
  PROVE  Inv'
<1>f. Flags
  BY Types DEF Inv
<1>v. Values
  BY Types DEF Inv
<1>s. ServerInv
  BY DEF Inv
<1>q. QueueInv
  BY DEF Inv
<1>p. PeerInv
  BY DEF Inv
<1>t. StartInv
  BY DEF Inv
<1>u. AudioInv
  BY DEF Inv
<1>b. /\ closes' \in [Caller -> {"idle", "redis", "waiting", "done"}]
      /\ start' \in {"served", "failed"} /\ timer' \in BOOLEAN
      /\ timer' => timer /\ closes' = closes
  <2>1. "failed" \in Caller
    BY DEF Caller, ManagerCall
  <2>2. /\ CloseSession("failed") \in [Caller -> {"idle", "redis", "waiting", "done"}]
        /\ ~table => CloseSession("failed") = closes
    BY <1>v, <2>1, ClosesSession
  <2>3. CASE start' = "served" /\ UNCHANGED <<timer, closes>>
    BY <1>f, <1>v, <2>3 DEF Flags, Values
  <2>4. CASE start' = "failed" /\ closes' = CloseSession("failed") /\ timer' = (timer /\ ~table)
    BY <1>f, <2>2, <2>4 DEF Flags
  <2>. QED
    BY <2>3, <2>4 DEF Register
<1>c. handler = "done"
  BY <1>s DEF Register, ServerInv
<1>1. Flags'
  BY <1>f, <1>b DEF Register, clientVars, engineVars, managerVars, closeVars, Flags
<1>2. Values'
  BY <1>v, <1>b DEF Register, clientVars, engineVars, managerVars, closeVars, Values
<1>3. ServerInv'
  BY <1>s, <1>b, <1>c DEF Register, clientVars, engineVars, managerVars, closeVars,
     ServerInv, Busy
<1>4. QueueInv'
  BY <1>q DEF Register, clientVars, engineVars, managerVars, closeVars, QueueInv
<1>5. PeerInv'
  BY <1>p DEF Register, clientVars, engineVars, managerVars, closeVars, PeerInv
<1>6. StartInv'
  BY <1>t, <1>b, <1>c, <1>s DEF Register, clientVars, engineVars, managerVars,
     closeVars, StartInv, Busy, ServerInv
<1>7. AudioInv'
  BY <1>u DEF Register, clientVars, engineVars, managerVars, closeVars, AudioInv,
     Busy, Ends
<1>. QED
  BY <1>1, <1>2, <1>3, <1>4, <1>5, <1>6, <1>7, TypesNext DEF Inv

LEMMA TimerFiresStep ==
  ASSUME Inv, TimerFires, UNCHANGED faults
  PROVE  Inv'
<1>f. Flags
  BY Types DEF Inv
<1>v. Values
  BY Types DEF Inv
<1>s. ServerInv
  BY DEF Inv
<1>q. QueueInv
  BY DEF Inv
<1>p. PeerInv
  BY DEF Inv
<1>t. StartInv
  BY DEF Inv
<1>u. AudioInv
  BY DEF Inv
<1>b. closes' \in [Caller -> {"idle", "redis", "waiting", "done"}] /\ timer' = FALSE
  <2>1. "timer" \in Caller
    BY DEF Caller, ManagerCall
  <2>. QED
    BY <1>v, <2>1, ClosesSession DEF TimerFires, Timeout
<1>c. "slow" \notin faults => ~Busy /\ ~(status = "OPENED" /\ Has(toServer, {"s", "bad"}))
  BY DEF TimerFires, Starting, Busy, Has, Contains
<1>1. Flags'
  BY <1>f, <1>b DEF TimerFires, Timeout, clientVars, engineVars, managerVars,
     closeVars, Flags
<1>2. Values'
  BY <1>v, <1>b DEF TimerFires, Timeout, clientVars, engineVars, managerVars,
     closeVars, Values
<1>3. ServerInv'
  BY <1>s DEF TimerFires, Timeout, clientVars, engineVars, managerVars, closeVars,
     ServerInv, Busy
<1>4. QueueInv'
  BY <1>q DEF TimerFires, Timeout, clientVars, engineVars, managerVars, closeVars,
     QueueInv
<1>5. PeerInv'
  BY <1>p DEF TimerFires, Timeout, clientVars, engineVars, managerVars, closeVars,
     PeerInv
<1>6. StartInv'
  BY <1>t, <1>b, <1>c DEF TimerFires, Timeout, clientVars, engineVars, managerVars,
     closeVars, StartInv, Busy
<1>7. AudioInv'
  BY <1>u DEF TimerFires, Timeout, clientVars, engineVars, managerVars, closeVars,
     AudioInv, Busy, Ends
<1>. QED
  BY <1>1, <1>2, <1>3, <1>4, <1>5, <1>6, <1>7, TypesNext DEF Inv

LEMMA EngineErrorStep ==
  ASSUME Inv, EngineError, UNCHANGED faults
  PROVE  Inv'
<1>f. Flags
  BY Types DEF Inv
<1>v. Values
  BY Types DEF Inv
<1>s. ServerInv
  BY DEF Inv
<1>q. QueueInv
  BY DEF Inv
<1>p. PeerInv
  BY DEF Inv
<1>t. StartInv
  BY DEF Inv
<1>u. AudioInv
  BY DEF Inv
<1>1. Flags'
  BY <1>f DEF EngineError, clientVars, engineVars, managerVars, closeVars, Flags
<1>2. Values'
  BY <1>v DEF EngineError, clientVars, engineVars, managerVars, closeVars, Values
<1>3. ServerInv'
  BY <1>s DEF EngineError, clientVars, engineVars, managerVars, closeVars,
     ServerInv, Busy
<1>4. QueueInv'
  BY <1>q DEF EngineError, clientVars, engineVars, managerVars, closeVars, QueueInv
<1>5. PeerInv'
  BY <1>p DEF EngineError, clientVars, engineVars, managerVars, closeVars, PeerInv
<1>6. StartInv'
  BY <1>t DEF EngineError, clientVars, engineVars, managerVars, closeVars,
     StartInv, Busy, ManagerCall
<1>7. AudioInv'
  BY <1>u DEF EngineError, clientVars, engineVars, managerVars, closeVars,
     AudioInv, Busy, Ends
<1>. QED
  BY <1>1, <1>2, <1>3, <1>4, <1>5, <1>6, <1>7, TypesNext DEF Inv

LEMMA IgnoreStep ==
  ASSUME Inv, Ignore, UNCHANGED faults
  PROVE  Inv'
<1>f. Flags
  BY Types DEF Inv
<1>v. Values
  BY Types DEF Inv
<1>s. ServerInv
  BY DEF Inv
<1>q. QueueInv
  BY DEF Inv
<1>p. PeerInv
  BY DEF Inv
<1>t. StartInv
  BY DEF Inv
<1>u. AudioInv
  BY DEF Inv
<1>b. toServer # <<>> /\ toServer' = Tail(toServer)
  BY DEF Ignore
<1>c. /\ toServer' \in Seq(ToServer) /\ Head(toServer) \in ToServer
      /\ Len(toServer) \in Nat /\ Len(toServer) > 0 /\ Len(toServer') = Len(toServer) - 1
      /\ Len(toServer) <= 1 => toServer' = <<>>
      /\ \A ms : Has(toServer', ms) => Has(toServer, ms)
      /\ \A ms : Head(toServer) \in ms => Has(toServer, ms)
      /\ \A ms : Has(toServer, ms) => Head(toServer) \in ms \/ Has(toServer', ms)
      /\ Stream(toServer) => /\ Stream(toServer') /\ Head(toServer) \in {"audio", "e"}
                             /\ Head(toServer) = "e" => toServer' = <<>>
  BY <1>b, <1>v, TailFacts DEF Values
<1>d. /\ Has(toServer', {"s", "bad"}) => Has(toServer, {"s", "bad"})
      /\ Has(toServer', {"e"}) => Has(toServer, {"e"})
      /\ client # "OPENED"
  BY <1>b, <1>c, <1>p DEF PeerInv
<1>e. "fast" \notin faults /\ ~hungUp => ~socket \/ handler # "done"
  <2>. SUFFICES ASSUME "fast" \notin faults, ~hungUp, socket, handler = "done"
                PROVE  FALSE
    OBVIOUS
  <2>1. Head(toServer) \in {"audio", "e"} /\ status # "RECV_E"
    BY <1>b, <1>c, <1>u DEF AudioInv
  <2>2. status \in {"DONE_S", "RECV_E"}
    BY <1>s DEF ServerInv
  <2>. QED
    BY <2>1, <2>2 DEF Ignore
<1>1. Flags'
  BY <1>f DEF Ignore, clientVars, engineVars, managerVars, closeVars, Flags
<1>2. Values'
  BY <1>v, <1>c DEF Ignore, clientVars, engineVars, managerVars, closeVars, Values
<1>3. ServerInv'
  BY <1>s DEF Ignore, clientVars, engineVars, managerVars, closeVars, ServerInv,
     Busy
<1>4. QueueInv'
  BY <1>q DEF Ignore, clientVars, engineVars, managerVars, closeVars, QueueInv
<1>5. PeerInv'
  BY <1>p, <1>c, <1>d DEF Ignore, clientVars, engineVars, managerVars, closeVars,
     PeerInv
<1>6. StartInv'
  BY <1>t, <1>d DEF Ignore, clientVars, engineVars, managerVars, closeVars,
     StartInv, Busy
<1>7. AudioInv'
  BY <1>u, <1>b, <1>c, <1>e DEF Ignore, clientVars, engineVars, managerVars,
     closeVars, AudioInv, Busy, Ends
<1>. QED
  BY <1>1, <1>2, <1>3, <1>4, <1>5, <1>6, <1>7, TypesNext DEF Inv

LEMMA RecvCloseStep ==
  ASSUME Inv, RecvClose, UNCHANGED faults
  PROVE  Inv'
<1>f. Flags
  BY Types DEF Inv
<1>v. Values
  BY Types DEF Inv
<1>s. ServerInv
  BY DEF Inv
<1>q. QueueInv
  BY DEF Inv
<1>p. PeerInv
  BY DEF Inv
<1>t. StartInv
  BY DEF Inv
<1>u. AudioInv
  BY DEF Inv
<1>b. toServer # <<>> /\ toServer' = Tail(toServer) /\ Head(toServer) = "close"
  BY DEF RecvClose
<1>c. /\ toServer' \in Seq(ToServer) /\ Head(toServer) \in ToServer
      /\ Len(toServer) \in Nat /\ Len(toServer) > 0 /\ Len(toServer') = Len(toServer) - 1
      /\ Len(toServer) <= 1 => toServer' = <<>>
      /\ \A ms : Has(toServer', ms) => Has(toServer, ms)
      /\ \A ms : Head(toServer) \in ms => Has(toServer, ms)
      /\ \A ms : Has(toServer, ms) => Head(toServer) \in ms \/ Has(toServer', ms)
      /\ Stream(toServer) => /\ Stream(toServer') /\ Head(toServer) \in {"audio", "e"}
                             /\ Head(toServer) = "e" => toServer' = <<>>
  BY <1>b, <1>v, TailFacts DEF Values
<1>d. /\ Has(toServer', {"s", "bad"}) => Has(toServer, {"s", "bad"})
      /\ Has(toServer', {"e"}) => Has(toServer, {"e"})
      /\ client # "OPENED"
  BY <1>b, <1>c, <1>p DEF PeerInv
<1>e. /\ closes' \in [Caller -> {"idle", "redis", "waiting", "done"}]
      /\ timer' \in BOOLEAN
      /\ timer' => timer /\ closes' = closes
      /\ handler # "done" => timer' = timer
  <2>1. "hangup" \in Caller
    BY DEF Caller, ManagerCall
  <2>2. /\ CloseSession("hangup") \in [Caller -> {"idle", "redis", "waiting", "done"}]
        /\ ~table => CloseSession("hangup") = closes
    BY <1>v, <2>1, ClosesSession
  <2>3. CASE start # "served" /\ UNCHANGED <<timer, closes>>
    BY <1>f, <1>v, <2>3 DEF Flags, Values
  <2>4. CASE start = "served" /\ closes' = CloseSession("hangup") /\ timer' = (timer /\ ~table)
    BY <1>f, <1>s, <2>2, <2>4 DEF Flags, ServerInv
  <2>. QED
    BY <2>3, <2>4 DEF RecvClose
<1>g. "fast" \notin faults => hungUp \/ handler # "done"
  BY <1>b, <1>c, <1>u DEF AudioInv
<1>h. Busy \/ status = "OPENED" => handler # "done"
  BY <1>s DEF ServerInv, Busy
<1>1. Flags'
  BY <1>f, <1>e DEF RecvClose, clientVars, engineVars, managerVars, closeVars, Flags
<1>2. Values'
  BY <1>v, <1>c, <1>e DEF RecvClose, clientVars, engineVars, managerVars,
     closeVars, Values
<1>3. ServerInv'
  BY <1>s DEF RecvClose, clientVars, engineVars, managerVars, closeVars, ServerInv,
     Busy
<1>4. QueueInv'
  BY <1>q DEF RecvClose, clientVars, engineVars, managerVars, closeVars, QueueInv
<1>5. PeerInv'
  BY <1>p, <1>c, <1>d DEF RecvClose, clientVars, engineVars, managerVars,
     closeVars, PeerInv
<1>6. StartInv'
  BY <1>t, <1>d, <1>e, <1>h DEF RecvClose, clientVars, engineVars, managerVars,
     closeVars, StartInv, Busy
<1>7. AudioInv'
  BY <1>u, <1>b, <1>g, <1>h DEF RecvClose, clientVars, engineVars, managerVars,
     closeVars, AudioInv, Busy, Ends
<1>. QED
  BY <1>1, <1>2, <1>3, <1>4, <1>5, <1>6, <1>7, TypesNext DEF Inv

LEMMA CountedSuccessStep ==
  ASSUME Inv, CountedSuccess, UNCHANGED faults
  PROVE  Inv'
<1>f. Flags
  BY Types DEF Inv
<1>v. Values
  BY Types DEF Inv
<1>s. ServerInv
  BY DEF Inv
<1>q. QueueInv
  BY DEF Inv
<1>p. PeerInv
  BY DEF Inv
<1>t. StartInv
  BY DEF Inv
<1>u. AudioInv
  BY DEF Inv
<1>b. "fast" \notin faults =>
        /\ spoken = 0 /\ taken = 0
        /\ ~hungUp => toServer = <<>> /\ Stream(toServer) /\ ~Has(toServer, {"e"})
                      /\ Len(toServer) = 0
  BY <1>u, EmptyFacts DEF CountedSuccess, AudioInv, Busy
<1>1. Flags'
  BY <1>f DEF CountedSuccess, clientVars, engineVars, managerVars, closeVars, Flags
<1>2. Values'
  BY <1>v DEF CountedSuccess, clientVars, engineVars, managerVars, closeVars, Values
<1>3. ServerInv'
  BY <1>s, <1>f DEF CountedSuccess, clientVars, engineVars, managerVars, closeVars,
     ServerInv, Busy, Flags
<1>4. QueueInv'
  BY <1>q DEF CountedSuccess, clientVars, engineVars, managerVars, closeVars,
     QueueInv
<1>5. PeerInv'
  BY <1>p DEF CountedSuccess, clientVars, engineVars, managerVars, closeVars,
     PeerInv
<1>6. StartInv'
  BY <1>t DEF CountedSuccess, clientVars, engineVars, managerVars, closeVars,
     StartInv, Busy
<1>7. AudioInv'
  BY <1>u, <1>b DEF CountedSuccess, clientVars, engineVars, managerVars, closeVars,
     AudioInv, Busy, Ends
<1>. QED
  BY <1>1, <1>2, <1>3, <1>4, <1>5, <1>6, <1>7, TypesNext DEF Inv

LEMMA RecvSStep ==
  ASSUME Inv, RecvS, UNCHANGED faults
  PROVE  Inv'
<1>f. Flags
  BY Types DEF Inv
<1>v. Values
  BY Types DEF Inv
<1>s. ServerInv
  BY DEF Inv
<1>q. QueueInv
  BY DEF Inv
<1>p. PeerInv
  BY DEF Inv
<1>t. StartInv
  BY DEF Inv
<1>u. AudioInv
  BY DEF Inv
<1>b. toServer # <<>> /\ toServer' = Tail(toServer) /\ status = "OPENED" /\ Head(toServer) \in {"s", "bad"}
  BY DEF RecvS
<1>c. /\ toServer' \in Seq(ToServer) /\ Head(toServer) \in ToServer
      /\ Len(toServer) \in Nat /\ Len(toServer) > 0 /\ Len(toServer') = Len(toServer) - 1
      /\ Len(toServer) <= 1 => toServer' = <<>>
      /\ \A ms : Has(toServer', ms) => Has(toServer, ms)
      /\ \A ms : Head(toServer) \in ms => Has(toServer, ms)
      /\ \A ms : Has(toServer, ms) => Head(toServer) \in ms \/ Has(toServer', ms)
      /\ Stream(toServer) => /\ Stream(toServer') /\ Head(toServer) \in {"audio", "e"}
                             /\ Head(toServer) = "e" => toServer' = <<>>
  BY <1>b, <1>v, TailFacts DEF Values
<1>d. /\ Has(toServer', {"s", "bad"}) => Has(toServer, {"s", "bad"})
      /\ Has(toServer', {"e"}) => Has(toServer, {"e"})
      /\ client # "OPENED"
  BY <1>b, <1>c, <1>p DEF PeerInv
<1>e. handler = "idle" /\ engine = "none" /\ ~engineClient /\ socket /\ waiter = "none"
  BY <1>b, <1>s DEF ServerInv
<1>g. Has(toServer, {"s", "bad"})
  BY <1>b, <1>c
<1>h. ~hungUp => client = "SENDING_S" /\ toServer' = <<>>
  BY <1>c, <1>g, <1>p DEF PeerInv
<1>i. \/ handler' = "engine" /\ engineClient' = TRUE /\ engine' = "starting"
      \/ handler' = "error" /\ engineClient' = FALSE /\ engine' = "none"
  BY <1>e DEF RecvS
<1>j. /\ UNCHANGED <<client, hungUp, spoken, toClient, socket, taken, waiter, start,
                     table, timer, closes, thrown>>
      /\ status' = "RECV_S"
  BY DEF RecvS, clientVars, managerVars
<1>k. ~Has(toServer', {"s", "bad"}) \/ hungUp
  BY <1>h, EmptyFacts
<1>l. client = "SENDING_S" => Len(toServer') <= 1
  BY <1>c, <1>p DEF PeerInv
<1>1. Flags'
  BY <1>f, <1>i, <1>j DEF Flags
<1>2. Values'
  BY <1>v, <1>c, <1>i, <1>j DEF Values
<1>3. ServerInv'
  BY <1>s, <1>e, <1>i, <1>j DEF ServerInv, Busy
<1>4. QueueInv'
  BY <1>q, <1>j DEF QueueInv
<1>5. PeerInv'
  BY <1>p, <1>d, <1>e, <1>h, <1>i, <1>j, <1>k, <1>l DEF PeerInv
<1>6. StartInv'
  BY <1>t, <1>b, <1>e, <1>g, <1>i, <1>j DEF StartInv, Busy
<1>7. AudioInv'
  BY <1>u, <1>e, <1>h, <1>i, <1>j DEF AudioInv, Busy
<1>. QED
  BY <1>1, <1>2, <1>3, <1>4, <1>5, <1>6, <1>7, TypesNext DEF Inv

LEMMA AnswerStep ==
  ASSUME Inv, Answer, handler = "engine", engine \in {"starting", "gone"}, UNCHANGED faults
  PROVE  Inv'
<1>f. Flags
  BY Types DEF Inv
<1>v. Values
  BY Types DEF Inv
<1>s. ServerInv
  BY DEF Inv
<1>q. QueueInv
  BY DEF Inv
<1>p. PeerInv
  BY DEF Inv
<1>t. StartInv
  BY DEF Inv
<1>u. AudioInv
  BY DEF Inv
<1>b. /\ UNCHANGED <<client, hungUp, spoken, toServer, status, socket, engineClient,
                     taken, waiter, start, table, timer, closes, thrown>>
      /\ engine' = "idle" /\ waiter = "none" /\ Busy
      /\ socket => engineClient
  BY <1>s DEF Answer, ServerInv, Busy, clientVars, managerVars
<1>c. ~Has(toClient, Answers) /\ (socket => toClient = <<>>)
  BY <1>p DEF PeerInv
<1>d. ~Has(toClient, {"e"})
  BY <1>c, AnswersHave
<1>e. /\ "s" \in ToClient /\ <<"s">> \in Seq(ToClient) /\ <<"s">> # <<>>
      /\ Head(<<"s">>) = "s" /\ Parted(<<"s">>) /\ FirstOnly(<<"s">>)
      /\ ~Has(<<"s">>, {"p", "p error"}) /\ ~Has(<<"s">>, {"e"}) /\ ~Has(<<"s">>, Final)
  BY OneFacts DEF ToClient, Final
<1>8. CASE socket /\ handler' = "success" /\ Say(<<"s">>)
  <2>1. ~hungUp => client = "SENDING_S" /\ toClient = <<>>
    BY <1>8, <1>c, <1>p, <1>b DEF PeerInv
  <2>2. ~hungUp => May(<<"s">>)
    BY <2>1, <1>e, EmptyFacts DEF May
  <2>3. /\ QueueInv' /\ toClient' \in Seq(ToClient)
        /\ hungUp => toClient' = toClient
        /\ ~hungUp => toClient' = <<"s">>
    <3>1. toClient \in Seq(ToClient) /\ hungUp \in BOOLEAN
      BY <1>f, <1>v DEF Flags, Values
    <3>. QED
      BY <3>1, <1>q, <1>b, <1>8, <1>e, <2>1, <2>2, Said
  <2>4. ~Has(toClient', {"e"}) /\ ~Has(toClient', Final)
    BY <1>8, <1>c, <1>d, <1>e, <2>3, EmptyFacts
  <2>5. Flags'
    BY <1>f, <1>b DEF Flags
  <2>6. Values'
    BY <1>v, <1>b, <1>8, <2>3 DEF Values
  <2>7. ServerInv'
    BY <1>s, <1>b, <1>8 DEF ServerInv, Busy
  <2>8. PeerInv'
    BY <1>p, <1>b, <1>8, <1>e, <2>1, <2>3, <2>4 DEF PeerInv
  <2>9. StartInv'
    BY <1>t, <1>b, <1>8 DEF StartInv, Busy
  <2>10. AudioInv'
    BY <1>u, <1>b, <1>8, <2>4 DEF AudioInv, Busy
  <2>. QED
    BY <2>3, <2>5, <2>6, <2>7, <2>8, <2>9, <2>10, TypesNext DEF Inv
<1>9. CASE ~socket /\ handler' = "error" /\ UNCHANGED toClient
  <2>1. Flags'
    BY <1>f, <1>b DEF Flags
  <2>2. Values'
    BY <1>v, <1>b, <1>9 DEF Values
  <2>3. ServerInv'
    BY <1>s, <1>b, <1>9 DEF ServerInv, Busy
  <2>4. QueueInv'
    BY <1>q, <1>b, <1>9 DEF QueueInv
  <2>5. PeerInv'
    BY <1>p, <1>b, <1>c, <1>9 DEF PeerInv
  <2>6. StartInv'
    BY <1>t, <1>b, <1>9 DEF StartInv, Busy
  <2>7. AudioInv'
    BY <1>u, <1>b, <1>9 DEF AudioInv, Busy
  <2>. QED
    BY <2>1, <2>2, <2>3, <2>4, <2>5, <2>6, <2>7, TypesNext DEF Inv
<1>. QED
  BY <1>8, <1>9 DEF Answer

LEMMA RefuseStep ==
  ASSUME Inv, Refuse, handler = "engine", engine \in {"starting", "gone"}, UNCHANGED faults
  PROVE  Inv'
<1>f. Flags
  BY Types DEF Inv
<1>v. Values
  BY Types DEF Inv
<1>s. ServerInv
  BY DEF Inv
<1>q. QueueInv
  BY DEF Inv
<1>p. PeerInv
  BY DEF Inv
<1>t. StartInv
  BY DEF Inv
<1>u. AudioInv
  BY DEF Inv
<1>1. Flags'
  BY <1>f DEF Refuse, clientVars, engineVars, managerVars, closeVars, Flags
<1>2. Values'
  BY <1>v DEF Refuse, clientVars, engineVars, managerVars, closeVars, Values
<1>3. ServerInv'
  BY <1>s, <1>f DEF Refuse, clientVars, engineVars, managerVars, closeVars,
     ServerInv, Busy, Flags
<1>4. QueueInv'
  BY <1>q DEF Refuse, clientVars, engineVars, managerVars, closeVars, QueueInv
<1>5. PeerInv'
  BY <1>p DEF Refuse, clientVars, engineVars, managerVars, closeVars, PeerInv
<1>6. StartInv'
  BY <1>t DEF Refuse, clientVars, engineVars, managerVars, closeVars, StartInv, Busy
<1>7. AudioInv'
  BY <1>u DEF Refuse, clientVars, engineVars, managerVars, closeVars, AudioInv,
     Busy, Ends
<1>. QED
  BY <1>1, <1>2, <1>3, <1>4, <1>5, <1>6, <1>7, TypesNext DEF Inv

LEMMA AnalyzedStep ==
  ASSUME Inv, Analyzed, UNCHANGED faults
  PROVE  Inv'
<1>f. Flags
  BY Types DEF Inv
<1>v. Values
  BY Types DEF Inv
<1>s. ServerInv
  BY DEF Inv
<1>q. QueueInv
  BY DEF Inv
<1>p. PeerInv
  BY DEF Inv
<1>t. StartInv
  BY DEF Inv
<1>u. AudioInv
  BY DEF Inv
<1>b. /\ UNCHANGED <<client, hungUp, spoken, toServer, status, socket, handler,
                     engineClient, engine, taken, waiter, start, table, timer, closes>>
      /\ engine = "used" /\ handler = "done" /\ thrown' = (thrown \/ ~socket)
      /\ "slow" \notin faults => socket
  BY <1>s, <1>t DEF Analyzed, ServerInv, StartInv, clientVars, engineVars,
     managerVars
<1>c. /\ "p" \in ToClient /\ <<"p">> \in Seq(ToClient)
      /\ Parted(<<"p">>) /\ FirstOnly(<<"p">>)
      /\ ~Has(<<"p">>, {"s", "s error"}) /\ ~Has(<<"p">>, {"e"}) /\ ~Has(<<"p">>, Final)
  BY OneFacts DEF ToClient, Final
<1>d. /\ QueueInv' /\ toClient' \in Seq(ToClient)
      /\ hungUp => toClient' = toClient
      /\ ~hungUp => /\ ~Has(toClient, {"e"}) => ~Has(toClient', {"e"})
                    /\ ~Has(toClient, Final) => ~Has(toClient', Final)
      /\ toClient # <<>> => toClient' # <<>> /\ Head(toClient') = Head(toClient)
      /\ ~socket => toClient' = toClient
  <2>1. toClient \in Seq(ToClient) /\ hungUp \in BOOLEAN
    BY <1>f, <1>v DEF Flags, Values
  <2>2. CASE socket
    <3>1. Say(<<"p">>)
      BY <2>2 DEF Analyzed
    <3>2. ~hungUp => May(<<"p">>)
      BY <2>2, <1>b, <1>c, <1>p DEF PeerInv, May
    <3>. QED
      BY <1>q, <1>b, <1>c, <2>1, <2>2, <3>1, <3>2, Said
  <2>3. CASE ~socket
    <3>1. Say(<<>>)
      BY <2>3 DEF Analyzed
    <3>2. ~hungUp => May(<<>>)
      BY EmptyFacts DEF May
    <3>. QED
      BY <1>q, <1>b, <2>1, <2>3, <3>1, <3>2, Said, EmptyFacts
  <2>. QED
    BY <2>2, <2>3
<1>1. Flags'
  BY <1>f, <1>b DEF Flags
<1>2. Values'
  BY <1>v, <1>b, <1>d DEF Values
<1>3. ServerInv'
  BY <1>s, <1>b DEF ServerInv, Busy
<1>4. QueueInv'
  BY <1>d
<1>5. PeerInv'
  BY <1>p, <1>b, <1>d DEF PeerInv
<1>6. StartInv'
  BY <1>t, <1>b DEF StartInv, Busy
<1>7. AudioInv'
  BY <1>u, <1>b, <1>d DEF AudioInv, Busy
<1>. QED
  BY <1>1, <1>2, <1>3, <1>4, <1>5, <1>6, <1>7, TypesNext DEF Inv

LEMMA SessionCloseStep ==
  ASSUME Inv, NEW c \in ManagerCall, SessionClose(c), UNCHANGED faults
  PROVE  Inv'
<1>f. Flags
  BY Types DEF Inv
<1>v. Values
  BY Types DEF Inv
<1>s. ServerInv
  BY DEF Inv
<1>q. QueueInv
  BY DEF Inv
<1>p. PeerInv
  BY DEF Inv
<1>t. StartInv
  BY DEF Inv
<1>u. AudioInv
  BY DEF Inv
<1>b. /\ UNCHANGED <<client, hungUp, spoken, toServer, handler, taken, start, timer, thrown>>
      /\ table' = FALSE /\ closes[c] = "redis" /\ c \in Caller
      /\ "slow" \notin faults =>
           /\ ~timer /\ ~Busy /\ ~(status = "OPENED" /\ Has(toServer, {"s", "bad"}))
  <2>1. "slow" \notin faults => ~timer
    BY <1>t DEF SessionClose, StartInv
  <2>. QED
    BY <1>t, <2>1, ManagerCalls DEF SessionClose, StartInv, clientVars
<1>8. CASE CloseServer(c, closes, status, <<>>)
  <2>1. (status = "DONE_S" => handler = "done") /\ (status = "RECV_E" => client \in Finishing)
    BY <1>s, <1>p DEF ServerInv, PeerInv
  <2>2. CASE /\ Parts(status)
             /\ ~(engineClient /\ engine = "used") /\ waiter' = waiter
             /\ engine' = IF engine \in {"starting", "idle"} THEN "gone" ELSE engine
             /\ engineClient' = FALSE /\ socket' = FALSE
             /\ closes' = [closes EXCEPT ![c] = "done"]
             /\ status' = IF socket THEN "CLOSED" ELSE status
    <3>1. QueueInv' /\ toClient' \in Seq(ToClient)
      BY <2>2 DEF Parts
    <3>2. closes' \in [Caller -> {"idle", "redis", "waiting", "done"}]
      BY <1>v, <1>b, <2>2 DEF Values
    <3>3. engine' \in {"none", "starting", "idle", "used", "gone"}
      BY <1>v, <2>2 DEF Values
    <3>4. status' \in {"OPENED", "RECV_S", "DONE_S", "RECV_E", "CLOSED"}
      BY <1>v, <2>2 DEF Values
    <3>5. waiter # "none" => engine' = "used"
      BY <1>s, <2>2 DEF ServerInv
    <3>6. engine' = "used" => handler = "done" /\ ~engineClient
      BY <1>s, <2>2 DEF ServerInv
    <3>7. "slow" \notin faults => engine' \in {"none", "gone"}
      <4>. SUFFICES ASSUME "slow" \notin faults, engine' \notin {"none", "gone"}
                    PROVE  FALSE
        OBVIOUS
      <4>1. engine' = "used" /\ engine = "used"
        BY <1>v, <2>2 DEF Values
      <4>2. socket => engineClient
        BY <1>s, <3>6, <4>1 DEF ServerInv
      <4>. QED
        BY <1>t, <2>2, <3>6, <4>1, <4>2 DEF StartInv
    <3>8. handler \in {"idle", "engine", "error"} => ~Has(toClient', Answers)
      BY <1>p, <1>s, <2>2 DEF Parts, PeerInv, ServerInv
    <3>9. /\ status' = "CLOSED" \/ (~socket /\ status' = status)
          /\ status' # "OPENED"
      BY <1>s, <2>2 DEF ServerInv
    <3>10. Flags'
      BY <1>f, <1>b, <2>2 DEF Flags
    <3>11. Values'
      BY <1>v, <1>b, <2>2, <3>1, <3>2, <3>3, <3>4 DEF Values
    <3>12. ServerInv'
      BY <1>s, <1>b, <2>2, <3>5, <3>6, <3>9 DEF ServerInv, Busy
    <3>13. PeerInv'
      BY <1>p, <1>b, <2>2, <3>8, <3>9 DEF PeerInv
    <3>14. StartInv'
      BY <1>t, <1>b, <2>2, <3>7, <3>9 DEF StartInv, Busy
    <3>15. AudioInv'
      <4>. SUFFICES ASSUME "fast" \notin faults
                    PROVE  AudioInv'
        BY <1>b DEF AudioInv
      <4>1. Has(toClient', {"e"}) => taken = spoken
        <5>. SUFFICES ASSUME Has(toClient', {"e"}), ~Has(toClient, {"e"})
                      PROVE  taken = spoken
          BY <1>u DEF AudioInv
        <5>1. socket /\ ~hungUp /\ status = "RECV_E"
          BY <2>2 DEF Parts
        <5>2. toServer = <<>> /\ taken + Len(toServer) = spoken + Ends(toServer)
          BY <1>u, <1>s, <5>1 DEF AudioInv, ServerInv
        <5>3. Len(toServer) = 0 /\ Ends(toServer) = 0
          BY <5>2, EmptyFacts DEF Ends
        <5>. QED
          BY <1>v, <5>2, <5>3, WebsocketAssumption DEF Values
      <4>2. Busy' = Busy
        BY <1>b DEF Busy
      <4>. QED
        BY <1>u, <1>b, <2>2, <3>9, <4>1, <4>2 DEF AudioInv
    <3>. QED
      BY <3>1, <3>10, <3>11, <3>12, <3>13, <3>14, <3>15, TypesNext DEF Inv
  <2>3. CASE /\ QueueInv' /\ toClient' = toClient
             /\ engineClient /\ engine = "used"
             /\ engineClient' = engineClient /\ engine' = engine /\ socket' = socket
             /\ waiter' = IF waiter = "none" THEN c ELSE waiter
             /\ closes' = [closes EXCEPT ![c] = "waiting"]
             /\ status' = status
    <3>1. closes' \in [Caller -> {"idle", "redis", "waiting", "done"}]
      BY <1>v, <1>b, <2>3 DEF Values
    <3>2. waiter' \in {"none", "itself"} \cup Caller
      BY <1>v, <1>b, <2>3 DEF Values
    <3>3. Flags'
      BY <1>f, <1>b, <2>3 DEF Flags
    <3>4. Values'
      BY <1>v, <1>b, <2>3, <3>1, <3>2 DEF Values
    <3>5. ServerInv'
      BY <1>s, <1>b, <2>3 DEF ServerInv, Busy
    <3>6. PeerInv'
      BY <1>p, <1>b, <2>3 DEF PeerInv
    <3>7. StartInv'
      BY <1>t, <1>b, <2>3 DEF StartInv, Busy
    <3>8. AudioInv'
      BY <1>u, <1>b, <2>3 DEF AudioInv, Busy
    <3>. QED
      BY <2>3, <3>3, <3>4, <3>5, <3>6, <3>7, <3>8, TypesNext DEF Inv
  <2>. QED
    BY <1>8, <1>f, <1>v, <1>q, <1>p, <1>s, <1>b, <2>1, <2>2, <2>3, CloseServerFacts
<1>9. CASE /\ closes' = [closes EXCEPT ![c] = "done"]
           /\ UNCHANGED <<toClient, status, socket, engineClient, engine, waiter>>
  <2>1. closes' \in [Caller -> {"idle", "redis", "waiting", "done"}]
    BY <1>v, <1>b, <1>9 DEF Values
  <2>2. Flags'
    BY <1>f, <1>b, <1>9 DEF Flags
  <2>3. Values'
    BY <1>v, <1>b, <1>9, <2>1 DEF Values
  <2>4. ServerInv'
    BY <1>s, <1>b, <1>9 DEF ServerInv, Busy
  <2>5. QueueInv'
    BY <1>q, <1>b, <1>9 DEF QueueInv
  <2>6. PeerInv'
    BY <1>p, <1>b, <1>9 DEF PeerInv
  <2>7. StartInv'
    BY <1>t, <1>b, <1>9 DEF StartInv, Busy
  <2>8. AudioInv'
    BY <1>u, <1>b, <1>9 DEF AudioInv, Busy
  <2>. QED
    BY <2>2, <2>3, <2>4, <2>5, <2>6, <2>7, <2>8, TypesNext DEF Inv
<1>. QED
  BY <1>8, <1>9 DEF SessionClose, engineVars

LEMMA EngineClosedStep ==
  ASSUME Inv, EngineClosed, UNCHANGED faults
  PROVE  Inv'
<1>f. Flags
  BY Types DEF Inv
<1>v. Values
  BY Types DEF Inv
<1>s. ServerInv
  BY DEF Inv
<1>q. QueueInv
  BY DEF Inv
<1>p. PeerInv
  BY DEF Inv
<1>t. StartInv
  BY DEF Inv
<1>u. AudioInv
  BY DEF Inv
<1>b. /\ UNCHANGED <<client, hungUp, spoken, toServer, handler, taken, start, table,
                     timer, thrown>>
      /\ waiter # "none" /\ engine' = "gone" /\ waiter' = "none" /\ handler = "done"
  BY <1>s DEF EngineClosed, ServerInv, clientVars, managerVars
<1>8. CASE waiter # "itself" /\ Finish(waiter, closes, status, <<>>)
  <2>1. (status = "DONE_S" => handler = "done") /\ (status = "RECV_E" => client \in Finishing)
    BY <1>s, <1>p DEF ServerInv, PeerInv
  <2>2. /\ Parts(status)
        /\ engineClient' = FALSE /\ socket' = FALSE
        /\ closes' = [closes EXCEPT ![waiter] = "done"]
        /\ status' = IF socket THEN "CLOSED" ELSE status
    BY <1>8, <1>f, <1>v, <1>q, <1>p, <1>s, <1>b, <2>1, FinishFacts
  <2>3. QueueInv' /\ toClient' \in Seq(ToClient)
    BY <2>2 DEF Parts
  <2>4. /\ closes' \in [Caller -> {"idle", "redis", "waiting", "done"}]
        /\ \A d \in Caller : d # waiter => closes'[d] = closes[d]
    BY <1>v, <2>2 DEF Values
  <2>5. status' \in {"OPENED", "RECV_S", "DONE_S", "RECV_E", "CLOSED"}
    BY <1>v, <2>2 DEF Values
  <2>6. /\ status' = "CLOSED" \/ (~socket /\ status' = status)
        /\ status' # "OPENED"
    BY <1>s, <2>2 DEF ServerInv
  <2>7. Flags'
    BY <1>f, <1>b, <2>2 DEF Flags
  <2>8. Values'
    BY <1>v, <1>b, <2>3, <2>4, <2>5 DEF Values
  <2>9. ServerInv'
    BY <1>s, <1>b, <2>2, <2>6 DEF ServerInv, Busy
  <2>10. PeerInv'
    BY <1>p, <1>b, <2>2, <2>6 DEF PeerInv
  <2>11. StartInv'
    <3>. SUFFICES ASSUME "slow" \notin faults
                  PROVE  StartInv'
      BY <1>b DEF StartInv
    <3>1. ~Busy'
      BY <1>b DEF Busy
    <3>2. timer => \A d \in ManagerCall : closes'[d] = "idle"
      BY <1>t, <2>4, ManagerCalls DEF StartInv
    <3>3. "none" \notin ManagerCall
      BY DEF ManagerCall
    <3>. QED
      BY <1>t, <1>b, <2>2, <2>6, <3>1, <3>2, <3>3 DEF StartInv
  <2>12. AudioInv'
    <3>. SUFFICES ASSUME "fast" \notin faults
                  PROVE  AudioInv'
      BY <1>b DEF AudioInv
    <3>1. Has(toClient', {"e"}) => taken = spoken
      <4>. SUFFICES ASSUME Has(toClient', {"e"}), ~Has(toClient, {"e"})
                    PROVE  taken = spoken
        BY <1>u DEF AudioInv
      <4>1. socket /\ ~hungUp /\ status = "RECV_E"
        BY <2>2 DEF Parts
      <4>2. toServer = <<>> /\ taken + Len(toServer) = spoken + Ends(toServer)
        BY <1>u, <1>b, <4>1 DEF AudioInv
      <4>3. Len(toServer) = 0 /\ Ends(toServer) = 0
        BY <4>2, EmptyFacts DEF Ends
      <4>. QED
        BY <1>v, <4>2, <4>3, WebsocketAssumption DEF Values
    <3>2. Busy' = Busy
      BY <1>b DEF Busy
    <3>. QED
      BY <1>u, <1>b, <2>2, <2>6, <3>1, <3>2 DEF AudioInv
  <2>. QED
    BY <2>3, <2>7, <2>8, <2>9, <2>10, <2>11, <2>12, TypesNext DEF Inv
<1>9. CASE UNCHANGED <<toClient, status, socket, engineClient, closes>>
  <2>1. Flags'
    BY <1>f, <1>b, <1>9 DEF Flags
  <2>2. Values'
    BY <1>v, <1>b, <1>9 DEF Values
  <2>3. ServerInv'
    BY <1>s, <1>b, <1>9 DEF ServerInv, Busy
  <2>4. QueueInv'
    BY <1>q, <1>b, <1>9 DEF QueueInv
  <2>5. PeerInv'
    BY <1>p, <1>b, <1>9 DEF PeerInv
  <2>6. StartInv'
    BY <1>t, <1>b, <1>9 DEF StartInv, Busy, ManagerCall
  <2>7. AudioInv'
    BY <1>u, <1>b, <1>9 DEF AudioInv, Busy
  <2>. QED
    BY <2>1, <2>2, <2>3, <2>4, <2>5, <2>6, <2>7, TypesNext DEF Inv
<1>. QED
  BY <1>8, <1>9 DEF EngineClosed

LEMMA RecvDataStep ==
  ASSUME Inv, RecvData, UNCHANGED faults
  PROVE  Inv'
<1>f. Flags
  BY Types DEF Inv
<1>v. Values
  BY Types DEF Inv
<1>s. ServerInv
  BY DEF Inv
<1>q. QueueInv
  BY DEF Inv
<1>p. PeerInv
  BY DEF Inv
<1>t. StartInv
  BY DEF Inv
<1>u. AudioInv
  BY DEF Inv
<1>b. toServer # <<>> /\ toServer' = Tail(toServer) /\ status = "DONE_S"
  BY DEF RecvData
<1>c. /\ toServer' \in Seq(ToServer) /\ Head(toServer) \in ToServer
      /\ Len(toServer) \in Nat /\ Len(toServer) > 0 /\ Len(toServer') = Len(toServer) - 1
      /\ Len(toServer) <= 1 => toServer' = <<>>
      /\ \A ms : Has(toServer', ms) => Has(toServer, ms)
      /\ \A ms : Head(toServer) \in ms => Has(toServer, ms)
      /\ \A ms : Has(toServer, ms) => Head(toServer) \in ms \/ Has(toServer', ms)
      /\ Stream(toServer) => /\ Stream(toServer') /\ Head(toServer) \in {"audio", "e"}
                             /\ Head(toServer) = "e" => toServer' = <<>>
  BY <1>b, <1>v, TailFacts DEF Values
<1>d. /\ Has(toServer', {"s", "bad"}) => Has(toServer, {"s", "bad"})
      /\ Has(toServer', {"e"}) => Has(toServer, {"e"})
      /\ client # "OPENED"
  BY <1>b, <1>c, <1>p DEF PeerInv
<1>e. /\ UNCHANGED <<client, hungUp, spoken, handler, start, table, timer, thrown>>
      /\ handler = "done" /\ taken \in Nat /\ spoken \in Nat
  BY <1>b, <1>s, <1>v, WebsocketAssumption
     DEF RecvData, ServerInv, Values, clientVars, managerVars
<1>g. socket <=> engineClient
  BY <1>s, <1>f, <1>e DEF ServerInv, Flags
<1>8. CASE /\ Head(toServer) = "audio"
           /\ engine' = IF HasEngine /\ engine = "idle" THEN "used" ELSE engine
           /\ UNCHANGED <<toClient, status, socket, engineClient, waiter, closes>>
  <2>1. taken' = IF engineClient THEN taken + 1 ELSE taken
    BY <1>8 DEF RecvData, HasEngine, Audio
  <2>2. engine' \in {"none", "starting", "idle", "used", "gone"} /\ taken' \in Nat
    BY <1>v, <1>e, <1>8, <2>1 DEF Values
  <2>3. /\ waiter # "none" => engine' = "used"
        /\ ~engineClient => engine' = engine
    BY <1>s, <1>8 DEF ServerInv, HasEngine
  <2>4. Flags'
    BY <1>f, <1>e, <1>8 DEF Flags
  <2>5. Values'
    BY <1>v, <1>c, <1>e, <1>8, <2>2 DEF Values
  <2>6. ServerInv'
    BY <1>s, <1>e, <1>8, <2>3 DEF ServerInv, Busy
  <2>7. QueueInv'
    BY <1>q, <1>e, <1>8 DEF QueueInv
  <2>8. PeerInv'
    BY <1>p, <1>c, <1>d, <1>e, <1>8 DEF PeerInv
  <2>9. StartInv'
    BY <1>t, <1>b, <1>e, <1>g, <1>8, <2>3 DEF StartInv, Busy
  <2>10. AudioInv'
    <3>. SUFFICES ASSUME "fast" \notin faults
                  PROVE  AudioInv'
      BY DEF AudioInv
    <3>1. Has(toServer', {"e"}) <=> Has(toServer, {"e"})
      BY <1>c, <1>8
    <3>2. Ends(toServer') = Ends(toServer) /\ Ends(toServer) \in Nat
      BY <3>1 DEF Ends
    <3>3. ~hungUp /\ socket => taken' + Len(toServer') = spoken + Ends(toServer')
      <4>. SUFFICES ASSUME ~hungUp, socket
                    PROVE  taken' + Len(toServer') = spoken + Ends(toServer')
        OBVIOUS
      <4>1. taken + Len(toServer) = spoken + Ends(toServer)
        BY <1>u, <1>e DEF AudioInv
      <4>2. taken' = taken + 1
        BY <1>g, <2>1
      <4>. QED
        BY <1>c, <1>e, <3>2, <4>1, <4>2
    <3>4. ~Busy'
      BY <1>e DEF Busy
    <3>5. ~hungUp => Stream(toServer')
      BY <1>u, <1>c, <1>e DEF AudioInv
    <3>6. Has(toClient, {"e"}) \/ client = "DONE_E" => taken' = spoken /\ ~socket
      BY <1>u, <1>g, <2>1 DEF AudioInv
    <3>. QED
      BY <1>b, <1>e, <1>8, <3>3, <3>4, <3>5, <3>6 DEF AudioInv
  <2>. QED
    BY <2>4, <2>5, <2>6, <2>7, <2>8, <2>9, <2>10, TypesNext DEF Inv
<1>9. CASE Head(toServer) = "e" /\ CloseServer("e", closes, "RECV_E", <<>>)
  <2>1. taken' = taken
    <3>1. taken' = IF engineClient THEN taken + 0 ELSE taken
      BY <1>9 DEF RecvData, HasEngine, Audio
    <3>. QED
      BY <1>e, <3>1
  <2>2. Has(toServer, {"e"}) /\ client \in Finishing /\ "e" \in Caller
    BY <1>c, <1>9, <1>p DEF PeerInv, Caller
  <2>3. "fast" \notin faults /\ ~hungUp => toServer' = <<>> /\ Stream(toServer')
    BY <1>c, <1>e, <1>u, <1>9 DEF AudioInv
  <2>4. "fast" \notin faults /\ ~hungUp /\ socket => taken = spoken
    <3>. SUFFICES ASSUME "fast" \notin faults, ~hungUp, socket
                  PROVE  taken = spoken
      OBVIOUS
    <3>1. taken + Len(toServer) = spoken + 1
      BY <1>u, <1>e, <2>2 DEF AudioInv, Ends
    <3>2. Len(toServer) = 1
      BY <1>c, <2>3, EmptyFacts
    <3>. QED
      BY <1>e, <3>1, <3>2
  <2>5. ~Busy'
    BY <1>e DEF Busy
  <2>6. CASE /\ Parts("RECV_E")
             /\ ~(engineClient /\ engine = "used") /\ waiter' = waiter
             /\ engine' = IF engine \in {"starting", "idle"} THEN "gone" ELSE engine
             /\ engineClient' = FALSE /\ socket' = FALSE
             /\ closes' = [closes EXCEPT !["e"] = "done"]
             /\ status' = IF socket THEN "CLOSED" ELSE "RECV_E"
    <3>1. QueueInv' /\ toClient' \in Seq(ToClient)
      BY <2>6 DEF Parts
    <3>2. /\ closes' \in [Caller -> {"idle", "redis", "waiting", "done"}]
          /\ \A d \in ManagerCall : closes'[d] = closes[d]
      BY <1>v, <2>2, <2>6 DEF Values, ManagerCall, Caller
    <3>3. engine' \in {"none", "starting", "idle", "used", "gone"}
      BY <1>v, <2>6 DEF Values
    <3>4. status' \in {"CLOSED", "RECV_E"}
      BY <2>6
    <3>5. waiter # "none" => engine' = "used"
      BY <1>s, <2>6 DEF ServerInv
    <3>6. "slow" \notin faults => engine' \in {"none", "gone"}
      <4>. SUFFICES ASSUME "slow" \notin faults, engine' \notin {"none", "gone"}
                    PROVE  FALSE
        OBVIOUS
      <4>1. engine' = "used" /\ engine = "used"
        BY <1>v, <2>6 DEF Values
      <4>. QED
        BY <1>t, <1>g, <2>6, <4>1 DEF StartInv
    <3>7. Flags'
      BY <1>f, <1>e, <2>6 DEF Flags
    <3>8. Values'
      BY <1>v, <1>c, <1>e, <2>1, <2>6, <3>1, <3>2, <3>3, <3>4 DEF Values
    <3>9. ServerInv'
      BY <1>s, <1>e, <2>5, <2>6, <3>4, <3>5 DEF ServerInv
    <3>10. PeerInv'
      BY <1>p, <1>c, <1>d, <1>e, <2>2, <2>6 DEF PeerInv
    <3>11. StartInv'
      BY <1>t, <1>e, <2>5, <2>6, <3>2, <3>4, <3>6 DEF StartInv
    <3>12. AudioInv'
      <4>1. "fast" \notin faults /\ Has(toClient', {"e"}) => taken = spoken
        BY <1>u, <2>4, <2>6 DEF Parts, AudioInv
      <4>. QED
        BY <1>u, <1>e, <2>1, <2>3, <2>5, <2>6, <4>1 DEF AudioInv
    <3>. QED
      BY <3>1, <3>7, <3>8, <3>9, <3>10, <3>11, <3>12, TypesNext DEF Inv
  <2>7. CASE /\ QueueInv' /\ toClient' = toClient
             /\ engineClient /\ engine = "used"
             /\ engineClient' = engineClient /\ engine' = engine /\ socket' = socket
             /\ waiter' = IF waiter = "none" THEN "e" ELSE waiter
             /\ closes' = [closes EXCEPT !["e"] = "waiting"]
             /\ status' = "RECV_E"
    <3>1. /\ closes' \in [Caller -> {"idle", "redis", "waiting", "done"}]
          /\ \A d \in ManagerCall : closes'[d] = closes[d]
      BY <1>v, <2>2, <2>7 DEF Values, ManagerCall, Caller
    <3>2. /\ waiter' \in {"none", "itself"} \cup Caller
          /\ waiter' \in ManagerCall => waiter \in ManagerCall
      BY <1>v, <2>2, <2>7 DEF Values, ManagerCall
    <3>3. Flags'
      BY <1>f, <1>e, <2>7 DEF Flags
    <3>4. Values'
      BY <1>v, <1>c, <1>e, <2>1, <2>7, <3>1, <3>2 DEF Values
    <3>5. ServerInv'
      BY <1>s, <1>e, <2>5, <2>7 DEF ServerInv
    <3>6. PeerInv'
      BY <1>p, <1>c, <1>d, <1>e, <2>2, <2>7 DEF PeerInv
    <3>7. StartInv'
      BY <1>t, <1>e, <2>5, <2>7, <3>1, <3>2 DEF StartInv
    <3>8. AudioInv'
      <4>. SUFFICES ASSUME "fast" \notin faults
                    PROVE  AudioInv'
        BY DEF AudioInv
      <4>1. ~hungUp /\ socket => taken' + Len(toServer') = spoken' + Ends(toServer')
        <5>. SUFFICES ASSUME ~hungUp, socket
                      PROVE  taken' + Len(toServer') = spoken' + Ends(toServer')
          OBVIOUS
        <5>1. Len(toServer') = 0 /\ Ends(toServer') = 0
          BY <2>3, EmptyFacts DEF Ends
        <5>. QED
          BY <1>e, <2>1, <2>4, <5>1
      <4>. QED
        BY <1>u, <1>e, <2>1, <2>3, <2>5, <2>7, <4>1 DEF AudioInv
    <3>. QED
      BY <2>7, <3>3, <3>4, <3>5, <3>6, <3>7, <3>8, TypesNext DEF Inv
  <2>. QED
    BY <1>9, <1>f, <1>v, <1>q, <1>p, <1>s, <1>e, <2>2, <2>6, <2>7, CloseServerFacts
<1>. QED
  BY <1>8, <1>9 DEF RecvData

LEMMA CountedErrorStep ==
  ASSUME Inv, CountedError, UNCHANGED faults
  PROVE  Inv'
<1>f. Flags
  BY Types DEF Inv
<1>v. Values
  BY Types DEF Inv
<1>s. ServerInv
  BY DEF Inv
<1>q. QueueInv
  BY DEF Inv
<1>p. PeerInv
  BY DEF Inv
<1>t. StartInv
  BY DEF Inv
<1>u. AudioInv
  BY DEF Inv
<1>b. /\ UNCHANGED <<client, hungUp, spoken, toServer, taken, table>>
      /\ handler = "error" /\ handler' = "done" /\ ~Busy' /\ Busy
      /\ status \notin {"OPENED", "DONE_S", "RECV_E"} /\ engine # "used" /\ waiter = "none"
  BY <1>s DEF CountedError, ServerInv, Busy, clientVars
<1>c. "fast" \notin faults /\ ~hungUp => toServer = <<>> /\ Stream(toServer)
  BY <1>b, <1>u, EmptyFacts DEF AudioInv
<1>d. ~Has(toClient, {"e"})
  BY <1>b, <1>p, AnswersHave DEF PeerInv
<1>8. CASE socket
  <2>. DEFINE rejected == start = "open"
              calls == IF rejected THEN CloseSession("failed") ELSE closes
              ms == Append(<<"s error">>, "close")
  <2>1. /\ start' = IF rejected THEN "failed" ELSE start
        /\ timer' = (timer /\ ~(rejected /\ table))
        /\ CloseServer("s", calls, status, <<"s error">>)
        /\ thrown' = thrown
    BY <1>8 DEF CountedError
  <2>2. status = "RECV_S"
    BY <1>b, <1>s, <1>8 DEF ServerInv
  <2>3. /\ calls \in [Caller -> {"idle", "redis", "waiting", "done"}]
        /\ ~(rejected /\ table) => calls = closes
    <3>1. "failed" \in Caller
      BY DEF Caller, ManagerCall
    <3>. QED
      BY <1>v, <3>1, ClosesSession DEF Values
  <2>. HIDE DEF calls
  <2>4. /\ engine' = IF engine \in {"starting", "idle"} THEN "gone" ELSE engine
        /\ waiter' = waiter
        /\ Finish("s", calls, status, <<"s error">>)
    BY <1>b, <2>1 DEF CloseServer
  <2>5. /\ engineClient' = FALSE /\ socket' = FALSE /\ status' = "CLOSED"
        /\ closes' = [calls EXCEPT !["s"] = "done"]
        /\ Say(<<"s error">> \o Ending(status))
    BY <1>8, <2>4 DEF Finish
  <2>6. Say(ms)
    <3>1. /\ "s error" \in ToClient /\ "close" \in ToClient
          /\ <<"s error">> \in Seq(ToClient)
      BY DEF ToClient
    <3>2. <<"s error">> \o <<"close">> = ms
      BY <3>1, AppendIsConcat
    <3>. QED
      BY <2>2, <2>5, <3>2, EndingFacts
  <2>7. /\ ms \in Seq(ToClient) /\ Parted(ms) /\ FirstOnly(ms)
        /\ ~Has(ms, {"p", "p error"}) /\ ~Has(ms, {"e"})
    <3>1. /\ "s error" \in ToClient
          /\ "s error" \notin {"p", "p error"} /\ "close" \notin {"p", "p error"}
          /\ "s error" \notin {"e"} /\ "close" \notin {"e"}
      BY DEF ToClient
    <3>. QED
      BY <3>1, TwoFacts
  <2>. HIDE DEF ms
  <2>8. toClient = <<>> /\ (~hungUp => client = "SENDING_S")
    BY <1>b, <1>p, <1>8 DEF PeerInv
  <2>9. ~hungUp => May(ms)
    BY <2>7, <2>8, EmptyFacts DEF May
  <2>10. /\ QueueInv' /\ toClient' \in Seq(ToClient)
         /\ hungUp => toClient' = toClient
         /\ ~hungUp => toClient' = ms
    <3>1. toClient \in Seq(ToClient) /\ hungUp \in BOOLEAN
      BY <1>f, <1>v DEF Flags, Values
    <3>. QED
      BY <1>q, <1>b, <2>6, <2>7, <2>8, <2>9, <3>1, Said
  <2>11. ~Has(toClient', {"e"})
    BY <1>d, <2>7, <2>10
  <2>12. /\ closes' \in [Caller -> {"idle", "redis", "waiting", "done"}]
         /\ \A d \in ManagerCall : closes'[d] = calls[d]
    BY <2>3, <2>5 DEF Caller, ManagerCall
  <2>13. Flags'
    BY <1>f, <1>b, <2>1, <2>5 DEF Flags
  <2>14. Values'
    <3>1. engine' \in {"none", "starting", "idle", "used", "gone"}
      BY <1>v, <2>4 DEF Values
    <3>2. start' \in {"redis", "open", "register", "served", "failed"}
      BY <1>v, <2>1 DEF Values
    <3>. QED
      BY <1>v, <1>b, <2>4, <2>5, <2>10, <2>12, <3>1, <3>2 DEF Values
  <2>15. ServerInv'
    BY <1>s, <1>b, <2>4, <2>5 DEF ServerInv
  <2>16. PeerInv'
    BY <1>p, <1>b, <2>5 DEF PeerInv
  <2>17. StartInv'
    <3>1. timer' => timer /\ calls = closes
      BY <2>1, <2>3
    <3>2. engine' \in {"none", "gone"}
      BY <1>v, <1>b, <2>4 DEF Values
    <3>. QED
      BY <1>t, <1>b, <2>1, <2>4, <2>5, <2>12, <3>1, <3>2 DEF StartInv
  <2>18. AudioInv'
    BY <1>u, <1>b, <1>c, <2>5, <2>11 DEF AudioInv
  <2>. QED
    BY <2>10, <2>13, <2>14, <2>15, <2>16, <2>17, <2>18, TypesNext DEF Inv
<1>9. CASE ~socket
  <2>1. /\ UNCHANGED <<start, timer, toClient, status, socket, engineClient, engine,
                       waiter, closes>>
        /\ thrown' = TRUE
    BY <1>9 DEF CountedError, closeVars, engineVars
  <2>2. "slow" \in faults
    BY <1>b, <1>t, <1>9 DEF StartInv
  <2>3. Flags'
    BY <1>f, <1>b, <2>1 DEF Flags
  <2>4. Values'
    BY <1>v, <1>b, <2>1 DEF Values
  <2>5. ServerInv'
    BY <1>s, <1>b, <1>9, <2>1 DEF ServerInv
  <2>6. QueueInv'
    BY <1>q, <1>b, <2>1 DEF QueueInv
  <2>7. PeerInv'
    BY <1>p, <1>b, <1>9, <2>1 DEF PeerInv
  <2>8. StartInv'
    BY <2>2 DEF StartInv
  <2>9. AudioInv'
    BY <1>u, <1>b, <1>c, <1>9, <2>1 DEF AudioInv
  <2>. QED
    BY <2>3, <2>4, <2>5, <2>6, <2>7, <2>8, <2>9, TypesNext DEF Inv
<1>. QED
  BY <1>8, <1>9

-----------------------------------------------------------------------------
(***************************************************************************)
(* The theorems.                                                           *)
(***************************************************************************)
LEMMA InitInv == Init => Inv
<1>. SUFFICES ASSUME Init
              PROVE  Inv
  OBVIOUS
<1>1. Flags
  BY DEF Init, Flags
<1>2. closes \in [Caller -> {"idle", "redis", "waiting", "done"}]
  BY DEF Init
<1>3. 0 \in 0 .. MaxAudio /\ 0 \in Nat
  BY WebsocketAssumption
<1>4. Values
  BY <1>2, <1>3, EmptyFacts DEF Init, Values
<1>5. ServerInv
  BY DEF Init, ServerInv, Busy
<1>6. QueueInv
  BY EmptyFacts DEF Init, QueueInv
<1>7. PeerInv
  BY EmptyFacts DEF Init, PeerInv
<1>8. StartInv
  <2>1. "none" \notin ManagerCall /\ \A c \in ManagerCall : closes[c] = "idle"
    BY ManagerCalls DEF Init, ManagerCall
  <2>2. ~Has(toServer, {"s", "bad"})
    BY EmptyFacts DEF Init
  <2>. QED
    BY <2>1, <2>2 DEF Init, StartInv, Busy
<1>9. AudioInv
  BY EmptyFacts DEF Init, AudioInv, Busy
<1>. QED
  BY <1>1, <1>4, <1>5, <1>6, <1>7, <1>8, <1>9, Types DEF Inv

LEMMA StepInv == Inv /\ [Next]_allVars => Inv'
<1>. SUFFICES ASSUME Inv, [Next]_allVars
              PROVE  Inv'
  OBVIOUS
<1>1. CASE Next
  <2>1. faults' = faults
    BY <1>1 DEF Next
  <2>2. ASSUME NEW m \in {"s", "bad"}, SendS(m)
        PROVE  Inv'
    BY <2>1, <2>2, SendSStep
  <2>3. CASE SendAudio
    BY <2>1, <2>3, SendAudioStep
  <2>4. CASE FinishAudio
    BY <2>1, <2>4, FinishAudioStep
  <2>5. CASE Leave
    BY <2>1, <2>5, LeaveStep
  <2>6. CASE ClientReceives
    BY <2>1, <2>6, ClientReceivesStep
  <2>7. CASE Open
    BY <2>1, <2>7, OpenStep
  <2>8. CASE Register
    BY <2>1, <2>8, RegisterStep
  <2>9. CASE TimerFires
    BY <2>1, <2>9, TimerFiresStep
  <2>10. ASSUME NEW c \in ManagerCall, SessionClose(c)
         PROVE  Inv'
    BY <2>1, <2>10, SessionCloseStep
  <2>11. CASE RecvS
    BY <2>1, <2>11, RecvSStep
  <2>12. CASE EngineStarts
    <3>1. handler = "engine" /\ engine \in {"starting", "gone"} /\ (Answer \/ Refuse)
      BY <2>12 DEF EngineStarts
    <3>. QED
      BY <2>1, <3>1, AnswerStep, RefuseStep
  <2>13. CASE EngineStartsClosed
    <3>1. handler = "engine" /\ engine \in {"starting", "gone"} /\ (Answer \/ Refuse)
      BY <2>13 DEF EngineStartsClosed
    <3>. QED
      BY <2>1, <3>1, AnswerStep, RefuseStep
  <2>14. CASE CountedSuccess
    BY <2>1, <2>14, CountedSuccessStep
  <2>15. CASE CountedError
    BY <2>1, <2>15, CountedErrorStep
  <2>16. CASE RecvData
    BY <2>1, <2>16, RecvDataStep
  <2>17. CASE Ignore
    BY <2>1, <2>17, IgnoreStep
  <2>18. CASE RecvClose
    BY <2>1, <2>18, RecvCloseStep
  <2>19. CASE Analyzed
    BY <2>1, <2>19, AnalyzedStep
  <2>20. CASE EngineError
    BY <2>1, <2>20, EngineErrorStep
  <2>21. CASE EngineClosed
    BY <2>1, <2>21, EngineClosedStep
  <2>. QED
    BY <1>1, <2>2, <2>3, <2>4, <2>5, <2>6, <2>7, <2>8, <2>9, <2>10, <2>11, <2>12,
       <2>13, <2>14, <2>15, <2>16, <2>17, <2>18, <2>19, <2>20, <2>21 DEF Next
<1>2. CASE UNCHANGED allVars
  <2>1. UNCHANGED <<faults, client, hungUp, spoken, toServer, toClient, status, socket,
                    handler, engineClient, engine, taken, waiter, start, table, timer,
                    closes, thrown>>
    BY <1>2 DEF allVars, vars, clientVars, engineVars, managerVars
  <2>2. Flags /\ Values
    BY Types DEF Inv
  <2>3. Flags'
    BY <2>1, <2>2 DEF Flags
  <2>4. Values'
    BY <2>1, <2>2 DEF Values
  <2>5. ServerInv'
    BY <2>1 DEF Inv, ServerInv, Busy
  <2>6. QueueInv'
    BY <2>1 DEF Inv, QueueInv
  <2>7. PeerInv'
    BY <2>1 DEF Inv, PeerInv
  <2>8. StartInv'
    BY <2>1 DEF Inv, StartInv, Busy
  <2>9. AudioInv'
    BY <2>1 DEF Inv, AudioInv, Busy, Ends
  <2>. QED
    BY <2>3, <2>4, <2>5, <2>6, <2>7, <2>8, <2>9, TypesNext DEF Inv
<1>. QED
  BY <1>1, <1>2

\* Every behaviour of the websocket and its two sides keeps the invariant.
THEOREM Invariant == Spec => []Inv
BY InitInv, StepInv, PTL DEF Spec

\* The variables keep their types: the statuses of both sides, the handler of
\* the s command, the calls of close().
THEOREM TypeCorrect == Spec => []TypeOK
<1>1. Inv => TypeOK
  BY DEF Inv
<1>. QED
  BY <1>1, Invariant, PTL

\* The server never says what the library, in the status in which it reads it,
\* silently drops: the two status machines of v1/websocket.js and clientjs
\* agree under every fault.
THEOREM MachinesAgree == Spec => []AnswersExpected
<1>1. Inv => AnswersExpected
  <2>. SUFFICES ASSUME Inv, toClient # <<>>
                PROVE  AnswersExpected
    BY DEF AnswersExpected
  <2>. DEFINE m == Head(toClient)
  <2>1. Values /\ QueueInv /\ toClient \in Seq(ToClient)
    BY Types DEF Inv, Values
  <2>2. m \in ToClient /\ \A ms : m \in ms => Has(toClient, ms)
    BY <2>1, TailFacts
  <2>3. ~hungUp /\ client # "DONE_E"
    BY <2>1 DEF QueueInv
  <2>4. m \in {"s", "s error"} => Has(toClient, {"s", "s error"}) /\ Has(toClient, Answers)
    BY <2>2 DEF Answers
  <2>5. m \in {"p", "p error"} => Has(toClient, {"p", "p error"}) /\ Has(toClient, Answers)
    BY <2>2 DEF Answers
  <2>6. m = "e" => Has(toClient, {"e"})
    BY <2>2
  <2>7. m \in {"s", "s error"} => client = "SENDING_S"
    BY <2>1, <2>3, <2>4 DEF QueueInv, Values
  <2>8. m \in {"p", "p error"} => client \in {"DONE_S", "SENDING_E"}
    BY <2>1, <2>3, <2>5 DEF QueueInv, Values
  <2>9. m = "e" => client = "SENDING_E"
    BY <2>1, <2>6 DEF QueueInv
  <2>. QED
    BY <2>7, <2>8, <2>9 DEF AnswersExpected
<1>. QED
  BY <1>1, Invariant, PTL

\* When the e answer is said all the audio has been given to the engine
\* client, if the client waits for the server's DONE_S before it speaks.
THEOREM AllTaken == Spec => []AudioTaken
<1>1. Inv => AudioTaken
  <2>1. Contains(toClient, "e") => Has(toClient, {"e"})
    BY DEF Contains, Has
  <2>. QED
    BY <2>1 DEF Inv, AudioInv, AudioTaken
<1>. QED
  BY <1>1, Invariant, PTL

\* A connection is closed only when its engine client is, and nothing is done
\* with it afterwards, if the session's timer waits for the s command.
THEOREM EngineFirst == Spec => []EngineClosedFirst
<1>1. Inv => EngineClosedFirst
  BY DEF Inv, StartInv, EngineClosedFirst
<1>. QED
  BY <1>1, Invariant, PTL

-----------------------------------------------------------------------------
(***************************************************************************)
(* The engine client as its owner sees it.                                 *)
(***************************************************************************)

\* The engine client and the audio that was given to it.
OwnerInv ==
  /\ engine = "none" => ~engineClient
  /\ engine = "starting" => handler = "engine"
  /\ handler # "done" => taken = 0
  /\ engine \in {"none", "starting", "idle"} => taken = 0
  /\ engine = "used" => taken > 0 /\ engineClient
  /\ engineClient /\ engine = "gone" => taken > 0

\* closeSession finds a session until the first close() of the manager has
\* been called for it.
CallsInv ==
  /\ table => start # "redis"
  /\ start = "redis" => \A c \in ManagerCall : closes[c] = "idle"
  /\ table \/ start = "redis" =>
       waiter \notin ManagerCall /\ \A c \in ManagerCall : closes[c] \in {"idle", "redis"}
  /\ \A c \in Caller : closes[c] = "done" => ~socket

Outcome(c) ==
  CASE c = "done"    -> "returned"
    [] c = "waiting" -> "waiting"
    [] OTHER         -> "idle"

LEMMA OutcomesAre == Outcomes = [c \in Caller |-> Outcome(closes[c])]
BY DEF Outcomes, Outcome

LEMMA OutcomesWillBe == Outcomes' = [c \in Caller |-> Outcome(closes'[c])]
BY DEF Outcomes, Outcome

ownerVars == <<ClientState, Fed, waiter, Outcomes>>

LEMMA OwnerInit == Init => OwnerInv /\ CallsInv /\ Contract!Init
<1> SUFFICES ASSUME Init PROVE OwnerInv /\ CallsInv /\ Contract!Init
  OBVIOUS
<1>1. OwnerInv
  BY DEF Init, OwnerInv
<1>2. CallsInv
  BY ManagerCalls DEF Init, CallsInv, ManagerCall
<1>3. ClientState = "none" /\ Fed = FALSE /\ waiter = "none"
  BY DEF Init, ClientState, Fed
<1>4. Outcomes = [c \in Caller |-> "idle"]
  BY OutcomesAre DEF Init, Outcome
<1> QED
  BY <1>1, <1>2, <1>3, <1>4 DEF Contract!Init

\* closeSession marks calls that have not begun to close anything.
LEMMA SameOutcomes ==
  ASSUME Inv, CallsInv, NEW c \in ManagerCall
  PROVE  /\ CloseSession(c) \in [Caller -> {"idle", "redis", "waiting", "done"}]
         /\ \A d \in Caller : Outcome(CloseSession(c)[d]) = Outcome(closes[d])
         /\ \A d \in Caller : CloseSession(c)[d] \in {closes[d], "redis"}
         /\ start = "redis" => CloseSession(c) = closes
<1>1. closes \in [Caller -> {"idle", "redis", "waiting", "done"}] /\ c \in Caller
  BY Types, ManagerCalls DEF Inv, Values
<1>2. CASE table
  BY <1>1, <1>2 DEF CloseSession, CallsInv, Outcome
<1>3. CASE ~table
  BY <1>1, <1>3 DEF CloseSession
<1> QED
  BY <1>2, <1>3

\* A close() of the server, with what closeSession has marked in its turn.
LEMMA OwnerCloseServer ==
  ASSUME Inv, OwnerInv, NEW c \in Caller, NEW st, NEW out,
         NEW calls \in [Caller -> {"idle", "redis", "waiting", "done"}],
         \A d \in Caller : Outcome(calls[d]) = Outcome(closes[d]),
         CloseServer(c, calls, st, out), UNCHANGED <<handler, taken>>
  PROVE  OwnerInv' /\ [Contract!Next]_ownerVars
<1>1. Flags /\ Values /\ ServerInv /\ taken \in Nat
  BY Types DEF Inv, Values
<1>2. waiter # "none" => engine = "used" /\ engineClient
  BY <1>1 DEF ServerInv, OwnerInv
<1>3. "none" \notin Caller
  BY DEF Caller, ManagerCall
<1>4. CASE engineClient /\ engine = "used"
  <2>1. /\ waiter' = IF waiter = "none" THEN c ELSE waiter
        /\ closes' = [calls EXCEPT ![c] = "waiting"]
        /\ UNCHANGED <<engineClient, engine>>
    BY <1>4 DEF CloseServer
  <2>2. OwnerInv'
    BY <2>1 DEF OwnerInv
  <2>3. Fed /\ Fed' = Fed
    BY <1>4, <2>1 DEF Fed, OwnerInv
  <2>4. ClientState' = "closing"
    BY <1>3, <1>4, <2>1 DEF ClientState
  <2>5. Outcomes' = [Outcomes EXCEPT ![c] = "waiting"]
    BY <2>1, OutcomesAre, OutcomesWillBe DEF Outcome
  <2>6. CASE waiter = "none"
    <3>1. ClientState = "open"
      BY <1>4, <2>6 DEF ClientState
    <3>2. Contract!CloseAndWait(c)
      BY <2>1, <2>3, <2>4, <2>5, <2>6, <3>1 DEF Contract!CloseAndWait
    <3> QED
      BY <2>2, <3>2 DEF Contract!Next
  <2>7. CASE waiter # "none"
    <3>1. ClientState = "closing"
      BY <1>4, <2>7 DEF ClientState
    <3>2. Contract!CloseHangs(c)
      BY <2>1, <2>3, <2>4, <2>5, <2>7, <3>1 DEF Contract!CloseHangs
    <3> QED
      BY <2>2, <3>2 DEF Contract!Next
  <2> QED
    BY <2>6, <2>7
<1>5. CASE ~(engineClient /\ engine = "used")
  <2>1. /\ engine' = IF engine \in {"starting", "idle"} THEN "gone" ELSE engine
        /\ waiter' = waiter /\ engineClient' = FALSE
        /\ closes' = [calls EXCEPT ![c] = "done"]
    BY <1>5 DEF CloseServer, Finish
  <2>2. engine # "used" /\ waiter = "none"
    BY <1>2, <1>5 DEF OwnerInv
  <2>3. OwnerInv'
    BY <2>1, <2>2 DEF OwnerInv
  <2>4. Fed' = Fed
    BY <2>1, <2>2 DEF Fed, OwnerInv
  <2>5. ClientState = "open" => ~Fed
    BY <2>2 DEF ClientState, Fed, OwnerInv
  <2>6. ClientState \in {"none", "open", "closed"}
    BY <2>2 DEF ClientState
  <2>7. ClientState' = IF ClientState = "none" THEN "none" ELSE "closed"
    BY <2>1, <2>2 DEF ClientState
  <2>8. Outcomes' = [Outcomes EXCEPT ![c] = "returned"]
    BY <2>1, OutcomesAre, OutcomesWillBe DEF Outcome
  <2>9. Contract!CloseAtOnce(c)
    BY <2>1, <2>4, <2>5, <2>6, <2>7, <2>8 DEF Contract!CloseAtOnce
  <2> QED
    BY <2>3, <2>9 DEF Contract!Next
<1> QED
  BY <1>4, <1>5

LEMMA OwnerSessionClose ==
  ASSUME Inv, OwnerInv, CallsInv, NEW c \in ManagerCall, SessionClose(c)
  PROVE  OwnerInv' /\ [Contract!Next]_ownerVars
<1>1. /\ c \in Caller /\ UNCHANGED <<handler, taken>>
      /\ closes \in [Caller -> {"idle", "redis", "waiting", "done"}]
  BY Types, ManagerCalls DEF SessionClose, Inv, Values
<1>2. CASE CloseServer(c, closes, status, <<>>)
  BY <1>1, <1>2, OwnerCloseServer
<1>3. CASE ~CloseServer(c, closes, status, <<>>)
  <2>1. /\ UNCHANGED <<engineClient, engine, waiter>>
        /\ closes' = [closes EXCEPT ![c] = "done"]
        /\ \E d \in ManagerCall : closes[d] = "done"
    BY <1>3 DEF SessionClose, engineVars
  <2>2. ~socket /\ ~engineClient
    BY <2>1, ManagerCalls DEF CallsInv, Inv, ServerInv
  <2>3. waiter = "none"
    BY <2>2 DEF Inv, ServerInv, OwnerInv
  <2>4. OwnerInv' /\ Fed' = Fed
    BY <1>1, <2>1 DEF OwnerInv, Fed
  <2>5. ClientState \in {"none", "closed"} /\ ClientState' = ClientState
    BY <2>1, <2>2, <2>3 DEF ClientState
  <2>6. Outcomes' = [Outcomes EXCEPT ![c] = "returned"]
    BY <1>1, <2>1, OutcomesAre, OutcomesWillBe DEF Outcome
  <2>7. Contract!CloseAtOnce(c)
    BY <2>1, <2>4, <2>5, <2>6 DEF Contract!CloseAtOnce
  <2> QED
    BY <1>1, <2>4, <2>7 DEF Contract!Next
<1> QED
  BY <1>2, <1>3

\* The s command makes the engine client and starts it.
LEMMA OwnerStarts ==
  ASSUME Inv, OwnerInv, RecvS \/ EngineStarts \/ EngineStartsClosed
  PROVE  OwnerInv' /\ [Contract!Next]_ownerVars
<1>1. CASE RecvS
  <2>1. engine = "none" /\ handler = "idle" /\ taken = 0 /\ waiter = "none"
    BY <1>1 DEF RecvS, Inv, ServerInv, OwnerInv
  <2>2. /\ UNCHANGED <<taken, waiter, closes>>
        /\ \/ handler' = "engine" /\ engineClient' = TRUE /\ engine' = "starting"
           \/ handler' = "error" /\ UNCHANGED <<engineClient, engine>>
    BY <1>1 DEF RecvS
  <2>3. OwnerInv'
    BY <2>1, <2>2 DEF OwnerInv
  <2>4. Fed' = Fed /\ Outcomes' = Outcomes
    BY <2>1, <2>2 DEF Fed, Outcomes
  <2>5. ClientState = "none" /\ ClientState' \in {"none", "open"}
    BY <2>1, <2>2 DEF ClientState
  <2>6. Contract!Open \/ UNCHANGED ownerVars
    BY <2>2, <2>4, <2>5 DEF Contract!Open, ownerVars
  <2> QED
    BY <2>3, <2>6 DEF Contract!Next
<1>2. CASE EngineStarts \/ EngineStartsClosed
  <2>1. /\ handler = "engine" /\ handler' \in {"success", "error"}
        /\ UNCHANGED <<engineClient, taken, waiter, closes>>
        /\ \/ engine = "starting" /\ engine' = "idle"
           \/ engine = "gone" /\ engine' \in {"idle", "gone"}
    BY <1>2 DEF EngineStarts, EngineStartsClosed, Answer, Refuse
  <2>2. taken = 0 /\ waiter = "none" /\ (engine = "gone" => ~engineClient)
    BY <2>1 DEF Inv, ServerInv, OwnerInv
  <2>3. OwnerInv'
    BY <2>1, <2>2 DEF OwnerInv
  <2>4. Fed' = Fed /\ Outcomes' = Outcomes
    BY <2>1, <2>2 DEF Fed, Outcomes
  <2>5. ClientState' = ClientState
    BY <2>1, <2>2 DEF ClientState
  <2> QED
    BY <2>1, <2>3, <2>4, <2>5 DEF ownerVars
<1> QED
  BY <1>1, <1>2

LEMMA OwnerFed ==
  ASSUME Inv, OwnerInv, RecvData
  PROVE  OwnerInv' /\ [Contract!Next]_ownerVars
<1>1. handler = "done" /\ UNCHANGED handler /\ taken \in Nat
  BY Types DEF RecvData, Inv, ServerInv, Values
<1>2. CASE Head(toServer) = "audio"
  <2>1. /\ taken' = IF engineClient THEN taken + 1 ELSE taken
        /\ engine' = IF engineClient /\ engine = "idle" THEN "used" ELSE engine
        /\ UNCHANGED <<engineClient, waiter, closes>>
    BY <1>2 DEF RecvData, HasEngine, Audio
  <2>2. engineClient => engine \in {"idle", "used", "gone"} /\ taken + 1 > 0
    BY <1>1, Types DEF OwnerInv, Inv, Values
  <2>3. OwnerInv'
    BY <1>1, <2>1, <2>2 DEF OwnerInv
  <2>4. Outcomes' = Outcomes /\ ClientState' = ClientState
    BY <2>1, <2>2 DEF Outcomes, ClientState, Inv, ServerInv
  <2>5. CASE engineClient /\ engine = "idle"
    <3>1. waiter = "none" /\ ClientState = "open"
      BY <2>5 DEF Inv, ServerInv, ClientState
    <3>2. Fed' = TRUE
      BY <1>1, <2>1, <2>2, <2>5 DEF Fed
    <3>3. Contract!Feed
      BY <2>1, <2>4, <3>1, <3>2 DEF Contract!Feed
    <3> QED
      BY <2>3, <3>3 DEF Contract!Next
  <2>6. CASE ~(engineClient /\ engine = "idle")
    <3>1. Fed' = Fed
      BY <1>1, <2>1, <2>2, <2>6 DEF Fed, OwnerInv
    <3> QED
      BY <2>1, <2>3, <2>4, <3>1 DEF ownerVars
  <2> QED
    BY <2>5, <2>6
<1>3. CASE Head(toServer) # "audio"
  <2>1. CloseServer("e", closes, "RECV_E", <<>>) /\ taken' = taken
    <3>1. Audio(Head(toServer)) = 0
      BY <1>3 DEF Audio
    <3> QED
      BY <1>1, <1>3, <3>1 DEF RecvData
  <2>2. "e" \in Caller /\ closes \in [Caller -> {"idle", "redis", "waiting", "done"}]
    BY Types DEF Caller, Inv, Values
  <2> QED
    BY <1>1, <2>1, <2>2, OwnerCloseServer
<1> QED
  BY <1>2, <1>3

LEMMA OwnerCountedError ==
  ASSUME Inv, OwnerInv, CallsInv, CountedError
  PROVE  OwnerInv' /\ [Contract!Next]_ownerVars
<1>1. handler = "error" /\ handler' = "done" /\ taken' = taken /\ taken = 0
  BY DEF CountedError, OwnerInv
<1>2. CASE ~socket
  <2>1. UNCHANGED <<engineClient, engine, waiter, closes>>
    BY <1>2 DEF CountedError, closeVars, engineVars
  <2>2. OwnerInv'
    BY <1>1, <2>1 DEF OwnerInv
  <2>3. UNCHANGED ownerVars
    BY <1>1, <2>1 DEF ownerVars, ClientState, Fed, Outcomes
  <2> QED
    BY <2>2, <2>3
<1>3. CASE socket
  <2> DEFINE calls == IF start = "open" THEN CloseSession("failed") ELSE closes
  <2>1. CloseServer("s", calls, status, <<"s error">>)
    BY <1>3 DEF CountedError
  <2>2. /\ calls \in [Caller -> {"idle", "redis", "waiting", "done"}]
        /\ \A d \in Caller : Outcome(calls[d]) = Outcome(closes[d])
    BY SameOutcomes, Types DEF ManagerCall, Inv, Values
  <2>3. "s" \in Caller
    BY DEF Caller
  <2> HIDE DEF calls
  <2>4. engine \notin {"used", "starting"} /\ waiter = "none"
    BY <1>1 DEF OwnerInv, Inv, ServerInv
  <2>5. /\ engine' = IF engine = "idle" THEN "gone" ELSE engine
        /\ waiter' = waiter /\ engineClient' = FALSE
        /\ closes' = [calls EXCEPT !["s"] = "done"]
    BY <2>1, <2>4 DEF CloseServer, Finish
  <2>6. OwnerInv'
    BY <1>1, <2>4, <2>5 DEF OwnerInv
  <2>7. ~Fed /\ ~Fed'
    BY <1>1 DEF Fed
  <2>8. /\ ClientState \in {"none", "open", "closed"}
        /\ ClientState' = IF ClientState = "none" THEN "none" ELSE "closed"
    BY <2>4, <2>5 DEF ClientState
  <2>9. Outcomes' = [Outcomes EXCEPT !["s"] = "returned"]
    BY <2>2, <2>3, <2>5, OutcomesAre, OutcomesWillBe DEF Outcome
  <2>10. Fed' = Fed
    BY <1>1 DEF Fed
  <2>11. Contract!CloseAtOnce("s")
    BY <2>5, <2>7, <2>8, <2>9, <2>10 DEF Contract!CloseAtOnce
  <2> QED
    BY <2>3, <2>6, <2>11 DEF Contract!Next
<1> QED
  BY <1>2, <1>3

LEMMA OwnerClosed ==
  ASSUME Inv, OwnerInv, EngineError \/ EngineClosed
  PROVE  OwnerInv' /\ [Contract!Next]_ownerVars
<1>0. /\ closes \in [Caller -> {"idle", "redis", "waiting", "done"}]
      /\ waiter \in {"none", "itself"} \cup Caller /\ "itself" \notin Caller
  BY Types DEF Inv, Values, Caller, ManagerCall
<1>1. CASE EngineError
  <2>1. /\ engine = "used" /\ engineClient /\ waiter = "none" /\ waiter' = "itself"
        /\ UNCHANGED <<handler, engineClient, engine, taken, closes>>
    BY <1>1 DEF EngineError, OwnerInv
  <2>2. OwnerInv' /\ Outcomes' = Outcomes /\ Fed /\ Fed' = Fed
    BY <2>1 DEF OwnerInv, Outcomes, Fed
  <2>3. ClientState = "open" /\ ClientState' = "closing"
    BY <2>1 DEF ClientState
  <2>4. Contract!CloseItself
    BY <2>1, <2>2, <2>3 DEF Contract!CloseItself
  <2> QED
    BY <2>2, <2>4 DEF Contract!Next
<1>2. CASE EngineClosed
  <2>1. /\ waiter # "none" /\ waiter' = "none" /\ engine' = "gone"
        /\ UNCHANGED <<handler, taken>>
        /\ engineClient' = IF waiter = "itself" THEN engineClient ELSE FALSE
        /\ closes' = IF waiter = "itself" THEN closes
                     ELSE [closes EXCEPT ![waiter] = "done"]
    BY <1>2 DEF EngineClosed, Finish
  <2>2. engine = "used" /\ engineClient /\ handler = "done" /\ taken > 0
    BY <2>1 DEF Inv, ServerInv, OwnerInv
  <2>3. OwnerInv'
    BY <2>1, <2>2 DEF OwnerInv
  <2>4. Fed' = Fed
    BY <2>1, <2>2 DEF Fed
  <2>5. ClientState = "closing" /\ ClientState' = "closed"
    BY <2>1, <2>2 DEF ClientState
  <2>6. Outcomes' = [c \in Caller |-> IF c = waiter THEN "returned" ELSE Outcomes[c]]
    BY <1>0, <2>1, OutcomesAre, OutcomesWillBe DEF Outcome
  <2>7. Contract!Closed
    BY <2>1, <2>4, <2>5, <2>6 DEF Contract!Closed
  <2> QED
    BY <2>3, <2>7 DEF Contract!Next
<1> QED
  BY <1>1, <1>2

LEMMA OwnerNext ==
  Inv /\ OwnerInv /\ CallsInv /\ [Next]_allVars => OwnerInv' /\ [Contract!Next]_ownerVars
<1> SUFFICES ASSUME Inv, OwnerInv, CallsInv, [Next]_allVars
             PROVE  OwnerInv' /\ [Contract!Next]_ownerVars
  OBVIOUS
<1>1. CASE RecvS \/ EngineStarts \/ EngineStartsClosed
  BY <1>1, OwnerStarts
<1>2. CASE RecvData
  BY <1>2, OwnerFed
<1>3. CASE CountedError
  BY <1>3, OwnerCountedError
<1>4. CASE EngineError \/ EngineClosed
  BY <1>4, OwnerClosed
<1>5. CASE \E c \in ManagerCall : SessionClose(c)
  BY <1>5, OwnerSessionClose
<1>6. CASE Register \/ TimerFires \/ RecvClose
  <2>1. /\ UNCHANGED <<engineClient, engine, waiter, handler, taken>>
        /\ \/ closes' = closes
           \/ \E c \in ManagerCall : closes' = CloseSession(c)
    BY <1>6 DEF Register, TimerFires, Timeout, RecvClose, engineVars, ManagerCall
  <2>2. Outcomes' = Outcomes
    BY <2>1, SameOutcomes, OutcomesAre, OutcomesWillBe
  <2>3. OwnerInv' /\ UNCHANGED <<Fed, ClientState>>
    BY <2>1 DEF OwnerInv, Fed, ClientState
  <2> QED
    BY <2>1, <2>2, <2>3 DEF ownerVars
<1>7. CASE CountedSuccess
  <2>1. /\ UNCHANGED <<engineClient, engine, waiter, taken, closes>>
        /\ handler = "success" /\ handler' = "done"
    BY <1>7 DEF CountedSuccess, engineVars
  <2>2. OwnerInv' /\ UNCHANGED ownerVars
    BY <2>1 DEF OwnerInv, ownerVars, Fed, ClientState, Outcomes
  <2> QED
    BY <2>2
<1>8. CASE \/ \E m \in {"s", "bad"} : SendS(m)
           \/ SendAudio \/ FinishAudio \/ Leave \/ ClientReceives
           \/ Open \/ Ignore \/ Analyzed \/ UNCHANGED allVars
  <2>1. UNCHANGED <<engineClient, engine, waiter, handler, taken, closes>>
    BY <1>8 DEF SendS, SendAudio, FinishAudio, ClientSends, Leave, ClientReceives,
       Open, Ignore, Analyzed, closeVars, engineVars, allVars, vars
  <2> QED
    BY <2>1 DEF OwnerInv, ownerVars, Fed, ClientState, Outcomes
<1> QED
  BY <1>1, <1>2, <1>3, <1>4, <1>5, <1>6, <1>7, <1>8 DEF Next

\* A close() of the server leaves the calls of the manager as they are, but for
\* c and for what closeSession has marked.
LEMMA CallsCloseServer ==
  ASSUME Inv, CallsInv, NEW c \in Caller, NEW st, NEW out,
         NEW calls \in [Caller -> {"idle", "redis", "waiting", "done"}],
         \A d \in Caller : calls[d] \in {closes[d], "redis"},
         start = "redis" => calls = closes,
         CloseServer(c, calls, st, out), table' \in {table, FALSE},
         start' = "redis" => start = "redis", table' => start' # "redis",
         c \in ManagerCall => table' = FALSE /\ start' # "redis"
  PROVE  CallsInv'
<1>1. /\ closes' \in [Caller -> {"idle", "redis", "waiting", "done"}]
      /\ \A d \in Caller : d # c => closes'[d] = calls[d]
      /\ closes'[c] \in {"waiting", "done"}
      /\ waiter' \in {waiter, c}
  BY DEF CloseServer, Finish
<1>2. /\ socket' = socket /\ closes'[c] = "waiting"
      \/ socket' = FALSE
  BY DEF CloseServer, Finish
<1>3. \A d \in ManagerCall : d \in Caller
  BY ManagerCalls
<1>4. start' = "redis" => \A d \in ManagerCall : closes'[d] = "idle"
  BY <1>1, <1>3 DEF CallsInv
<1>5. table' \/ start' = "redis" =>
        /\ waiter' \notin ManagerCall
        /\ \A d \in ManagerCall : closes'[d] \in {"idle", "redis"}
  BY <1>1, <1>3 DEF CallsInv
<1>6. \A d \in Caller : closes'[d] = "done" => ~socket'
  BY <1>1, <1>2 DEF CallsInv
<1> QED
  BY <1>4, <1>5, <1>6 DEF CallsInv

LEMMA CallsNext == Inv /\ CallsInv /\ [Next]_allVars => CallsInv'
<1> SUFFICES ASSUME Inv, CallsInv, [Next]_allVars PROVE CallsInv'
  OBVIOUS
<1>0. /\ closes \in [Caller -> {"idle", "redis", "waiting", "done"}]
      /\ "s" \in Caller /\ "e" \in Caller /\ "s" \notin ManagerCall
      /\ "e" \notin ManagerCall
  BY Types DEF Inv, Values, Caller, ManagerCall
<1>1. ASSUME NEW c \in ManagerCall, SessionClose(c) PROVE CallsInv'
  <2>1. c \in Caller /\ table' = FALSE /\ start' = start /\ start # "redis"
    BY <1>1, ManagerCalls DEF SessionClose, CallsInv
  <2>2. CASE CloseServer(c, closes, status, <<>>)
    BY <1>0, <2>1, <2>2, CallsCloseServer
  <2>3. CASE ~CloseServer(c, closes, status, <<>>)
    <3>1. /\ closes' = [closes EXCEPT ![c] = "done"] /\ socket' = socket
          /\ \E d \in ManagerCall : closes[d] = "done"
      BY <1>1, <2>3 DEF SessionClose, engineVars
    <3>2. ~socket'
      BY <3>1, ManagerCalls DEF CallsInv
    <3> QED
      BY <2>1, <3>2 DEF CallsInv
  <2> QED
    BY <2>2, <2>3
<1>2. CASE Open
  BY <1>2 DEF Open, closeVars, engineVars, CallsInv
<1>3. CASE Register \/ TimerFires \/ RecvClose
  <2>1. /\ UNCHANGED <<waiter, socket, table>>
        /\ start' = "redis" => start = "redis"
        /\ start # "redis" => start' # "redis"
        /\ \/ closes' = closes
           \/ \E c \in ManagerCall : closes' = CloseSession(c)
    BY <1>3 DEF Register, TimerFires, Timeout, RecvClose, engineVars, ManagerCall
  <2>2. /\ \A d \in Caller : closes'[d] \in {closes[d], "redis"}
        /\ start = "redis" => closes' = closes
    BY <2>1, SameOutcomes
  <2> QED
    BY <2>1, <2>2, ManagerCalls DEF CallsInv
<1>4. CASE CountedError
  <2>1. CASE ~socket
    <3>1. UNCHANGED <<start, table, closes, socket, waiter>>
      BY <1>4, <2>1 DEF CountedError, closeVars, engineVars
    <3> QED
      BY <3>1 DEF CallsInv
  <2>2. CASE socket
    <3> DEFINE calls == IF start = "open" THEN CloseSession("failed") ELSE closes
    <3>1. /\ CloseServer("s", calls, status, <<"s error">>) /\ table' = table
          /\ start' = IF start = "open" THEN "failed" ELSE start
      BY <1>4, <2>2 DEF CountedError
    <3>2. /\ calls \in [Caller -> {"idle", "redis", "waiting", "done"}]
          /\ \A d \in Caller : calls[d] \in {closes[d], "redis"}
          /\ start = "redis" => calls = closes
      BY <1>0, SameOutcomes DEF ManagerCall
    <3> HIDE DEF calls
    <3> QED
      BY <1>0, <3>1, <3>2, CallsCloseServer DEF CallsInv
  <2> QED
    BY <2>1, <2>2
<1>5. CASE RecvData
  <2>1. UNCHANGED <<start, table>>
    BY <1>5 DEF RecvData, managerVars
  <2>2. CASE Head(toServer) = "audio"
    BY <1>5, <2>1, <2>2 DEF RecvData, CallsInv
  <2>3. CASE Head(toServer) # "audio"
    <3>1. CloseServer("e", closes, "RECV_E", <<>>)
      BY <1>5, <2>3 DEF RecvData
    <3> QED
      BY <1>0, <2>1, <3>1, CallsCloseServer DEF CallsInv
  <2> QED
    BY <2>2, <2>3
<1>6. CASE EngineError
  <2>1. UNCHANGED <<start, table, closes, socket>> /\ waiter' = "itself"
    BY <1>6 DEF EngineError, managerVars
  <2> QED
    BY <2>1 DEF CallsInv, ManagerCall
<1>7. CASE EngineClosed
  <2>1. /\ UNCHANGED <<start, table>> /\ waiter' = "none" /\ waiter # "none"
        /\ \/ UNCHANGED <<closes, socket>>
           \/ closes' = [closes EXCEPT ![waiter] = "done"] /\ socket' = FALSE
    BY <1>7 DEF EngineClosed, Finish, managerVars
  <2>2. "none" \notin ManagerCall
    BY DEF ManagerCall
  <2>3. CASE UNCHANGED <<closes, socket>>
    BY <2>1, <2>2, <2>3 DEF CallsInv
  <2>4. CASE closes' = [closes EXCEPT ![waiter] = "done"] /\ socket' = FALSE
    <3>1. \A d \in ManagerCall : d # waiter => closes'[d] = closes[d]
      BY <1>0, <2>4, ManagerCalls
    <3> QED
      BY <2>1, <2>2, <2>4, <3>1 DEF CallsInv
  <2> QED
    BY <2>1, <2>3, <2>4
<1>8. CASE CountedSuccess
  <2>1. /\ UNCHANGED <<table, closes, socket, waiter>>
        /\ start' = "redis" <=> start = "redis"
    BY <1>8 DEF CountedSuccess, engineVars
  <2> QED
    BY <2>1 DEF CallsInv
<1>9. CASE \/ \E m \in {"s", "bad"} : SendS(m)
           \/ SendAudio \/ FinishAudio \/ Leave \/ ClientReceives
           \/ RecvS \/ EngineStarts \/ EngineStartsClosed
           \/ Ignore \/ Analyzed \/ UNCHANGED allVars
  <2>1. UNCHANGED <<start, table, closes, socket, waiter>>
    BY <1>9 DEF SendS, SendAudio, FinishAudio, ClientSends, Leave, ClientReceives,
       RecvS, EngineStarts, EngineStartsClosed, Answer, Refuse, Ignore, Analyzed,
       closeVars, engineVars, managerVars, allVars, vars
  <2> QED
    BY <2>1 DEF CallsInv
<1> QED
  BY <1>1, <1>2, <1>3, <1>4, <1>5, <1>6, <1>7, <1>8, <1>9 DEF Next

\* Whoever closes a connection, in whatever order (the s and e commands, the
\* timer, the manager, the socket), its engine client is used as the contract
\* allows: fed while it is open, waited for by a close(), forgotten afterwards.
THEOREM UsesContract == Spec => ImplementsEngineContract
<1>1. Init => OwnerInv /\ CallsInv /\ Contract!Init
  BY OwnerInit
<1>2. Inv /\ OwnerInv /\ CallsInv /\ [Next]_allVars =>
        OwnerInv' /\ CallsInv' /\ [Contract!Next]_ownerVars
  BY OwnerNext, CallsNext
<1>3. Spec => Contract!Init /\ [][Contract!Next]_ownerVars
  BY <1>1, <1>2, Invariant, PTL DEF Spec
<1> QED
  BY <1>3 DEF ImplementsEngineContract, Contract!Spec, ownerVars

-----------------------------------------------------------------------------
(***************************************************************************)
(* Nobody waits for nothing: the safe half of CommandsAnswered.            *)
(***************************************************************************)

\* A client that has sent its s command is owed an answer: the command, its
\* handler or the answer is on its way.  One that waits for e has at least the
\* session's timer, a close() that is about to come or will return, or the end
\* of the connection, unless the session ends while its client closes itself.
AnswersOwed ==
  /\ client = "SENDING_S" =>
       \/ socket /\ Has(toServer, {"s", "bad"})
       \/ socket /\ handler = "engine" /\ engine = "starting"
       \/ socket /\ handler = "error"
       \/ Has(toClient, {"s", "s error", "close"})
  /\ client = "SENDING_E" /\ "late" \notin faults =>
       \/ timer /\ (table \/ start = "redis")
       \/ \E c \in ManagerCall : closes[c] = "redis"
       \/ waiter \in Caller
       \/ Has(toClient, {"close"})

\* The last word of either side is "close".
LastWordInv ==
  /\ ~socket /\ ~hungUp => Has(toClient, {"close"})
  /\ Has(toServer, {"close"}) => hungUp

StartingInv ==
  socket =>
    /\ handler = "engine" => engine = "starting"
    /\ client = "SENDING_S" /\ handler = "idle" => Has(toServer, {"s", "bad"})

\* The session's way out: its timer, a close() of the manager, or one that waits.
WayOut ==
  /\ \/ timer /\ (table \/ start = "redis")
     \/ \E c \in ManagerCall : closes[c] = "redis"
     \/ waiter \in Caller
  /\ waiter = "itself" => \A c \in ManagerCall : closes[c] # "redis"

TimeoutInv ==
  /\ start = "redis" => timer
  /\ "late" \notin faults /\ ~hungUp /\ socket => WayOut

OwedInv == LastWordInv /\ StartingInv /\ TimeoutInv

\* What a queue keeps.
LEMMA HasKept ==
  ASSUME NEW M, NEW q \in Seq(M), NEW r \in Seq(M)
  PROVE  /\ \A ms : Has(q, ms) => Has(q \o r, ms)
         /\ \A ms : Has(r, ms) => Has(q \o r, ms)
<1>1. \A i \in 1 .. Len(q) : i \in 1 .. Len(q \o r) /\ (q \o r)[i] = q[i]
  OBVIOUS
<1>2. \A i \in 1 .. Len(r) :
        Len(q) + i \in 1 .. Len(q \o r) /\ (q \o r)[Len(q) + i] = r[i]
  OBVIOUS
<1> QED
  BY <1>1, <1>2 DEF Has

LEMMA Messages == <<>> \in Seq(ToClient) /\ <<"s error">> \in Seq(ToClient)
<1>1. "s error" \in ToClient
  BY DEF ToClient
<1> QED
  BY <1>1, EmptyFacts, OneFacts

LEMMA EndingCloses ==
  ASSUME NEW out \in Seq(ToClient), NEW st
  PROVE  out \o Ending(st) \in Seq(ToClient) /\ Has(out \o Ending(st), {"close"})
<1>1. Ending(st) \in Seq(ToClient)
  BY EndingFacts
<1>2. Parting(st) \in Seq(ToClient) /\ "close" \in ToClient
  <2>1. Parting(st) \in {<<"e">>, <<"p error">>, <<>>}
    BY DEF Parting
  <2>2. "e" \in ToClient /\ "p error" \in ToClient /\ "close" \in ToClient
    BY DEF ToClient
  <2>3. <<"e">> \in Seq(ToClient) /\ <<"p error">> \in Seq(ToClient)
    BY <2>2, OneFacts
  <2> QED
    BY <2>1, <2>2, <2>3, EmptyFacts
<1>3. Has(Ending(st), {"close"})
  BY <1>2, AppendFacts DEF Ending
<1> QED
  BY <1>1, <1>3, HasKept, ConcatFacts

\* The server takes back nothing it has said.
LEMMA SayKeeps ==
  ASSUME Values, NEW out \in Seq(ToClient), Say(out)
  PROVE  /\ \A ms : Has(toClient, ms) => Has(toClient', ms)
         /\ ~hungUp => \A ms : Has(out, ms) => Has(toClient', ms)
<1>1. toClient \in Seq(ToClient)
  BY DEF Values
<1> QED
  BY <1>1, HasKept DEF Say

LEMMA FinishSays ==
  ASSUME Values, NEW c, NEW calls, NEW st, NEW out \in Seq(ToClient),
         Finish(c, calls, st, out)
  PROVE  /\ socket' = FALSE
         /\ \A ms : Has(toClient, ms) => Has(toClient', ms)
         /\ socket /\ ~hungUp => Has(toClient', {"close"})
<1>1. CASE socket
  <2>1. Say(out \o Ending(st)) /\ socket' = FALSE
    BY <1>1 DEF Finish
  <2> QED
    BY <1>1, <2>1, EndingCloses, SayKeeps
<1>2. CASE ~socket
  <2>1. Say(out) /\ socket' = FALSE
    BY <1>2 DEF Finish
  <2> QED
    BY <1>2, <2>1, SayKeeps
<1> QED
  BY <1>1, <1>2

LEMMA CloseServerSays ==
  ASSUME Values, NEW c, NEW calls, NEW st, NEW out \in Seq(ToClient),
         CloseServer(c, calls, st, out)
  PROVE  /\ \A ms : Has(toClient, ms) => Has(toClient', ms)
         /\ \/ socket' = FALSE /\ (socket /\ ~hungUp => Has(toClient', {"close"}))
            \/ /\ UNCHANGED <<socket, engine>>
               /\ engine = "used"
               /\ closes' = [calls EXCEPT ![c] = "waiting"]
               /\ waiter' = IF waiter = "none" THEN c ELSE waiter
<1>1. CASE Finish(c, calls, st, out)
  BY <1>1, FinishSays
<1>2. CASE ~Finish(c, calls, st, out)
  <2>1. /\ Say(out) /\ UNCHANGED <<socket, engine>> /\ engine = "used"
        /\ closes' = [calls EXCEPT ![c] = "waiting"]
        /\ waiter' = IF waiter = "none" THEN c ELSE waiter
    BY <1>2 DEF CloseServer
  <2> QED
    BY <2>1, SayKeeps
<1> QED
  BY <1>1, <1>2

\* The steps that can close the connection, and what becomes of the client.
Closing ==
  \/ \E c \in ManagerCall : SessionClose(c)
  \/ CountedError \/ RecvData \/ EngineClosed

LEMMA ClosingSays ==
  ASSUME Inv, CallsInv, Closing
  PROVE  /\ UNCHANGED clientVars
         /\ toServer' = toServer \/ (toServer # <<>> /\ toServer' = Tail(toServer))
         /\ \A ms : Has(toClient, ms) => Has(toClient', ms)
         /\ socket' = FALSE \/ socket' = socket
         /\ socket /\ ~socket' /\ ~hungUp => Has(toClient', {"close"})
<1>0. Values /\ <<>> \in Seq(ToClient) /\ <<"s error">> \in Seq(ToClient)
  BY Types DEF Inv, ToClient
<1> DEFINE Says ==
             /\ \A ms : Has(toClient, ms) => Has(toClient', ms)
             /\ socket' = FALSE \/ socket' = socket
             /\ socket /\ ~socket' /\ ~hungUp => Has(toClient', {"close"})
<1>1. \A c, calls, st : \A out \in Seq(ToClient) :
        CloseServer(c, calls, st, out) => Says
  BY <1>0, CloseServerSays
<1>a. \A c, calls, st : Finish(c, calls, st, <<>>) => Says
  BY <1>0, FinishSays
<1>b. UNCHANGED <<toClient, socket>> => Says
  OBVIOUS
<1> SUFFICES /\ UNCHANGED clientVars
             /\ toServer' = toServer \/ (toServer # <<>> /\ toServer' = Tail(toServer))
             /\ Says
  OBVIOUS
<1> HIDE DEF Says
<1>2. CASE \E c \in ManagerCall : SessionClose(c)
  <2>1. PICK c \in ManagerCall : SessionClose(c)
    BY <1>2
  <2>2. UNCHANGED clientVars /\ toServer' = toServer
    BY <2>1 DEF SessionClose
  <2>3. CloseServer(c, closes, status, <<>>) \/ UNCHANGED <<toClient, socket>>
    BY <2>1 DEF SessionClose
  <2> QED
    BY <1>0, <1>1, <1>b, <2>2, <2>3
<1>3. CASE CountedError
  <2>1. UNCHANGED clientVars /\ toServer' = toServer
    BY <1>3 DEF CountedError
  <2>2. \/ \E calls : CloseServer("s", calls, status, <<"s error">>)
        \/ UNCHANGED <<toClient, socket>>
    BY <1>3 DEF CountedError, closeVars
  <2> QED
    BY <1>0, <1>1, <1>b, <2>1, <2>2
<1>4. CASE RecvData
  <2>1. UNCHANGED clientVars /\ toServer # <<>> /\ toServer' = Tail(toServer)
    BY <1>4 DEF RecvData
  <2>2. CloseServer("e", closes, "RECV_E", <<>>) \/ UNCHANGED <<toClient, socket>>
    BY <1>4 DEF RecvData
  <2> QED
    BY <1>0, <1>1, <1>b, <2>1, <2>2
<1>5. CASE EngineClosed
  <2>1. UNCHANGED clientVars /\ toServer' = toServer
    BY <1>5 DEF EngineClosed
  <2>2. Finish(waiter, closes, status, <<>>) \/ UNCHANGED <<toClient, socket>>
    BY <1>5 DEF EngineClosed
  <2> QED
    BY <1>a, <1>b, <2>1, <2>2
<1> QED
  BY <1>2, <1>3, <1>4, <1>5 DEF Closing

LEMMA LastWordNext ==
  ASSUME Inv, CallsInv, LastWordInv, [Next]_allVars
  PROVE  LastWordInv'
<1>0. Values /\ toServer \in Seq(ToServer) /\ toClient \in Seq(ToClient)
  BY Types DEF Inv, Values
<1>t. toServer # <<>> /\ Has(Tail(toServer), {"close"}) => Has(toServer, {"close"})
  BY <1>0, TailFacts
<1>1. CASE (\E m \in {"s", "bad"} : SendS(m)) \/ SendAudio \/ FinishAudio
  <2>1. PICK m \in ToServer \ {"close"} : toServer' = Append(toServer, m)
    BY <1>1 DEF SendS, SendAudio, FinishAudio, ClientSends, ToServer
  <2>2. UNCHANGED <<socket, hungUp, toClient>>
    BY <1>1 DEF SendS, SendAudio, FinishAudio, ClientSends, closeVars
  <2>3. Has(toServer', {"close"}) => Has(toServer, {"close"})
    BY <1>0, <2>1, AppendFacts
  <2> QED
    BY <2>2, <2>3 DEF LastWordInv
<1>2. CASE Leave
  BY <1>2 DEF Leave, HangUp, LastWordInv
<1>3. CASE ClientReceives
  <2>1. toClient # <<>> /\ socket' = socket
    BY <1>3 DEF ClientReceives
  <2>2. CASE hungUp' = TRUE
    BY <2>1, <2>2 DEF LastWordInv
  <2>3. CASE hungUp' # TRUE
    <3>1. /\ UNCHANGED <<hungUp, toServer>> /\ toClient' = Tail(toClient)
          /\ Head(toClient) # "close"
      BY <1>3, <2>3 DEF ClientReceives, HangUp
    <3>2. Has(toClient, {"close"}) => Has(toClient', {"close"})
      BY <1>0, <2>1, <3>1, TailFacts
    <3> QED
      BY <2>1, <3>1, <3>2 DEF LastWordInv
  <2> QED
    BY <2>2, <2>3
<1>4. CASE Closing
  BY <1>4, <1>t, ClosingSays DEF LastWordInv, clientVars
<1>5. CASE EngineStarts \/ EngineStartsClosed \/ Analyzed
  <2>1. UNCHANGED <<socket, hungUp, toServer>>
    BY <1>5 DEF EngineStarts, EngineStartsClosed, Answer, Refuse, Analyzed,
       clientVars
  <2>2. \/ UNCHANGED toClient
        \/ Say(<<"s">>) \/ Say(<<"p">>) \/ Say(<<>>)
    BY <1>5 DEF EngineStarts, EngineStartsClosed, Answer, Refuse, Analyzed
  <2>3. <<"s">> \in Seq(ToClient) /\ <<"p">> \in Seq(ToClient) /\ <<>> \in Seq(ToClient)
    BY DEF ToClient
  <2>4. Has(toClient, {"close"}) => Has(toClient', {"close"})
    BY <1>0, <2>2, <2>3, SayKeeps
  <2> QED
    BY <2>1, <2>4 DEF LastWordInv
<1>6. CASE Ignore \/ RecvClose \/ RecvS
  <2>1. /\ UNCHANGED <<socket, hungUp, toClient>>
        /\ toServer # <<>> /\ toServer' = Tail(toServer)
    BY <1>6 DEF Ignore, RecvClose, RecvS, clientVars, closeVars
  <2> QED
    BY <1>t, <2>1 DEF LastWordInv
<1>7. CASE \/ Open \/ Register \/ TimerFires \/ CountedSuccess \/ EngineError
           \/ UNCHANGED allVars
  <2>1. UNCHANGED <<socket, hungUp, toClient, toServer>>
    BY <1>7 DEF Open, Register, TimerFires, CountedSuccess, EngineError, clientVars,
       closeVars, allVars, vars
  <2> QED
    BY <2>1 DEF LastWordInv
<1> QED
  BY <1>1, <1>2, <1>3, <1>4, <1>5, <1>6, <1>7 DEF Next, Closing

LEMMA StartingNext ==
  ASSUME Inv, CallsInv, StartingInv, [Next]_allVars
  PROVE  StartingInv'
<1>0. /\ Values /\ toServer \in Seq(ToServer) /\ ServerInv /\ socket \in BOOLEAN
      /\ <<>> \in Seq(ToClient)
  BY Types, Messages DEF Inv, Values, Flags
<1>1. CASE \E m \in {"s", "bad"} : SendS(m)
  <2>1. PICK m \in {"s", "bad"} : SendS(m)
    BY <1>1
  <2>2. m \in ToServer /\ toServer' = Append(toServer, m)
    BY <2>1 DEF SendS, ClientSends, ToServer
  <2>3. Has(toServer', {"s", "bad"})
    <3>1. \A ms : m \in ms => Has(toServer', ms)
      BY <1>0, <2>2, AppendFacts
    <3> QED
      BY <3>1
  <2>4. UNCHANGED <<socket, handler, engine>>
    BY <2>1 DEF SendS, ClientSends, closeVars, engineVars
  <2> QED
    BY <2>3, <2>4 DEF StartingInv
<1>2. CASE SendAudio \/ FinishAudio \/ Leave
  <2>1. UNCHANGED <<socket, handler, engine>> /\ client' # "SENDING_S"
    BY <1>2 DEF SendAudio, FinishAudio, ClientSends, Leave, HangUp, closeVars,
       engineVars
  <2> QED
    BY <2>1 DEF StartingInv
<1>3. CASE ClientReceives
  <2>1. UNCHANGED <<socket, handler, engine>> /\ client' = Reaction(Head(toClient))
    BY <1>3 DEF ClientReceives, HangUp, engineVars
  <2>2. client' = "SENDING_S" => client = "SENDING_S" /\ Head(toClient) # "close"
    BY <2>1 DEF Reaction
  <2>3. client' = "SENDING_S" => toServer' = toServer
    BY <1>3, <2>1, <2>2 DEF ClientReceives
  <2> QED
    BY <2>1, <2>2, <2>3 DEF StartingInv
<1>4. CASE RecvS
  <2>1. /\ socket' = socket /\ handler' \in {"engine", "error"}
        /\ handler' = "engine" => engine' = "starting"
    BY <1>4 DEF RecvS
  <2> QED
    BY <2>1 DEF StartingInv
<1>5. CASE EngineStarts \/ EngineStartsClosed \/ CountedSuccess
  <2>1. socket' = socket /\ handler' \in {"success", "error", "done"}
    BY <1>5 DEF EngineStarts, EngineStartsClosed, Answer, Refuse, CountedSuccess
  <2> QED
    BY <2>1 DEF StartingInv
<1>6. CASE CountedError \/ RecvData
  <2>1. socket' = FALSE \/ socket' = socket
    BY <1>6, ClosingSays DEF Closing
  <2>2. handler' = "done"
    BY <1>0, <1>6 DEF CountedError, RecvData, ServerInv
  <2> QED
    BY <2>1, <2>2 DEF StartingInv
<1>7. CASE \/ \E c \in ManagerCall : SessionClose(c)
           \/ EngineClosed
  <2>1. UNCHANGED <<client, handler, toServer>>
    BY <1>7 DEF SessionClose, EngineClosed, clientVars
  <2>2. CASE socket' = FALSE
    BY <2>2 DEF StartingInv
  <2>3. CASE socket' # FALSE
    <3>1. socket' = socket
      BY <1>7, <2>3, ClosingSays DEF Closing
    <3>2. handler = "engine" => engine' = engine
      <4>1. CASE EngineClosed
        BY <1>0, <4>1 DEF EngineClosed, ServerInv
      <4>2. ASSUME NEW c \in ManagerCall, SessionClose(c)
            PROVE  engine' = engine
        <5>1. CloseServer(c, closes, status, <<>>) \/ UNCHANGED engineVars
          BY <4>2 DEF SessionClose
        <5> QED
          BY <1>0, <2>3, <5>1, CloseServerSays DEF engineVars
      <4> QED
        BY <1>7, <4>1, <4>2
    <3> QED
      BY <2>1, <3>1, <3>2 DEF StartingInv
  <2> QED
    BY <2>2, <2>3
<1>8. CASE Ignore \/ RecvClose
  <2>1. /\ UNCHANGED <<client, socket, handler, engine>>
        /\ toServer # <<>> /\ toServer' = Tail(toServer)
        /\ Head(toServer) \in {"s", "bad"} => status # "OPENED"
    BY <1>8 DEF Ignore, RecvClose, clientVars, closeVars, engineVars
  <2>2. Has(toServer, {"s", "bad"}) /\ status = "OPENED" => Has(toServer', {"s", "bad"})
    BY <1>0, <2>1, TailFacts
  <2>3. socket /\ handler = "idle" => status = "OPENED"
    BY <1>0 DEF ServerInv
  <2> QED
    BY <2>1, <2>2, <2>3 DEF StartingInv
<1>9. CASE \/ Open \/ Register \/ TimerFires \/ Analyzed \/ EngineError
           \/ UNCHANGED allVars
  <2>1. UNCHANGED <<client, socket, handler, engine, toServer>>
    BY <1>9 DEF Open, Register, TimerFires, Analyzed, EngineError, clientVars,
       closeVars, engineVars, allVars, vars
  <2> QED
    BY <2>1 DEF StartingInv
<1> QED
  BY <1>1, <1>2, <1>3, <1>4, <1>5, <1>6, <1>7, <1>8, <1>9 DEF Next

\* closeSession marks its call, if the session is in the table.
LEMMA Marks ==
  ASSUME Values, NEW c \in ManagerCall, closes' = CloseSession(c)
  PROVE  IF table THEN closes'[c] = "redis" ELSE closes' = closes
<1>1. c \in Caller
  BY ManagerCalls
<1> QED
  BY <1>1 DEF CloseSession, Values

LEMMA WayOutNext ==
  ASSUME Inv, CallsInv, LastWordInv, WayOut, [Next]_allVars,
         "late" \notin faults, ~hungUp, socket, socket'
  PROVE  WayOut'
<1>0. /\ Values /\ ServerInv
      /\ closes \in [Caller -> {"idle", "redis", "waiting", "done"}]
      /\ waiter \in {"none", "itself"} \cup Caller
      /\ \A c \in ManagerCall : c \in Caller
      /\ "itself" \notin Caller /\ "none" \notin Caller
      /\ <<>> \in Seq(ToClient) /\ <<"s error">> \in Seq(ToClient)
  BY Types, ManagerCalls, Messages DEF Inv, Values, Caller, ManagerCall
<1>1. CASE Open
  <2>1. UNCHANGED <<timer, closes, waiter>> /\ start = "redis" /\ table' = TRUE
    BY <1>1 DEF Open, closeVars, engineVars
  <2> QED
    BY <2>1 DEF WayOut
<1>2. CASE Register
  <2>1. UNCHANGED <<table, waiter>> /\ start = "register" /\ start' # "redis"
    BY <1>2 DEF Register, engineVars
  <2>2. CASE start' = "served"
    <3>1. UNCHANGED <<timer, closes>>
      BY <1>2, <2>2 DEF Register
    <3> QED
      BY <2>1, <3>1 DEF WayOut
  <2>3. CASE start' # "served"
    <3>1. closes' = CloseSession("failed") /\ timer' = (timer /\ ~table)
          /\ waiter # "itself" /\ "failed" \in ManagerCall
      BY <1>2, <2>3 DEF Register, ManagerCall
    <3>2. IF table THEN closes'["failed"] = "redis" ELSE closes' = closes
      BY <1>0, <3>1, Marks
    <3> QED
      BY <2>1, <3>1, <3>2 DEF WayOut
  <2> QED
    BY <2>2, <2>3
<1>3. CASE TimerFires
  <2>1. /\ UNCHANGED <<table, waiter, start>> /\ table /\ waiter # "itself"
        /\ closes' = CloseSession("timer") /\ "timer" \in ManagerCall
    BY <1>3 DEF TimerFires, Timeout, engineVars, ManagerCall
  <2>2. closes'["timer"] = "redis"
    BY <1>0, <2>1, Marks
  <2> QED
    BY <2>1, <2>2 DEF WayOut
<1>4. CASE RecvClose
  <2>1. toServer # <<>> /\ Head(toServer) = "close" /\ toServer \in Seq(ToServer)
    BY <1>0, <1>4 DEF RecvClose, Values
  <2>2. Has(toServer, {"close"})
    BY <2>1, TailFacts
  <2> QED
    BY <2>2 DEF LastWordInv
<1>5. CASE CountedError
  <2>1. \E calls : CloseServer("s", calls, status, <<"s error">>)
    BY <1>5 DEF CountedError
  <2>2. engine = "used"
    BY <1>0, <2>1, CloseServerSays
  <2> QED
    BY <1>0, <1>5, <2>2 DEF CountedError, ServerInv
<1>6. CASE RecvData
  <2>1. UNCHANGED <<timer, table, start>>
    BY <1>6 DEF RecvData, managerVars
  <2>2. CASE UNCHANGED <<closes, waiter>>
    BY <2>1, <2>2 DEF WayOut
  <2>3. CASE CloseServer("e", closes, "RECV_E", <<>>)
    <3>1. /\ closes' = [closes EXCEPT !["e"] = "waiting"]
          /\ waiter' = IF waiter = "none" THEN "e" ELSE waiter
      BY <1>0, <2>3, CloseServerSays
    <3>2. \A c \in ManagerCall : closes'[c] = closes[c]
      BY <1>0, <3>1 DEF ManagerCall
    <3>3. "e" \in Caller
      BY DEF Caller
    <3> QED
      BY <1>0, <2>1, <3>1, <3>2, <3>3 DEF WayOut
  <2> QED
    BY <1>6, <2>2, <2>3 DEF RecvData
<1>7. ASSUME NEW c \in ManagerCall, SessionClose(c)
      PROVE  WayOut'
  <2>1. CloseServer(c, closes, status, <<>>)
    BY <1>0, <1>7 DEF SessionClose, CallsInv
  <2>2. waiter' = IF waiter = "none" THEN c ELSE waiter
    BY <1>0, <2>1, CloseServerSays
  <2>3. waiter # "itself"
    BY <1>7 DEF SessionClose, WayOut
  <2>4. waiter' \in Caller
    BY <1>0, <2>2, <2>3
  <2> QED
    BY <1>0, <2>4 DEF WayOut
<1>8. CASE EngineError
  <2>1. UNCHANGED <<timer, table, start, closes>> /\ waiter = "none"
        /\ \A c \in ManagerCall : closes[c] = "idle"
    BY <1>8 DEF EngineError, managerVars
  <2> QED
    BY <1>0, <2>1 DEF WayOut
<1>9. CASE EngineClosed
  <2>1. UNCHANGED <<timer, table, start, closes>> /\ waiter = "itself"
    BY <1>9 DEF EngineClosed, Finish, managerVars
  <2> QED
    BY <1>0, <2>1 DEF WayOut, EngineClosed
<1>10. CASE CountedSuccess
  <2>1. UNCHANGED <<timer, table, closes, waiter>> /\ (start = "redis" => start' = "redis")
    BY <1>10 DEF CountedSuccess, engineVars
  <2> QED
    BY <2>1 DEF WayOut
<1>11. CASE \/ \E m \in {"s", "bad"} : SendS(m)
            \/ SendAudio \/ FinishAudio \/ Leave \/ ClientReceives
            \/ RecvS \/ EngineStarts \/ EngineStartsClosed
            \/ Ignore \/ Analyzed \/ UNCHANGED allVars
  <2>1. UNCHANGED <<timer, table, start, closes, waiter>>
    BY <1>11 DEF SendS, SendAudio, FinishAudio, ClientSends, Leave, ClientReceives,
       RecvS, EngineStarts, EngineStartsClosed, Answer, Refuse, Ignore, Analyzed,
       closeVars, engineVars, managerVars, allVars, vars
  <2> QED
    BY <2>1 DEF WayOut
<1> QED
  BY <1>1, <1>2, <1>3, <1>4, <1>5, <1>6, <1>7, <1>8, <1>9, <1>10, <1>11 DEF Next

LEMMA TimeoutNext ==
  ASSUME Inv, CallsInv, LastWordInv, TimeoutInv, [Next]_allVars
  PROVE  TimeoutInv'
<1>1. start' = "redis" => start = "redis" /\ timer' = timer
  <2>a. timer' = (timer /\ ~table) => (start = "redis" => timer' = timer)
    BY Types DEF Inv, Flags, CallsInv
  <2>1. CASE Register \/ RecvClose \/ Open \/ TimerFires
    BY <2>1, <2>a DEF Register, RecvClose, Open, TimerFires, CallsInv
  <2>3. CASE CountedSuccess
    BY <2>3 DEF CountedSuccess
  <2>4. CASE CountedError
    <3>1. \/ UNCHANGED <<start, timer>>
          \/ start = "open" /\ start' = "failed"
          \/ start # "open" /\ start' = start /\ timer' = timer
      BY <2>4, Types DEF Inv, Flags, CountedError
    <3> QED
      BY <3>1
  <2>2. CASE \/ \E c \in ManagerCall : SessionClose(c)
             \/ EngineClosed \/ EngineError \/ RecvData
             \/ \E m \in {"s", "bad"} : SendS(m)
             \/ SendAudio \/ FinishAudio \/ Leave \/ ClientReceives
             \/ RecvS \/ EngineStarts \/ EngineStartsClosed
             \/ Ignore \/ Analyzed \/ UNCHANGED allVars
    BY <2>2 DEF SessionClose, EngineClosed, EngineError, RecvData, SendS, SendAudio,
       FinishAudio, ClientSends, Leave, ClientReceives, RecvS, EngineStarts,
       EngineStartsClosed, Answer, Refuse, Ignore, Analyzed, managerVars, allVars, vars
  <2> QED
    BY <2>1, <2>2, <2>3, <2>4 DEF Next
<1>2. ASSUME "late" \notin faults', ~hungUp', socket'
      PROVE  WayOut'
  <2>1. "late" \notin faults
    BY <1>2 DEF Next, allVars
  <2>2. ~hungUp
    <3>1. hungUp' = hungUp \/ hungUp' = TRUE
      BY DEF Next, SessionClose, EngineClosed, EngineError, RecvData, SendS,
         SendAudio,
         FinishAudio, ClientSends, Leave, HangUp, ClientReceives, RecvS, EngineStarts,
         EngineStartsClosed, Answer, Refuse, Ignore, Analyzed, Register, TimerFires,
         RecvClose, CountedError, Open, CountedSuccess, clientVars, allVars, vars
    <3> QED
      BY <1>2, <3>1
  <2>3. socket
    <3>1. socket' = socket \/ socket' = FALSE
      <4>1. CASE Closing
        BY <4>1, ClosingSays
      <4>2. CASE ~Closing
        BY <4>2 DEF Next, Closing, EngineError, SendS, SendAudio, FinishAudio,
           ClientSends, Leave, ClientReceives, RecvS, EngineStarts,
           EngineStartsClosed, Answer, Refuse, Ignore, Analyzed, Register, TimerFires,
           RecvClose, Open, CountedSuccess, closeVars, allVars, vars
      <4> QED
        BY <4>1, <4>2
    <3> QED
      BY <1>2, <3>1
  <2>4. WayOut
    BY <2>1, <2>2, <2>3 DEF TimeoutInv, WayOut
  <2> QED
    BY <1>2, <2>1, <2>2, <2>3, <2>4, WayOutNext
<1> QED
  BY <1>1, <1>2 DEF TimeoutInv, WayOut

\* What the invariant says of a client that waits.
LEMMA OwedNow ==
  ASSUME Inv, OwedInv
  PROVE  AnswersOwed
<1>0. /\ ServerInv /\ QueueInv /\ PeerInv /\ Values
      /\ hungUp \in BOOLEAN /\ toClient \in Seq(ToClient)
  BY Types DEF Inv, Flags, Values
<1>1. ASSUME client = "SENDING_S"
      PROVE  \/ socket /\ Has(toServer, {"s", "bad"})
             \/ socket /\ handler = "engine" /\ engine = "starting"
             \/ socket /\ handler = "error"
             \/ Has(toClient, {"s", "s error", "close"})
  <2>1. ~hungUp
    BY <1>0, <1>1 DEF QueueInv
  <2>2. CASE ~socket
    <3>1. Has(toClient, {"close"})
      BY <2>1, <2>2 DEF OwedInv, LastWordInv
    <3> QED
      BY <3>1 DEF Has
  <2>3. CASE socket /\ handler \in {"success", "done"}
    <3>1. toClient # <<>> /\ Head(toClient) = "s"
      BY <1>0, <1>1, <2>1, <2>3 DEF PeerInv
    <3>2. 1 \in 1 .. Len(toClient) /\ toClient[1] = "s"
      BY <1>0, <3>1
    <3>3. Has(toClient, {"s", "s error", "close"})
      BY <3>2 DEF Has
    <3> QED
      BY <3>3
  <2>4. CASE socket /\ handler \in {"idle", "engine", "error"}
    BY <1>1, <2>4 DEF OwedInv, StartingInv
  <2> QED
    BY <1>0, <2>2, <2>3, <2>4 DEF Values
<1>2. ASSUME client = "SENDING_E", "late" \notin faults
      PROVE  \/ timer /\ (table \/ start = "redis")
             \/ \E c \in ManagerCall : closes[c] = "redis"
             \/ waiter \in Caller
             \/ Has(toClient, {"close"})
  <2>1. ~hungUp
    BY <1>0, <1>2 DEF QueueInv
  <2> QED
    BY <1>2, <2>1 DEF OwedInv, LastWordInv, TimeoutInv, WayOut
<1> QED
  BY <1>1, <1>2 DEF AnswersOwed

\* A client that waits for the answer to s or e does not wait for nothing,
\* whatever is refused, whoever closes, and however slow the start is: there
\* is always something pending that ends its wait.
THEOREM NobodyForgotten == Spec => []AnswersOwed
<1>1. Init => OwedInv /\ CallsInv
  <2>1. ASSUME Init PROVE OwedInv
    <3>1. LastWordInv
      BY <2>1, EmptyFacts DEF Init, LastWordInv
    <3>2. StartingInv
      BY <2>1 DEF Init, StartingInv
    <3>3. TimeoutInv
      BY <2>1 DEF Init, TimeoutInv, WayOut
    <3> QED
      BY <3>1, <3>2, <3>3 DEF OwedInv
  <2> QED
    BY <2>1, OwnerInit
<1>2. Inv /\ CallsInv /\ OwedInv /\ [Next]_allVars => CallsInv' /\ OwedInv'
  BY CallsNext, LastWordNext, StartingNext, TimeoutNext DEF OwedInv
<1> QED
  BY <1>1, <1>2, OwedNow, Invariant, PTL DEF Spec

=============================================================================
