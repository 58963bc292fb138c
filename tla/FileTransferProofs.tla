-------------------------- MODULE FileTransferProofs --------------------------
(***************************************************************************)
(* Proofs about the cluster and the transfer of files, for every number of *)
(* workers, signals, crashes, uploads and downloads.                       *)
(*                                                                         *)
(* ClusterInv says what a master that is not shutting down has done: it    *)
(* has told no worker to end, and has room for whoever replaces the dead.  *)
(* FileInv relates where an upload and a download are to where the result  *)
(* is: a result is stored before its key is known, downloads are of known  *)
(* keys only, and a result that was taken is not stored again.             *)
(* CalmInv, about the shutdown: a worker is told to end before it may be   *)
(* told to disconnect, which alone would let it outlive the master.        *)
(* UploadInv: an upload that is done was answered, one that was lost had a *)
(* worker that is gone.                                                    *)
(***************************************************************************)
EXTENDS FileTransfer, FiniteSetTheorems, TLAPS

\* The ids that are given away.
Forks ==
  /\ \A w \in Worker : proc[w] = "unused" <=> w >= nextId
  /\ master = "starting" =>
       /\ nextId = 1 /\ workers = {} /\ exits = {}
       /\ forked = {} /\ channelEnds = {} /\ kills = {}

\* Until the shutdown no worker is told to end, and exits are crashes, for
\* which there are ids.
Undisturbed ==
  ~terminating =>
    /\ timers = {} /\ kills = {}
    /\ \A w \in Worker :
         /\ inbox[w] \in Seq({"index"})
         /\ proc[w] \notin {"draining", "detached"}
    /\ master = "up" => nextId + Cardinality(exits) <= MaxForks + 1

\* The one worker of each index.
AtPost(w, i) == index[w] = i /\ (Alive(w) \/ w \in exits)

Posted ==
  (master = "up" /\ ~terminating) =>
    \A i \in Index : \E w \in Worker : \A v \in Worker : AtPost(v, i) <=> v = w

ClusterInv == ClusterTypeOK /\ Forks /\ Undisturbed /\ Posted

FileInv ==
  /\ \A u \in Upload :
       /\ upload[u] \in {"idle", "analyze", "store", "error"} => ~Stored(u)
       /\ upload[u] = "stored" /\ "expire" \notin faults => Stored(u)
       /\ answer[u] = "key" => upload[u] \in {"count", "done", "lost"}
  /\ \A d \in Download :
       /\ download[d] \in {"idle", "exec"} => result[d] = "none"
       /\ download[d] # "idle" => answer[key[d]] = "key"
  /\ ResultInOnePlace

Inv == ClusterInv /\ FileTypeOK /\ FileInv

-----------------------------------------------------------------------------
(***************************************************************************)
(* The cluster.                                                            *)
(***************************************************************************)
LEMMA WorkersFinite ==
  ASSUME NEW S \in SUBSET Worker
  PROVE  IsFiniteSet(S) /\ Cardinality(S) \in Nat
<1>1. IsFiniteSet(Worker)
  BY FS_Interval, ClusterAssumption DEF Worker
<1>. QED
  BY <1>1, FS_Subset, FS_CardinalityType

LEMMA WorkersNat ==
  /\ MaxSignals \in Nat
  /\ Workers \in Nat /\ MaxForks \in Nat /\ 0 < Workers /\ Workers <= MaxForks
BY ClusterAssumption

\* What is sent is one more message in some inboxes.
LEMMA SendTyped ==
  ASSUME NEW M, inbox \in [Worker -> Seq(M)], NEW m \in M, NEW ws, Send(ws, m)
  PROVE  inbox' \in [Worker -> Seq(M)]
<1>1. \A w \in Worker : inbox[w] \in Seq(M)
  OBVIOUS
<1>2. \A w \in Worker : Append(inbox[w], m) \in Seq(M)
  BY <1>1
<1>. QED
  BY <1>1, <1>2 DEF Send

\* Whoever replaces a dead worker has an id of its own.
LEMMA RoomToFork ==
  ASSUME ClusterTypeOK, Forks, Undisturbed, master = "up", ~terminating,
         NEW w \in exits
  PROVE  /\ nextId \in Worker /\ proc[nextId] = "unused"
         /\ nextId + Cardinality(exits \ {w}) <= MaxForks
<1>1. exits \in SUBSET Worker
  BY DEF ClusterTypeOK
<1>2. IsFiniteSet(exits) /\ Cardinality(exits) \in Nat
  BY <1>1, WorkersFinite
<1>3. Cardinality(exits \ {w}) = Cardinality(exits) - 1
  BY <1>2, FS_RemoveElement
<1>4. Cardinality(exits \ {w}) \in Nat
  BY <1>1, WorkersFinite
<1>5. nextId + Cardinality(exits) <= MaxForks + 1 /\ nextId \in 1 .. MaxForks + 1
  BY DEF Undisturbed, ClusterTypeOK
<1>6. nextId \in Worker
  BY <1>2, <1>3, <1>4, <1>5, WorkersNat DEF Worker
<1>. QED
  BY <1>2, <1>3, <1>4, <1>5, <1>6, WorkersNat DEF Forks, Worker

LEMMA ExitTyped ==
  ASSUME ClusterTypeOK, NEW w \in Worker, Alive(w), Exit(w), faults' = faults
  PROVE  ClusterTypeOK'
<1>. USE DEF ClusterTypeOK, Exit, Alive, shutdownVars, forkVars
<1>1. proc' \in [Worker -> {"unused", "forked", "booting", "serving", "draining",
                            "detached", "gone"}]
  OBVIOUS
<1>2. inbox' \in [Worker -> Seq({"index", "softkill", "close", "disconnect"})]
  OBVIOUS
<1>3. channelEnds' \subseteq channelEnds \cup {w}
  OBVIOUS
<1>4. exits' \subseteq {v \in Worker : proc'[v] = "gone"}
  OBVIOUS
<1>5. channelEnds' \subseteq {v \in Worker : proc'[v] \in {"detached", "gone"}}
  BY <1>3
<1>6. workers' \subseteq {v \in Worker : proc'[v] # "unused"}
  OBVIOUS
<1>. QED
  BY <1>1, <1>2, <1>4, <1>5, <1>6

LEMMA ClusterTypeStep ==
  ASSUME ClusterTypeOK, Forks, Undisturbed, ClusterStep, faults' = faults
  PROVE  ClusterTypeOK'
<1>. USE WorkersNat DEF ClusterTypeOK, Worker, Index, shutdownVars, forkVars,
     eventVars
<1>1. CASE MasterStarts
  <2>1. /\ proc' = [w \in Worker |-> IF w <= Workers THEN "forked" ELSE "unused"]
        /\ workers' = 1 .. Workers /\ exits' = {} /\ channelEnds' = {}
    BY <1>1 DEF MasterStarts, Forks
  <2>2. workers' \subseteq {w \in Worker : proc'[w] # "unused"}
    BY <2>1
  <2>. QED
    BY <1>1, <2>1, <2>2 DEF MasterStarts
<1>2. ASSUME NEW w \in Worker, WorkerStarts(w) PROVE ClusterTypeOK'
  BY <1>2 DEF WorkerStarts
<1>3. ASSUME NEW w \in Worker, RecvForked(w) PROVE ClusterTypeOK'
  <2>1. inbox' \in [Worker -> Seq({"index", "softkill", "close", "disconnect"})]
    BY <1>3, SendTyped DEF RecvForked
  <2>. QED
    BY <1>3, <2>1 DEF RecvForked
<1>4. ASSUME NEW w \in Worker, RecvIndex(w) PROVE ClusterTypeOK'
  <2>1. /\ proc' \in [Worker -> {"unused", "forked", "booting", "serving",
                                 "draining", "detached", "gone"}]
        /\ workers' \subseteq {v \in Worker : proc'[v] # "unused"}
        /\ exits' \subseteq {v \in Worker : proc'[v] = "gone"}
        /\ channelEnds' \subseteq {v \in Worker : proc'[v] \in {"detached", "gone"}}
    BY <1>4 DEF RecvIndex, Receives
  <2>2. inbox' \in [Worker -> Seq({"index", "softkill", "close", "disconnect"})]
    BY <1>4 DEF RecvIndex, Receives
  <2>. QED
    BY <1>4, <2>1, <2>2 DEF RecvIndex
<1>5. ASSUME NEW w \in Worker, RecvClose(w) PROVE ClusterTypeOK'
  BY <1>5, ExitTyped DEF RecvClose, Receives, Alive
<1>6. ASSUME NEW w \in Worker, RecvDisconnect(w) PROVE ClusterTypeOK'
  <2>1. /\ proc' \in [Worker -> {"unused", "forked", "booting", "serving",
                                 "draining", "detached", "gone"}]
        /\ workers' \subseteq {v \in Worker : proc'[v] # "unused"}
        /\ exits' \subseteq {v \in Worker : proc'[v] = "gone"}
        /\ channelEnds' \subseteq {v \in Worker : proc'[v] \in {"detached", "gone"}}
    BY <1>6 DEF RecvDisconnect, Receives
  <2>2. inbox' \in [Worker -> Seq({"index", "softkill", "close", "disconnect"})]
    BY <1>6 DEF RecvDisconnect, Receives
  <2>. QED
    BY <1>6, <2>1, <2>2 DEF RecvDisconnect
<1>7. ASSUME NEW w \in Worker, Drained(w) PROVE ClusterTypeOK'
  <2>1. /\ proc' \in [Worker -> {"unused", "forked", "booting", "serving",
                                 "draining", "detached", "gone"}]
        /\ workers' \subseteq {v \in Worker : proc'[v] # "unused"}
        /\ exits' \subseteq {v \in Worker : proc'[v] = "gone"}
        /\ channelEnds' \subseteq {v \in Worker : proc'[v] \in {"detached", "gone"}}
    BY <1>7 DEF Drained
  <2>2. inbox' \in [Worker -> Seq({"index", "softkill", "close", "disconnect"})]
    BY <1>7 DEF Drained
  <2>. QED
    BY <1>7, <2>1, <2>2 DEF Drained
<1>8. ASSUME NEW w \in Worker, MasterLost(w) PROVE ClusterTypeOK'
  BY <1>8, ExitTyped DEF MasterLost, Alive
<1>9. ASSUME NEW w \in Worker, Crash(w) PROVE ClusterTypeOK'
  BY <1>9, ExitTyped DEF Crash
<1>10. ASSUME NEW w \in Worker, RecvExit(w) PROVE ClusterTypeOK'
  <2>1. CASE Replace(w)
    <3>1. nextId \in Worker /\ proc[nextId] = "unused"
      BY <1>10, <2>1, RoomToFork DEF RecvExit, Replace
    <3>2. /\ workers' \subseteq {v \in Worker : proc'[v] # "unused"}
          /\ exits' \subseteq {v \in Worker : proc'[v] = "gone"}
          /\ channelEnds' \subseteq {v \in Worker : proc'[v] \in {"detached", "gone"}}
      BY <1>10, <2>1, <3>1 DEF RecvExit
    <3>3. nextId' \in 1 .. MaxForks + 1
      BY <1>10, <2>1, <3>1 DEF RecvExit
    <3>4. index' = [index EXCEPT ![nextId] = index[w]] /\ index[w] \in Index
      BY <1>10, <2>1 DEF RecvExit, IndexKept
    <3>. QED
      BY <1>10, <2>1, <3>1, <3>2, <3>3, <3>4 DEF RecvExit
  <2>2. CASE ~Replace(w)
    BY <1>10, <2>2 DEF RecvExit, MasterExit
  <2>. QED
    BY <2>1, <2>2
<1>11. ASSUME NEW w \in Worker, ChannelEnds(w) PROVE ClusterTypeOK'
  BY <1>11 DEF ChannelEnds
<1>12. CASE Sighup
  <2>1. inbox' \in [Worker -> Seq({"index", "softkill", "close", "disconnect"})]
    BY <1>12, SendTyped DEF Sighup
  <2>2. signals' \in 0 .. MaxSignals
    BY <1>12 DEF Sighup, Signalled
  <2>3. CASE workers = {}
    BY <1>12, <2>1, <2>2, <2>3 DEF Sighup, MasterExit
  <2>4. CASE workers # {}
    BY <1>12, <2>1, <2>2, <2>4 DEF Sighup
  <2>. QED
    BY <2>3, <2>4
<1>13. CASE Sigint
  <2>1. inbox' \in [Worker -> Seq({"index", "softkill", "close", "disconnect"})]
    BY <1>13, SendTyped DEF Sigint
  <2>2. signals' \in 0 .. MaxSignals
    BY <1>13 DEF Sigint, Signalled
  <2>3. timers' \subseteq {"force", "kill", "exit"} /\ terminating'
    BY <1>13 DEF Sigint
  <2>. QED
    BY <1>13, <2>1, <2>2, <2>3 DEF Sigint
<1>14. CASE ForceShutdown
  <2>1. inbox' \in [Worker -> Seq({"index", "softkill", "close", "disconnect"})]
    BY <1>14, SendTyped DEF ForceShutdown
  <2>. QED
    BY <1>14, <2>1 DEF ForceShutdown
<1>15. CASE KillWorkers
  <2>1. inbox' \in [Worker -> Seq({"index", "softkill", "close", "disconnect"})]
    BY <1>15, SendTyped DEF KillWorkers
  <2>. QED
    BY <1>15, <2>1 DEF KillWorkers, ExitArmed
<1>16. CASE ExitTimer
  BY <1>16 DEF ExitTimer, MasterExit
<1>. QED
  BY <1>1, <1>2, <1>3, <1>4, <1>5, <1>6, <1>7, <1>8, <1>9, <1>10, <1>11, <1>12,
     <1>13, <1>14, <1>15, <1>16 DEF ClusterStep

LEMMA ForksStep ==
  ASSUME ClusterTypeOK, Forks, Undisturbed, ClusterStep, faults' = faults
  PROVE  Forks'
<1>. USE WorkersNat DEF ClusterTypeOK, Forks, Worker, Index, shutdownVars,
     forkVars, eventVars
<1>1. CASE MasterStarts
  BY <1>1 DEF MasterStarts
<1>2. ASSUME NEW w \in Worker, WorkerStarts(w) PROVE Forks'
  BY <1>2 DEF WorkerStarts
<1>3. ASSUME NEW w \in Worker, RecvForked(w) PROVE Forks'
  BY <1>3 DEF RecvForked, Send, Connected, Alive
<1>4. ASSUME NEW w \in Worker, RecvIndex(w) PROVE Forks'
  BY <1>4 DEF RecvIndex, Receives
<1>5. ASSUME NEW w \in Worker, RecvClose(w) PROVE Forks'
  BY <1>5 DEF RecvClose, Receives, Exit, Connected, Alive
<1>6. ASSUME NEW w \in Worker, RecvDisconnect(w) PROVE Forks'
  BY <1>6 DEF RecvDisconnect, Receives
<1>7. ASSUME NEW w \in Worker, Drained(w) PROVE Forks'
  BY <1>7 DEF Drained
<1>8. ASSUME NEW w \in Worker, MasterLost(w) PROVE Forks'
  BY <1>8 DEF MasterLost, Exit, Connected, Alive
<1>9. ASSUME NEW w \in Worker, Crash(w) PROVE Forks'
  BY <1>9 DEF Crash, Exit, Connected, Alive
<1>10. ASSUME NEW w \in Worker, RecvExit(w) PROVE Forks'
  <2>1. master' # "starting"
    BY <1>10 DEF RecvExit, MasterExit
  <2>2. CASE Replace(w)
    <3>1. nextId \in Worker
      BY <1>10, <2>2, RoomToFork DEF RecvExit, Replace
    <3>2. proc' = [proc EXCEPT ![nextId] = "forked"] /\ nextId' = nextId + 1
      BY <1>10, <2>2 DEF RecvExit
    <3>. QED
      BY <2>1, <3>1, <3>2
  <2>3. CASE ~Replace(w)
    BY <1>10, <2>1, <2>3 DEF RecvExit
  <2>. QED
    BY <2>2, <2>3
<1>11. ASSUME NEW w \in Worker, ChannelEnds(w) PROVE Forks'
  BY <1>11 DEF ChannelEnds
<1>12. CASE Sighup
  BY <1>12 DEF Sighup, Signalled, MasterExit, Send, Connected, Alive
<1>13. CASE Sigint
  BY <1>13 DEF Sigint, Signalled, Send, Connected, Alive
<1>14. CASE ForceShutdown
  BY <1>14 DEF ForceShutdown, Send, Connected, Alive
<1>15. CASE KillWorkers
  BY <1>15 DEF KillWorkers, ExitArmed, Send, Connected, Alive
<1>16. CASE ExitTimer
  BY <1>16 DEF ExitTimer, MasterExit
<1>. QED
  BY <1>1, <1>2, <1>3, <1>4, <1>5, <1>6, <1>7, <1>8, <1>9, <1>10, <1>11, <1>12,
     <1>13, <1>14, <1>15, <1>16 DEF ClusterStep

LEMMA UndisturbedStep ==
  ASSUME ClusterTypeOK, Forks, Undisturbed, ClusterStep, faults' = faults
  PROVE  Undisturbed'
<1>. USE WorkersNat DEF ClusterTypeOK, Undisturbed, Worker, Index, shutdownVars,
     forkVars, eventVars
<1>1. CASE MasterStarts
  <2>1. exits' = {} /\ Cardinality(exits') = 0
    BY <1>1, FS_EmptySet DEF MasterStarts, Forks
  <2>2. nextId' + Cardinality(exits') <= MaxForks + 1
    BY <1>1, <2>1 DEF MasterStarts
  <2>3. \A w \in Worker : proc'[w] \in {"forked", "unused"}
    BY <1>1 DEF MasterStarts
  <2>. QED
    BY <1>1, <2>2, <2>3 DEF MasterStarts
<1>2. ASSUME NEW w \in Worker, WorkerStarts(w) PROVE Undisturbed'
  BY <1>2 DEF WorkerStarts
<1>3. ASSUME NEW w \in Worker, RecvForked(w) PROVE Undisturbed'
  BY <1>3 DEF RecvForked, Send, Connected, Alive
<1>4. ASSUME NEW w \in Worker, RecvIndex(w) PROVE Undisturbed'
  BY <1>4 DEF RecvIndex, Receives
<1>5. ASSUME NEW w \in Worker, RecvClose(w) PROVE Undisturbed'
  BY <1>5 DEF RecvClose, Receives, Exit, Connected, Alive
<1>6. ASSUME NEW w \in Worker, RecvDisconnect(w) PROVE Undisturbed'
  BY <1>6 DEF RecvDisconnect, Receives
<1>7. ASSUME NEW w \in Worker, Drained(w) PROVE Undisturbed'
  BY <1>7 DEF Drained
<1>8. ASSUME NEW w \in Worker, MasterLost(w) PROVE Undisturbed'
  BY <1>8 DEF MasterLost, Exit, Connected, Alive
<1>9. ASSUME NEW w \in Worker, Crash(w) PROVE Undisturbed'
  <2>1. exits \in SUBSET Worker
    BY DEF Worker
  <2>2. /\ Cardinality(exits) \in Nat
        /\ \/ Cardinality(exits \cup {w}) = Cardinality(exits)
           \/ Cardinality(exits \cup {w}) = Cardinality(exits) + 1
    BY <2>1, WorkersFinite, FS_AddElement
  <2>. QED
    <3>1. nextId' + Cardinality(exits') <= MaxForks + 1
      BY <1>9, <2>2 DEF Crash, Exit
    <3>2. /\ proc' = [proc EXCEPT ![w] = "gone"] /\ inbox' = [inbox EXCEPT ![w] = <<>>]
          /\ UNCHANGED <<master, terminating, timers, kills>>
      BY <1>9 DEF Crash, Exit
    <3>. QED
      BY <3>1, <3>2
<1>10. ASSUME NEW w \in Worker, RecvExit(w) PROVE Undisturbed'
  <2>1. CASE Replace(w)
    <3>1. nextId \in Worker /\ nextId + Cardinality(exits \ {w}) <= MaxForks
      BY <1>10, <2>1, RoomToFork DEF RecvExit, Replace
    <3>2. exits \ {w} \in SUBSET Worker
      BY DEF Worker
    <3>3. Cardinality(exits \ {w}) \in Nat
      BY <3>2, WorkersFinite
    <3>4. nextId' + Cardinality(exits') <= MaxForks + 1
      BY <1>10, <2>1, <3>1, <3>3 DEF RecvExit
    <3>5. \A v \in Worker : proc'[v] \in {proc[v], "forked"}
      BY <1>10, <2>1, <3>1 DEF RecvExit
    <3>. QED
      BY <1>10, <2>1, <3>4, <3>5 DEF RecvExit, Replace
  <2>2. CASE ~Replace(w)
    BY <1>10, <2>2 DEF RecvExit, Replace, MasterExit
  <2>. QED
    BY <2>1, <2>2
<1>11. ASSUME NEW w \in Worker, ChannelEnds(w) PROVE Undisturbed'
  BY <1>11 DEF ChannelEnds
<1>12. CASE Sighup
  BY <1>12 DEF Sighup, Signalled, MasterExit, Send, Connected, Alive
<1>13. CASE Sigint
  BY <1>13 DEF Sigint, Signalled, Send, Connected, Alive
<1>14. CASE ForceShutdown
  BY <1>14 DEF ForceShutdown, Send, Connected, Alive
<1>15. CASE KillWorkers
  BY <1>15 DEF KillWorkers, ExitArmed, Send, Connected, Alive
<1>16. CASE ExitTimer
  BY <1>16 DEF ExitTimer, MasterExit
<1>. QED
  BY <1>1, <1>2, <1>3, <1>4, <1>5, <1>6, <1>7, <1>8, <1>9, <1>10, <1>11, <1>12,
     <1>13, <1>14, <1>15, <1>16 DEF ClusterStep

LEMMA PostsKept ==
  ASSUME Posted, index' = index,
         master' = "up" /\ ~terminating' => master = "up" /\ ~terminating,
         \A v \in Worker : (Alive(v) \/ v \in exits)' <=> Alive(v) \/ v \in exits
  PROVE  Posted'
<1>1. \A i \in Index : \A v \in Worker : AtPost(v, i)' <=> AtPost(v, i)
  BY DEF AtPost
<1>. QED
  BY <1>1 DEF Posted

LEMMA PostedStep ==
  ASSUME ClusterTypeOK, Forks, Undisturbed, Posted, ClusterStep, faults' = faults
  PROVE  Posted'
<1>. USE WorkersNat DEF ClusterTypeOK, shutdownVars, forkVars, eventVars
<1>1. CASE MasterStarts
  <2>1. ASSUME NEW i \in Index
        PROVE  \E v \in Worker : \A u \in Worker : AtPost(u, i)' <=> u = v
    <3>1. i + 1 \in Worker /\ i + 1 <= Workers
      BY DEF Worker, Index
    <3>2. \A u \in Worker : AtPost(u, i)' <=> u = i + 1
      BY <1>1 DEF MasterStarts, Forks, AtPost, Alive, Worker, Index
    <3>. QED
      BY <3>1, <3>2
  <2>. QED
    BY <2>1 DEF Posted
<1>2. ASSUME NEW w \in Worker, WorkerStarts(w) PROVE Posted'
  BY <1>2, PostsKept DEF WorkerStarts, Alive
<1>3. ASSUME NEW w \in Worker, RecvForked(w) PROVE Posted'
  BY <1>3, PostsKept DEF RecvForked, Send, Connected, Alive
<1>4. ASSUME NEW w \in Worker, RecvIndex(w) PROVE Posted'
  BY <1>4, PostsKept DEF RecvIndex, Receives, Alive
<1>5. ASSUME NEW w \in Worker, RecvClose(w) PROVE Posted'
  <2>1. terminating
    BY <1>5 DEF RecvClose, Receives, Undisturbed
  <2>. QED
    BY <1>5, <2>1 DEF RecvClose, Exit, Posted
<1>6. ASSUME NEW w \in Worker, RecvDisconnect(w) PROVE Posted'
  BY <1>6, PostsKept DEF RecvDisconnect, Receives, Alive
<1>7. ASSUME NEW w \in Worker, Drained(w) PROVE Posted'
  BY <1>7, PostsKept DEF Drained, Alive
<1>8. ASSUME NEW w \in Worker, MasterLost(w) PROVE Posted'
  BY <1>8, PostsKept DEF MasterLost, Exit, Connected, Alive
<1>9. ASSUME NEW w \in Worker, Crash(w) PROVE Posted'
  BY <1>9, PostsKept DEF Crash, Exit, Connected, Alive
<1>10. ASSUME NEW w \in Worker, RecvExit(w) PROVE Posted'
  <2>1. CASE ~Replace(w)
    BY <1>10, <2>1 DEF RecvExit, Replace, Posted
  <2>2. CASE Replace(w)
    <3>1. /\ nextId \in Worker /\ proc[nextId] = "unused" /\ w \in exits
          /\ master = "up" /\ ~terminating
      BY <1>10, <2>2, RoomToFork DEF RecvExit, Replace
    <3>2. /\ proc' = [proc EXCEPT ![nextId] = "forked"]
          /\ index' = [index EXCEPT ![nextId] = index[w]]
          /\ exits' = exits \ {w}
      BY <1>10, <2>2 DEF RecvExit, IndexKept
    <3>3. ASSUME NEW i \in Index
          PROVE  \E v \in Worker : \A u \in Worker : AtPost(u, i)' <=> u = v
      <4>1. PICK v \in Worker : \A u \in Worker : AtPost(u, i) <=> u = v
        BY <3>1 DEF Posted
      <4>2. CASE v = w
        <5>1. \A u \in Worker : AtPost(u, i)' <=> u = nextId
          BY <3>1, <3>2, <4>1, <4>2 DEF AtPost, Alive
        <5>. QED
          BY <3>1, <5>1
      <4>3. CASE v # w
        <5>1. \A u \in Worker : AtPost(u, i)' <=> u = v
          BY <3>1, <3>2, <4>1, <4>3 DEF AtPost, Alive
        <5>. QED
          BY <5>1
      <4>. QED
        BY <4>2, <4>3
    <3>. QED
      BY <3>3 DEF Posted
  <2>. QED
    BY <2>1, <2>2
<1>11. ASSUME NEW w \in Worker, ChannelEnds(w) PROVE Posted'
  <2>1. CASE terminating
    BY <1>11, <2>1 DEF ChannelEnds, Posted
  <2>2. CASE ~terminating
    <3>1. UNCHANGED <<master, terminating, index, proc, exits>>
      BY <1>11, <2>2 DEF ChannelEnds, Undisturbed
    <3>. QED
      BY <3>1, PostsKept DEF Alive
  <2>. QED
    BY <2>1, <2>2
<1>12. CASE Sighup
  BY <1>12, PostsKept DEF Sighup, Signalled, MasterExit, Send, Connected, Alive
<1>13. CASE Sigint
  BY <1>13, PostsKept DEF Sigint, Signalled, Send, Connected, Alive
<1>14. CASE ForceShutdown
  BY <1>14, PostsKept DEF ForceShutdown, Send, Connected, Alive
<1>15. CASE KillWorkers
  BY <1>15, PostsKept DEF KillWorkers, ExitArmed, Send, Connected, Alive
<1>16. CASE ExitTimer
  BY <1>16, PostsKept DEF ExitTimer, MasterExit, Alive
<1>. QED
  BY <1>1, <1>2, <1>3, <1>4, <1>5, <1>6, <1>7, <1>8, <1>9, <1>10, <1>11, <1>12,
     <1>13, <1>14, <1>15, <1>16 DEF ClusterStep

LEMMA ClusterKept ==
  ASSUME ClusterInv, UNCHANGED clusterVars, faults' = faults
  PROVE  ClusterInv'
BY DEF ClusterInv, ClusterTypeOK, Forks, Undisturbed, Posted, AtPost, Alive,
       clusterVars, shutdownVars, forkVars, eventVars

LEMMA ClusterInvariant ==
  ASSUME ClusterInv, ClusterStep, faults' = faults
  PROVE  ClusterInv'
BY ClusterTypeStep, ForksStep, UndisturbedStep, PostedStep DEF ClusterInv

-----------------------------------------------------------------------------
(***************************************************************************)
(* The transfer of files.                                                  *)
(***************************************************************************)
LEMMA FileTypeStep ==
  ASSUME FileTypeOK, FileStep
  PROVE  FileTypeOK'
<1>. USE DEF FileTypeOK, Request, Result
<1>1. ASSUME NEW u \in Upload, NEW w \in Worker, ReceiveUpload(u, w) PROVE FileTypeOK'
  BY <1>1 DEF ReceiveUpload
<1>2. ASSUME NEW u \in Upload, Analyzed(u) PROVE FileTypeOK'
  BY <1>2 DEF Analyzed
<1>3. ASSUME NEW u \in Upload, Store(u) PROVE FileTypeOK'
  BY <1>3 DEF Store
<1>4. ASSUME NEW u \in Upload, AnswerKey(u) PROVE FileTypeOK'
  BY <1>4 DEF AnswerKey
<1>5. ASSUME NEW u \in Upload, FinishUpload(u) PROVE FileTypeOK'
  BY <1>5 DEF FinishUpload, Unlink
<1>6. ASSUME NEW u \in Upload, Expire(u) PROVE FileTypeOK'
  BY <1>6 DEF Expire
<1>7. ASSUME NEW u \in Upload, LoseUpload(u) PROVE FileTypeOK'
  BY <1>7 DEF LoseUpload
<1>8. ASSUME NEW d \in Download, NEW u \in Upload, NEW w \in Worker,
           ReceiveDownload(d, u, w)
     PROVE  FileTypeOK'
  BY <1>8 DEF ReceiveDownload
<1>9. ASSUME NEW d \in Download, Exec(d) PROVE FileTypeOK'
  BY <1>9 DEF Exec, Removed
<1>10. ASSUME NEW d \in Download, Reply(d) PROVE FileTypeOK'
  BY <1>10 DEF Reply
<1>11. ASSUME NEW d \in Download, LoseDownload(d) PROVE FileTypeOK'
  BY <1>11 DEF LoseDownload
<1>. QED
  BY <1>1, <1>2, <1>3, <1>4, <1>5, <1>6, <1>7, <1>8, <1>9, <1>10, <1>11 DEF FileStep

LEMMA FileInvStep ==
  ASSUME FileTypeOK, FileInv, FileStep, faults' = faults
  PROVE  FileInv'
<1>. USE DEF FileTypeOK, FileInv, ResultInOnePlace, Stored, Got, Result
<1>1. ASSUME NEW u \in Upload, NEW w \in Worker, ReceiveUpload(u, w) PROVE FileInv'
  BY <1>1 DEF ReceiveUpload
<1>2. ASSUME NEW u \in Upload, Analyzed(u) PROVE FileInv'
  BY <1>2 DEF Analyzed
<1>3. ASSUME NEW u \in Upload, Store(u) PROVE FileInv'
  BY <1>3 DEF Store
<1>4. ASSUME NEW u \in Upload, AnswerKey(u) PROVE FileInv'
  BY <1>4 DEF AnswerKey
<1>5. ASSUME NEW u \in Upload, FinishUpload(u) PROVE FileInv'
  BY <1>5 DEF FinishUpload, Unlink
<1>6. ASSUME NEW u \in Upload, Expire(u) PROVE FileInv'
  BY <1>6 DEF Expire
<1>7. ASSUME NEW u \in Upload, LoseUpload(u) PROVE FileInv'
  BY <1>7 DEF LoseUpload
<1>8. ASSUME NEW d \in Download, NEW u \in Upload, NEW w \in Worker,
           ReceiveDownload(d, u, w)
     PROVE  FileInv'
  BY <1>8 DEF ReceiveDownload
<1>9. ASSUME NEW d \in Download, Exec(d) PROVE FileInv'
  BY <1>9 DEF Exec, Removed
<1>10. ASSUME NEW d \in Download, Reply(d) PROVE FileInv'
  BY <1>10 DEF Reply
<1>11. ASSUME NEW d \in Download, LoseDownload(d) PROVE FileInv'
  BY <1>11 DEF LoseDownload
<1>. QED
  BY <1>1, <1>2, <1>3, <1>4, <1>5, <1>6, <1>7, <1>8, <1>9, <1>10, <1>11 DEF FileStep

THEOREM Invariant == Spec => []Inv
<1>. USE DEF Inv
<1>1. Init => Inv
  <2>. SUFFICES ASSUME Init PROVE Inv
    OBVIOUS
  <2>. USE DEF Init, ClusterInit
  <2>1. ClusterTypeOK
    <3>1. inbox \in [Worker -> Seq({"index", "softkill", "close", "disconnect"})]
      OBVIOUS
    <3>2. index \in [Worker -> Index] /\ nextId \in 1 .. MaxForks + 1
      BY WorkersNat DEF Index
    <3>3. signals \in 0 .. MaxSignals
      BY WorkersNat
    <3>. QED
      BY <3>1, <3>2, <3>3 DEF ClusterTypeOK
  <2>2. Forks /\ Undisturbed /\ Posted
    BY WorkersNat DEF Forks, Undisturbed, Posted, Worker
  <2>3. (CHOOSE u \in Upload : TRUE) \in Upload
    BY FileAssumption
  <2>4. FileTypeOK
    BY <2>3, WorkersNat DEF FileTypeOK, Request, Result, Worker
  <2>5. FileInv
    BY DEF FileInv, ResultInOnePlace, Stored, Got
  <2>. QED
    BY <2>1, <2>2, <2>4, <2>5 DEF ClusterInv
<1>2. Inv /\ [Next]_allVars => Inv'
  <2>. SUFFICES ASSUME Inv, [Next]_allVars PROVE Inv'
    OBVIOUS
  <2>1. CASE ClusterStep /\ UNCHANGED fileVars /\ UNCHANGED faults
    <3>1. ClusterInv'
      BY <2>1, ClusterInvariant
    <3>2. FileTypeOK' /\ FileInv'
      BY <2>1 DEF fileVars, FileTypeOK, FileInv, ResultInOnePlace, Stored, Got
    <3>. QED
      BY <3>1, <3>2
  <2>2. CASE FileStep /\ UNCHANGED clusterVars /\ UNCHANGED faults
    <3>1. ClusterInv'
      BY <2>2, ClusterKept
    <3>2. FileTypeOK' /\ FileInv'
      BY <2>2, FileTypeStep, FileInvStep
    <3>. QED
      BY <3>1, <3>2
  <2>3. CASE UNCHANGED allVars
    <3>1. ClusterInv'
      BY <2>3, ClusterKept DEF allVars, vars
    <3>2. FileTypeOK' /\ FileInv'
      BY <2>3 DEF allVars, vars, fileVars, FileTypeOK, FileInv, ResultInOnePlace,
                  Stored, Got
    <3>. QED
      BY <3>1, <3>2
  <2>. QED
    BY <2>1, <2>2, <2>3 DEF Next
<1>. QED
  BY <1>1, <1>2, PTL DEF Spec

\* Every variable keeps its type, whatever fails.
THEOREM TypeCorrect == Spec => []TypeOK
<1>1. Inv => TypeOK
  BY DEF Inv, ClusterInv, TypeOK
<1>. QED
  BY <1>1, Invariant, PTL

\* Until the shutdown every index has one worker, however many workers there
\* are and however many of them die.
THEOREM PostsFilled == Spec => []OneWorkerPerIndex
<1>1. Inv => OneWorkerPerIndex
  <2>. SUFFICES ASSUME ClusterInv, master = "up", ~terminating, NEW i \in Index
                PROVE  Cardinality(Posts(i)) = 1
    BY DEF Inv, OneWorkerPerIndex
  <2>1. PICK w \in Worker : \A v \in Worker : AtPost(v, i) <=> v = w
    BY DEF ClusterInv, Posted
  <2>2. Posts(i) = {w}
    BY <2>1 DEF Posts, AtPost
  <2>. QED
    BY <2>2, FS_Singleton
<1>. QED
  BY <1>1, Invariant, PTL

\* However many downloads of a result overlap and whatever workers die, the
\* result is in one place at most.
THEOREM ResultOnce == Spec => []ResultInOnePlace
<1>1. Inv => ResultInOnePlace
  BY DEF Inv, FileInv
<1>. QED
  BY <1>1, Invariant, PTL

-----------------------------------------------------------------------------
(***************************************************************************)
(* The shutdown, as far as it can be said without liveness: the safe half  *)
(* of ShutdownEnds.                                                        *)
(***************************************************************************)

\* A master that was told to end has a timer that goes on with it, whatever the
\* workers do.  Every worker is told to close before it is told to disconnect,
\* so none is left that only drains, which the end of the master does not end.
ShutdownGoesOn ==
  /\ terminating /\ master # "gone" => timers # {}
  /\ "early" \notin faults => \A w \in Worker : proc[w] \notin {"draining", "detached"}

Ending == {"softkill", "close"}

Told(queue) == \E i \in 1 .. Len(queue) : queue[i] \in Ending

ToldFirst(queue) ==
  \A j \in 1 .. Len(queue) :
    queue[j] = "disconnect" => \E i \in 1 .. Len(queue) : i < j /\ queue[i] \in Ending

\* Once workers may be told to disconnect, each has been told to end.
CalmInv ==
  /\ terminating => master # "starting"
  /\ timers # {} => master = "up"
  /\ \A w \in Worker :
       /\ proc[w] \notin {"draining", "detached"}
       /\ ToldFirst(inbox[w])
       /\ Alive(w) /\ master = "up" /\ w \notin workers => Told(inbox[w])
       /\ Alive(w) /\ ("kill" \in timers \/ "exit" \in timers) => Told(inbox[w])

ShutdownInv ==
  /\ terminating /\ master # "gone" => timers # {}
  /\ "early" \notin faults => CalmInv

Message == {"index", "softkill", "close", "disconnect"}

LEMMA ToldAppend ==
  ASSUME NEW q \in Seq(Message), NEW m \in Message
  PROVE  /\ Told(q) \/ m \in Ending => Told(Append(q, m))
         /\ ToldFirst(q) /\ (m = "disconnect" => Told(q)) => ToldFirst(Append(q, m))
<1>1. /\ Len(q) \in Nat /\ Len(Append(q, m)) = Len(q) + 1 /\ Append(q, m)[Len(q) + 1] = m
      /\ \A i \in 1 .. Len(q) : Append(q, m)[i] = q[i]
  OBVIOUS
<1>2. \A i \in 1 .. Len(q) + 1 : i = Len(q) + 1 \/ i \in 1 .. Len(q)
  BY <1>1
<1>3. \A i \in 1 .. Len(q) : i \in 1 .. Len(q) + 1 /\ i < Len(q) + 1
  BY <1>1
<1>4. Len(q) + 1 \in 1 .. Len(q) + 1
  BY <1>1
<1>5. Told(q) \/ m \in Ending => Told(Append(q, m))
  BY <1>1, <1>3, <1>4 DEF Told
<1>6. ASSUME ToldFirst(q), m = "disconnect" => Told(q)
      PROVE  ToldFirst(Append(q, m))
  <2>1. ASSUME NEW j \in 1 .. Len(q) + 1, Append(q, m)[j] = "disconnect"
        PROVE  \E i \in 1 .. Len(q) : i < j /\ q[i] \in Ending
    <3>1. CASE j = Len(q) + 1
      BY <1>1, <1>3, <1>6, <2>1, <3>1 DEF Told
    <3>2. CASE j \in 1 .. Len(q)
      BY <1>1, <1>6, <2>1, <3>2 DEF ToldFirst
    <3>. QED
      BY <1>2, <3>1, <3>2
  <2>. QED
    BY <1>1, <1>3, <2>1 DEF ToldFirst
<1>. QED
  BY <1>5, <1>6

LEMMA ToldTail ==
  ASSUME NEW q \in Seq(Message), q # <<>>
  PROVE  /\ Tail(q) \in Seq(Message)
         /\ Head(q) = "index" /\ Told(q) => Told(Tail(q))
         /\ Head(q) = "index" /\ ToldFirst(q) => ToldFirst(Tail(q))
         /\ ToldFirst(q) => Head(q) # "disconnect"
<1>1. /\ Len(q) \in Nat /\ Len(q) > 0 /\ Head(q) = q[1] /\ Tail(q) \in Seq(Message)
      /\ Len(Tail(q)) = Len(q) - 1
      /\ \A i \in 1 .. Len(Tail(q)) : Tail(q)[i] = q[i + 1]
  OBVIOUS
<1>2. \A i \in 1 .. Len(q) : i = 1 \/ (i - 1 \in 1 .. Len(Tail(q)) /\ Tail(q)[i - 1] = q[i])
  BY <1>1
<1>3. "index" \notin Ending
  BY DEF Ending
<1>4. ASSUME Head(q) = "index", Told(q)
      PROVE  Told(Tail(q))
  <2>1. PICK i \in 1 .. Len(q) : q[i] \in Ending
    BY <1>4 DEF Told
  <2>2. i - 1 \in 1 .. Len(Tail(q)) /\ Tail(q)[i - 1] \in Ending
    BY <1>1, <1>2, <1>3, <1>4, <2>1
  <2>. QED
    BY <2>2 DEF Told
<1>5. ASSUME Head(q) = "index", ToldFirst(q)
      PROVE  ToldFirst(Tail(q))
  <2>. SUFFICES ASSUME NEW j \in 1 .. Len(Tail(q)), Tail(q)[j] = "disconnect"
                PROVE  \E i \in 1 .. Len(Tail(q)) : i < j /\ Tail(q)[i] \in Ending
    BY DEF ToldFirst
  <2>1. j + 1 \in 1 .. Len(q) /\ q[j + 1] = "disconnect"
    BY <1>1
  <2>2. PICK i \in 1 .. Len(q) : i < j + 1 /\ q[i] \in Ending
    BY <1>5, <2>1 DEF ToldFirst
  <2>3. i # 1
    BY <1>1, <1>3, <1>5, <2>2
  <2>4. i - 1 \in 1 .. Len(Tail(q)) /\ Tail(q)[i - 1] \in Ending /\ i - 1 < j
    BY <1>1, <1>2, <2>2, <2>3
  <2>. QED
    BY <2>4
<1>6. ASSUME ToldFirst(q), Head(q) = "disconnect"
      PROVE  FALSE
  <2>1. 1 \in 1 .. Len(q) /\ q[1] = "disconnect"
    BY <1>1, <1>6
  <2>2. PICK i \in 1 .. Len(q) : i < 1
    BY <1>6, <2>1 DEF ToldFirst
  <2>. QED
    BY <1>1, <2>2
<1>. QED
  BY <1>1, <1>4, <1>5, <1>6

\* A message that is sent to the workers.
LEMMA SentTo ==
  ASSUME ClusterTypeOK, CalmInv, NEW m \in Message, NEW ws, Send(ws, m),
         m = "disconnect" => \A w \in ws \cap Worker : Alive(w) => Told(inbox[w])
  PROVE  \A w \in Worker :
           /\ ToldFirst(inbox'[w])
           /\ Told(inbox[w]) => Told(inbox'[w])
           /\ w \in ws /\ Alive(w) /\ m \in Ending => Told(inbox'[w])
<1>. SUFFICES ASSUME NEW w \in Worker
              PROVE  /\ ToldFirst(inbox'[w])
                     /\ Told(inbox[w]) => Told(inbox'[w])
                     /\ w \in ws /\ Alive(w) /\ m \in Ending => Told(inbox'[w])
  OBVIOUS
<1>1. inbox[w] \in Seq(Message) /\ ToldFirst(inbox[w])
  BY DEF ClusterTypeOK, Message, CalmInv
<1>2. inbox'[w] = IF w \in ws /\ Connected(w) THEN Append(inbox[w], m) ELSE inbox[w]
  BY DEF Send
<1>3. Connected(w) <=> Alive(w)
  BY DEF Connected, CalmInv
<1>4. CASE w \in ws /\ Alive(w)
  BY <1>1, <1>2, <1>3, <1>4, ToldAppend
<1>5. CASE ~(w \in ws /\ Alive(w))
  BY <1>1, <1>2, <1>3, <1>5
<1>. QED
  BY <1>4, <1>5

\* Steps after which each worker that lives lived before, is told no less, and
\* is in the table if it was.
LEMMA CalmKept ==
  ASSUME CalmInv,
         \A w \in Worker :
           /\ proc'[w] \notin {"draining", "detached"}
           /\ ToldFirst(inbox'[w])
           /\ Alive(w)' => Alive(w) /\ (Told(inbox[w]) => Told(inbox'[w]))
           /\ Alive(w)' /\ w \in workers => w \in workers',
         terminating' => terminating \/ master' # "starting",
         master' = "starting" => master = "starting",
         master' = "up" => master = "up",
         timers' # {} => master' = "up",
         \/ timers' \subseteq timers \cup {"force"}
         \/ \A w \in Worker : Alive(w)' => Told(inbox'[w])
  PROVE  CalmInv'
<1>1. ASSUME NEW w \in Worker, Alive(w)', master' = "up", w \notin workers'
      PROVE  Told(inbox'[w])
  BY <1>1 DEF CalmInv
<1>2. ASSUME NEW w \in Worker, Alive(w)', "kill" \in timers' \/ "exit" \in timers'
      PROVE  Told(inbox'[w])
  BY <1>2 DEF CalmInv
<1>. QED
  BY <1>1, <1>2 DEF CalmInv

LEMMA CalmExit ==
  ASSUME ClusterTypeOK, CalmInv, NEW v \in Worker, Exit(v)
  PROVE  CalmInv'
<1>1. /\ proc' = [proc EXCEPT ![v] = "gone"] /\ inbox' = [inbox EXCEPT ![v] = <<>>]
      /\ UNCHANGED <<master, terminating, timers, workers>>
  BY DEF Exit, shutdownVars, forkVars
<1>2. ASSUME NEW w \in Worker
      PROVE  /\ proc'[w] = IF w = v THEN "gone" ELSE proc[w]
             /\ inbox'[w] = IF w = v THEN <<>> ELSE inbox[w]
  BY <1>1 DEF ClusterTypeOK
<1>3. ToldFirst(<<>>)
  BY DEF ToldFirst
<1>. QED
  BY <1>1, <1>2, <1>3, CalmKept DEF CalmInv, Alive

LEMMA CalmStep ==
  ASSUME ClusterTypeOK, Forks, Undisturbed, CalmInv, "early" \notin faults, ClusterStep
  PROVE  CalmInv'
<1>0. /\ proc \in [Worker -> {"unused", "forked", "booting", "serving", "draining",
                             "detached", "gone"}]
      /\ inbox \in [Worker -> Seq(Message)]
      /\ \A w \in Worker : inbox[w] \in Seq(Message)
      /\ timers # {} => terminating
      /\ \A w \in exits : w \in Worker /\ proc[w] = "gone"
      /\ {"index", "softkill", "close", "disconnect"} \subseteq Message
      /\ "close" \in Ending /\ "softkill" \in Ending
  BY DEF ClusterTypeOK, Message, Ending
<1>1. CASE MasterStarts
  <2>1. /\ proc' = [w \in Worker |-> IF w <= Workers THEN "forked" ELSE "unused"]
        /\ workers' = 1 .. Workers /\ inbox' = inbox /\ master' = "up"
        /\ UNCHANGED <<terminating, timers>> /\ timers = {}
    BY <1>0, <1>1 DEF MasterStarts, shutdownVars, CalmInv
  <2>2. ASSUME NEW w \in Worker
        PROVE  /\ proc'[w] \in {"forked", "unused"}
               /\ Alive(w)' => w \in workers'
    BY <2>1, WorkersNat DEF Alive, Worker
  <2>. QED
    BY <2>1, <2>2 DEF CalmInv
<1>2. ASSUME NEW v \in Worker, WorkerStarts(v) PROVE CalmInv'
  <2>1. /\ UNCHANGED <<master, terminating, timers, workers, inbox>>
        /\ proc[v] = "forked" /\ proc' = [proc EXCEPT ![v] = "booting"]
    BY <1>2 DEF WorkerStarts, shutdownVars, forkVars
  <2>2. \A w \in Worker : proc'[w] = IF w = v THEN "booting" ELSE proc[w]
    BY <1>0, <2>1
  <2>. QED
    BY <2>1, <2>2, CalmKept DEF CalmInv, Alive
<1>3. ASSUME NEW v \in Worker, RecvForked(v) PROVE CalmInv'
  <2>1. /\ UNCHANGED <<master, terminating, timers, workers, proc>>
        /\ Send({v}, "index")
    BY <1>3 DEF RecvForked, shutdownVars, forkVars
  <2>2. \A w \in Worker : ToldFirst(inbox'[w]) /\ (Told(inbox[w]) => Told(inbox'[w]))
    BY <1>0, <2>1, SentTo
  <2>. QED
    BY <2>1, <2>2, CalmKept DEF CalmInv, Alive
<1>4. ASSUME NEW v \in Worker, RecvIndex(v) PROVE CalmInv'
  <2>1. /\ UNCHANGED <<master, terminating, timers, workers>>
        /\ proc' = [proc EXCEPT ![v] = IF @ = "booting" THEN "serving" ELSE @]
        /\ inbox' = [inbox EXCEPT ![v] = Tail(@)]
        /\ Head(inbox[v]) = "index" /\ inbox[v] # <<>> /\ Alive(v)
    BY <1>4 DEF RecvIndex, Receives, Alive, shutdownVars, forkVars
  <2>2. \A w \in Worker :
          /\ proc'[w] \in {proc[w], "serving"} /\ (w # v => proc'[w] = proc[w])
          /\ inbox'[w] = IF w = v THEN Tail(inbox[v]) ELSE inbox[w]
    BY <1>0, <2>1
  <2>3. /\ Told(inbox[v]) => Told(Tail(inbox[v]))
        /\ ToldFirst(inbox[v]) => ToldFirst(Tail(inbox[v]))
    BY <1>0, <2>1, ToldTail
  <2>4. \A w \in Worker :
          /\ ToldFirst(inbox'[w]) /\ (Told(inbox[w]) => Told(inbox'[w]))
          /\ proc'[w] \notin {"draining", "detached"} /\ (Alive(w)' => Alive(w))
    BY <2>1, <2>2, <2>3 DEF CalmInv, Alive
  <2>. QED
    BY <2>1, <2>4, CalmKept DEF CalmInv
<1>5. ASSUME NEW v \in Worker, RecvClose(v) \/ MasterLost(v) \/ Crash(v) PROVE CalmInv'
  BY <1>5, CalmExit DEF RecvClose, MasterLost, Crash
<1>6. ASSUME NEW v \in Worker, RecvDisconnect(v) PROVE CalmInv'
  BY <1>0, <1>6, ToldTail DEF RecvDisconnect, Receives, CalmInv
<1>7. ASSUME NEW v \in Worker, Drained(v) PROVE CalmInv'
  BY <1>7 DEF Drained, CalmInv
<1>8. ASSUME NEW v \in Worker, RecvExit(v) PROVE CalmInv'
  <2>0. /\ proc[v] = "gone" /\ master = "up" /\ UNCHANGED <<terminating, inbox>>
        /\ v \in exits
    BY <1>0, <1>8 DEF RecvExit
  <2>1. CASE Replace(v)
    <3>1. nextId \in Worker
      BY <1>8, <2>0, <2>1, RoomToFork DEF Replace
    <3>2. /\ proc' = [proc EXCEPT ![nextId] = "forked"] /\ master' = master
          /\ workers \ {v} \subseteq workers' /\ nextId \in workers'
          /\ timers' = timers /\ timers = {}
      BY <1>0, <1>8, <2>1 DEF RecvExit, Replace
    <3>3. ASSUME NEW w \in Worker
          PROVE  proc'[w] = IF w = nextId THEN "forked" ELSE proc[w]
      BY <1>0, <3>1, <3>2
    <3>4. ASSUME NEW w \in Worker, Alive(w)', w \notin workers'
          PROVE  Alive(w) /\ w \notin workers
      BY <2>0, <3>2, <3>3, <3>4 DEF Alive
    <3>. QED
      BY <2>0, <3>2, <3>3, <3>4 DEF CalmInv
  <2>2. CASE ~Replace(v)
    <3>1. /\ proc' = proc /\ workers \ {v} \subseteq workers'
          /\ timers' \subseteq timers /\ master' \in {master, "gone"}
          /\ timers' # {} => master' = "up"
      BY <1>8, <2>0, <2>2 DEF RecvExit, MasterExit
    <3>. QED
      BY <2>0, <3>1, CalmKept DEF CalmInv, Alive
  <2>. QED
    BY <2>1, <2>2
<1>9. ASSUME NEW v \in Worker, ChannelEnds(v) PROVE CalmInv'
  <2>1. /\ UNCHANGED <<master, terminating, timers, inbox, proc>>
        /\ workers' = IF proc[v] = "gone" /\ v \notin exits THEN workers \ {v} ELSE workers
    BY <1>9 DEF ChannelEnds, shutdownVars, CalmInv
  <2>. QED
    BY <2>1, CalmKept DEF CalmInv, Alive
<1>10. CASE Sighup
  <2>1. proc' = proc /\ workers' = workers /\ master = "up"
    BY <1>10 DEF Sighup, Signalled, forkVars
  <2>2. CASE workers = {}
    <3>1. UNCHANGED <<terminating, inbox>> /\ master' = "gone" /\ timers' = {}
      BY <1>10, <2>2 DEF Sighup, MasterExit
    <3>. QED
      BY <2>1, <3>1, CalmKept DEF CalmInv, Alive
  <2>3. CASE workers # {}
    <3>1. Send(workers, "softkill") /\ master' = master /\ timers' = timers \cup {"force"}
      BY <1>10, <2>3 DEF Sighup
    <3>2. \A w \in Worker : ToldFirst(inbox'[w]) /\ (Told(inbox[w]) => Told(inbox'[w]))
      BY <1>0, <3>1, SentTo
    <3>. QED
      BY <2>1, <3>1, <3>2, CalmKept DEF CalmInv, Alive
  <2>. QED
    BY <2>2, <2>3
<1>11. CASE Sigint \/ ForceShutdown
  <2>1. /\ UNCHANGED <<proc, workers, master>> /\ Send(workers, "close")
    BY <1>11 DEF Sigint, ForceShutdown, forkVars
  <2>2. master = "up"
    BY <1>11 DEF Sigint, ForceShutdown, Signalled, CalmInv
  <2>3. \A w \in Worker :
          /\ ToldFirst(inbox'[w]) /\ (Told(inbox[w]) => Told(inbox'[w]))
          /\ w \in workers /\ Alive(w) => Told(inbox'[w])
    BY <1>0, <2>1, SentTo
  <2>4. \A w \in Worker : Alive(w)' => Told(inbox'[w])
    BY <2>1, <2>2, <2>3 DEF CalmInv, Alive
  <2>. QED
    BY <2>1, <2>2, <2>3, <2>4, CalmKept DEF CalmInv, Alive
<1>12. CASE KillWorkers
  <2>1. /\ UNCHANGED <<proc, master, terminating>> /\ Send(workers, "disconnect")
        /\ "kill" \in timers
    BY <1>12 DEF KillWorkers
  <2>2. \A w \in Worker : Alive(w) => Told(inbox[w])
    BY <2>1 DEF CalmInv
  <2>3. \A w \in Worker : ToldFirst(inbox'[w]) /\ (Told(inbox[w]) => Told(inbox'[w]))
    BY <1>0, <2>1, <2>2, SentTo
  <2>. QED
    BY <2>1, <2>2, <2>3 DEF CalmInv, Alive
<1>13. CASE ExitTimer
  <2>1. UNCHANGED <<proc, workers, terminating, inbox>> /\ master' = "gone" /\ timers' = {}
    BY <1>13 DEF ExitTimer, MasterExit, forkVars
  <2>. QED
    BY <2>1, CalmKept DEF CalmInv, Alive
<1>. QED
  BY <1>1, <1>2, <1>3, <1>4, <1>5, <1>6, <1>7, <1>8, <1>9, <1>10, <1>11, <1>12,
     <1>13 DEF ClusterStep

LEMMA PendingStep ==
  ASSUME ClusterTypeOK, terminating /\ master # "gone" => timers # {}, ClusterStep
  PROVE  terminating' /\ master' # "gone" => timers' # {}
<1>1. CASE Sighup
  <2>1. CASE workers = {}
    BY <1>1, <2>1 DEF Sighup, MasterExit
  <2>2. CASE workers # {}
    BY <1>1, <2>2 DEF Sighup
  <2>. QED
    BY <2>1, <2>2
<1>2. CASE Sigint \/ ForceShutdown \/ KillWorkers \/ ExitTimer
  BY <1>2 DEF Sigint, ForceShutdown, KillWorkers, ExitTimer, ExitArmed, MasterExit
<1>3. ASSUME NEW w \in Worker, RecvExit(w) PROVE terminating' /\ master' # "gone" => timers' # {}
  <2>1. \/ UNCHANGED <<terminating, master, timers>>
        \/ master' = "gone"
    BY <1>3 DEF RecvExit, MasterExit
  <2>. QED
    BY <2>1
<1>4. CASE MasterStarts
  BY <1>4 DEF MasterStarts, shutdownVars
<1>5. ASSUME NEW w \in Worker,
             \/ WorkerStarts(w) \/ RecvForked(w) \/ RecvIndex(w) \/ RecvClose(w)
             \/ RecvDisconnect(w) \/ Drained(w) \/ MasterLost(w) \/ Crash(w)
             \/ ChannelEnds(w)
      PROVE  terminating' /\ master' # "gone" => timers' # {}
  <2>1. UNCHANGED <<terminating, master, timers>>
    BY <1>5 DEF WorkerStarts, RecvForked, RecvIndex, RecvClose, RecvDisconnect,
       Drained, MasterLost, Crash, Exit, ChannelEnds, shutdownVars
  <2>. QED
    BY <2>1
<1>. QED
  BY <1>1, <1>2, <1>3, <1>4, <1>5 DEF ClusterStep

LEMMA ShutdownInvariant == Spec => []ShutdownInv
<1>1. Init => ShutdownInv
  <2>. SUFFICES ASSUME Init PROVE ShutdownInv
    OBVIOUS
  <2>1. ToldFirst(<<>>)
    BY DEF ToldFirst
  <2>. QED
    BY <2>1 DEF Init, ClusterInit, ShutdownInv, CalmInv, Alive
<1>2. Inv /\ ShutdownInv /\ [Next]_allVars => ShutdownInv'
  <2>. SUFFICES ASSUME Inv, ShutdownInv, [Next]_allVars PROVE ShutdownInv'
    OBVIOUS
  <2>1. CASE ClusterStep /\ UNCHANGED faults
    BY <2>1, PendingStep, CalmStep DEF Inv, ClusterInv, ShutdownInv
  <2>2. CASE UNCHANGED <<faults, clusterVars>>
    <3>1. UNCHANGED <<faults, master, terminating, timers, workers, proc, inbox>>
      BY <2>2 DEF clusterVars, shutdownVars, forkVars
    <3>. QED
      BY <3>1 DEF ShutdownInv, CalmInv, Alive
  <2>. QED
    BY <2>1, <2>2 DEF Next, allVars, vars
<1>. QED
  BY <1>1, <1>2, Invariant, PTL DEF Spec

\* Whatever signals come in whatever order, a master that was told to end has a
\* timer that ends it, and its workers end with it or before.
THEOREM ShutdownNeverStalls == Spec => []ShutdownGoesOn
<1>1. ShutdownInv => ShutdownGoesOn
  BY DEF ShutdownInv, ShutdownGoesOn, CalmInv
<1>. QED
  BY <1>1, ShutdownInvariant, PTL

\* No exit that the master hears of in a shutdown makes it fork (lines 77-82),
\* nor does the start of its cluster.
THEOREM ShutdownForksNobody == Spec => NobodyForked
<1>1. /\ ShutdownInv /\ ClusterTypeOK /\ [Next]_allVars
      => [(terminating /\ "early" \notin faults) => nextId' = nextId]_clusterVars
  <2>. SUFFICES ASSUME ShutdownInv, [Next]_allVars, terminating, "early" \notin faults
                PROVE  nextId' = nextId
    OBVIOUS
  <2>1. CASE ClusterStep
    BY <2>1 DEF ClusterStep, MasterStarts, WorkerStarts, RecvForked, RecvIndex,
       RecvClose, RecvDisconnect, Drained, MasterLost, Crash, Exit, RecvExit, Replace,
       ChannelEnds, Sighup, Sigint, ForceShutdown, KillWorkers, ExitTimer, forkVars,
       ShutdownInv, CalmInv
  <2>2. CASE UNCHANGED clusterVars
    BY <2>2 DEF clusterVars, forkVars
  <2>. QED
    BY <2>1, <2>2 DEF Next, allVars, vars
<1>2. Inv => ClusterTypeOK
  BY DEF Inv, ClusterInv
<1>3. [][Next]_allVars /\ []ShutdownInv /\ []Inv => NobodyForked
  BY <1>1, <1>2, PTL DEF NobodyForked
<1>. QED
  BY <1>3, ShutdownInvariant, Invariant, PTL DEF Spec

-----------------------------------------------------------------------------
(***************************************************************************)
(* An upload, as far as it can be said without liveness: the safe half of  *)
(* UploadEnds.                                                             *)
(***************************************************************************)

\* The file of an upload exists only while its handler has something to do, or
\* if its worker is gone; an upload that is done has been answered and its file
\* removed.
UploadGoesOn ==
  \A u \in Upload :
    /\ u \in temp => \/ /\ Handled(u)
                        /\ upload[u] \in {"analyze", "store", "stored", "count", "error"}
                     \/ proc[handler[u]] = "gone"
    /\ upload[u] = "done" => u \notin temp /\ answer[u] # "none"

UploadInv ==
  \A u \in Upload :
    /\ u \in temp => upload[u] \notin {"idle", "done"}
    /\ upload[u] \in {"count", "done"} => answer[u] # "none"
    /\ upload[u] # "idle" => proc[handler[u]] # "unused"
    /\ upload[u] = "lost" => proc[handler[u]] = "gone"

\* No process comes back.
LEMMA GoneStays ==
  ASSUME ClusterTypeOK, Forks, Undisturbed, ClusterStep, NEW v \in Worker
  PROVE  /\ proc[v] = "gone" => proc'[v] = "gone"
         /\ proc[v] # "unused" => proc'[v] # "unused"
<1>0. proc \in [Worker -> {"unused", "forked", "booting", "serving", "draining",
                           "detached", "gone"}]
  BY DEF ClusterTypeOK
<1>1. CASE MasterStarts
  BY <1>1, <1>0, WorkersNat DEF MasterStarts, Forks, Worker
<1>2. ASSUME NEW w \in Worker, RecvExit(w)
      PROVE  /\ proc[v] = "gone" => proc'[v] = "gone"
             /\ proc[v] # "unused" => proc'[v] # "unused"
  <2>1. CASE Replace(w)
    <3>1. nextId \in Worker /\ proc[nextId] = "unused"
      BY <1>2, <2>1, RoomToFork DEF RecvExit, Replace
    <3>. QED
      BY <1>0, <1>2, <2>1, <3>1 DEF RecvExit
  <2>2. CASE ~Replace(w)
    BY <1>2, <2>2 DEF RecvExit
  <2>. QED
    BY <2>1, <2>2
<1>3. ASSUME NEW w \in Worker,
             \/ WorkerStarts(w) \/ RecvForked(w) \/ RecvIndex(w) \/ RecvClose(w)
             \/ RecvDisconnect(w) \/ Drained(w) \/ MasterLost(w) \/ Crash(w)
             \/ ChannelEnds(w)
      PROVE  /\ proc[v] = "gone" => proc'[v] = "gone"
             /\ proc[v] # "unused" => proc'[v] # "unused"
  BY <1>0, <1>3 DEF WorkerStarts, RecvForked, RecvIndex, Receives, RecvClose,
     RecvDisconnect, Drained, MasterLost, Crash, Exit, ChannelEnds
<1>4. CASE Sighup \/ Sigint \/ ForceShutdown \/ KillWorkers \/ ExitTimer
  BY <1>4 DEF Sighup, Sigint, ForceShutdown, KillWorkers, ExitTimer
<1>. QED
  BY <1>1, <1>2, <1>3, <1>4 DEF ClusterStep

LEMMA UploadInvStep ==
  ASSUME FileTypeOK, ClusterTypeOK, UploadInv, FileStep, UNCHANGED clusterVars
  PROVE  UploadInv'
<1>0. proc' = proc /\ handler \in [Request -> Worker] /\ \A u \in Upload : u \in Request
  BY DEF clusterVars, FileTypeOK, Request
<1>. USE <1>0 DEF FileTypeOK, UploadInv
<1>1. ASSUME NEW u \in Upload, NEW w \in Worker, ReceiveUpload(u, w) PROVE UploadInv'
  BY <1>1 DEF ReceiveUpload, Serves
<1>2. ASSUME NEW u \in Upload, Analyzed(u) PROVE UploadInv'
  BY <1>2 DEF Analyzed
<1>3. ASSUME NEW u \in Upload, Store(u) \/ AnswerKey(u) PROVE UploadInv'
  BY <1>3 DEF Store, AnswerKey
<1>4. ASSUME NEW u \in Upload, FinishUpload(u) PROVE UploadInv'
  BY <1>4 DEF FinishUpload, Unlink
<1>5. ASSUME NEW u \in Upload, Expire(u) PROVE UploadInv'
  BY <1>5 DEF Expire
<1>6. ASSUME NEW u \in Upload, LoseUpload(u) PROVE UploadInv'
  BY <1>6 DEF LoseUpload, Handled, Alive
<1>7. ASSUME NEW d \in Download, NEW u \in Upload, NEW w \in Worker,
             ReceiveDownload(d, u, w)
      PROVE  UploadInv'
  <2>1. \A v \in Upload : handler'[v] = handler[v]
    BY <1>7, FileAssumption DEF ReceiveDownload
  <2>. QED
    BY <1>7, <2>1 DEF ReceiveDownload
<1>8. ASSUME NEW d \in Download, Exec(d) \/ Reply(d) \/ LoseDownload(d)
      PROVE  UploadInv'
  BY <1>8 DEF Exec, Reply, LoseDownload
<1>. QED
  BY <1>1, <1>2, <1>3, <1>4, <1>5, <1>6, <1>7, <1>8 DEF FileStep

\* Whichever worker dies and whatever the analysis returns, no file of an upload
\* is left behind by a worker that lives, and no upload unanswered.
THEOREM NoFileForgotten == Spec => []UploadGoesOn
<1>1. Init => UploadInv
  BY DEF Init, UploadInv
<1>2. Inv /\ UploadInv /\ [Next]_allVars => UploadInv'
  <2>. SUFFICES ASSUME Inv, UploadInv, [Next]_allVars PROVE UploadInv'
    OBVIOUS
  <2>1. CASE ClusterStep /\ UNCHANGED fileVars
    <3>1. \A u \in Upload : handler[u] \in Worker
      BY DEF Inv, FileTypeOK, Request
    <3>2. UNCHANGED <<upload, answer, temp, handler>>
      BY <2>1 DEF fileVars
    <3>3. \A v \in Worker : /\ proc[v] = "gone" => proc'[v] = "gone"
                            /\ proc[v] # "unused" => proc'[v] # "unused"
      BY <2>1, GoneStays DEF Inv, ClusterInv
    <3>. QED
      BY <3>1, <3>2, <3>3 DEF UploadInv
  <2>2. CASE FileStep /\ UNCHANGED clusterVars
    BY <2>2, UploadInvStep DEF Inv, ClusterInv
  <2>3. CASE UNCHANGED allVars
    <3>1. UNCHANGED <<upload, answer, temp, handler, proc>>
      BY <2>3 DEF allVars, vars, clusterVars, fileVars
    <3>. QED
      BY <3>1 DEF UploadInv
  <2>. QED
    BY <2>1, <2>2, <2>3 DEF Next
<1>3. Inv /\ UploadInv => UploadGoesOn
  <2>. SUFFICES ASSUME Inv, UploadInv, NEW u \in Upload
                PROVE  /\ u \in temp =>
                            \/ /\ Handled(u)
                               /\ upload[u] \in {"analyze", "store", "stored", "count", "error"}
                            \/ proc[handler[u]] = "gone"
                       /\ upload[u] = "done" => u \notin temp /\ answer[u] # "none"
    BY DEF UploadGoesOn
  <2>. QED
    BY DEF Inv, UploadInv, FileTypeOK, Handled, Alive
<1>. QED
  BY <1>1, <1>2, <1>3, Invariant, PTL DEF Spec

=============================================================================
