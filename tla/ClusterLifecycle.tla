-------------------------- MODULE ClusterLifecycle --------------------------
(***************************************************************************)
(* The master and its workers (cluster.js): forking, the messages forked,  *)
(* index, softkill and close, workers that die and are forked again, and   *)
(* the shutdown by SIGHUP and SIGINT.                                      *)
(*                                                                         *)
(* One action is one callback.  Timers fire at any time: a worker may take *)
(* longer over a message than the master waits.  Node's cluster module is  *)
(* modelled as far as the code depends on it: a worker leaves              *)
(* cluster.workers when its exit and the end of its channel have both been *)
(* seen, in either order, or with worker.disconnect().                     *)
(***************************************************************************)
EXTENDS Naturals, Sequences, FiniteSets

CONSTANTS
  Workers,     \* config.server.workers
  MaxForks,    \* bounds the processes forked
  MaxSignals,  \* bounds the signals sent to the master
  Scenarios    \* sets of faults; a behaviour has those of one of them

(***************************************************************************)
(*   "signal"   the master gets SIGHUP or SIGINT                           *)
(*   "early"    ... while it waits for Redis, before its first fork        *)
(*   "crash"    a worker dies of itself                                    *)
(*   "files"    files are uploaded and results downloaded                  *)
(*   "expire"   results expire before they are downloaded                  *)
(***************************************************************************)
Fault == {"signal", "early", "crash", "files", "expire"}

ASSUME ClusterAssumption ==
  /\ Workers \in Nat \ {0}
  /\ MaxForks \in Nat /\ Workers <= MaxForks
  /\ MaxSignals \in Nat
  /\ Scenarios \subseteq SUBSET Fault

Worker == 1 .. MaxForks
Index == 0 .. Workers - 1

VARIABLES
  faults,       \* the scenario
  master,       \* the master process
  terminating,  \* this.terminating
  timers,       \* timeouts of the master that are armed
  signals,      \* how many signals it has got
  workers,      \* cluster.workers, by their id
  nextId,       \* the id of the next worker
  proc,         \* the worker processes
  index,        \* worker.index
  inbox,        \* messages on their way to a worker
  forked,       \* workers whose 'forked' is on its way to the master
  exits,        \* workers whose exit the master has not handled
  channelEnds,  \* workers whose channel's end the master has not handled
  kills         \* workers to be killed when their channel ends

shutdownVars == <<terminating, timers, signals>>
forkVars == <<workers, nextId, index>>
eventVars == <<exits, channelEnds, kills>>
clusterVars == <<master, shutdownVars, forkVars, proc, inbox, forked, eventVars>>

Alive(w) == proc[w] \notin {"unused", "gone"}
Connected(w) == Alive(w) /\ proc[w] # "detached"
Serves(w) == proc[w] = "serving"

ClusterTypeOK ==
  /\ faults \in Scenarios
  /\ master \in {"starting", "up", "gone"}
  /\ terminating \in BOOLEAN
  /\ timers \subseteq {"force", "kill", "exit"}
  /\ timers # {} => terminating
  /\ signals \in 0 .. MaxSignals
  /\ workers \subseteq {w \in Worker : proc[w] # "unused"}
  /\ nextId \in 1 .. MaxForks + 1
  /\ proc \in [Worker -> {"unused", "forked", "booting", "serving", "draining",
                          "detached", "gone"}]
  /\ index \in [Worker -> Index]
  /\ inbox \in [Worker -> Seq({"index", "softkill", "close", "disconnect"})]
  /\ forked \subseteq Worker /\ kills \subseteq Worker
  /\ exits \subseteq {w \in Worker : proc[w] = "gone"}
  /\ channelEnds \subseteq {w \in Worker : proc[w] \in {"detached", "gone"}}

ClusterInit ==
  /\ faults \in Scenarios
  /\ master = "starting"
  /\ terminating = FALSE /\ timers = {} /\ signals = 0
  /\ workers = {} /\ nextId = 1
  /\ proc = [w \in Worker |-> "unused"]
  /\ index = [w \in Worker |-> 0]
  /\ inbox = [w \in Worker |-> <<>>]
  /\ forked = {} /\ exits = {} /\ channelEnds = {} /\ kills = {}

-----------------------------------------------------------------------------
(***************************************************************************)
(* Forking.                                                                *)
(***************************************************************************)

\* flushdb has answered: master() forks whatever has happened meanwhile.
MasterStarts ==
  /\ master = "starting"
  /\ master' = "up"
  /\ workers' = 1 .. Workers
  /\ nextId' = Workers + 1
  /\ index' = [w \in Worker |-> IF w <= Workers THEN w - 1 ELSE 0]
  /\ proc' = [w \in Worker |-> IF w <= Workers THEN "forked" ELSE "unused"]
  /\ UNCHANGED <<shutdownVars, inbox, forked, eventVars>>

WorkerStarts(w) ==
  /\ proc[w] = "forked"
  /\ proc' = [proc EXCEPT ![w] = "booting"]
  /\ forked' = forked \cup {w}
  /\ UNCHANGED <<master, shutdownVars, forkVars, inbox, eventVars>>

\* What is sent into a channel that has ended is lost.
Send(ws, m) ==
  inbox' = [w \in Worker |->
              IF w \in ws /\ Connected(w) THEN Append(inbox[w], m) ELSE inbox[w]]

RecvForked(w) ==
  /\ master = "up"
  /\ w \in forked
  /\ forked' = forked \ {w}
  /\ Send({w}, "index")
  /\ UNCHANGED <<master, shutdownVars, forkVars, proc, eventVars>>

-----------------------------------------------------------------------------
(***************************************************************************)
(* The workers.                                                            *)
(***************************************************************************)
Exit(w) ==
  /\ proc' = [proc EXCEPT ![w] = "gone"]
  /\ inbox' = [inbox EXCEPT ![w] = <<>>]
  /\ exits' = exits \cup {w}
  /\ channelEnds' = IF Connected(w) THEN channelEnds \cup {w} ELSE channelEnds
  /\ UNCHANGED <<master, shutdownVars, forkVars, forked, kills>>

Receives(w, ms) ==
  /\ proc[w] \in {"booting", "serving", "draining"}
  /\ inbox[w] # <<>>
  /\ Head(inbox[w]) \in ms

\* The server is created and started.  start() waits for nothing that can fail:
\* V1.start and V2.start have nothing to do, and what goes wrong when it listens
\* is an exception, which is a Crash.
RecvIndex(w) ==
  /\ Receives(w, {"index"})
  /\ proc' = [proc EXCEPT ![w] = IF @ = "booting" THEN "serving" ELSE @]
  /\ inbox' = [inbox EXCEPT ![w] = Tail(@)]
  /\ UNCHANGED <<master, shutdownVars, forkVars, forked, eventVars>>

\* server.close() waits for nothing and ends in process.exit(); without a
\* server it is a TypeError, which ends the worker as well.
RecvClose(w) == Receives(w, {"softkill", "close"}) /\ Exit(w)

\* worker.disconnect(): the listening socket is closed first, which waits for
\* its connections; then the channel ends.
RecvDisconnect(w) ==
  /\ Receives(w, {"disconnect"})
  /\ proc' = [proc EXCEPT ![w] = "draining"]
  /\ inbox' = [inbox EXCEPT ![w] = Tail(@)]
  /\ UNCHANGED <<master, shutdownVars, forkVars, forked, eventVars>>

Drained(w) ==
  /\ proc[w] = "draining"
  /\ proc' = [proc EXCEPT ![w] = "detached"]
  /\ inbox' = [inbox EXCEPT ![w] = <<>>]
  /\ channelEnds' = channelEnds \cup {w}
  /\ UNCHANGED <<master, shutdownVars, forkVars, forked, exits, kills>>

\* The channel ends with the master: a worker exits, unless it was told to
\* disconnect.
MasterLost(w) ==
  /\ master = "gone"
  /\ proc[w] \in {"forked", "booting", "serving"}
  /\ inbox[w] = <<>>
  /\ Exit(w)

\* Exits that are not handled yet may need an id each.
Crash(w) ==
  /\ "crash" \in faults
  /\ Alive(w)
  /\ nextId + Cardinality(exits) <= MaxForks
  /\ Exit(w)

-----------------------------------------------------------------------------
(***************************************************************************)
(* Workers have ended.                                                     *)
(***************************************************************************)
MasterExit == master' = "gone" /\ timers' = {}

\* Lines 77-82.  Mutants: the index counted on; a worker that never served not
\* replaced.
NextIndex(w) == (nextId - 1) % Workers
IndexKept(w) == index[w]
ReplaceStarted(w) == ~terminating /\ w \notin forked
Replace(w) == ~terminating

RecvExit(w) ==
  /\ master = "up"
  /\ w \in exits
  /\ exits' = exits \ {w}
  /\ LET left == IF w \in channelEnds THEN workers ELSE workers \ {w}
     IN \/ /\ Replace(w)
           /\ proc' = [proc EXCEPT ![nextId] = "forked"]
           /\ index' = [index EXCEPT ![nextId] = IndexKept(w)]
           /\ workers' = left \cup {nextId}
           /\ nextId' = nextId + 1
           /\ UNCHANGED <<master, timers>>
        \/ /\ ~Replace(w)
           /\ workers' = left
           /\ IF left = {} THEN MasterExit ELSE UNCHANGED <<master, timers>>
           /\ UNCHANGED <<proc, index, nextId>>
  /\ UNCHANGED <<terminating, signals, inbox, forked, channelEnds, kills>>

\* A worker that worker.kill() has disconnected is killed when its channel ends.
ChannelEnds(w) ==
  /\ master = "up"
  /\ w \in channelEnds
  /\ channelEnds' = channelEnds \ {w}
  /\ workers' = IF proc[w] = "gone" /\ w \notin exits THEN workers \ {w}
                ELSE workers
  /\ \/ /\ w \in kills /\ proc[w] = "detached"
        /\ proc' = [proc EXCEPT ![w] = "gone"]
        /\ exits' = exits \cup {w}
     \/ /\ ~(w \in kills /\ proc[w] = "detached")
        /\ UNCHANGED <<proc, exits>>
  /\ UNCHANGED <<master, shutdownVars, nextId, index, inbox, forked, kills>>

-----------------------------------------------------------------------------
(***************************************************************************)
(* Shutdown.                                                               *)
(***************************************************************************)
Signalled ==
  /\ "signal" \in faults
  /\ master = "up" \/ (master = "starting" /\ "early" \in faults)
  /\ signals < MaxSignals
  /\ signals' = signals + 1

\* Line 98: the timeout is NaN, that is none.
Sighup ==
  /\ Signalled
  /\ \/ /\ workers = {}
        /\ MasterExit
        /\ UNCHANGED <<terminating, inbox>>
     \/ /\ workers # {}
        /\ terminating' = TRUE
        /\ Send(workers, "softkill")
        /\ timers' = timers \cup {"force"}
        /\ UNCHANGED master
  /\ UNCHANGED <<forkVars, proc, forked, eventVars>>

Sigint ==
  /\ Signalled
  /\ terminating' = TRUE
  /\ Send(workers, "close")
  /\ timers' = timers \cup {"kill"}
  /\ UNCHANGED <<master, forkVars, proc, forked, eventVars>>

ForceShutdown ==
  /\ "force" \in timers
  /\ Send(workers, "close")
  /\ timers' = (timers \ {"force"}) \cup {"kill"}
  /\ UNCHANGED <<master, terminating, signals, forkVars, proc, forked, eventVars>>

\* Line 49.  Mutant: left to the exits of the workers.
NoExitTimer == {}
ExitArmed == {"exit"}

\* disconnect() takes a worker out of cluster.workers at once; kill() waits for
\* the end of the channel, if it has not ended.
KillWorkers ==
  /\ "kill" \in timers
  /\ timers' = (timers \ {"kill"}) \cup ExitArmed
  /\ Send(workers, "disconnect")
  /\ workers' = {}
  /\ kills' = kills \cup workers
  /\ UNCHANGED <<master, terminating, signals, nextId, index, proc, forked, exits,
                 channelEnds>>

ExitTimer ==
  /\ "exit" \in timers
  /\ MasterExit
  /\ UNCHANGED <<terminating, signals, forkVars, proc, inbox, forked, eventVars>>

ClusterStep ==
  \/ MasterStarts
  \/ \E w \in Worker :
       \/ WorkerStarts(w) \/ RecvForked(w)
       \/ RecvIndex(w) \/ RecvClose(w) \/ RecvDisconnect(w)
       \/ Drained(w) \/ MasterLost(w) \/ Crash(w)
       \/ RecvExit(w) \/ ChannelEnds(w)
  \/ Sighup \/ Sigint \/ ForceShutdown \/ KillWorkers \/ ExitTimer

\* Redis answers, messages and events arrive, timers fire, connections end.
ClusterFairness ==
  /\ WF_clusterVars(MasterStarts)
  /\ \A w \in Worker :
       /\ WF_clusterVars(WorkerStarts(w)) /\ WF_clusterVars(RecvForked(w))
       /\ WF_clusterVars(RecvIndex(w)) /\ WF_clusterVars(RecvClose(w))
       /\ WF_clusterVars(RecvDisconnect(w)) /\ WF_clusterVars(Drained(w))
       /\ WF_clusterVars(MasterLost(w)) /\ WF_clusterVars(RecvExit(w))
       /\ WF_clusterVars(ChannelEnds(w))
  /\ WF_clusterVars(ForceShutdown) /\ WF_clusterVars(KillWorkers)
  /\ WF_clusterVars(ExitTimer)

ClusterSpec == ClusterInit /\ [][ClusterStep /\ UNCHANGED faults]_<<faults, clusterVars>>

-----------------------------------------------------------------------------
(***************************************************************************)
(* Properties.                                                             *)
(***************************************************************************)

\* A worker, alive or dead and not replaced yet.
Posts(i) == {w \in Worker : index[w] = i /\ (Alive(w) \/ w \in exits)}

\* No two workers serve one index, whose socket they would both bind, and none
\* is without, until the shutdown.
OneWorkerPerIndex ==
  (master = "up" /\ ~terminating) => \A i \in Index : Cardinality(Posts(i)) = 1

\* Every index is served again and again, whatever workers die, until the
\* shutdown.
IndexServed ==
  \A i \in Index :
    []<>(\/ terminating \/ master = "gone"
         \/ \E w \in Worker : Serves(w) /\ index[w] = i)

\* A shutdown forks nobody, unless it began while the master started.
NobodyForked ==
  [][(terminating /\ "early" \notin faults) => nextId' = nextId]_clusterVars

\* A shutdown forks nobody and ends the master and every worker, if the master
\* was told to end after its first forks.  Workers that are forked after
\* forceShutdown() has sent its messages may be told to disconnect and never
\* be killed.
ShutdownEnds ==
  /\ NobodyForked
  /\ terminating ~>
       /\ master = "gone"
       /\ "early" \notin faults => \A w \in Worker : ~Alive(w)

=============================================================================
