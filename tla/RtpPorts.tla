------------------------------ MODULE RtpPorts ------------------------------
(***************************************************************************)
(* The UDP ports of one worker (rtp_server.js): the queue of free ports,   *)
(* the table of the servers that hold one, and open(), close() and the     *)
(* expiry of every server.                                                 *)
(*                                                                         *)
(* One action is one callback or one call, up to its next await on         *)
(* something that takes time.  The engine client is reduced to when its    *)
(* close() returns, as EngineClient shows it: at once if it is not started *)
(* or has sent nothing, later if it has, and never for a call that finds   *)
(* another one waiting.  The order of packets is RtpReorder.               *)
(***************************************************************************)
EXTENDS Naturals, Sequences

CONSTANTS
  Server,         \* the RtpServer objects, two for every session
  MAX_RTP_PORTS,  \* the ports of a worker
  None,           \* no server
  Scenarios       \* which servers there are, and what happens to them

(***************************************************************************)
(*   "noEngine"       start() of the engine client rejects                 *)
(*   "bindError"      a free port cannot be bound                          *)
(*   "analysisError"  an engine client closes itself                       *)
(*   "early"          the session is closed while it starts                *)
(*   "double"         the session closes a server twice                    *)
(*   "late"           the session closes a server after it has expired     *)
(***************************************************************************)
Fault == {"noEngine", "bindError", "analysisError", "early", "double", "late"}

ASSUME PortsAssumption ==
  /\ MAX_RTP_PORTS \in Nat
  /\ None \notin Server
  /\ Scenarios \subseteq [servers : SUBSET Server, faults : SUBSET Fault]

VARIABLES
  scenario,          \* one of Scenarios, the same in all of a behaviour
  ReservedRtpPorts,  \* the free ports, in the order in which they are taken
  InstanceByPort,    \* the server that holds a port
  port,              \* this.port, 0 if it is not set
  opening,           \* where open() is
  udpServer,         \* the UDP socket
  engineClient,      \* the engine client
  waiter,            \* whose close() the engine client will resolve
  closes             \* the calls of close()

vars == <<ReservedRtpPorts, InstanceByPort, port, opening, udpServer,
          engineClient, waiter, closes>>
allVars == <<scenario, vars>>

Faults == scenario.faults

pool == <<ReservedRtpPorts, InstanceByPort>>

Port == 1 .. MAX_RTP_PORTS

\* The session closes its servers, perhaps again; setInterval closes those
\* that have expired.
SessionCall == {"session", "again"}
Caller == SessionCall \cup {"expiry"}

Opening == {"engine", "bind", "open"}

TypeOK ==
  /\ scenario \in Scenarios
  /\ ReservedRtpPorts \in Seq(Port)
  /\ InstanceByPort \in [Port -> Server \cup {None}]
  /\ port \in [Server -> Port \cup {0}]
  /\ opening \in [Server -> {"none", "failed"} \cup Opening]
  /\ udpServer \in [Server -> {"none", "binding", "bound", "closed"}]
  /\ engineClient \in
       [Server -> {"none", "starting", "up", "closing", "closed"}]
  /\ waiter \in [Server -> {"none", "client"} \cup Caller]
  /\ closes \in [Server -> [Caller -> {"idle", "waiting", "resolved"}]]
  /\ \A r \in Server :
       /\ port[r] = 0 => opening[r] \in {"none", "failed"}
       /\ port[r] = 0 <=> engineClient[r] = "none"
       /\ engineClient[r] = "closing" <=> waiter[r] # "none"

Init ==
  /\ scenario \in Scenarios
  /\ ReservedRtpPorts = [i \in Port |-> i]
  /\ InstanceByPort = [p \in Port |-> None]
  /\ port = [r \in Server |-> 0]
  /\ opening = [r \in Server |-> "none"]
  /\ udpServer = [r \in Server |-> "none"]
  /\ engineClient = [r \in Server |-> "none"]
  /\ waiter = [r \in Server |-> "none"]
  /\ closes = [r \in Server |-> [c \in Caller |-> "idle"]]

-----------------------------------------------------------------------------
(***************************************************************************)
(* open().                                                                 *)
(***************************************************************************)

\* Line 68.  Mutant: the port is looked at and not taken.
Peek == ReservedRtpPorts
Shift == IF ReservedRtpPorts = <<>> THEN <<>> ELSE Tail(ReservedRtpPorts)

FirstPort == IF ReservedRtpPorts = <<>> THEN 0 ELSE Head(ReservedRtpPorts)

Available(p) == p # 0

Open(r) ==
  /\ r \in scenario.servers
  /\ opening[r] = "none"
  /\ \/ /\ Available(FirstPort)
        /\ ReservedRtpPorts' = Shift
        /\ port' = [port EXCEPT ![r] = FirstPort]
        /\ InstanceByPort' = [InstanceByPort EXCEPT ![FirstPort] = r]
        /\ opening' = [opening EXCEPT ![r] = "engine"]
        /\ engineClient' = [engineClient EXCEPT ![r] = "starting"]
     \/ /\ ~Available(FirstPort)
        /\ opening' = [opening EXCEPT ![r] = "failed"]
        /\ UNCHANGED <<pool, port, engineClient>>
  /\ UNCHANGED <<udpServer, waiter, closes>>

\* engineClient.start() settles.  A close() in the meantime does not stop
\* open(), which goes on to bind this.port.
EngineStarted(r) ==
  /\ opening[r] = "engine"
  /\ \/ /\ opening' = [opening EXCEPT ![r] = "bind"]
        /\ udpServer' = [udpServer EXCEPT ![r] = "binding"]
        /\ engineClient' = [engineClient EXCEPT ![r] =
                              IF @ = "starting" THEN "up" ELSE @]
     \/ /\ "noEngine" \in Faults \/ engineClient[r] = "closed"
        /\ opening' = [opening EXCEPT ![r] = "failed"]
        /\ engineClient' = [engineClient EXCEPT ![r] = "closed"]
        /\ UNCHANGED udpServer
  /\ UNCHANGED <<pool, port, waiter, closes>>

Taken(p) == \E q \in Server : port[q] = p /\ udpServer[q] = "bound"

\* 'listening', and 'error' when the port is bound already.  A socket that was
\* closed before is silent, and open() never settles.
Listening(r) ==
  /\ udpServer[r] = "binding"
  /\ \/ /\ ~Taken(port[r])
        /\ udpServer' = [udpServer EXCEPT ![r] = "bound"]
        /\ opening' = [opening EXCEPT ![r] = "open"]
     \/ /\ Taken(port[r]) \/ "bindError" \in Faults
        /\ udpServer' = [udpServer EXCEPT ![r] = "closed"]
        /\ opening' = [opening EXCEPT ![r] = "failed"]
  /\ UNCHANGED <<pool, port, engineClient, waiter, closes>>

-----------------------------------------------------------------------------
(***************************************************************************)
(* close().                                                                *)
(***************************************************************************)

\* Lines 155-156.  Mutant: the table is not consulted.
HasPort(r) == port[r] # 0
Registered(r) == port[r] # 0 /\ InstanceByPort[port[r]] # None

\* What close() does after the engine client is closed.
Release(r) ==
  \/ /\ Registered(r)
     /\ InstanceByPort' = [InstanceByPort EXCEPT ![port[r]] = None]
     /\ ReservedRtpPorts' = Append(ReservedRtpPorts, port[r])
  \/ /\ ~Registered(r)
     /\ UNCHANGED pool

\* Line 137.  Mutant: the socket is left to the garbage collector.
DropSocket(r) == udpServer[r]
CloseSocket(r) == IF udpServer[r] = "none" THEN "none" ELSE "closed"

Settle(r, c, outcome) == closes' = [closes EXCEPT ![r][c] = outcome]

\* The engine client has nothing to wait for.
CloseAtOnce(r, c) ==
  /\ engineClient[r] # "closing"
  /\ engineClient' = [engineClient EXCEPT ![r] =
                        IF @ = "none" THEN "none" ELSE "closed"]
  /\ Release(r)
  /\ Settle(r, c, "resolved")
  /\ UNCHANGED waiter

\* The engine client has sent audio and waits for a report.
CloseAndWait(r, c) ==
  /\ engineClient[r] = "up"
  /\ engineClient' = [engineClient EXCEPT ![r] = "closing"]
  /\ waiter' = [waiter EXCEPT ![r] = c]
  /\ Settle(r, c, "waiting")
  /\ UNCHANGED pool

\* Another call waits; this one is never resolved.
CloseHangs(r, c) ==
  /\ engineClient[r] = "closing"
  /\ Settle(r, c, "waiting")
  /\ UNCHANGED <<pool, engineClient, waiter>>

CloseServer(r, c) ==
  /\ udpServer' = [udpServer EXCEPT ![r] = CloseSocket(r)]
  /\ CloseAtOnce(r, c) \/ CloseAndWait(r, c) \/ CloseHangs(r, c)
  /\ UNCHANGED <<port, opening>>

\* V1RtpSession.close() closes both servers; V1RtpSession.start() may open
\* the second one even later.
SessionCloses(r, c) ==
  /\ closes[r][c] = "idle"
  /\ "early" \in Faults \/ opening[r] \in {"open", "failed"}
  /\ c = "again" => "double" \in Faults /\ closes[r]["session"] # "idle"
  /\ CloseServer(r, c)

\* checkExpire(), every second until the server leaves the table.  expireAt
\* is a minute after the session's own timeout.
\* Mutant: setExpire forgotten.
NeverExpires(r) == FALSE
Expired(r) == closes[r]["session"] # "idle" \/ "late" \in Faults

CheckExpire(r) ==
  /\ port[r] # 0 /\ InstanceByPort[port[r]] = r
  /\ Expired(r)
  /\ CloseServer(r, "expiry")

\* The engine client resolves the close() that waits.
EngineClosed(r) ==
  /\ engineClient[r] = "closing"
  /\ engineClient' = [engineClient EXCEPT ![r] = "closed"]
  /\ waiter' = [waiter EXCEPT ![r] = "none"]
  /\ \/ /\ waiter[r] \in Caller
        /\ Release(r)
        /\ Settle(r, waiter[r], "resolved")
     \/ /\ waiter[r] = "client"
        /\ UNCHANGED <<pool, closes>>
  /\ UNCHANGED <<port, opening, udpServer>>

\* The engine client closes itself.
AnalysisError(r) ==
  /\ "analysisError" \in Faults
  /\ engineClient[r] = "up"
  /\ \/ /\ engineClient' = [engineClient EXCEPT ![r] = "closing"]
        /\ waiter' = [waiter EXCEPT ![r] = "client"]
     \/ /\ engineClient' = [engineClient EXCEPT ![r] = "closed"]
        /\ UNCHANGED waiter
  /\ UNCHANGED <<pool, port, opening, udpServer, closes>>

Step(r) ==
  \/ Open(r) \/ EngineStarted(r) \/ Listening(r)
  \/ \E c \in SessionCall : SessionCloses(r, c)
  \/ CheckExpire(r) \/ EngineClosed(r) \/ AnalysisError(r)

Next == UNCHANGED scenario /\ \E r \in Server : Step(r)

Spec == Init /\ [][Next]_allVars

(***************************************************************************)
(* The session ends (SessionManager: EverySessionEnds), the interval timer *)
(* runs, and a close() of the engine client that waits has a timer         *)
(* (EngineClient: CallsSettle).                                            *)
(***************************************************************************)
FairSpec ==
  /\ Spec
  /\ \A r \in Server :
       /\ WF_vars(SessionCloses(r, "session"))
       /\ WF_vars(CheckExpire(r))
       /\ WF_vars(EngineClosed(r))

-----------------------------------------------------------------------------
(***************************************************************************)
(* Properties.                                                             *)
(***************************************************************************)

(***************************************************************************)
(* Every port is either free, once, or held by a server: none is lost and  *)
(* none is handed out twice (the pushes and deletes of lines 68-73 and     *)
(* 155-158), whatever closes the servers, when and how often.              *)
(***************************************************************************)
PortsConserved ==
  /\ \A i, j \in 1 .. Len(ReservedRtpPorts) :
       ReservedRtpPorts[i] = ReservedRtpPorts[j] => i = j
  /\ \A p \in Port :
       InstanceByPort[p] = None <=>
         \E i \in 1 .. Len(ReservedRtpPorts) : ReservedRtpPorts[i] = p

(***************************************************************************)
(* A port changes hands in two ways only: a server that opens takes a free *)
(* one, and a server gives back its own, in the step in which one of its   *)
(* own close() calls is resolved.  Line 156 asks whether any server is at  *)
(* the port, not whether this one is, so this holds if servers are closed  *)
(* once and before they expire.                                            *)
(***************************************************************************)
ClosedOnce == {"double", "late"} \cap Faults = {}

TakenFree(p) ==
  /\ InstanceByPort[p] = None
  /\ \E r \in Server : opening[r] = "none" /\ InstanceByPort'[p] = r

FreedByHolder(p) ==
  /\ InstanceByPort'[p] = None
  /\ LET r == InstanceByPort[p]
     IN \E c \in Caller : closes[r][c] # "resolved" /\ closes'[r][c] = "resolved"

PortsChangeHands ==
  [][ClosedOnce => \A p \in Port : InstanceByPort'[p] # InstanceByPort[p] =>
                     TakenFree(p) \/ FreedByHolder(p)]_allVars

(***************************************************************************)
(* Hence a server that nobody has closed holds its port.                   *)
(***************************************************************************)
PortHeld ==
  ClosedOnce =>
    \A r \in Server :
      /\ opening[r] \in Opening
      /\ \A c \in Caller : closes[r][c] = "idle"
      => InstanceByPort[port[r]] = r

(***************************************************************************)
(* A bound socket belongs to the server that holds the port; otherwise the *)
(* next server that gets the port cannot bind it (lines 119 and 137).      *)
(* Moreover servers are not closed while they open.                        *)
(***************************************************************************)
ClosedOpen == ClosedOnce /\ "early" \notin Faults

NoStaleSocket ==
  ClosedOpen =>
    \A r \in Server : udpServer[r] = "bound" => InstanceByPort[port[r]] = r

(***************************************************************************)
(* A port that is held becomes free again, even when the engine client     *)
(* never resolves the close() of the session: checkExpire (lines 57-62)    *)
(* closes the server again, and even when open() never settles, as the     *)
(* session can end before it does.                                         *)
(***************************************************************************)
PortsComeBack ==
  \A p \in Port :
    InstanceByPort[p] # None /\ "early" \in Faults ~> InstanceByPort[p] = None

=============================================================================
