--------------------------- MODULE RtpPortsProofs ---------------------------
(***************************************************************************)
(* Proofs about the port pool of RtpPorts, for every number of ports and   *)
(* servers.                                                                *)
(*                                                                         *)
(* That no port is lost or handed out twice is inductive together with the *)
(* types, whatever happens (Inv).  That nobody takes the port of a server  *)
(* needs a session that closes its servers once and before they expire:    *)
(* HeldInv says that a server whose engine client is not closed yet, or    *)
(* whose session has not called close(), holds its port.  That no socket   *)
(* outlives its server needs a session that does not close its servers     *)
(* while they open: SocketInv says that a socket exists only before the    *)
(* session closes the server.  That a port changes hands only through      *)
(* open() and a close() of its own server needs EntryInv, that a server    *)
(* remembers the port it is registered under, which holds under every      *)
(* fault, and SettledInv, on which close() the engine client resolves.     *)
(***************************************************************************)
EXTENDS RtpPorts, TLAPS

Types ==
  /\ ReservedRtpPorts \in Seq(Port)
  /\ InstanceByPort \in [Port -> Server \cup {None}]
  /\ port \in [Server -> Port \cup {0}]
  /\ opening \in [Server -> {"none", "failed"} \cup Opening]
  /\ udpServer \in [Server -> {"none", "binding", "bound", "closed"}]
  /\ engineClient \in
       [Server -> {"none", "starting", "up", "closing", "closed"}]
  /\ waiter \in [Server -> {"none", "client"} \cup Caller]
  /\ closes \in [Server -> [Caller -> {"idle", "waiting", "resolved"}]]

\* How the parts of one server go together.
ServerInv(r) ==
  /\ port[r] = 0 => opening[r] \in {"none", "failed"}
  /\ port[r] = 0 <=> engineClient[r] = "none"
  /\ engineClient[r] = "closing" <=> waiter[r] # "none"
  /\ udpServer[r] # "none" => port[r] # 0
  /\ opening[r] = "none" => engineClient[r] = "none"
  /\ opening[r] = "engine" => engineClient[r] \in {"starting", "closed"}

Inv == Types /\ PortsConserved /\ \A r \in Server : ServerInv(r)

-----------------------------------------------------------------------------
(***************************************************************************)
(* The queue of free ports.                                                *)
(***************************************************************************)

LEMMA ShiftFacts ==
  ASSUME ReservedRtpPorts \in Seq(Port), ReservedRtpPorts # <<>>
  PROVE  /\ Shift \in Seq(Port)
         /\ Len(Shift) = Len(ReservedRtpPorts) - 1
         /\ \A i \in 1 .. Len(Shift) : Shift[i] = ReservedRtpPorts[i + 1]
         /\ FirstPort = ReservedRtpPorts[1]
         /\ FirstPort \in Port
         /\ Len(ReservedRtpPorts) \in Nat \ {0}
  BY DEF Shift, FirstPort

LEMMA FirstPortFacts ==
  ASSUME ReservedRtpPorts \in Seq(Port)
  PROVE  /\ Available(FirstPort) <=> ReservedRtpPorts # <<>>
         /\ Available(FirstPort) => FirstPort \in Port
<1>1. CASE ReservedRtpPorts = <<>>
  BY <1>1 DEF Available, FirstPort
<1>2. CASE ReservedRtpPorts # <<>>
  <2>1. FirstPort \in Port
    BY <1>2, ShiftFacts
  <2>2. 0 \notin Port
    BY PortsAssumption DEF Port
  <2> QED
    BY <1>2, <2>1, <2>2 DEF Available
<1> QED
  BY <1>1, <1>2

\* close() puts back what it takes out of the table.
LEMMA ReleaseConserves ==
  ASSUME Inv, NEW r \in Server, Release(r)
  PROVE  /\ ReservedRtpPorts' \in Seq(Port)
         /\ InstanceByPort' \in [Port -> Server \cup {None}]
         /\ PortsConserved'
<1>1. CASE ~Registered(r)
  BY <1>1 DEF Release, Inv, Types, PortsConserved, pool
<1>2. CASE Registered(r)
  <2> DEFINE p == port[r]
             n == Len(ReservedRtpPorts)
  <2>1. /\ p \in Port /\ InstanceByPort[p] # None
        /\ InstanceByPort' = [InstanceByPort EXCEPT ![p] = None]
        /\ ReservedRtpPorts' = Append(ReservedRtpPorts, p)
    BY <1>2 DEF Release, Registered, Inv, Types
  <2>2. /\ ReservedRtpPorts' \in Seq(Port)
        /\ n \in Nat
        /\ Len(ReservedRtpPorts') = n + 1
        /\ ReservedRtpPorts'[n + 1] = p
        /\ \A i \in 1 .. n : ReservedRtpPorts'[i] = ReservedRtpPorts[i]
    BY <2>1 DEF Inv, Types
  <2>3. \A i \in 1 .. n : ReservedRtpPorts[i] # p
    BY <2>1 DEF Inv, PortsConserved
  <2> HIDE DEF p, n
  <2>4. ASSUME NEW i \in 1 .. n + 1, NEW j \in 1 .. n + 1,
               ReservedRtpPorts'[i] = ReservedRtpPorts'[j]
        PROVE  i = j
    <3>1. i \in 1 .. n \/ i = n + 1
      BY <2>2
    <3>2. j \in 1 .. n \/ j = n + 1
      BY <2>2
    <3>3. CASE i \in 1 .. n /\ j \in 1 .. n
      BY <3>3, <2>2, <2>4 DEF Inv, PortsConserved, n
    <3> QED
      BY <3>1, <3>2, <3>3, <2>2, <2>3, <2>4
  <2>5. ASSUME NEW q \in Port
        PROVE  InstanceByPort'[q] = None <=>
                 \E i \in 1 .. n + 1 : ReservedRtpPorts'[i] = q
    <3>1. CASE q = p
      <4>1. n + 1 \in 1 .. n + 1
        BY <2>2
      <4> QED
        BY <3>1, <4>1, <2>1, <2>2 DEF Inv, Types
    <3>2. CASE q # p
      <4>1. InstanceByPort'[q] = InstanceByPort[q]
        BY <3>2, <2>1 DEF Inv, Types
      <4>2. InstanceByPort[q] = None <=>
              \E i \in 1 .. n : ReservedRtpPorts[i] = q
        BY DEF Inv, PortsConserved, n
      <4>3. ASSUME NEW i \in 1 .. n + 1, ReservedRtpPorts'[i] = q
            PROVE  i \in 1 .. n /\ ReservedRtpPorts[i] = q
        BY <4>3, <3>2, <2>2
      <4>4. \A i \in 1 .. n : i \in 1 .. n + 1
        BY <2>2
      <4> QED
        BY <4>1, <4>2, <4>3, <4>4, <2>2
    <3> QED
      BY <3>1, <3>2
  <2>6. InstanceByPort' \in [Port -> Server \cup {None}]
    BY <2>1 DEF Inv, Types
  <2> QED
    BY <2>2, <2>4, <2>5, <2>6 DEF PortsConserved
<1> QED
  BY <1>1, <1>2

\* open() takes the first port out of the queue and into the table.
LEMMA OpenConserves ==
  ASSUME Inv, NEW r \in Server, Available(FirstPort),
         ReservedRtpPorts' = Shift,
         InstanceByPort' = [InstanceByPort EXCEPT ![FirstPort] = r]
  PROVE  /\ ReservedRtpPorts' \in Seq(Port)
         /\ InstanceByPort' \in [Port -> Server \cup {None}]
         /\ InstanceByPort[FirstPort] = None
         /\ FirstPort \in Port
         /\ PortsConserved'
<1> DEFINE p == FirstPort
           n == Len(ReservedRtpPorts)
<1>1. /\ ReservedRtpPorts \in Seq(Port) /\ ReservedRtpPorts # <<>>
      /\ InstanceByPort \in [Port -> Server \cup {None}]
  BY FirstPortFacts DEF Inv, Types
<1>2. /\ ReservedRtpPorts' \in Seq(Port)
      /\ n \in Nat \ {0}
      /\ Len(ReservedRtpPorts') = n - 1
      /\ \A i \in 1 .. n - 1 : ReservedRtpPorts'[i] = ReservedRtpPorts[i + 1]
      /\ p = ReservedRtpPorts[1]
      /\ p \in Port
  BY <1>1, ShiftFacts
<1>3. /\ \A i, j \in 1 .. n :
           ReservedRtpPorts[i] = ReservedRtpPorts[j] => i = j
      /\ \A q \in Port :
           InstanceByPort[q] = None <=>
             \E i \in 1 .. n : ReservedRtpPorts[i] = q
  BY DEF Inv, PortsConserved
<1>4. InstanceByPort' = [InstanceByPort EXCEPT ![p] = r]
  OBVIOUS
<1> HIDE DEF p, n
<1>5. InstanceByPort[p] = None
  <2>1. 1 \in 1 .. n
    BY <1>2
  <2> QED
    BY <2>1, <1>2, <1>3
<1>6. \A i, j \in 1 .. n - 1 :
        ReservedRtpPorts'[i] = ReservedRtpPorts'[j] => i = j
  BY <1>2, <1>3
<1>7. ASSUME NEW q \in Port
      PROVE  InstanceByPort'[q] = None <=>
               \E i \in 1 .. n - 1 : ReservedRtpPorts'[i] = q
  <2>1. CASE q = p
    <3>1. InstanceByPort'[q] # None
      BY <2>1, <1>1, <1>2, <1>4, PortsAssumption
    <3>2. ASSUME NEW i \in 1 .. n - 1, ReservedRtpPorts'[i] = q
          PROVE  FALSE
      <4>1. ReservedRtpPorts[i + 1] = ReservedRtpPorts[1]
        BY <3>2, <2>1, <1>2
      <4>2. i + 1 \in 1 .. n /\ 1 \in 1 .. n /\ i + 1 # 1
        BY <1>2
      <4> QED
        BY <4>1, <4>2, <1>3
    <3> QED
      BY <3>1, <3>2
  <2>2. CASE q # p
    <3>1. InstanceByPort'[q] = InstanceByPort[q]
      BY <2>2, <1>1, <1>4
    <3>2. ASSUME NEW i \in 1 .. n, ReservedRtpPorts[i] = q
          PROVE  \E k \in 1 .. n - 1 : ReservedRtpPorts'[k] = q
      <4>1. i # 1
        BY <3>2, <2>2, <1>2
      <4>2. i - 1 \in 1 .. n - 1 /\ (i - 1) + 1 = i
        BY <4>1, <1>2
      <4>3. ReservedRtpPorts'[i - 1] = ReservedRtpPorts[(i - 1) + 1]
        BY <4>2, <1>2
      <4> QED
        BY <4>2, <4>3, <3>2
    <3>3. ASSUME NEW i \in 1 .. n - 1, ReservedRtpPorts'[i] = q
          PROVE  \E k \in 1 .. n : ReservedRtpPorts[k] = q
      <4>1. i + 1 \in 1 .. n
        BY <1>2
      <4> QED
        BY <4>1, <3>3, <1>2
    <3> QED
      BY <3>1, <3>2, <3>3, <1>3
  <2> QED
    BY <2>1, <2>2
<1>8. InstanceByPort' \in [Port -> Server \cup {None}]
  BY <1>1, <1>4
<1>9. Len(ReservedRtpPorts') = n - 1
  BY <1>2
<1> HIDE DEF n
<1>10. PortsConserved'
  BY <1>6, <1>7, <1>9 DEF PortsConserved
<1> QED
  BY <1>2, <1>5, <1>8, <1>10 DEF p

-----------------------------------------------------------------------------
(***************************************************************************)
(* The invariant that holds under every fault.                             *)
(***************************************************************************)

LEMMA InitInv == Init => Inv
<1> SUFFICES ASSUME Init PROVE Inv
  OBVIOUS
<1>1. ReservedRtpPorts \in Seq(Port) /\ Len(ReservedRtpPorts) = MAX_RTP_PORTS
  BY PortsAssumption DEF Init, Port
<1>2. Types
  BY <1>1 DEF Init, Types, Caller, SessionCall, Opening, Port
<1>3. \A r \in Server : ServerInv(r)
  BY DEF Init, ServerInv
<1>4. PortsConserved
  BY <1>1 DEF Init, PortsConserved, Port
<1> QED
  BY <1>2, <1>3, <1>4 DEF Inv

LEMMA OpenKeepsInv ==
  ASSUME Inv, NEW r \in Server, Open(r)
  PROVE  Inv'
<1>1. CASE Available(FirstPort)
  <2>1. /\ ReservedRtpPorts' \in Seq(Port)
        /\ InstanceByPort' \in [Port -> Server \cup {None}]
        /\ FirstPort \in Port
        /\ PortsConserved'
    BY <1>1, OpenConserves DEF Open
  <2>2. /\ port' = [port EXCEPT ![r] = FirstPort]
        /\ opening' = [opening EXCEPT ![r] = "engine"]
        /\ engineClient' = [engineClient EXCEPT ![r] = "starting"]
        /\ opening[r] = "none"
        /\ UNCHANGED <<udpServer, waiter, closes>>
    BY <1>1 DEF Open
  <2>3. FirstPort # 0
    BY <1>1 DEF Available
  <2>4. Types'
    BY <2>1, <2>2 DEF Inv, Types, Opening
  <2>5. \A q \in Server : ServerInv(q)'
    BY <2>1, <2>2, <2>3 DEF Inv, Types, ServerInv
  <2> QED
    BY <2>1, <2>4, <2>5 DEF Inv
<1>2. CASE ~Available(FirstPort)
  <2>1. Types'
    BY <1>2 DEF Open, Inv, Types, Opening, pool
  <2>2. PortsConserved'
    BY <1>2 DEF Open, Inv, PortsConserved, pool
  <2>3. \A q \in Server : ServerInv(q)'
    BY <1>2 DEF Open, Inv, Types, ServerInv, pool
  <2> QED
    BY <2>1, <2>2, <2>3 DEF Inv
<1> QED
  BY <1>1, <1>2

LEMMA SettleTypes ==
  ASSUME Types, NEW r \in Server, NEW c \in Caller,
         NEW outcome \in {"idle", "waiting", "resolved"}, Settle(r, c, outcome)
  PROVE  /\ closes' \in [Server -> [Caller -> {"idle", "waiting", "resolved"}]]
         /\ \A q \in Server, d \in Caller :
              closes'[q][d] = IF q = r /\ d = c THEN outcome ELSE closes[q][d]
  BY DEF Types, Settle

LEMMA CloseServerKeepsInv ==
  ASSUME Inv, NEW r \in Server, NEW c \in Caller, CloseServer(r, c)
  PROVE  Inv'
<1> USE DEF CloseServer
<1>1. udpServer' \in [Server -> {"none", "binding", "bound", "closed"}]
  BY DEF CloseSocket, Inv, Types
<1>2. CASE CloseAtOnce(r, c)
  <2>1. /\ ReservedRtpPorts' \in Seq(Port)
        /\ InstanceByPort' \in [Port -> Server \cup {None}]
        /\ PortsConserved'
    BY <1>2, ReleaseConserves DEF CloseAtOnce
  <2>2. closes' \in [Server -> [Caller -> {"idle", "waiting", "resolved"}]]
    BY <1>2, SettleTypes DEF CloseAtOnce, Inv
  <2>3. Types'
    BY <1>1, <1>2, <2>1, <2>2 DEF CloseAtOnce, Inv, Types
  <2>4. \A q \in Server : ServerInv(q)'
    BY <1>2 DEF CloseAtOnce, CloseSocket, Inv, Types, ServerInv
  <2> QED
    BY <2>1, <2>3, <2>4 DEF Inv
<1>3. CASE CloseAndWait(r, c)
  <2>1. closes' \in [Server -> [Caller -> {"idle", "waiting", "resolved"}]]
    BY <1>3, SettleTypes DEF CloseAndWait, Inv
  <2>2. Types'
    BY <1>1, <1>3, <2>1 DEF CloseAndWait, Inv, Types, pool
  <2>3. PortsConserved'
    BY <1>3 DEF CloseAndWait, Inv, PortsConserved, pool
  <2>4. c # "none"
    BY DEF Caller, SessionCall
  <2>5. \A q \in Server : ServerInv(q)'
    BY <1>3, <2>4 DEF CloseAndWait, CloseSocket, Inv, Types, ServerInv
  <2> QED
    BY <2>2, <2>3, <2>5 DEF Inv
<1>4. CASE CloseHangs(r, c)
  <2>1. closes' \in [Server -> [Caller -> {"idle", "waiting", "resolved"}]]
    BY <1>4, SettleTypes DEF CloseHangs, Inv
  <2>2. Types'
    BY <1>1, <1>4, <2>1 DEF CloseHangs, Inv, Types, pool
  <2>3. PortsConserved'
    BY <1>4 DEF CloseHangs, Inv, PortsConserved, pool
  <2>4. \A q \in Server : ServerInv(q)'
    BY <1>4 DEF CloseHangs, CloseSocket, Inv, Types, ServerInv
  <2> QED
    BY <2>2, <2>3, <2>4 DEF Inv
<1> QED
  BY <1>2, <1>3, <1>4

LEMMA EngineClosedKeepsInv ==
  ASSUME Inv, NEW r \in Server, EngineClosed(r)
  PROVE  Inv'
<1>1. \A q \in Server : ServerInv(q)'
  BY DEF EngineClosed, Inv, Types, ServerInv
<1>2. CASE waiter[r] \in Caller /\ Release(r) /\ Settle(r, waiter[r], "resolved")
  <2>1. /\ ReservedRtpPorts' \in Seq(Port)
        /\ InstanceByPort' \in [Port -> Server \cup {None}]
        /\ PortsConserved'
    BY <1>2, ReleaseConserves
  <2>2. closes' \in [Server -> [Caller -> {"idle", "waiting", "resolved"}]]
    BY <1>2, SettleTypes DEF Inv
  <2>3. Types'
    BY <2>1, <2>2 DEF EngineClosed, Inv, Types
  <2> QED
    BY <1>1, <2>1, <2>3 DEF Inv
<1>3. CASE UNCHANGED <<pool, closes>>
  <2>1. Types'
    BY <1>3 DEF EngineClosed, Inv, Types, pool
  <2>2. PortsConserved'
    BY <1>3 DEF Inv, PortsConserved, pool
  <2> QED
    BY <1>1, <2>1, <2>2 DEF Inv
<1> QED
  BY <1>2, <1>3 DEF EngineClosed

\* The other actions leave the pool alone.
LEMMA QuietKeepsInv ==
  ASSUME Inv, NEW r \in Server,
         EngineStarted(r) \/ Listening(r) \/ AnalysisError(r)
  PROVE  Inv'
<1>1. PortsConserved'
  BY DEF EngineStarted, Listening, AnalysisError, Inv, PortsConserved, pool
<1>2. CASE EngineStarted(r)
  <2>1. Types'
    BY <1>2 DEF EngineStarted, Inv, Types, Opening, pool
  <2>2. \A q \in Server : ServerInv(q)'
    BY <1>2 DEF EngineStarted, Inv, Types, ServerInv
  <2> QED
    BY <1>1, <2>1, <2>2 DEF Inv
<1>3. CASE Listening(r)
  <2>1. Types'
    BY <1>3 DEF Listening, Inv, Types, Opening, pool
  <2>2. \A q \in Server : ServerInv(q)'
    BY <1>3 DEF Listening, Inv, Types, ServerInv
  <2> QED
    BY <1>1, <2>1, <2>2 DEF Inv
<1>4. CASE AnalysisError(r)
  <2>1. Types'
    BY <1>4 DEF AnalysisError, Inv, Types, pool
  <2>2. \A q \in Server : ServerInv(q)'
    BY <1>4 DEF AnalysisError, Inv, Types, ServerInv
  <2> QED
    BY <1>1, <2>1, <2>2 DEF Inv
<1> QED
  BY <1>2, <1>3, <1>4

LEMMA NextKeepsInv == Inv /\ [Next]_allVars => Inv'
<1> SUFFICES ASSUME Inv, [Next]_allVars PROVE Inv'
  OBVIOUS
<1>1. CASE UNCHANGED allVars
  BY <1>1 DEF allVars, vars, pool, Inv, Types, ServerInv, PortsConserved
<1>2. CASE Next
  <2>1. PICK r \in Server : Step(r)
    BY <1>2 DEF Next
  <2>2. CASE Open(r)
    BY <2>2, OpenKeepsInv
  <2>3. CASE EngineStarted(r) \/ Listening(r) \/ AnalysisError(r)
    BY <2>3, QuietKeepsInv
  <2>4. ASSUME NEW c \in SessionCall, SessionCloses(r, c) PROVE Inv'
    BY <2>4, CloseServerKeepsInv DEF SessionCloses, Caller
  <2>5. CASE CheckExpire(r)
    BY <2>5, CloseServerKeepsInv DEF CheckExpire, Caller
  <2>6. CASE EngineClosed(r)
    BY <2>6, EngineClosedKeepsInv
  <2> QED
    BY <2>1, <2>2, <2>3, <2>4, <2>5, <2>6 DEF Step
<1> QED
  BY <1>1, <1>2

\* The invariant holds in every reachable state, under every fault.
THEOREM Invariance == Spec => []Inv
<1>1. Init => Inv
  BY InitInv
<1>2. Inv /\ [Next]_allVars => Inv'
  BY NextKeepsInv
<1> QED
  BY <1>1, <1>2, PTL DEF Spec

\* The types of the state of the pool and the servers.
THEOREM TypeCorrect == Spec => []TypeOK
<1>1. Init => scenario \in Scenarios
  BY DEF Init
<1>2. scenario \in Scenarios /\ [Next]_allVars => (scenario \in Scenarios)'
  BY DEF Next, allVars
<1>3. Inv /\ scenario \in Scenarios => TypeOK
  BY DEF Inv, Types, ServerInv, TypeOK
<1> QED
  BY <1>1, <1>2, <1>3, Invariance, PTL DEF Spec

\* No port is lost or handed out twice, for every number of ports and servers
\* and under every fault (the pool of rtp_server.js lines 68-73 and 155-158).
THEOREM Conserved == Spec => []PortsConserved
<1>1. Inv => PortsConserved
  BY DEF Inv
<1> QED
  BY <1>1, Invariance, PTL

-----------------------------------------------------------------------------
(***************************************************************************)
(* Nobody takes the port of a server, if no server is closed twice or      *)
(* after it has expired.                                                   *)
(***************************************************************************)
HeldInv ==
  \A r \in Server :
    /\ closes[r]["session"] = "idle" => \A c \in Caller : closes[r][c] = "idle"
    /\ closes[r]["session"] = "idle" /\ port[r] # 0
         => InstanceByPort[port[r]] = r
    /\ engineClient[r] \in {"starting", "up", "closing"}
         => InstanceByPort[port[r]] = r
    /\ waiter[r] \in Caller => closes[r]["session"] # "idle"

\* A step that leaves the pool and the ports alone, lets close() be called only
\* if the session calls it, and starts no engine client, keeps HeldInv.
LEMMA QuietKeepsHeld ==
  ASSUME Inv, HeldInv, UNCHANGED <<pool, port>>,
         \A q \in Server : engineClient'[q] \in {"starting", "up", "closing"}
           => engineClient[q] \in {"starting", "up", "closing"},
         \A q \in Server : closes'[q]["session"] = "idle"
           => closes'[q] = closes[q],
         \A q \in Server : waiter'[q] \in Caller
           => waiter[q] \in Caller \/ closes'[q]["session"] # "idle"
  PROVE  HeldInv'
  BY DEF HeldInv, pool

\* A server that gives back its port does not disturb the others.
LEMMA ReleaseKeepsHeld ==
  ASSUME Inv, HeldInv, NEW r \in Server, Release(r), UNCHANGED port,
         port[r] # 0 => InstanceByPort[port[r]] = r,
         engineClient'[r] \in {"none", "closed"},
         closes'[r]["session"] # "idle",
         \A q \in Server : q # r => /\ engineClient'[q] = engineClient[q]
                                    /\ closes'[q] = closes[q]
                                    /\ waiter'[q] = waiter[q]
  PROVE  HeldInv'
<1>1. /\ InstanceByPort \in [Port -> Server \cup {None}]
      /\ port \in [Server -> Port \cup {0}]
  BY DEF Inv, Types
<1>2. \A q \in Server : port[q] = 0 <=> engineClient[q] = "none"
  BY DEF Inv, ServerInv
<1>3. ASSUME NEW q \in Server, q # r, port[q] # 0, InstanceByPort[port[q]] = q
      PROVE  InstanceByPort'[port[q]] = q
  BY <1>1, <1>3 DEF Release, Registered, pool
<1> QED
  BY <1>2, <1>3 DEF HeldInv

LEMMA OpenKeepsHeld ==
  ASSUME Inv, HeldInv, NEW r \in Server, Open(r)
  PROVE  HeldInv'
<1>1. CASE Available(FirstPort)
  <2>1. /\ FirstPort \in Port /\ InstanceByPort[FirstPort] = None
    BY <1>1, OpenConserves DEF Open
  <2>2. /\ port' = [port EXCEPT ![r] = FirstPort]
        /\ InstanceByPort' = [InstanceByPort EXCEPT ![FirstPort] = r]
        /\ engineClient' = [engineClient EXCEPT ![r] = "starting"]
        /\ UNCHANGED <<waiter, closes>>
    BY <1>1 DEF Open
  <2>3. /\ InstanceByPort \in [Port -> Server \cup {None}]
        /\ port \in [Server -> Port \cup {0}]
        /\ engineClient \in
             [Server -> {"none", "starting", "up", "closing", "closed"}]
    BY DEF Inv, Types
  <2>4. \A q \in Server : port[q] = 0 <=> engineClient[q] = "none"
    BY DEF Inv, ServerInv
  <2>5. port'[r] = FirstPort /\ InstanceByPort'[FirstPort] = r
    BY <2>1, <2>2, <2>3
  <2>6. ASSUME NEW q \in Server, q # r, port[q] # 0,
               InstanceByPort[port[q]] = q
        PROVE  port'[q] = port[q] /\ InstanceByPort'[port[q]] = q
    <3>1. port[q] \in Port /\ port'[q] = port[q]
      BY <2>2, <2>3, <2>6
    <3>2. port[q] # FirstPort
      BY <2>1, <2>6, PortsAssumption
    <3> QED
      BY <3>1, <3>2, <2>2, <2>3, <2>6
  <2>7. \A q \in Server : q # r => /\ engineClient'[q] = engineClient[q]
                                   /\ port'[q] = port[q]
    BY <2>2, <2>3
  <2> QED
    BY <2>2, <2>4, <2>5, <2>6, <2>7 DEF HeldInv
<1>2. CASE ~Available(FirstPort)
  <2>1. UNCHANGED <<pool, port, engineClient, waiter, closes>>
    BY <1>2 DEF Open
  <2> QED
    BY <2>1, QuietKeepsHeld
<1> QED
  BY <1>1, <1>2

\* Whoever calls close(): it is the first call of the session, or the server
\* is still in the table.
LEMMA CloseServerKeepsHeld ==
  ASSUME Inv, HeldInv, NEW r \in Server, NEW c \in Caller, CloseServer(r, c),
         port[r] # 0 => InstanceByPort[port[r]] = r,
         c = "session" \/ closes[r]["session"] # "idle"
  PROVE  HeldInv'
<1>1. "session" \in Caller
  BY DEF Caller, SessionCall
<1>2. ASSUME NEW outcome \in {"waiting", "resolved"}, Settle(r, c, outcome)
      PROVE  /\ closes'[r]["session"] # "idle"
             /\ \A q \in Server : q # r => closes'[q] = closes[q]
  <2>1. closes \in [Server -> [Caller -> {"idle", "waiting", "resolved"}]]
    BY DEF Inv, Types
  <2> QED
    BY <1>1, <1>2, <2>1 DEF Settle
<1>3. engineClient \in
        [Server -> {"none", "starting", "up", "closing", "closed"}]
  BY DEF Inv, Types
<1>4. UNCHANGED port
  BY DEF CloseServer
<1>5. CASE CloseAtOnce(r, c)
  <2>1. engineClient'[r] \in {"none", "closed"}
    BY <1>3, <1>5 DEF CloseAtOnce
  <2>2. \A q \in Server : q # r => engineClient'[q] = engineClient[q]
    BY <1>3, <1>5 DEF CloseAtOnce
  <2>3. Release(r) /\ Settle(r, c, "resolved")
    BY <1>5 DEF CloseAtOnce
  <2> QED
    BY <1>2, <1>4, <1>5, <2>1, <2>2, <2>3, ReleaseKeepsHeld DEF CloseAtOnce
<1>6. CASE CloseAndWait(r, c)
  <2>1. /\ engineClient[r] = "up" /\ UNCHANGED pool
        /\ engineClient' = [engineClient EXCEPT ![r] = "closing"]
        /\ waiter' = [waiter EXCEPT ![r] = c]
        /\ Settle(r, c, "waiting")
    BY <1>6 DEF CloseAndWait
  <2>2. \A q \in Server : engineClient'[q] \in {"starting", "up", "closing"}
          => engineClient[q] \in {"starting", "up", "closing"}
    BY <1>3, <2>1
  <2>3. \A q \in Server : closes'[q]["session"] = "idle"
          => closes'[q] = closes[q]
    BY <1>2, <2>1
  <2>4. \A q \in Server : waiter'[q] \in Caller
          => waiter[q] \in Caller \/ closes'[q]["session"] # "idle"
    <3>1. waiter \in [Server -> {"none", "client"} \cup Caller]
      BY DEF Inv, Types
    <3> QED
      BY <1>2, <2>1, <3>1
  <2> QED
    BY <1>4, <2>1, <2>2, <2>3, <2>4, QuietKeepsHeld
<1>7. CASE CloseHangs(r, c)
  <2>1. UNCHANGED <<pool, engineClient, waiter>> /\ Settle(r, c, "waiting")
    BY <1>7 DEF CloseHangs
  <2>2. \A q \in Server : closes'[q]["session"] = "idle"
          => closes'[q] = closes[q]
    BY <1>2, <2>1
  <2> QED
    BY <1>4, <2>1, <2>2, QuietKeepsHeld
<1> QED
  BY <1>5, <1>6, <1>7 DEF CloseServer

LEMMA EngineClosedKeepsHeld ==
  ASSUME Inv, HeldInv, NEW r \in Server, EngineClosed(r)
  PROVE  HeldInv'
<1>1. /\ engineClient[r] = "closing"
      /\ engineClient' = [engineClient EXCEPT ![r] = "closed"]
      /\ UNCHANGED port
  BY DEF EngineClosed
<1>2. /\ engineClient \in
           [Server -> {"none", "starting", "up", "closing", "closed"}]
      /\ closes \in [Server -> [Caller -> {"idle", "waiting", "resolved"}]]
  BY DEF Inv, Types
<1>3. \A q \in Server : q # r => /\ engineClient'[q] = engineClient[q]
                                 /\ waiter'[q] = waiter[q]
  <2>1. waiter \in [Server -> {"none", "client"} \cup Caller]
    BY DEF Inv, Types
  <2> QED
    BY <1>1, <1>2, <2>1 DEF EngineClosed
<1>4. engineClient'[r] = "closed" /\ waiter'[r] = "none"
  <2>1. waiter \in [Server -> {"none", "client"} \cup Caller]
    BY DEF Inv, Types
  <2> QED
    BY <1>1, <1>2, <2>1 DEF EngineClosed
<1>5. CASE waiter[r] \in Caller /\ Release(r) /\ Settle(r, waiter[r], "resolved")
  <2>1. port[r] # 0 => InstanceByPort[port[r]] = r
    BY <1>1 DEF HeldInv
  <2>2. closes[r]["session"] # "idle"
    BY <1>5 DEF HeldInv
  <2>3. /\ closes'[r]["session"] # "idle"
        /\ \A q \in Server : q # r => closes'[q] = closes[q]
    <3>1. "session" \in Caller
      BY DEF Caller, SessionCall
    <3> QED
      BY <1>2, <1>5, <2>2, <3>1 DEF Settle
  <2> QED
    BY <1>1, <1>3, <1>4, <1>5, <2>1, <2>3, ReleaseKeepsHeld
<1>6. CASE UNCHANGED <<pool, closes>>
  <2>1. \A q \in Server : engineClient'[q] \in {"starting", "up", "closing"}
          => engineClient[q] \in {"starting", "up", "closing"}
    BY <1>3, <1>4
  <2>2. "none" \notin Caller
    BY DEF Caller, SessionCall
  <2>3. \A q \in Server : waiter'[q] \in Caller => waiter[q] \in Caller
    BY <1>3, <1>4, <2>2
  <2> QED
    BY <1>1, <1>6, <2>1, <2>3, QuietKeepsHeld
<1> QED
  BY <1>5, <1>6 DEF EngineClosed

LEMMA InitHeld == Init => HeldInv
<1> SUFFICES ASSUME Init, NEW r \in Server
             PROVE  /\ \A c \in Caller : closes[r][c] = "idle"
                    /\ port[r] = 0
                    /\ engineClient[r] = "none"
                    /\ waiter[r] \notin Caller
  BY DEF HeldInv
<1> QED
  BY DEF Init, Caller, SessionCall

LEMMA NextKeepsHeld ==
  ASSUME ClosedOnce
  PROVE  Inv /\ HeldInv /\ [Next]_allVars => HeldInv'
<1> SUFFICES ASSUME Inv, HeldInv, [Next]_allVars PROVE HeldInv'
  OBVIOUS
<1>1. CASE UNCHANGED allVars
  BY <1>1 DEF allVars, vars, HeldInv
<1>2. ASSUME NEW r \in Server, Open(r) PROVE HeldInv'
  BY <1>2, OpenKeepsHeld
<1>3. ASSUME NEW r \in Server, EngineStarted(r) PROVE HeldInv'
  <2>1. UNCHANGED <<pool, port, waiter, closes>>
    BY <1>3 DEF EngineStarted
  <2>2. \A q \in Server : engineClient'[q] \in {"starting", "up", "closing"}
          => engineClient[q] \in {"starting", "up", "closing"}
    BY <1>3 DEF EngineStarted, Inv, Types
  <2> QED
    BY <2>1, <2>2, QuietKeepsHeld
<1>4. ASSUME NEW r \in Server, Listening(r) PROVE HeldInv'
  <2>1. UNCHANGED <<pool, port, engineClient, waiter, closes>>
    BY <1>4 DEF Listening
  <2> QED
    BY <2>1, QuietKeepsHeld
<1>5. ASSUME NEW r \in Server, AnalysisError(r) PROVE HeldInv'
  <2>1. UNCHANGED <<pool, port, closes>>
    BY <1>5 DEF AnalysisError
  <2>2. \A q \in Server : engineClient'[q] \in {"starting", "up", "closing"}
          => engineClient[q] \in {"starting", "up", "closing"}
    BY <1>5 DEF AnalysisError, Inv, Types
  <2>3. "client" \notin Caller
    BY DEF Caller, SessionCall
  <2>4. \A q \in Server : waiter'[q] \in Caller => waiter[q] \in Caller
    BY <1>5, <2>3 DEF AnalysisError, Inv, Types
  <2> QED
    BY <2>1, <2>2, <2>4, QuietKeepsHeld
<1>6. ASSUME NEW r \in Server, NEW c \in SessionCall, SessionCloses(r, c)
      PROVE  HeldInv'
  <2>1. /\ closes[r][c] = "idle" /\ CloseServer(r, c)
        /\ c # "again"
    BY <1>6 DEF SessionCloses, ClosedOnce
  <2>2. c = "session" /\ c \in Caller
    BY <2>1 DEF SessionCall, Caller
  <2>3. port[r] # 0 => InstanceByPort[port[r]] = r
    BY <2>1, <2>2 DEF HeldInv
  <2> QED
    BY <2>1, <2>2, <2>3, CloseServerKeepsHeld
<1>7. ASSUME NEW r \in Server, CheckExpire(r) PROVE HeldInv'
  <2>1. /\ InstanceByPort[port[r]] = r /\ CloseServer(r, "expiry")
        /\ closes[r]["session"] # "idle"
    BY <1>7 DEF CheckExpire, Expired, ClosedOnce
  <2>2. "expiry" \in Caller
    BY DEF Caller
  <2> QED
    BY <2>1, <2>2, CloseServerKeepsHeld
<1>8. ASSUME NEW r \in Server, EngineClosed(r) PROVE HeldInv'
  BY <1>8, EngineClosedKeepsHeld
<1> QED
  BY <1>1, <1>2, <1>3, <1>4, <1>5, <1>6, <1>7, <1>8 DEF Next, Step

\* A server that nobody has closed holds its port, for every number of ports
\* and servers, if servers are closed once and before they expire: nobody else's
\* close() (rtp_server.js lines 155-158) takes the port away.
THEOREM HeldUntilClosed == Spec => []PortHeld
<1>1. Init => (ClosedOnce => HeldInv)
  BY InitHeld
<1>2. Inv /\ (ClosedOnce => HeldInv) /\ [Next]_allVars
        => (ClosedOnce => HeldInv)'
  <2>1. [Next]_allVars => (ClosedOnce' <=> ClosedOnce)
    BY DEF Next, allVars, ClosedOnce, Faults
  <2> QED
    BY <2>1, NextKeepsHeld
<1>3. Inv /\ (ClosedOnce => HeldInv) => PortHeld
  <2> SUFFICES ASSUME Inv, HeldInv, NEW r \in Server, opening[r] \in Opening,
                      \A c \in Caller : closes[r][c] = "idle"
               PROVE  InstanceByPort[port[r]] = r
    BY DEF PortHeld
  <2>1. port[r] # 0
    BY DEF Inv, ServerInv, Opening
  <2>2. closes[r]["session"] = "idle"
    BY DEF Caller, SessionCall
  <2> QED
    BY <2>1, <2>2 DEF HeldInv
<1> QED
  BY <1>1, <1>2, <1>3, Invariance, PTL DEF Spec

-----------------------------------------------------------------------------
(***************************************************************************)
(* No socket outlives its server, if sessions do not close their servers   *)
(* while they open either.                                                 *)
(***************************************************************************)
SocketInv ==
  \A r \in Server :
    \/ udpServer[r] \in {"binding", "bound"}
    \/ opening[r] \in {"none", "engine"}
    => closes[r]["session"] = "idle"

LEMMA NextKeepsSocket ==
  ASSUME ClosedOpen
  PROVE  Inv /\ HeldInv /\ SocketInv /\ [Next]_allVars => SocketInv'
<1> SUFFICES ASSUME Inv, HeldInv, SocketInv, [Next]_allVars PROVE SocketInv'
  OBVIOUS
<1> USE DEF SocketInv
<1>1. CASE UNCHANGED allVars
  BY <1>1 DEF allVars, vars
<1>2. ASSUME NEW r \in Server, Open(r) PROVE SocketInv'
  <2>1. UNCHANGED <<udpServer, closes>> /\ opening[r] = "none"
    BY <1>2 DEF Open
  <2>2. \A q \in Server : q # r => opening'[q] = opening[q]
    BY <1>2 DEF Open, Inv, Types
  <2> QED
    BY <2>1, <2>2
<1>3. ASSUME NEW r \in Server, EngineStarted(r) PROVE SocketInv'
  <2>1. UNCHANGED closes /\ opening[r] = "engine"
    BY <1>3 DEF EngineStarted
  <2>2. \A q \in Server : q # r => /\ opening'[q] = opening[q]
                                   /\ udpServer'[q] = udpServer[q]
    BY <1>3 DEF EngineStarted, Inv, Types
  <2> QED
    BY <2>1, <2>2
<1>4. ASSUME NEW r \in Server, Listening(r) PROVE SocketInv'
  <2>1. UNCHANGED closes /\ udpServer[r] = "binding"
    BY <1>4 DEF Listening
  <2>2. \A q \in Server : q # r => /\ opening'[q] = opening[q]
                                   /\ udpServer'[q] = udpServer[q]
    BY <1>4 DEF Listening, Inv, Types
  <2> QED
    BY <2>1, <2>2
<1>5. ASSUME NEW r \in Server, AnalysisError(r) PROVE SocketInv'
  BY <1>5 DEF AnalysisError
<1>6. ASSUME NEW r \in Server, NEW c \in Caller, CloseServer(r, c),
             opening[r] \notin {"none", "engine"}
      PROVE  SocketInv'
  <2>1. /\ opening' = opening
        /\ udpServer'[r] \in {"none", "closed"}
        /\ \A q \in Server : q # r => udpServer'[q] = udpServer[q]
    BY <1>6 DEF CloseServer, CloseSocket, Inv, Types
  <2>2. PICK outcome : Settle(r, c, outcome)
    BY <1>6 DEF CloseServer, CloseAtOnce, CloseAndWait, CloseHangs
  <2>3. \A q \in Server : q # r => closes'[q] = closes[q]
    BY <2>2 DEF Settle, Inv, Types
  <2> QED
    BY <1>6, <2>1, <2>3
<1>7. ASSUME NEW r \in Server, NEW c \in SessionCall, SessionCloses(r, c)
      PROVE  SocketInv'
  <2>1. opening[r] \notin {"none", "engine"}
    BY <1>7 DEF SessionCloses, ClosedOpen
  <2> QED
    BY <1>6, <1>7, <2>1 DEF SessionCloses, Caller
<1>8. ASSUME NEW r \in Server, CheckExpire(r) PROVE SocketInv'
  <2>1. closes[r]["session"] # "idle"
    BY <1>8 DEF CheckExpire, Expired, ClosedOpen, ClosedOnce
  <2> QED
    BY <1>6, <1>8, <2>1 DEF CheckExpire, Caller
<1>9. ASSUME NEW r \in Server, EngineClosed(r) PROVE SocketInv'
  <2>1. UNCHANGED <<opening, udpServer>>
    BY <1>9 DEF EngineClosed
  <2>2. ASSUME NEW q \in Server, closes[q]["session"] = "idle"
        PROVE  closes'[q]["session"] = "idle"
    <3>1. q = r => waiter[r] \notin Caller
      BY <2>2 DEF HeldInv
    <3>2. CASE UNCHANGED closes
      BY <2>2, <3>2
    <3>3. CASE waiter[r] \in Caller /\ Settle(r, waiter[r], "resolved")
      BY <2>2, <3>1, <3>3 DEF Settle, Inv, Types
    <3> QED
      BY <1>9, <3>2, <3>3 DEF EngineClosed
  <2> QED
    BY <2>1, <2>2
<1> QED
  BY <1>1, <1>2, <1>3, <1>4, <1>5, <1>7, <1>8, <1>9 DEF Next, Step

\* The socket of a server is bound only while the server holds the port, if the
\* session closes its servers once, after they have opened and before they
\* expire: the next server that gets the port can bind it.
THEOREM SocketsOwned == Spec => []NoStaleSocket
<1> DEFINE OpenInv == ClosedOpen => HeldInv /\ SocketInv
<1>1. Init => OpenInv
  BY InitHeld DEF Init, SocketInv, Caller, SessionCall
<1>2. Inv /\ OpenInv /\ [Next]_allVars => OpenInv'
  <2>1. [Next]_allVars => (ClosedOpen' <=> ClosedOpen)
    BY DEF Next, allVars, ClosedOpen, ClosedOnce, Faults
  <2>2. ClosedOpen => ClosedOnce
    BY DEF ClosedOpen
  <2> QED
    BY <2>1, <2>2, NextKeepsHeld, NextKeepsSocket
<1>3. Inv /\ OpenInv => NoStaleSocket
  BY DEF Inv, ServerInv, HeldInv, SocketInv, NoStaleSocket
<1> QED
  BY <1>1, <1>2, <1>3, Invariance, PTL DEF Spec

-----------------------------------------------------------------------------
(***************************************************************************)
(* A port changes hands through open() and its own server's close() only.  *)
(***************************************************************************)

\* A server is in the table only under the port it remembers.
EntryInv ==
  \A p \in Port : InstanceByPort[p] # None => port[InstanceByPort[p]] = p

\* The close() that the engine client will resolve waits, and a close() of the
\* interval timer that was resolved has freed the port for good.
SettledInv ==
  \A r \in Server :
    /\ waiter[r] \in Caller => closes[r][waiter[r]] = "waiting"
    /\ closes[r]["expiry"] = "resolved" =>
         port[r] # 0 /\ InstanceByPort[port[r]] # r

ChangesHands ==
  \A p \in Port : InstanceByPort'[p] # InstanceByPort[p] =>
    TakenFree(p) \/ FreedByHolder(p)

LEMMA InitEntry == Init => EntryInv /\ SettledInv
BY DEF Init, EntryInv, SettledInv, Caller, SessionCall

\* What changes neither the table, nor a port, nor what close() waits for.
LEMMA QuietChangesNothing ==
  ASSUME SettledInv, UNCHANGED <<InstanceByPort, port, closes>>,
         \A q \in Server : waiter'[q] \in Caller => waiter'[q] = waiter[q]
  PROVE  SettledInv' /\ ChangesHands
<1>1. SettledInv'
  BY DEF SettledInv
<1> QED
  BY <1>1 DEF ChangesHands

\* open() takes a free port, for a server that never had one.
LEMMA OpenTakes ==
  ASSUME Inv, EntryInv, NEW r \in Server, Open(r)
  PROVE  EntryInv' /\ ChangesHands /\ (SettledInv => SettledInv')
<1>0. /\ opening[r] = "none" /\ port[r] = 0 /\ r # None /\ 0 \notin Port
      /\ InstanceByPort \in [Port -> Server \cup {None}]
      /\ port \in [Server -> Port \cup {0}]
  BY PortsAssumption DEF Open, Inv, Types, ServerInv, Port
<1>1. \A p \in Port : InstanceByPort[p] # r
  BY <1>0 DEF EntryInv
<1>2. UNCHANGED <<waiter, closes>>
  BY DEF Open
<1>3. CASE Available(FirstPort)
  <2>1. /\ FirstPort \in Port /\ InstanceByPort[FirstPort] = None
    BY <1>3, OpenConserves DEF Open
  <2>2. /\ port' = [port EXCEPT ![r] = FirstPort]
        /\ InstanceByPort' = [InstanceByPort EXCEPT ![FirstPort] = r]
    BY <1>3 DEF Open
  <2>3. EntryInv'
    <3> SUFFICES ASSUME NEW p \in Port, InstanceByPort'[p] # None
                 PROVE  port'[InstanceByPort'[p]] = p
      BY DEF EntryInv
    <3>1. CASE p = FirstPort
      BY <1>0, <2>1, <2>2, <3>1
    <3>2. CASE p # FirstPort
      <4>1. InstanceByPort'[p] = InstanceByPort[p] /\ InstanceByPort[p] # r
        BY <1>0, <1>1, <2>2, <3>2
      <4> QED
        BY <1>0, <2>2, <4>1 DEF EntryInv
    <3> QED
      BY <3>1, <3>2
  <2>4. ChangesHands
    BY <1>0, <2>1, <2>2 DEF ChangesHands, TakenFree
  <2>5. ASSUME SettledInv PROVE SettledInv'
    <3> SUFFICES ASSUME NEW q \in Server, closes[q]["expiry"] = "resolved"
                 PROVE  port'[q] # 0 /\ InstanceByPort'[port'[q]] # q
      BY <1>2, <2>5 DEF SettledInv
    <3>1. port[q] # 0 /\ InstanceByPort[port[q]] # q /\ q # r
      BY <1>0, <2>5 DEF SettledInv
    <3> QED
      BY <1>0, <2>1, <2>2, <3>1
  <2> QED
    BY <2>3, <2>4, <2>5
<1>4. CASE ~Available(FirstPort)
  <2>1. UNCHANGED <<InstanceByPort, port>>
    BY <1>4 DEF Open, pool
  <2>2. EntryInv'
    BY <2>1 DEF EntryInv
  <2> QED
    BY <1>2, <2>1, <2>2, QuietChangesNothing DEF ChangesHands
<1> QED
  BY <1>3, <1>4

\* A release takes an entry away, whose ever it is, and adds none.
LEMMA ReleaseKeepsEntry ==
  ASSUME Inv, EntryInv, NEW r \in Server, Release(r) \/ UNCHANGED pool,
         port' = port
  PROVE  EntryInv'
<1>1. \A p \in Port : InstanceByPort'[p] = None \/ InstanceByPort'[p] = InstanceByPort[p]
  BY DEF Release, pool, Inv, Types
<1> QED
  BY <1>1 DEF EntryInv

\* What a resolved close() gives back was the port of its own server.
LEMMA ReleaseFreesOwn ==
  ASSUME Inv, SettledInv, NEW r \in Server, NEW c \in Caller,
         Release(r), Settle(r, c, "resolved"), UNCHANGED port,
         closes[r][c] # "resolved",
         waiter' = waiter \/ waiter' = [waiter EXCEPT ![r] = "none"],
         waiter'[r] = "none",
         port[r] # 0 => InstanceByPort[port[r]] = r,
         c = "expiry" => port[r] # 0
  PROVE  SettledInv' /\ ChangesHands
<1>0. /\ InstanceByPort \in [Port -> Server \cup {None}]
      /\ port \in [Server -> Port \cup {0}] /\ r # None
      /\ closes \in [Server -> [Caller -> {"idle", "waiting", "resolved"}]]
      /\ waiter \in [Server -> {"none", "client"} \cup Caller]
      /\ "none" \notin Caller
  BY PortsAssumption DEF Inv, Types, Caller, SessionCall
<1>1. closes' = [closes EXCEPT ![r][c] = "resolved"]
  BY DEF Settle
<1>2. port[r] # 0 => InstanceByPort' = [InstanceByPort EXCEPT ![port[r]] = None]
  BY <1>0 DEF Release, Registered
<1>3. port[r] = 0 => InstanceByPort' = InstanceByPort
  BY DEF Release, Registered, pool
<1>4. ChangesHands
  <2> SUFFICES ASSUME NEW p \in Port, InstanceByPort'[p] # InstanceByPort[p]
               PROVE  FreedByHolder(p)
    BY DEF ChangesHands
  <2>1. p = port[r] /\ InstanceByPort[p] = r /\ InstanceByPort'[p] = None
    BY <1>0, <1>2, <1>3
  <2>2. closes[r][c] # "resolved" /\ closes'[r][c] = "resolved"
    BY <1>0, <1>1
  <2> QED
    BY <2>1, <2>2 DEF FreedByHolder
<1>5. SettledInv'
  <2> SUFFICES ASSUME NEW q \in Server
               PROVE  /\ waiter'[q] \in Caller => closes'[q][waiter'[q]] = "waiting"
                      /\ closes'[q]["expiry"] = "resolved" =>
                           port[q] # 0 /\ InstanceByPort'[port[q]] # q
    BY DEF SettledInv
  <2>1. CASE q # r
    <3>1. closes'[q] = closes[q] /\ waiter'[q] = waiter[q]
      BY <1>0, <1>1, <2>1
    <3>2. port[q] # 0 /\ InstanceByPort[port[q]] # q =>
            InstanceByPort'[port[q]] # q
      BY <1>0, <1>2, <1>3, PortsAssumption
    <3> QED
      BY <3>1, <3>2 DEF SettledInv
  <2>2. CASE q = r
    <3>1. waiter'[q] \notin Caller
      BY <1>0, <2>2
    <3>2. closes'[r]["expiry"] = "resolved" => port[r] # 0
      <4>1. CASE c = "expiry"
        BY <4>1
      <4>2. CASE c # "expiry"
        <5>1. closes'[r]["expiry"] = closes[r]["expiry"]
          BY <1>0, <1>1, <4>2 DEF Caller, SessionCall
        <5> QED
          BY <5>1 DEF SettledInv
      <4> QED
        BY <4>1, <4>2
    <3>3. port[r] # 0 => InstanceByPort'[port[r]] # r
      BY <1>0, <1>2
    <3> QED
      BY <2>2, <3>1, <3>2, <3>3
  <2> QED
    BY <2>1, <2>2
<1> QED
  BY <1>4, <1>5

\* A close() of a server that holds its port, if it holds one.
LEMMA CloseServerFreesOwn ==
  ASSUME Inv, SettledInv, NEW r \in Server, NEW c \in Caller, CloseServer(r, c),
         closes[r][c] # "resolved",
         waiter[r] # c,
         port[r] # 0 => InstanceByPort[port[r]] = r,
         c = "expiry" => port[r] # 0
  PROVE  SettledInv' /\ ChangesHands
<1>0. /\ closes \in [Server -> [Caller -> {"idle", "waiting", "resolved"}]]
      /\ waiter \in [Server -> {"none", "client"} \cup Caller]
      /\ UNCHANGED port
  BY DEF Inv, Types, CloseServer
<1>1. CASE CloseAtOnce(r, c)
  <2>1. waiter[r] = "none" /\ waiter' = waiter
    BY <1>1 DEF CloseAtOnce, Inv, ServerInv
  <2> QED
    BY <1>0, <1>1, <2>1, ReleaseFreesOwn DEF CloseAtOnce
<1>2. CASE CloseAndWait(r, c) \/ CloseHangs(r, c)
  <2>1. InstanceByPort' = InstanceByPort /\ closes' = [closes EXCEPT ![r][c] = "waiting"]
    BY <1>2 DEF CloseAndWait, CloseHangs, pool, Settle
  <2>2. waiter' = waiter \/ waiter' = [waiter EXCEPT ![r] = c]
    BY <1>2 DEF CloseAndWait, CloseHangs
  <2>3. SettledInv'
    <3> SUFFICES ASSUME NEW q \in Server
                 PROVE  /\ waiter'[q] \in Caller => closes'[q][waiter'[q]] = "waiting"
                        /\ closes'[q]["expiry"] = "resolved" =>
                             port[q] # 0 /\ InstanceByPort[port[q]] # q
      BY <1>0, <2>1 DEF SettledInv
    <3>1. \A d \in Caller : closes'[q][d] = "waiting" \/ closes'[q][d] = closes[q][d]
      BY <1>0, <2>1
    <3>2. waiter'[q] \in Caller => closes'[q][waiter'[q]] = "waiting"
      <4>1. CASE waiter'[q] = waiter[q]
        BY <3>1, <4>1 DEF SettledInv
      <4>2. CASE waiter'[q] # waiter[q]
        BY <1>0, <2>1, <2>2, <4>2
      <4> QED
        BY <4>1, <4>2
    <3>3. "expiry" \in Caller
      BY DEF Caller
    <3> QED
      BY <3>1, <3>2, <3>3 DEF SettledInv
  <2> QED
    BY <2>1, <2>3 DEF ChangesHands
<1> QED
  BY <1>1, <1>2 DEF CloseServer

LEMMA NextChangesHands ==
  ASSUME ClosedOnce
  PROVE  Inv /\ HeldInv /\ EntryInv /\ SettledInv /\ [Next]_allVars =>
           SettledInv' /\ ChangesHands
<1> SUFFICES ASSUME Inv, HeldInv, EntryInv, SettledInv, [Next]_allVars
             PROVE  SettledInv' /\ ChangesHands
  OBVIOUS
<1>1. CASE UNCHANGED allVars
  BY <1>1, QuietChangesNothing DEF allVars, vars, pool
<1>2. ASSUME NEW r \in Server, Open(r) PROVE SettledInv' /\ ChangesHands
  BY <1>2, OpenTakes
<1>3. ASSUME NEW r \in Server, EngineStarted(r) \/ Listening(r) \/ AnalysisError(r)
      PROVE  SettledInv' /\ ChangesHands
  <2>1. UNCHANGED <<InstanceByPort, port, closes>>
    BY <1>3 DEF EngineStarted, Listening, AnalysisError, pool
  <2>2. waiter' = waiter \/ waiter' = [waiter EXCEPT ![r] = "client"]
    BY <1>3 DEF EngineStarted, Listening, AnalysisError
  <2>3. "client" \notin Caller /\ waiter \in [Server -> {"none", "client"} \cup Caller]
    BY DEF Caller, SessionCall, Inv, Types
  <2> QED
    BY <2>1, <2>2, <2>3, QuietChangesNothing
<1>4. ASSUME NEW r \in Server, NEW c \in SessionCall, SessionCloses(r, c)
      PROVE  SettledInv' /\ ChangesHands
  <2>1. closes[r][c] = "idle" /\ CloseServer(r, c) /\ c = "session"
    BY <1>4 DEF SessionCloses, ClosedOnce, SessionCall
  <2>2. port[r] # 0 => InstanceByPort[port[r]] = r
    BY <2>1 DEF HeldInv
  <2>3. waiter[r] # c /\ c \in Caller
    BY <2>1 DEF SettledInv, Caller, SessionCall
  <2> QED
    BY <2>1, <2>2, <2>3, CloseServerFreesOwn
<1>5. ASSUME NEW r \in Server, CheckExpire(r) PROVE SettledInv' /\ ChangesHands
  <2>1. /\ port[r] # 0 /\ InstanceByPort[port[r]] = r
        /\ CloseServer(r, "expiry") /\ "expiry" \in Caller
    BY <1>5 DEF CheckExpire, Caller
  <2>2. closes[r]["expiry"] # "resolved"
    BY <2>1 DEF SettledInv
  <2>3. CASE waiter[r] # "expiry"
    BY <2>1, <2>2, <2>3, CloseServerFreesOwn
  <2>4. CASE waiter[r] = "expiry"
    <3>1. engineClient[r] = "closing" /\ closes[r]["expiry"] = "waiting"
      BY <2>1, <2>4 DEF Inv, ServerInv, SettledInv
    <3>2. CloseHangs(r, "expiry") /\ port' = port
      BY <2>1, <3>1 DEF CloseServer, CloseAtOnce, CloseAndWait
    <3>3. UNCHANGED <<InstanceByPort, port, closes, waiter>>
      BY <3>1, <3>2 DEF CloseHangs, Settle, pool, Inv, Types
    <3> QED
      BY <3>3, QuietChangesNothing
  <2> QED
    BY <2>3, <2>4
<1>6. ASSUME NEW r \in Server, EngineClosed(r) PROVE SettledInv' /\ ChangesHands
  <2>1. /\ engineClient[r] = "closing" /\ UNCHANGED port
        /\ waiter' = [waiter EXCEPT ![r] = "none"]
        /\ waiter'[r] = "none"
    BY <1>6 DEF EngineClosed, Inv, Types
  <2>2. port[r] # 0 /\ InstanceByPort[port[r]] = r
    BY <2>1 DEF HeldInv, Inv, ServerInv
  <2>3. CASE waiter[r] \in Caller /\ Release(r) /\ Settle(r, waiter[r], "resolved")
    <3>1. closes[r][waiter[r]] # "resolved"
      BY <2>3 DEF SettledInv
    <3> QED
      BY <2>1, <2>2, <2>3, <3>1, ReleaseFreesOwn
  <2>4. CASE UNCHANGED <<pool, closes>>
    <3>1. "none" \notin Caller
      BY DEF Caller, SessionCall
    <3>2. \A q \in Server : waiter'[q] \in Caller => waiter'[q] = waiter[q]
      BY <2>1, <3>1 DEF Inv, Types
    <3> QED
      BY <2>1, <2>4, <3>2, QuietChangesNothing DEF pool
  <2> QED
    BY <1>6, <2>3, <2>4 DEF EngineClosed
<1> QED
  BY <1>1, <1>2, <1>3, <1>4, <1>5, <1>6 DEF Next, Step

\* EntryInv is kept however often servers are closed, and by whom.
LEMMA NextKeepsEntry == Inv /\ EntryInv /\ [Next]_allVars => EntryInv'
<1> SUFFICES ASSUME Inv, EntryInv, [Next]_allVars PROVE EntryInv'
  OBVIOUS
<1>1. CASE UNCHANGED allVars
  BY <1>1 DEF allVars, vars, EntryInv
<1>2. ASSUME NEW r \in Server, Open(r) PROVE EntryInv'
  BY <1>2, OpenTakes
<1>3. ASSUME NEW r \in Server,
             EngineStarted(r) \/ Listening(r) \/ AnalysisError(r)
      PROVE  EntryInv'
  BY <1>3 DEF EngineStarted, Listening, AnalysisError, pool, EntryInv
<1>4. ASSUME NEW r \in Server, NEW c, CloseServer(r, c) PROVE EntryInv'
  BY <1>4, ReleaseKeepsEntry
  DEF CloseServer, CloseAtOnce, CloseAndWait, CloseHangs
<1>5. ASSUME NEW r \in Server, EngineClosed(r) PROVE EntryInv'
  BY <1>5, ReleaseKeepsEntry DEF EngineClosed, pool
<1> QED
  BY <1>1, <1>2, <1>3, <1>4, <1>5 DEF Next, Step, SessionCloses, CheckExpire

\* Whatever the engines, the network and the expiry of servers do: a worker
\* gives a port away only while it is free, and takes it back only from the
\* server whose own close() is resolved in that step, if sessions close their
\* servers once and before they expire.
THEOREM PortsOwned == Spec => PortsChangeHands
<1> DEFINE OwnInv == EntryInv /\ (ClosedOnce => HeldInv /\ SettledInv)
<1>1. Init => OwnInv
  BY InitHeld, InitEntry
<1>2. Inv /\ OwnInv /\ [Next]_allVars =>
        OwnInv' /\ [ClosedOnce => ChangesHands]_allVars
  <2>1. [Next]_allVars => (ClosedOnce' <=> ClosedOnce)
    BY DEF Next, allVars, ClosedOnce, Faults
  <2> QED
    BY <2>1, NextKeepsHeld, NextKeepsEntry, NextChangesHands
<1>3. Spec => [][ClosedOnce => ChangesHands]_allVars
  BY <1>1, <1>2, Invariance, PTL DEF Spec
<1> QED
  BY <1>3 DEF PortsChangeHands, ChangesHands

-----------------------------------------------------------------------------
(***************************************************************************)
(* A port that is held, as far as it can be said without liveness: the     *)
(* safe half of PortsComeBack.                                             *)
(***************************************************************************)

\* The server that holds a port remembers it, so that the close() of the interval
\* timer, which visits the servers of the table (line 34), frees this port and
\* CheckExpire speaks of all of them; and if its engine client is closing,
\* somebody waits for that, after which a close() frees the port at once.
PortGoesOn ==
  \A p \in Port : \A r \in Server : InstanceByPort[p] = r =>
    /\ port[r] # 0 /\ InstanceByPort[port[r]] = r
    /\ engineClient[r] = "closing" => waiter[r] \in {"client"} \cup Caller

\* However often servers are closed, and by whom, none holds a port that the
\* interval timer would not free (lines 34 and 57-62).
THEOREM NoPortForgotten == Spec => []PortGoesOn
<1>1. Init => EntryInv
  BY InitEntry
<1>2. Inv /\ EntryInv /\ [Next]_allVars => EntryInv'
  BY NextKeepsEntry
<1>3. Inv /\ EntryInv => PortGoesOn
  <2> SUFFICES ASSUME Inv, EntryInv, NEW p \in Port, NEW r \in Server,
                      InstanceByPort[p] = r
               PROVE  /\ port[r] # 0 /\ InstanceByPort[port[r]] = r
                      /\ engineClient[r] = "closing" =>
                           waiter[r] \in {"client"} \cup Caller
    BY DEF PortGoesOn
  <2>1. r # None /\ p # 0
    BY PortsAssumption DEF Port
  <2>2. port[r] = p
    BY <2>1 DEF EntryInv
  <2> QED
    BY <2>1, <2>2 DEF Inv, Types, ServerInv
<1> QED
  BY <1>1, <1>2, <1>3, Invariance, PTL DEF Spec

=============================================================================
