-------------------------- MODULE RtpReorderProofs --------------------------
(***************************************************************************)
(* Proofs about the packet order management of RtpReorder, for every size  *)
(* of the sequence numbers, every stream, buffer time and travel time.     *)
(*                                                                         *)
(* First the arithmetic of the 16 bit numbers: correctSequence finds the   *)
(* true number of a packet that is less than half a cycle away from        *)
(* sequenceIndex (CorrectExact).  Then an invariant for every fault (Inv:  *)
(* types and the timer), and, for networks that do not duplicate packets,  *)
(* an invariant that ties the extended numbers of the packets heard and    *)
(* waiting to their true numbers (CleanInv), which keeps the order, and    *)
(* one that ties the place of what was heard to the time in which it was   *)
(* spoken (SpokenInv), which makes the silence as long as what is missing. *)
(***************************************************************************)
EXTENDS RtpReorder, TLAPS

-----------------------------------------------------------------------------
(***************************************************************************)
(* Arithmetic.                                                             *)
(***************************************************************************)

LEMMA DivisionFacts ==
  ASSUME NEW n \in Int
  PROVE  /\ n \div SHORT_SIZE \in Int
         /\ n % SHORT_SIZE \in 0 .. SHORT_SIZE - 1
         /\ n = (n \div SHORT_SIZE) * SHORT_SIZE + (n % SHORT_SIZE)
  BY ReorderAssumption, SMT

LEMMA ThresholdFacts ==
  /\ DELAY_PACKET_THRESHOLD \in Nat
  /\ SHORT_SIZE = 2 * DELAY_PACKET_THRESHOLD
  BY ReorderAssumption, SMT DEF DELAY_PACKET_THRESHOLD

LEMMA MultipleFacts ==
  ASSUME NEW d \in Int
  PROVE  /\ d * SHORT_SIZE \in Int
         /\ d >= 2 => d * SHORT_SIZE >= 2 * SHORT_SIZE
         /\ d >= 1 => d * SHORT_SIZE >= SHORT_SIZE
         /\ d <= -1 => d * SHORT_SIZE <= - SHORT_SIZE
         /\ d <= -2 => d * SHORT_SIZE <= - (2 * SHORT_SIZE)
         /\ d = 0 => d * SHORT_SIZE = 0
         /\ d = 1 => d * SHORT_SIZE = SHORT_SIZE
         /\ d = -1 => d * SHORT_SIZE = - SHORT_SIZE
<1>1. SHORT_SIZE \in Int /\ SHORT_SIZE > 0
  BY ReorderAssumption
<1> QED
  BY <1>1, SMT

LEMMA Distribution ==
  ASSUME NEW a \in Int, NEW b \in Int
  PROVE  /\ (a + b) * SHORT_SIZE = a * SHORT_SIZE + b * SHORT_SIZE
         /\ (a - b) * SHORT_SIZE = a * SHORT_SIZE - b * SHORT_SIZE
<1>1. SHORT_SIZE \in Int
  BY ReorderAssumption
<1> QED
  BY <1>1, SMT

LEMMA Remainder ==
  ASSUME NEW k \in Int, NEW q \in 0 .. SHORT_SIZE - 1
  PROVE  (k * SHORT_SIZE + q) % SHORT_SIZE = q
<1> DEFINE n == k * SHORT_SIZE + q
           m == n \div SHORT_SIZE
<1>1. SHORT_SIZE \in Int /\ q \in Int /\ k * SHORT_SIZE \in Int /\ n \in Int
  BY MultipleFacts, ReorderAssumption
<1>2. /\ m \in Int /\ n % SHORT_SIZE \in 0 .. SHORT_SIZE - 1
      /\ n = m * SHORT_SIZE + (n % SHORT_SIZE)
  BY <1>1, DivisionFacts
<1> HIDE DEF m
<1>3. (k - m) * SHORT_SIZE = (n % SHORT_SIZE) - q
  <2>1. (k - m) * SHORT_SIZE = k * SHORT_SIZE - m * SHORT_SIZE
    BY <1>2, Distribution
  <2>2. m * SHORT_SIZE \in Int
    BY <1>2, MultipleFacts
  <2> QED
    BY <1>1, <1>2, <2>1, <2>2
<1>4. k - m = 0
  <2>1. k - m \in Int
    BY <1>2
  <2> QED
    BY <1>1, <1>2, <1>3, <2>1, MultipleFacts
<1> QED
  BY <1>1, <1>2, <1>3, <1>4, MultipleFacts

\* correctSequence undoes the truncation to 16 bits of a packet i that is less
\* than half a cycle away from packet l, whose extended number is x.
LEMMA CorrectExact ==
  ASSUME NEW x \in Nat, NEW l \in Nat, NEW i \in Nat,
         x % SHORT_SIZE = Seq16(l),
         i - l < DELAY_PACKET_THRESHOLD, l - i < DELAY_PACKET_THRESHOLD
  PROVE  Correct(x, Seq16(i)) = x + i - l
<1> DEFINE S == SHORT_SIZE
           T == DELAY_PACKET_THRESHOLD
           q == Seq16(i)
           r == Seq16(l)
           u == x \div S
           v == (First + i) \div S
           w == (First + l) \div S
<1>1. S \in Int /\ T \in Int /\ S = 2 * T /\ S > 1 /\ First \in Int
  BY ThresholdFacts, ReorderAssumption
<1>2. q \in 0 .. S - 1 /\ v \in Int /\ First + i = v * S + q
  <2>1. First + i \in Int
    BY <1>1
  <2> QED
    BY <2>1, DivisionFacts DEF Seq16
<1>3. r \in 0 .. S - 1 /\ w \in Int /\ First + l = w * S + r
  <2>1. First + l \in Int
    BY <1>1
  <2> QED
    BY <2>1, DivisionFacts DEF Seq16
<1>4. u \in Int /\ x = u * S + r
  BY DivisionFacts
<1>5. /\ u * S \in Int /\ v * S \in Int /\ w * S \in Int
      /\ (v - w) * S = v * S - w * S
  BY <1>2, <1>3, <1>4, MultipleFacts, Distribution
<1>6. Correct(x, q) = CASE r - q > T   -> (u + 1) * S + q
                        [] r - q < - T -> (u - 1) * S + q
                        [] OTHER       -> u * S + q
  BY DEF Correct
<1>7. (u + 1) * S = u * S + S /\ (u - 1) * S = u * S - S
  BY <1>1, <1>4, Distribution, MultipleFacts
<1> HIDE DEF u, v, w, q, r
<1>8. (v - w) * S = i - l + r - q
  BY <1>1, <1>2, <1>3, <1>5
<1>9. v - w \in {-1, 0, 1}
  <2>1. v - w \in Int
    BY <1>2, <1>3
  <2> QED
    BY <1>1, <1>2, <1>3, <1>8, <2>1, MultipleFacts
<1>10. Correct(x, q) = u * S + (v - w) * S + q
  <2>1. CASE v - w = 0
    <3>1. (v - w) * S = 0
      BY <2>1, MultipleFacts
    <3>2. ~(r - q > T) /\ ~(r - q < - T)
      BY <3>1, <1>1, <1>2, <1>3, <1>8
    <3>3. Correct(x, q) = u * S + q
      BY <3>2, <1>6
    <3> QED
      BY <3>1, <3>3, <1>5
  <2>2. CASE v - w = 1
    <3>1. (v - w) * S = S
      BY <2>2, MultipleFacts
    <3>2. r - q > T /\ ~(r - q < - T)
      BY <3>1, <1>1, <1>2, <1>3, <1>8
    <3>3. Correct(x, q) = u * S + S + q
      BY <3>2, <1>6, <1>7
    <3> QED
      BY <3>1, <3>3
  <2>3. CASE v - w = -1
    <3>1. (v - w) * S = - S
      BY <2>3, MultipleFacts
    <3>2. r - q < - T /\ ~(r - q > T)
      BY <3>1, <1>1, <1>2, <1>3, <1>8
    <3>3. Correct(x, q) = u * S - S + q
      BY <3>2, <1>6, <1>7
    <3> QED
      BY <3>1, <3>3, <1>1, <1>2, <1>5
  <2> QED
    BY <2>1, <2>2, <2>3, <1>9
<1>11. u * S + (v - w) * S + q = x + i - l
  BY <1>1, <1>2, <1>3, <1>4, <1>5, <1>8
<1> QED
  BY <1>10, <1>11 DEF q

-----------------------------------------------------------------------------
(***************************************************************************)
(* Types, and the timer: under every fault.                                *)
(***************************************************************************)

\* Whoever waits has arrived.
AtInv == \A b \in delayedBuffers : b.at <= now

Inv == TypeOK /\ AtInv /\ WaitersHaveTimer

LEMMA CorrectType ==
  ASSUME NEW x \in Int, NEW q \in Int
  PROVE  Correct(x, q) \in Int
<1>1. x \div SHORT_SIZE \in Int /\ SHORT_SIZE \in Int
  BY DivisionFacts, ReorderAssumption
<1> DEFINE u == x \div SHORT_SIZE
           d == (x % SHORT_SIZE) - q
<1>2. /\ (u + 1) * SHORT_SIZE \in Int
      /\ (u - 1) * SHORT_SIZE \in Int
      /\ u * SHORT_SIZE \in Int
  BY <1>1, MultipleFacts
<1>3. Correct(x, q) \in {(u + 1) * SHORT_SIZE + q,
                         (u - 1) * SHORT_SIZE + q, u * SHORT_SIZE + q}
  <2>1. CASE d > DELAY_PACKET_THRESHOLD /\ ~(d < - DELAY_PACKET_THRESHOLD)
    BY <2>1 DEF Correct
  <2>2. CASE ~(d > DELAY_PACKET_THRESHOLD) /\ d < - DELAY_PACKET_THRESHOLD
    BY <2>2 DEF Correct
  <2>3. CASE ~(d > DELAY_PACKET_THRESHOLD) /\ ~(d < - DELAY_PACKET_THRESHOLD)
    BY <2>3 DEF Correct
  <2>4. ~(d > DELAY_PACKET_THRESHOLD /\ d < - DELAY_PACKET_THRESHOLD)
    BY DivisionFacts, ThresholdFacts
  <2> QED
    BY <2>1, <2>2, <2>3, <2>4
<1> QED
  BY <1>2, <1>3

LEMMA RunFacts ==
  ASSUME NEW x \in Int, NEW D \in SUBSET Buffer, NEW c \in RunAfter(x, D)
  PROVE  c \in D /\ c.seq > x
<1>1. c \in UpTo(c, D) /\ c.seq \in Int
  BY DEF RunAfter, UpTo, Buffer
<1>2. c.seq \in x + 1 .. c.seq
  BY <1>1 DEF RunAfter
<1> QED
  BY <1>1, <1>2 DEF RunAfter

\* What sendToEngine leaves has the right types, and a timer.
LEMMA SendKeepsInv ==
  ASSUME Inv, now' = now, NEW b \in Buffer, b.at <= now, NEW pad \in Nat,
         NEW D \in SUBSET delayedBuffers, SendToEngine(b, pad, D)
  PROVE  /\ sequenceIndex' \in Int
         /\ delayedBuffers' \subseteq D
         /\ delayedTimeout' \in 0 .. now' + BufferMs \cup {NotArmed}
         /\ lastData' \in Nat
         /\ heard' \subseteq [pkt : Number, pos : Int]
         /\ position' \in Nat
         /\ WaitersHaveTimer'
<1> DEFINE run == RunAfter(b.seq, D)
           rest == D \ run
<1>1. D \subseteq Buffer /\ b.seq \in Int /\ BufferMs \in Nat /\ now \in Nat
  BY ReorderAssumption DEF Inv, TypeOK, Buffer
<1>2. \A c \in run : c \in D /\ c.seq > b.seq
  BY <1>1, RunFacts
<1>3. PICK l \in run \cup {b} : /\ EngineHears(b, pad, run, l)
                                /\ sequenceIndex' = l.seq
                                /\ lastData' = l.at + 1
  BY DEF SendToEngine
<1>4. l \in Buffer /\ l.seq >= b.seq
  BY <1>1, <1>2, <1>3 DEF Buffer
<1>5. sequenceIndex' \in Int /\ lastData' \in Nat
  BY <1>3, <1>4 DEF Buffer
<1>6. delayedBuffers' = rest
  BY DEF SendToEngine
<1>7. heard' \subseteq [pkt : Number, pos : Int] /\ position' \in Nat
  <2>1. CASE phase = "open"
    <3>1. position' = position + pad + l.seq - b.seq + 1
      BY <2>1, <1>3 DEF EngineHears
    <3>2. heard' = heard
            \cup {[pkt |-> b.pkt, pos |-> position + pad]}
            \cup {[pkt |-> c.pkt, pos |-> position + pad + c.seq - b.seq] :
                    c \in run}
      BY <2>1, <1>3 DEF EngineHears
    <3>3. position \in Nat /\ heard \subseteq [pkt : Number, pos : Int]
      BY DEF Inv, TypeOK
    <3>4. position' \in Nat
      BY <3>1, <3>3, <1>1, <1>4 DEF Buffer
    <3>5. \A c \in run : [pkt |-> c.pkt, pos |-> position + pad + c.seq - b.seq]
                           \in [pkt : Number, pos : Int]
      BY <3>3, <1>1, <1>2 DEF Buffer
    <3>6. [pkt |-> b.pkt, pos |-> position + pad] \in [pkt : Number, pos : Int]
      BY <3>3 DEF Buffer
    <3> QED
      BY <3>2, <3>3, <3>4, <3>5, <3>6
  <2>2. CASE phase # "open"
    BY <2>2, <1>3 DEF EngineHears, engineVars, Inv, TypeOK
  <2> QED
    BY <2>1, <2>2
<1>8. /\ delayedTimeout' \in 0 .. now' + BufferMs \cup {NotArmed}
      /\ delayedBuffers' # {} => delayedTimeout' # NotArmed
  <2>1. CASE rest = {} /\ delayedTimeout' = NotArmed
    BY <2>1, <1>6
  <2>2. ASSUME NEW h \in Oldest(rest),
               delayedTimeout' = SetDelayedTimer(NotArmed, Due(h))
        PROVE  /\ delayedTimeout' \in 0 .. now + BufferMs
               /\ delayedTimeout' # NotArmed
    <3>1. h \in delayedBuffers /\ h \in Buffer
      BY <1>1 DEF Oldest
    <3>2. h.at \in Nat /\ h.at <= now
      BY <3>1 DEF Buffer, Inv, AtInv
    <3>3. Due(h) \in 0 .. now + BufferMs
      BY <3>2, <1>1 DEF Due
    <3> QED
      BY <2>2, <3>3 DEF SetDelayedTimer, NotArmed
  <2>3. \/ rest = {} /\ delayedTimeout' = NotArmed
        \/ \E h \in Oldest(rest) :
             delayedTimeout' = SetDelayedTimer(NotArmed, Due(h))
    BY DEF SendToEngine
  <2> QED
    BY <2>1, <2>2, <2>3, <1>6
<1> QED
  BY <1>5, <1>6, <1>7, <1>8 DEF WaitersHaveTimer

LEMMA InvInit == Init => Inv
<1> SUFFICES ASSUME Init PROVE Inv
  OBVIOUS
<1>1. TypeOK
  <2>1. Copies(0) \subseteq Number \X {1, 2}
    BY ReorderAssumption DEF Copies, Number
  <2> QED
    BY <2>1, ReorderAssumption DEF Init, TypeOK, Unset, Phases, NotArmed
<1> QED
  BY <1>1 DEF Inv, AtInv, WaitersHaveTimer, Init

LEMMA InvReceive ==
  ASSUME Inv, faults' = faults, NEW p \in network, Receive(p)
  PROVE  Inv'
<1> DEFINE q == Seq16(p[1])
           base == IF sequenceIndex = Unset THEN q ELSE sequenceIndex
           seq == Correct(base, q)
           b == [seq |-> seq, pkt |-> p[1], at |-> now, copy |-> p[2]]
<1>1. /\ p[1] \in Number /\ p[1] \in Nat /\ p[2] \in {1, 2}
      /\ now \in Nat /\ BufferMs \in Nat /\ sequenceIndex \in Int
  BY ReorderAssumption DEF Inv, TypeOK, Number
<1>2. q \in Int
  <2>1. First + p[1] \in Int
    BY <1>1, ReorderAssumption
  <2> QED
    BY <2>1, DivisionFacts DEF Seq16
<1>3. base \in Int
  BY <1>1, <1>2
<1>4. seq \in Int
  BY <1>2, <1>3, CorrectType
<1> HIDE DEF q, base, seq
<1>5. b \in Buffer /\ b.at <= now
  BY <1>1, <1>4 DEF Buffer
<1>6. /\ now' = now /\ phase' = phase /\ network' \subseteq network
  BY DEF Receive
<1>7. CASE /\ sequenceIndex' = base
           /\ UNCHANGED <<delayedBuffers, delayedTimeout, lastData, engineVars>>
  BY <1>3, <1>6, <1>7
     DEF Inv, TypeOK, AtInv, WaitersHaveTimer, engineVars
<1>8. CASE /\ sequenceIndex' = base
           /\ delayedBuffers' = delayedBuffers \cup {b}
           /\ delayedTimeout' = SetDelayedTimer(delayedTimeout, now + BufferMs)
           /\ UNCHANGED <<lastData, engineVars>>
  <2>1. /\ delayedTimeout' \in 0 .. now' + BufferMs
        /\ delayedTimeout' # NotArmed
    BY <1>1, <1>6, <1>8 DEF Inv, TypeOK, SetDelayedTimer, NotArmed
  <2>2. delayedBuffers' \subseteq Buffer /\ AtInv'
    BY <1>5, <1>6, <1>8 DEF Inv, TypeOK, AtInv
  <2> QED
    BY <1>3, <1>6, <1>8, <2>1, <2>2
       DEF Inv, TypeOK, WaitersHaveTimer, engineVars
<1>9. CASE SendToEngine(b, 0, delayedBuffers)
  <2>1. /\ sequenceIndex' \in Int
        /\ delayedBuffers' \subseteq delayedBuffers
        /\ delayedTimeout' \in 0 .. now' + BufferMs \cup {NotArmed}
        /\ lastData' \in Nat
        /\ heard' \subseteq [pkt : Number, pos : Int]
        /\ position' \in Nat
        /\ WaitersHaveTimer'
    BY <1>5, <1>6, <1>9, SendKeepsInv
  <2> QED
    BY <1>6, <2>1 DEF Inv, TypeOK, AtInv
<1> QED
  BY <1>7, <1>8, <1>9 DEF Receive, q, base, seq

LEMMA InvTimerFires ==
  ASSUME Inv, faults' = faults, TimerFires
  PROVE  Inv'
<1>1. PICK h \in Oldest(delayedBuffers) :
        SendToEngine(h, Silence(h), delayedBuffers \ {h})
  BY DEF TimerFires
<1>2. h \in delayedBuffers /\ h \in Buffer /\ h.at <= now
  BY DEF Oldest, Inv, TypeOK, AtInv
<1>3. Silence(h) \in Nat
  BY <1>2 DEF Silence, Buffer, Inv, TypeOK
<1>4. now' = now /\ network' = network /\ phase' = phase
  BY DEF TimerFires
<1>5. /\ sequenceIndex' \in Int
      /\ delayedBuffers' \subseteq delayedBuffers \ {h}
      /\ delayedTimeout' \in 0 .. now' + BufferMs \cup {NotArmed}
      /\ lastData' \in Nat
      /\ heard' \subseteq [pkt : Number, pos : Int]
      /\ position' \in Nat
      /\ WaitersHaveTimer'
  BY <1>1, <1>2, <1>3, <1>4, SendKeepsInv
<1> QED
  BY <1>4, <1>5 DEF Inv, TypeOK, AtInv

LEMMA InvOthers ==
  ASSUME Inv, faults' = faults,
         \/ \E p \in network : Lose(p)
         \/ Close \/ EngineClosed \/ TimerFiresClosed \/ Tick
  PROVE  Inv'
<1> USE DEF Inv, TypeOK, AtInv, WaitersHaveTimer, serverVars, engineVars, Phases
<1>1. CASE \E p \in network : Lose(p)
  BY <1>1 DEF Lose
<1>2. CASE Close \/ EngineClosed \/ TimerFiresClosed
  BY <1>2 DEF Close, EngineClosed, TimerFiresClosed
<1>3. CASE Tick
  <2>1. now' = now + 1 /\ now \in Nat /\ BufferMs \in Nat
    BY <1>3, ReorderAssumption DEF Tick
  <2>2. delayedTimeout' \in 0 .. now' + BufferMs \cup {NotArmed}
    BY <1>3, <2>1 DEF Tick
  <2>3. \A i \in Number : Copies(i) \subseteq Number \X {1, 2}
    BY DEF Copies
  <2>4. network' \subseteq Number \X {1, 2}
    BY <1>3, <2>3 DEF Tick
  <2>5. \A b \in delayedBuffers' : b.at <= now'
    BY <1>3, <2>1 DEF Tick, Buffer
  <2> QED
    BY <1>3, <2>1, <2>2, <2>4, <2>5 DEF Tick
<1> QED
  BY <1>1, <1>2, <1>3

LEMMA InvNext == Inv /\ [Next]_allVars => Inv'
<1> SUFFICES ASSUME Inv, [Next]_allVars PROVE Inv'
  OBVIOUS
<1>0. faults' = faults
  BY DEF Next, allVars
<1>1. CASE \E p \in network : Receive(p)
  BY <1>0, <1>1, InvReceive
<1>2. CASE TimerFires
  BY <1>0, <1>2, InvTimerFires
<1>3. CASE \/ \E p \in network : Lose(p)
           \/ Close \/ EngineClosed \/ TimerFiresClosed \/ Tick
  BY <1>0, <1>3, InvOthers
<1>4. CASE UNCHANGED allVars
  BY <1>0, <1>4 DEF Inv, TypeOK, AtInv, WaitersHaveTimer, vars, allVars
<1> QED
  BY <1>1, <1>2, <1>3, <1>4 DEF Next, Step

\* Types, arrival times and the timer: the inductive invariant.
THEOREM Invariance == Spec => []Inv
<1> QED
  BY InvInit, InvNext, PTL DEF Spec

\* The state of the port has its types under every fault; in particular the
\* timer never runs for longer than delayedBufferMs.
THEOREM TypeCorrect == Spec => []TypeOK
<1>1. Inv => TypeOK
  BY DEF Inv
<1> QED
  BY <1>1, Invariance, PTL

\* Under every fault, while a packet waits in delayedBuffers its timer is
\* armed: no order of packets and timers leaves one behind without.
THEOREM WaitersGuarded == Spec => []WaitersHaveTimer
<1>1. Inv => WaitersHaveTimer
  BY DEF Inv
<1> QED
  BY <1>1, Invariance, PTL

-----------------------------------------------------------------------------
(***************************************************************************)
(* The order: without duplicates, for streams that do not start at 0.      *)
(***************************************************************************)
\* What travels has not arrived, and does not travel for too long.
NetworkInv ==
  \A p \in network :
    /\ p[2] = 1
    /\ p[1] <= now /\ now <= p[1] + MaxDelay
    /\ \A h \in heard : h.pkt # p[1]
    /\ \A b \in delayedBuffers : b.pkt # p[1]

\* No packet waits twice.
BufferInv ==
  \A b \in delayedBuffers :
    /\ b.pkt <= now
    /\ \A c \in delayedBuffers : b.pkt = c.pkt => b = c

HeardInv == \A h \in heard : h.pkt <= now /\ h.pos < position

\* l is the last packet heard: sequenceIndex is its extended number, and the
\* numbers of those that wait lie beyond it as their true numbers do.
IsLast(l) ==
  /\ \A h \in heard : h.pkt <= l.pkt
  /\ sequenceIndex \in Nat \ {0}
  /\ sequenceIndex % SHORT_SIZE = Seq16(l.pkt)
  /\ \A b \in delayedBuffers : /\ b.pkt > l.pkt
                               /\ b.seq - sequenceIndex = b.pkt - l.pkt

LastInv ==
  phase = "open" =>
    \/ heard = {} /\ delayedBuffers = {} /\ sequenceIndex = Unset
    \/ \E l \in heard : IsLast(l)

CleanInv ==
  NetworkInv /\ BufferInv /\ HeardInv /\ LastInv /\ Ordered

\* A packet i that is i - l packets away has a number that many away.
LEMMA ShiftSeq ==
  ASSUME NEW x \in Nat, NEW l \in Nat, NEW i \in Nat,
         x % SHORT_SIZE = Seq16(l)
  PROVE  (x + i - l) % SHORT_SIZE = Seq16(i)
<1> DEFINE S == SHORT_SIZE
           q == Seq16(i)
           r == Seq16(l)
           u == x \div S
           v == (First + i) \div S
           w == (First + l) \div S
<1>1. S \in Int /\ First \in Int
  BY ReorderAssumption
<1>2. q \in 0 .. S - 1 /\ v \in Int /\ First + i = v * S + q
  <2>1. First + i \in Int
    BY <1>1
  <2> QED
    BY <2>1, DivisionFacts DEF Seq16
<1>3. r \in 0 .. S - 1 /\ w \in Int /\ First + l = w * S + r
  <2>1. First + l \in Int
    BY <1>1
  <2> QED
    BY <2>1, DivisionFacts DEF Seq16
<1>4. u \in Int /\ x = u * S + r
  BY DivisionFacts
<1>5. /\ u * S \in Int /\ v * S \in Int /\ w * S \in Int
      /\ (v - w) * S = v * S - w * S
  BY <1>2, <1>3, <1>4, MultipleFacts, Distribution
<1> HIDE DEF u, v, w, q, r
<1>6. (u + (v - w)) * S + q = x + i - l
  <2>1. (u + (v - w)) * S = u * S + (v - w) * S
    BY <1>2, <1>3, <1>4, Distribution
  <2> QED
    BY <2>1, <1>1, <1>2, <1>3, <1>4, <1>5
<1> QED
  <2>1. u + (v - w) \in Int
    BY <1>2, <1>3, <1>4
  <2>2. (x + i - l) % S = q
    BY <2>1, <1>2, <1>6, Remainder
  <2> QED
    BY <2>2 DEF q

\* The run is an initial part of the sorted array.
LEMMA RunIsPrefix ==
  ASSUME NEW x \in Int, NEW D \in SUBSET Buffer,
         \A c, d \in D : c.seq = d.seq => c = d,
         NEW l \in RunAfter(x, D), NEW c \in D, c.seq <= l.seq
  PROVE  c \in RunAfter(x, D)
<1>1. \A d \in D : d.seq \in Int /\ d.at \in Nat /\ d.copy \in {1, 2}
  BY DEF Buffer
<1>2. \A e \in D : UpTo(e, D) = {d \in D : d.seq <= e.seq}
  BY <1>1 DEF UpTo, Earlier
<1>3. l \in D /\ {d.seq : d \in UpTo(l, D)} = x + 1 .. l.seq
  BY DEF RunAfter
<1>4. ASSUME NEW d \in UpTo(c, D)
      PROVE  d.seq \in x + 1 .. c.seq
  <2>1. d \in UpTo(l, D) /\ d.seq <= c.seq /\ d.seq \in Int /\ c.seq \in Int
    BY <1>1, <1>2, <1>3
  <2>2. d.seq \in x + 1 .. l.seq
    BY <2>1, <1>3
  <2> QED
    BY <2>1, <2>2
<1>5. ASSUME NEW k \in x + 1 .. c.seq
      PROVE  \E d \in UpTo(c, D) : d.seq = k
  <2>1. k \in x + 1 .. l.seq /\ k <= c.seq
    BY <1>1, <1>3
  <2>2. PICK d \in UpTo(l, D) : d.seq = k
    BY <2>1, <1>3
  <2>3. d \in UpTo(c, D)
    BY <2>1, <2>2, <1>2, <1>3
  <2> QED
    BY <2>2, <2>3
<1>6. {d.seq : d \in UpTo(c, D)} = x + 1 .. c.seq
  BY <1>4, <1>5
<1>7. \A d, e \in UpTo(c, D) : d.seq = e.seq => d = e
  BY DEF UpTo
<1> QED
  BY <1>6, <1>7 DEF RunAfter

\* sendToEngine passes on packets in order if b is newer than all that the
\* engine heard and older than all that wait.
LEMMA SendKeepsOrder ==
  ASSUME Inv, phase = "open", now' = now, phase' = phase,
         BufferInv, HeardInv, Ordered,
         NEW b \in Buffer, b.pkt <= now, NEW pad \in Nat,
         NEW D \in SUBSET delayedBuffers, SendToEngine(b, pad, D),
         b.seq \in Nat \ {0}, b.seq % SHORT_SIZE = Seq16(b.pkt),
         \A h \in heard : h.pkt < b.pkt,
         \A c \in D : c.pkt > b.pkt /\ c.seq - b.seq = c.pkt - b.pkt
  PROVE  /\ BufferInv' /\ HeardInv' /\ Ordered' /\ LastInv'
         /\ \A h \in heard' : \/ h \in heard
                              \/ h.pkt = b.pkt
                              \/ \E c \in D : c.pkt = h.pkt
<1> DEFINE run == RunAfter(b.seq, D)
           new == {b} \cup run
           Entry(c) == [pkt |-> c.pkt, pos |-> position + pad + c.seq - b.seq]
<1>1. /\ D \subseteq Buffer /\ b.seq \in Int /\ position \in Nat /\ now \in Nat
      /\ heard \subseteq [pkt : Number, pos : Int] /\ Number \subseteq Nat
  BY ReorderAssumption DEF Inv, TypeOK, Buffer, Number
<1>2. \A c \in run : c \in D /\ c.seq > b.seq
  BY <1>1, RunFacts
<1>3. PICK l \in new : /\ \A c \in run : c.seq <= l.seq
                       /\ EngineHears(b, pad, run, l)
                       /\ sequenceIndex' = l.seq
  BY DEF SendToEngine
<1>4. delayedBuffers' = D \ run
  BY DEF SendToEngine
<1>5. ASSUME NEW c \in new
      PROVE  /\ c \in Buffer /\ c.seq \in Int /\ c.pkt \in Nat
             /\ c.pkt >= b.pkt /\ c.seq - b.seq = c.pkt - b.pkt
             /\ c.pkt <= now /\ c.seq <= l.seq
  <2>1. CASE c = b
    <3>1. b.seq \in Int /\ b.pkt \in Nat
      BY <1>1 DEF Buffer
    <3>2. b.seq <= l.seq
      <4>1. CASE l = b
        BY <4>1, <1>1
      <4>2. CASE l \in run
        BY <4>2, <1>1, <1>2 DEF Buffer
      <4> QED
        BY <4>1, <4>2
    <3> QED
      BY <2>1, <3>1, <3>2
  <2>2. CASE c \in run
    <3>1. c \in D /\ c \in delayedBuffers /\ c.seq <= l.seq
      BY <2>2, <1>2, <1>3
    <3>2. c.seq \in Int /\ c.pkt \in Nat /\ b.pkt \in Nat
      BY <3>1, <1>1 DEF Buffer
    <3> QED
      BY <3>1, <3>2, <1>1 DEF BufferInv
  <2> QED
    BY <2>1, <2>2
<1>6. heard' = heard \cup {Entry(c) : c \in new}
  <2>1. Entry(b) = [pkt |-> b.pkt, pos |-> position + pad]
    BY <1>1
  <2> QED
    BY <2>1, <1>3 DEF EngineHears
<1>7. position' = position + pad + l.seq - b.seq + 1
  BY <1>3 DEF EngineHears
<1>8. ASSUME NEW h \in heard', h \notin heard
      PROVE  \E c \in new : /\ h.pkt = c.pkt
                            /\ h.pos = position + pad + c.pkt - b.pkt
  <2>1. PICK c \in new : h = Entry(c)
    BY <1>6, <1>8
  <2> QED
    BY <2>1, <1>1, <1>5
<1>9. BufferInv'
  BY <1>4 DEF BufferInv
<1>10. HeardInv'
  <2> SUFFICES ASSUME NEW h \in heard'
               PROVE  h.pkt <= now /\ h.pos < position'
    BY DEF HeardInv
  <2>1. CASE h \in heard
    <3>1. h.pkt <= now /\ h.pos < position /\ h.pos \in Int
      BY <2>1, <1>1 DEF HeardInv
    <3>2. l.seq >= b.seq /\ l.seq \in Int
      BY <1>2, <1>3, <1>5
    <3> QED
      BY <3>1, <3>2, <1>1, <1>7
  <2>2. CASE h \notin heard
    <3>1. PICK c \in new : /\ h.pkt = c.pkt
                           /\ h.pos = position + pad + c.pkt - b.pkt
      BY <2>2, <1>8
    <3>2. l.seq \in Int
      BY <1>5
    <3> QED
      BY <3>1, <3>2, <1>1, <1>5, <1>7
  <2> QED
    BY <2>1, <2>2
<1>11. Ordered'
  <2> SUFFICES ASSUME NEW g \in heard', NEW h \in heard'
               PROVE  g.pos < h.pos <=> g.pkt < h.pkt
    BY DEF Ordered
  <2>1. \A k \in heard : /\ k.pkt \in Nat /\ k.pos \in Int
                         /\ k.pkt < b.pkt /\ k.pos < position
    BY <1>1 DEF HeardInv
  <2>2. \A k \in heard' \ heard :
          /\ k.pkt \in Nat /\ k.pkt >= b.pkt
          /\ k.pos = position + pad + k.pkt - b.pkt
    BY <1>5, <1>8
  <2>3. b.pkt \in Nat
    BY <1>5
  <2>4. CASE g \in heard /\ h \in heard
    BY <2>4 DEF Ordered
  <2>5. CASE g \in heard /\ h \notin heard
    BY <2>5, <2>1, <2>2, <2>3, <1>1
  <2>6. CASE g \notin heard /\ h \in heard
    BY <2>6, <2>1, <2>2, <2>3, <1>1
  <2>7. CASE g \notin heard /\ h \notin heard
    BY <2>7, <2>2, <2>3, <1>1
  <2> QED
    BY <2>4, <2>5, <2>6, <2>7
<1>12. LastInv'
  <2>1. l \in Buffer /\ l.pkt \in Nat /\ l.seq \in Nat \ {0}
    BY <1>5
  <2>2. l.seq % SHORT_SIZE = Seq16(l.pkt)
    <3>1. b.pkt \in Nat /\ l.seq = b.seq + l.pkt - b.pkt
      BY <1>5
    <3> QED
      BY <3>1, <2>1, ShiftSeq
  <2>3. PICK e \in heard' : e.pkt = l.pkt
    <3>1. Entry(l) \in heard' /\ Entry(l).pkt = l.pkt
      BY <1>6
    <3> QED
      BY <3>1
  <2>4. \A h \in heard' : h.pkt <= l.pkt
    <3> SUFFICES ASSUME NEW h \in heard' PROVE h.pkt <= l.pkt
      OBVIOUS
    <3>1. CASE h \in heard
      <4>1. h.pkt \in Nat /\ h.pkt < b.pkt
        BY <3>1, <1>1
      <4>2. b.pkt \in Nat /\ l.pkt \in Nat /\ l.pkt >= b.pkt
        BY <1>5
      <4> QED
        BY <4>1, <4>2
    <3>2. CASE h \notin heard
      BY <3>2, <1>5, <1>8
    <3> QED
      BY <3>1, <3>2
  <2>5. ASSUME NEW c \in D \ run
        PROVE  c.pkt > l.pkt /\ c.seq - l.seq = c.pkt - l.pkt
    <3>1. c.seq \in Int /\ c.pkt \in Nat /\ b.pkt \in Nat
      BY <1>1, <1>5 DEF Buffer
    <3>2. c.seq - l.seq = c.pkt - l.pkt
      BY <3>1, <1>5
    <3>3. \A d, f \in D : d.seq = f.seq => d = f
      <4>1. \A d \in D : d.seq \in Int /\ d.pkt \in Nat
        BY <1>1 DEF Buffer
      <4> QED
        BY <4>1, <3>1, <1>1 DEF BufferInv
    <3>4. c.seq > l.seq
      <4>1. CASE l = b
        BY <4>1, <3>1, <1>1
      <4>2. CASE l \in run
        BY <4>2, <3>1, <3>3, <1>1, <1>5, RunIsPrefix
      <4> QED
        BY <4>1, <4>2
    <3> QED
      BY <3>1, <3>2, <3>4, <1>5
  <2>6. IsLast(e)'
    BY <2>1, <2>2, <2>3, <2>4, <2>5, <1>3, <1>4 DEF IsLast
  <2> QED
    BY <2>3, <2>6 DEF LastInv
<1>13. \A h \in heard' : \/ h \in heard
                         \/ h.pkt = b.pkt
                         \/ \E c \in D : c.pkt = h.pkt
  BY <1>2, <1>8
<1> QED
  BY <1>9, <1>10, <1>11, <1>12, <1>13

LEMMA CleanInit == Init /\ Clean => CleanInv
<1> SUFFICES ASSUME Init, Clean PROVE CleanInv
  OBVIOUS
<1>1. network = {<<0, 1>>}
  BY DEF Init, Clean, Copies
<1>2. NetworkInv
  BY <1>1, ReorderAssumption DEF NetworkInv, Init
<1> QED
  BY <1>2 DEF Init, CleanInv, BufferInv, HeardInv, LastInv, Ordered

\* What the handler makes of the number of a packet that travels.
LEMMA ReceivedNumber ==
  ASSUME Clean, Inv, CleanInv, phase = "open", NEW p \in network,
         Plausible(p[1]), NEW base, NEW seq,
         base = IF sequenceIndex = Unset THEN Seq16(p[1]) ELSE sequenceIndex,
         seq = Correct(base, Seq16(p[1]))
  PROVE  /\ heard = {} =>
              /\ seq = base /\ base \in Nat \ {0}
              /\ base % SHORT_SIZE = Seq16(p[1])
              /\ delayedBuffers = {}
         /\ \A l \in heard : IsLast(l) =>
              /\ base = sequenceIndex /\ base \in Nat \ {0}
              /\ seq = sequenceIndex + p[1] - l.pkt
<1> DEFINE i == p[1]
           q == Seq16(i)
<1>1. /\ i \in Nat /\ now \in Nat /\ MaxDelay \in Nat
      /\ i <= now /\ now <= i + MaxDelay
  BY ReorderAssumption DEF Inv, TypeOK, Number, CleanInv, NetworkInv
<1>2. heard \subseteq [pkt : Number, pos : Int] /\ Number \subseteq Nat
  BY ReorderAssumption DEF Inv, TypeOK, Number
<1>3. q \in 0 .. SHORT_SIZE - 1 /\ q \in Nat /\ SHORT_SIZE \in Nat
  <2>1. First + i \in Int /\ SHORT_SIZE \in Nat
    BY <1>1, ReorderAssumption
  <2>2. q \in 0 .. SHORT_SIZE - 1
    BY <2>1, DivisionFacts DEF Seq16
  <2> QED
    BY <2>1, <2>2
<1>4. ASSUME heard = {}
      PROVE  /\ seq = base /\ base \in Nat \ {0}
             /\ base % SHORT_SIZE = q /\ delayedBuffers = {}
  <2>1. q # 0 /\ delayedBuffers = {} /\ base = q
    BY <1>4 DEF Plausible, Clean, CleanInv, LastInv
  <2>2. q % SHORT_SIZE = q
    BY <1>3
  <2>3. 0 < DELAY_PACKET_THRESHOLD
    BY ThresholdFacts, ReorderAssumption
  <2>4. i - i < DELAY_PACKET_THRESHOLD
    BY <1>1, <2>3
  <2>5. Correct(q, q) = q + i - i
    BY <1>1, <1>3, <2>2, <2>4, CorrectExact
  <2>6. seq = q
    BY <2>1, <2>5, <1>1, <1>3
  <2> QED
    BY <2>1, <2>2, <2>6, <1>3
<1>5. ASSUME NEW l \in heard, IsLast(l)
      PROVE  /\ base = sequenceIndex /\ base \in Nat \ {0}
             /\ seq = sequenceIndex + i - l.pkt
  <2>1. base = sequenceIndex /\ base \in Nat \ {0} /\ l.pkt \in Nat
    BY <1>2, <1>5 DEF IsLast, Unset
  <2>2. i - l.pkt < DELAY_PACKET_THRESHOLD
    <3>1. PICK h \in heard : i - h.pkt < DELAY_PACKET_THRESHOLD
      BY <1>5 DEF Plausible
    <3>2. h.pkt \in Nat /\ h.pkt <= l.pkt
      BY <1>2, <1>5 DEF IsLast
    <3> QED
      BY <3>1, <3>2, <2>1, <1>1, ThresholdFacts
  <2>3. l.pkt - i < DELAY_PACKET_THRESHOLD
    <3>1. l.pkt <= now
      BY <1>5 DEF CleanInv, HeardInv
    <3>2. MaxDelay < DELAY_PACKET_THRESHOLD
      BY ThresholdFacts, ReorderAssumption
    <3> QED
      BY <3>1, <3>2, <2>1, <1>1, ThresholdFacts
  <2>4. sequenceIndex % SHORT_SIZE = Seq16(l.pkt)
    BY <1>5 DEF IsLast
  <2>5. Correct(sequenceIndex, q) = sequenceIndex + i - l.pkt
    BY <1>1, <2>1, <2>2, <2>3, <2>4, CorrectExact
  <2> QED
    BY <2>1, <2>5
<1> QED
  BY <1>4, <1>5

\* A packet whose number is the next one is the next one, and all that wait
\* are behind it.
LEMMA NextInLine ==
  ASSUME Clean, Inv, CleanInv, phase = "open", NEW p \in network,
         Plausible(p[1]), NEW base, NEW seq,
         base = IF sequenceIndex = Unset THEN Seq16(p[1]) ELSE sequenceIndex,
         seq = Correct(base, Seq16(p[1])), seq - base \in {0, 1}
  PROVE  /\ seq \in Nat \ {0} /\ seq % SHORT_SIZE = Seq16(p[1])
         /\ \A h \in heard : h.pkt < p[1]
         /\ \A l \in heard : IsLast(l) => p[1] = l.pkt + 1
         /\ \A c \in delayedBuffers : /\ c.pkt > p[1]
                                      /\ c.seq - seq = c.pkt - p[1]
<1> DEFINE i == p[1]
<1>1. i \in Nat
  BY ReorderAssumption DEF Inv, TypeOK, Number
<1>2. /\ heard \subseteq [pkt : Number, pos : Int] /\ Number \subseteq Nat
      /\ delayedBuffers \subseteq Buffer
  BY ReorderAssumption DEF Inv, TypeOK, Number
<1>3. /\ \A h \in heard : h.pkt # i
      /\ \A c \in delayedBuffers : c.pkt # i
  BY DEF CleanInv, NetworkInv
<1>4. CASE heard = {}
  BY <1>4, ReceivedNumber
<1>5. CASE heard # {}
  <2>1. PICK l \in heard : IsLast(l)
    BY <1>5 DEF CleanInv, LastInv
  <2>2. ASSUME NEW k \in heard, IsLast(k)
        PROVE  /\ k.pkt \in Nat /\ sequenceIndex \in Nat
               /\ seq = sequenceIndex + 1 /\ i = k.pkt + 1
    <3>1. /\ base = sequenceIndex /\ base \in Nat
          /\ seq = sequenceIndex + i - k.pkt
      BY <2>2, ReceivedNumber
    <3>2. k.pkt \in Nat /\ k.pkt # i
      BY <1>2, <1>3
    <3>3. seq - base = 0 \/ seq - base = 1
      OBVIOUS
    <3>4. i - k.pkt = seq - base
      BY <3>1, <3>2, <1>1
    <3>5. i = k.pkt + 1
      BY <3>2, <3>3, <3>4, <1>1
    <3> QED
      BY <3>1, <3>2, <3>5
  <2>3. /\ l.pkt \in Nat /\ sequenceIndex \in Nat
        /\ seq = sequenceIndex + 1 /\ i = l.pkt + 1
    BY <2>1, <2>2
  <2>4. seq % SHORT_SIZE = Seq16(i)
    <3>1. (sequenceIndex + i - l.pkt) % SHORT_SIZE = Seq16(i)
      BY <2>1, <2>3, <1>1, ShiftSeq DEF IsLast
    <3>2. sequenceIndex + i - l.pkt = seq
      BY <2>3
    <3> QED
      BY <3>1, <3>2
  <2>5. \A h \in heard : h.pkt < i
    <3>1. \A h \in heard : h.pkt \in Nat /\ h.pkt <= l.pkt
      BY <2>1, <1>2 DEF IsLast
    <3> QED
      BY <3>1, <2>3
  <2>6. ASSUME NEW c \in delayedBuffers
        PROVE  c.pkt > i /\ c.seq - seq = c.pkt - i
    <3>1. /\ c.pkt > l.pkt /\ c.seq - sequenceIndex = c.pkt - l.pkt
          /\ c.pkt # i
      BY <2>1, <1>3 DEF IsLast
    <3>2. c.pkt \in Nat /\ c.seq \in Int
      BY <1>2 DEF Buffer
    <3> QED
      BY <3>1, <3>2, <2>3
  <2> QED
    BY <2>2, <2>3, <2>4, <2>5, <2>6
<1> QED
  BY <1>4, <1>5

LEMMA CleanReceive ==
  ASSUME Clean, Inv, CleanInv, NEW p \in network, Receive(p)
  PROVE  CleanInv'
<1> DEFINE i == p[1]
           q == Seq16(i)
           base == IF sequenceIndex = Unset THEN q ELSE sequenceIndex
           seq == Correct(base, q)
           b == [seq |-> seq, pkt |-> i, at |-> now, copy |-> p[2]]
<1>1. /\ i \in Number /\ i \in Nat /\ p = <<i, 1>> /\ p[2] \in {1, 2}
      /\ now \in Nat /\ i <= now /\ now <= i + MaxDelay /\ MaxDelay \in Nat
  BY ReorderAssumption DEF Inv, TypeOK, Number, CleanInv, NetworkInv
<1>2. /\ phase = "open" /\ phase' = phase /\ now' = now
      /\ network' = network \ {p} /\ Plausible(i)
  BY DEF Receive
<1>3. /\ heard \subseteq [pkt : Number, pos : Int] /\ Number \subseteq Nat
      /\ delayedBuffers \subseteq Buffer
  BY ReorderAssumption DEF Inv, TypeOK, Number
<1>4. /\ \A h \in heard : h.pkt # i
      /\ \A c \in delayedBuffers : c.pkt # i
      /\ \A o \in network' : /\ o \in network /\ o[2] = 1 /\ o[1] # i
  <2>1. \A o \in network : o = <<o[1], o[2]>> /\ o[2] = 1
    BY DEF Inv, TypeOK, CleanInv, NetworkInv
  <2> QED
    BY <2>1, <1>1, <1>2 DEF CleanInv, NetworkInv
<1>5. q \in Nat /\ base \in Int
  <2>1. First + i \in Int /\ SHORT_SIZE \in Nat
    BY <1>1, ReorderAssumption
  <2>2. q \in 0 .. SHORT_SIZE - 1
    BY <2>1, DivisionFacts DEF Seq16
  <2>3. q \in Nat
    BY <2>1, <2>2
  <2> QED
    BY <2>3 DEF Inv, TypeOK
<1>6. /\ heard = {} => seq = base /\ delayedBuffers = {}
      /\ \A l \in heard : IsLast(l) =>
           /\ base = sequenceIndex /\ base \in Nat \ {0}
           /\ seq = sequenceIndex + i - l.pkt
  BY <1>2, ReceivedNumber
<1>7. seq - base \in {0, 1} =>
        /\ seq \in Nat \ {0} /\ seq % SHORT_SIZE = q
        /\ \A h \in heard : h.pkt < i
        /\ \A c \in delayedBuffers : c.pkt > i /\ c.seq - seq = c.pkt - i
  BY <1>2, NextInLine
<1> HIDE DEF q, base, seq
<1>8. heard # {} => \E l \in heard : IsLast(l)
  BY <1>2 DEF CleanInv, LastInv
<1>9. CASE /\ sequenceIndex' = base
           /\ seq < base
           /\ UNCHANGED <<delayedBuffers, delayedTimeout, lastData, engineVars>>
  <2>1. heard # {}
    BY <1>5, <1>6, <1>9
  <2>2. sequenceIndex' = sequenceIndex
    BY <2>1, <1>6, <1>8, <1>9
  <2> QED
    BY <2>2, <1>2, <1>4, <1>9
       DEF CleanInv, NetworkInv, BufferInv, HeardInv, LastInv, IsLast, Ordered,
           engineVars
<1>10. CASE /\ sequenceIndex' = base
            /\ seq - base > 1
            /\ delayedBuffers' = delayedBuffers \cup {b}
            /\ UNCHANGED <<lastData, engineVars>>
  <2>1. PICK l \in heard : IsLast(l)
    BY <1>5, <1>6, <1>8, <1>10
  <2>2. /\ base = sequenceIndex /\ sequenceIndex \in Nat /\ l.pkt \in Nat
        /\ seq = sequenceIndex + i - l.pkt
    BY <2>1, <1>3, <1>6
  <2>3. heard' = heard /\ position' = position
    BY <1>10 DEF engineVars
  <2>4. IsLast(l)'
    <3>1. b.pkt > l.pkt /\ b.seq - sequenceIndex = b.pkt - l.pkt
      BY <2>2, <1>1, <1>10
    <3> QED
      BY <3>1, <2>1, <2>2, <2>3, <1>10 DEF IsLast
  <2>5. BufferInv'
    BY <1>1, <1>2, <1>4, <1>10 DEF CleanInv, BufferInv
  <2>6. NetworkInv'
    BY <1>2, <1>4, <1>10, <2>3 DEF CleanInv, NetworkInv
  <2> QED
    BY <2>1, <2>3, <2>4, <2>5, <2>6, <1>2
       DEF CleanInv, HeardInv, LastInv, Ordered
<1>11. CASE seq - base \in {0, 1} /\ SendToEngine(b, 0, delayedBuffers)
  <2>1. /\ b.seq \in Nat \ {0}
        /\ b.seq % SHORT_SIZE = Seq16(b.pkt)
        /\ \A h \in heard : h.pkt < b.pkt
        /\ \A c \in delayedBuffers : /\ c.pkt > b.pkt
                                     /\ c.seq - b.seq = c.pkt - b.pkt
    BY <1>7, <1>11 DEF q
  <2>2. b \in Buffer /\ b.at <= now /\ b.pkt <= now
    <3>1. seq \in Nat
      BY <2>1
    <3> QED
      BY <3>1, <1>1 DEF Buffer
  <2>3. /\ BufferInv' /\ HeardInv' /\ Ordered' /\ LastInv'
        /\ \A h \in heard' : \/ h \in heard
                             \/ h.pkt = b.pkt
                             \/ \E c \in delayedBuffers : c.pkt = h.pkt
    BY <2>1, <2>2, <1>2, <1>11, SendKeepsOrder DEF CleanInv
  <2>4. delayedBuffers' \subseteq delayedBuffers
    BY <2>2, <1>2, <1>11, SendKeepsInv
  <2>5. NetworkInv'
    BY <2>3, <2>4, <1>2, <1>4 DEF CleanInv, NetworkInv
  <2> QED
    BY <2>3, <2>5 DEF CleanInv
<1> QED
  BY <1>9, <1>10, <1>11 DEF Receive, q, base, seq

LEMMA CleanTimerFires ==
  ASSUME Inv, CleanInv, TimerFires
  PROVE  CleanInv'
<1>1. PICK h \in Oldest(delayedBuffers) :
        SendToEngine(h, Silence(h), delayedBuffers \ {h})
  BY DEF TimerFires
<1> DEFINE D == delayedBuffers \ {h}
<1>2. /\ h \in delayedBuffers /\ delayedBuffers \subseteq Buffer
      /\ h.at <= now /\ h.pkt <= now
  BY DEF Oldest, Inv, TypeOK, AtInv, CleanInv, BufferInv
<1>3. Silence(h) \in Nat
  BY <1>2 DEF Silence, Buffer, Inv, TypeOK
<1>4. now' = now /\ network' = network /\ phase' = phase
  BY DEF TimerFires
<1>5. delayedBuffers' \subseteq D
  BY <1>1, <1>2, <1>3, <1>4, SendKeepsInv
<1>6. CASE phase = "open"
  <2>1. PICK l \in heard : IsLast(l)
    BY <1>2, <1>6 DEF CleanInv, LastInv
  <2>2. /\ sequenceIndex \in Nat \ {0} /\ l.pkt \in Nat
        /\ h.pkt \in Nat /\ h.seq \in Int /\ h.pkt > l.pkt
        /\ h.seq = sequenceIndex + h.pkt - l.pkt
    BY <2>1, <1>2, ReorderAssumption DEF IsLast, Inv, TypeOK, Buffer, Number
  <2>3. h.seq \in Nat \ {0}
    BY <2>2
  <2>4. h.seq % SHORT_SIZE = Seq16(h.pkt)
    BY <2>1, <2>2, ShiftSeq DEF IsLast
  <2>5. \A g \in heard : g.pkt < h.pkt
    BY <2>1, <2>2, ReorderAssumption DEF IsLast, Inv, TypeOK, Number
  <2>6. ASSUME NEW c \in D
        PROVE  c.pkt > h.pkt /\ c.seq - h.seq = c.pkt - h.pkt
    <3>1. c.pkt \in Nat /\ c.seq \in Int
      BY <1>2, ReorderAssumption DEF Buffer, Number
    <3>2. c.pkt > l.pkt /\ c.seq - sequenceIndex = c.pkt - l.pkt
      BY <2>1 DEF IsLast
    <3>3. c.pkt # h.pkt
      BY <1>2 DEF CleanInv, BufferInv
    <3>4. ~(c.seq < h.seq)
      BY DEF Oldest, UpTo, Earlier
    <3> QED
      BY <3>1, <3>2, <3>3, <3>4, <2>2
  <2>7. /\ BufferInv' /\ HeardInv' /\ Ordered' /\ LastInv'
        /\ \A g \in heard' : \/ g \in heard
                             \/ g.pkt = h.pkt
                             \/ \E c \in D : c.pkt = g.pkt
    BY <2>3, <2>4, <2>5, <2>6, <1>1, <1>2, <1>3, <1>4, <1>6, SendKeepsOrder
       DEF CleanInv
  <2>8. NetworkInv'
    BY <2>7, <1>2, <1>4, <1>5 DEF CleanInv, NetworkInv
  <2> QED
    BY <2>7, <2>8 DEF CleanInv
<1>7. CASE phase # "open"
  <2>1. heard' = heard /\ position' = position
    BY <1>1, <1>7 DEF SendToEngine, EngineHears, engineVars
  <2> QED
    BY <2>1, <1>4, <1>5, <1>7
       DEF CleanInv, NetworkInv, BufferInv, HeardInv, LastInv, Ordered
<1> QED
  BY <1>6, <1>7

LEMMA CleanOthers ==
  ASSUME Clean, Inv, CleanInv,
         \/ \E p \in network : Lose(p)
         \/ Close \/ EngineClosed \/ TimerFiresClosed \/ Tick
  PROVE  CleanInv'
<1> USE DEF CleanInv, NetworkInv, BufferInv, HeardInv, LastInv, IsLast, Ordered,
            serverVars, engineVars
<1>1. CASE \E p \in network : Lose(p)
  BY <1>1 DEF Lose
<1>2. CASE Close \/ EngineClosed \/ TimerFiresClosed
  BY <1>2 DEF Close, EngineClosed, TimerFiresClosed
<1>3. CASE Tick
  <2>1. /\ now' = now + 1 /\ now \in Nat
        /\ UNCHANGED <<serverVars, engineVars, phase>>
    BY <1>3 DEF Tick, Inv, TypeOK
  <2>2. /\ \A h \in heard : h.pkt \in Nat /\ h.pkt <= now
        /\ \A b \in delayedBuffers : b.pkt \in Nat /\ b.pkt <= now
    BY ReorderAssumption DEF Inv, TypeOK, Buffer, Number
  <2>3. ASSUME NEW p \in network'
        PROVE  /\ p[2] = 1
               /\ p[1] <= now' /\ now' <= p[1] + MaxDelay
               /\ \A h \in heard : h.pkt # p[1]
               /\ \A b \in delayedBuffers : b.pkt # p[1]
    <3>1. CASE p \in network
      <4>1. p[1] \in Nat /\ MaxDelay \in Nat
        BY <3>1, ReorderAssumption DEF Inv, TypeOK, Number
      <4> QED
        BY <3>1, <4>1, <1>3, <2>1 DEF Tick
    <3>2. CASE p \notin network
      <4>1. p = <<now + 1, 1>>
        BY <3>2, <1>3 DEF Tick, Copies, Clean
      <4> QED
        BY <4>1, <2>1, <2>2, ReorderAssumption
    <3> QED
      BY <3>1, <3>2
  <2>4. HeardInv' /\ BufferInv'
    BY <2>1, <2>2
  <2> QED
    BY <2>1, <2>3, <2>4
<1> QED
  BY <1>1, <1>2, <1>3

LEMMA CleanNext == Clean /\ Inv /\ CleanInv /\ [Next]_allVars => CleanInv'
<1> SUFFICES ASSUME Clean, Inv, CleanInv, [Next]_allVars PROVE CleanInv'
  OBVIOUS
<1>1. CASE \E p \in network : Receive(p)
  BY <1>1, CleanReceive
<1>2. CASE TimerFires
  BY <1>2, CleanTimerFires
<1>3. CASE \/ \E p \in network : Lose(p)
           \/ Close \/ EngineClosed \/ TimerFiresClosed \/ Tick
  BY <1>3, CleanOthers
<1>4. CASE UNCHANGED allVars
  BY <1>4 DEF CleanInv, NetworkInv, BufferInv, HeardInv, LastInv, IsLast,
              Ordered, vars, allVars
<1> QED
  BY <1>1, <1>2, <1>3, <1>4 DEF Next, Step

LEMMA CleanStays == [Next]_allVars => (Clean' <=> Clean)
  BY DEF Next, allVars, Clean

LEMMA CleanInvariance == Spec => [](Clean => CleanInv)
<1>1. Init => (Clean => CleanInv)
  BY CleanInit
<1>2. Inv /\ (Clean => CleanInv) /\ [Next]_allVars => (Clean => CleanInv)'
  BY CleanNext, CleanStays
<1> QED
  BY <1>1, <1>2, Invariance, PTL DEF Spec

\* The engine hears each packet once and in the order in which they were
\* spoken, whatever is lost or delayed, and however often the 16 bit numbers
\* wrap, if the network duplicates nothing and the stream does not start at 0.
THEOREM OrderKept == Spec => []InOrder
<1>1. (Clean => CleanInv) => InOrder
  BY DEF CleanInv, InOrder
<1> QED
  BY <1>1, CleanInvariance, PTL

-----------------------------------------------------------------------------
(***************************************************************************)
(* The silence and the gaps: without duplicates, as above.                 *)
(***************************************************************************)
Youngest(l) == \A h \in heard : h.pkt <= l.pkt

\* A packet that waits has travelled for MaxDelay at most.
ArrivalInv ==
  \A b \in delayedBuffers : b.pkt <= b.at /\ b.at <= b.pkt + MaxDelay

\* The youngest packet heard ends the audio of the engine, and lastData is the
\* end of what it said, up to the time it travelled.
EndInv ==
  phase = "open" =>
    \A l \in heard : Youngest(l) =>
      /\ l.pos = position - 1
      /\ l.pkt + 1 <= lastData /\ lastData <= l.pkt + 1 + MaxDelay

\* The timer is not armed for less than delayedBufferMs after some packet that
\* still waits was spoken.
TimerInv ==
  delayedTimeout # NotArmed =>
    \E b \in delayedBuffers : delayedTimeout >= b.pkt + BufferMs

\* Between two packets heard nobody is missing who could still be in time.
GapInv ==
  \A i \in Number, f \in heard, l \in heard :
    f.pkt <= i /\ i <= l.pkt =>
      (\E h \in heard : h.pkt = i) \/ now > i + BufferMs

\* SpokenTimeKept of a clean network.
Adjacent(a, b) ==
  a.pos < b.pos /\ \A c \in heard : c.pos <= a.pos \/ b.pos <= c.pos

Spaced ==
  \A a, b \in heard : Adjacent(a, b) =>
    /\ b.pos - a.pos <= b.pkt - a.pkt + MaxDelay
    /\ b.pkt - a.pkt <= b.pos - a.pos + MaxDelay

SpokenInv == ArrivalInv /\ EndInv /\ TimerInv /\ GapInv /\ Spaced

\* What sendToEngine adds to the audio: an unbroken stretch of packets from b
\* on, one after the other, behind the silence.
Stretch(b, l, pad) ==
  /\ l.pkt >= b.pkt
  /\ lastData' = l.at + 1
  /\ position' = position + pad + l.pkt - b.pkt + 1
  /\ heard \subseteq heard'
  /\ \A h \in heard' \ heard :
       /\ h.pkt \in b.pkt .. l.pkt
       /\ h.pos = position + pad + h.pkt - b.pkt
  /\ \A i \in b.pkt .. l.pkt :
       \E h \in heard' : h.pkt = i /\ h.pos = position + pad + i - b.pkt

LEMMA SendAddsStretch ==
  ASSUME Inv, BufferInv, phase = "open", NEW b \in Buffer, NEW pad \in Nat,
         NEW D \in SUBSET delayedBuffers, SendToEngine(b, pad, D),
         \A c \in D : c.pkt > b.pkt /\ c.seq - b.seq = c.pkt - b.pkt
  PROVE  \E l \in {b} \cup D : Stretch(b, l, pad)
<1> DEFINE run == RunAfter(b.seq, D)
           new == {b} \cup run
           Entry(c) == [pkt |-> c.pkt, pos |-> position + pad + c.seq - b.seq]
<1>1. /\ D \subseteq Buffer /\ b.seq \in Int /\ b.pkt \in Nat
      /\ position \in Nat /\ Number \subseteq Nat
  BY ReorderAssumption DEF Inv, TypeOK, Buffer, Number
<1>2. \A c \in run : c \in D /\ c.seq > b.seq
  BY <1>1, RunFacts
<1>3. PICK l \in new : /\ \A c \in run : c.seq <= l.seq
                       /\ EngineHears(b, pad, run, l)
                       /\ lastData' = l.at + 1
  BY DEF SendToEngine
<1>4. ASSUME NEW c \in new
      PROVE  /\ c.seq \in Int /\ c.pkt \in Nat /\ c.seq <= l.seq
             /\ c.pkt >= b.pkt /\ c.seq - b.seq = c.pkt - b.pkt
  <2>1. CASE c = b
    <3>1. l = b \/ (l \in run /\ l.seq \in Int /\ l.seq > b.seq)
      BY <1>1, <1>2, <1>3 DEF Buffer
    <3> QED
      BY <2>1, <3>1, <1>1
  <2>2. CASE c \in run
    <3>1. c \in D /\ c.seq <= l.seq
      BY <2>2, <1>2, <1>3
    <3>2. c.seq \in Int /\ c.pkt \in Nat
      BY <3>1, <1>1 DEF Buffer
    <3> QED
      BY <3>1, <3>2, <1>1
  <2> QED
    BY <2>1, <2>2
<1>5. heard' = heard \cup {Entry(c) : c \in new}
  <2>1. Entry(b) = [pkt |-> b.pkt, pos |-> position + pad]
    BY <1>1
  <2> QED
    BY <2>1, <1>3 DEF EngineHears
<1>6. l.pkt >= b.pkt /\ position' = position + pad + l.pkt - b.pkt + 1
  <2>1. position' = position + pad + l.seq - b.seq + 1
    BY <1>3 DEF EngineHears
  <2>2. /\ l.seq \in Int /\ l.pkt \in Nat /\ l.pkt >= b.pkt
        /\ l.seq - b.seq = l.pkt - b.pkt
    BY <1>4
  <2> QED
    BY <2>1, <2>2, <1>1
<1>7. ASSUME NEW h \in heard' \ heard
      PROVE  h.pkt \in b.pkt .. l.pkt /\ h.pos = position + pad + h.pkt - b.pkt
  <2>1. PICK c \in new : h = Entry(c)
    BY <1>5
  <2>2. /\ c.seq \in Int /\ c.pkt \in Nat /\ c.seq <= l.seq
        /\ c.pkt >= b.pkt /\ c.seq - b.seq = c.pkt - b.pkt
    BY <1>4
  <2>3. l.seq \in Int /\ l.pkt \in Nat /\ l.seq - b.seq = l.pkt - b.pkt
    BY <1>4
  <2>4. h.pkt = c.pkt /\ h.pos = position + pad + c.seq - b.seq
    BY <2>1
  <2> QED
    BY <2>2, <2>3, <2>4, <1>1
<1>8. ASSUME NEW i \in b.pkt .. l.pkt
      PROVE  \E h \in heard' : h.pkt = i /\ h.pos = position + pad + i - b.pkt
  <2>1. l.seq \in Int /\ l.pkt \in Nat /\ l.seq - b.seq = l.pkt - b.pkt
    BY <1>4
  <2>2. i \in Int
    BY <1>1, <2>1
  <2>3. PICK c \in new : c.pkt = i
    <3>1. CASE i = b.pkt
      BY <3>1
    <3>2. CASE i # b.pkt
      <4>1. l # b
        BY <3>2, <1>1, <2>2
      <4>2. l \in run
        BY <4>1
      <4>3. {d.seq : d \in UpTo(l, D)} = b.seq + 1 .. l.seq
        BY <4>2 DEF RunAfter
      <4>4. b.seq + i - b.pkt \in b.seq + 1 .. l.seq
        BY <3>2, <1>1, <2>1, <2>2
      <4>5. PICK c \in UpTo(l, D) : c.seq = b.seq + i - b.pkt
        BY <4>3, <4>4
      <4>6. c \in D /\ c.seq \in Int /\ c.pkt \in Nat
        BY <4>5, <1>1 DEF UpTo, Buffer
      <4>7. \A d, e \in D : d.seq = e.seq => d = e
        <5>1. \A d \in D : d.seq \in Int /\ d.pkt \in Nat
          BY <1>1 DEF Buffer
        <5> QED
          BY <5>1, <1>1 DEF BufferInv
      <4>8. c.seq <= l.seq
        BY <4>4, <4>5, <2>1, <1>1, <2>2
      <4>9. c \in run
        BY <4>2, <4>6, <4>7, <4>8, <1>1, RunIsPrefix
      <4>10. c.seq - b.seq = c.pkt - b.pkt
        BY <4>6
      <4>11. c.pkt = i
        BY <4>5, <4>6, <4>10, <1>1, <2>2
      <4> QED
        BY <4>9, <4>11
    <3> QED
      BY <3>1, <3>2
  <2>4. c.seq \in Int /\ c.seq - b.seq = c.pkt - b.pkt
    BY <1>4
  <2>5. Entry(c) \in heard'
    BY <1>5
  <2>6. /\ Entry(c).pkt = i
        /\ Entry(c).pos = position + pad + i - b.pkt
    BY <2>2, <2>3, <2>4, <1>1
  <2> QED
    BY <2>5, <2>6
<1>9. heard \subseteq heard'
  BY <1>5
<1>10. Stretch(b, l, pad)
  BY <1>3, <1>6, <1>7, <1>8, <1>9 DEF Stretch
<1> QED
  BY <1>2, <1>10

\* The parts of SpokenInv that are about the audio survive sendToEngine if b
\* follows all that was heard at the right distance, and what is missing
\* before it is overdue.
LEMMA StretchKeepsSpoken ==
  ASSUME Inv, CleanInv, CleanInv', SpokenInv, phase = "open", now' = now,
         NEW b \in Buffer, NEW l \in Buffer, NEW pad \in Nat,
         Stretch(b, l, pad), l.pkt <= l.at, l.at <= l.pkt + MaxDelay,
         \A h \in heard : h.pkt < b.pkt,
         \A z \in heard : Youngest(z) =>
           /\ pad + 1 <= b.pkt - z.pkt + MaxDelay
           /\ b.pkt - z.pkt <= pad + 1 + MaxDelay
           /\ \A i \in Number : z.pkt < i /\ i < b.pkt => now > i + BufferMs
  PROVE  EndInv' /\ GapInv' /\ Spaced'
<1>1. /\ Number \subseteq Nat /\ MaxDelay \in Nat /\ BufferMs \in Nat
      /\ heard \subseteq [pkt : Number, pos : Int]
      /\ position \in Nat /\ now \in Nat
      /\ b.pkt \in Nat /\ l.pkt \in Nat /\ l.at \in Nat /\ l.pkt >= b.pkt
  BY ReorderAssumption DEF Inv, TypeOK, Buffer, Number, Stretch
<1>2. \A h \in heard : h.pkt \in Nat /\ h.pos \in Int /\ h.pos < position
  BY <1>1 DEF CleanInv, HeardInv
<1>3. ASSUME NEW h \in heard' \ heard
      PROVE  /\ h.pkt \in Nat /\ b.pkt <= h.pkt /\ h.pkt <= l.pkt
             /\ h.pos = position + pad + h.pkt - b.pkt
  BY <1>1 DEF Stretch
<1>4. ASSUME heard # {}
      PROVE  \E z \in heard : Youngest(z)
  BY <1>4 DEF CleanInv, LastInv, IsLast, Youngest
<1>5. EndInv'
  <2> SUFFICES ASSUME NEW k \in heard', Youngest(k)'
               PROVE  /\ k.pos = position' - 1
                      /\ k.pkt + 1 <= lastData'
                      /\ lastData' <= k.pkt + 1 + MaxDelay
    BY DEF EndInv
  <2>1. l.pkt \in b.pkt .. l.pkt
    BY <1>1
  <2>2. PICK e \in heard' : e.pkt = l.pkt
    BY <2>1 DEF Stretch
  <2>3. k.pkt >= l.pkt
    BY <2>2 DEF Youngest
  <2>4. k \notin heard
    <3>1. k \in heard => k.pkt \in Nat /\ k.pkt < b.pkt
      BY <1>2
    <3> QED
      BY <3>1, <2>3, <1>1
  <2>5. k.pkt = l.pkt /\ k.pos = position + pad + l.pkt - b.pkt
    <3>1. /\ k.pkt \in Nat /\ k.pkt <= l.pkt
          /\ k.pos = position + pad + k.pkt - b.pkt
      BY <2>4, <1>3
    <3>2. k.pkt = l.pkt
      BY <3>1, <2>3, <1>1
    <3> QED
      BY <3>1, <3>2
  <2>6. /\ position' = position + pad + l.pkt - b.pkt + 1
        /\ lastData' = l.at + 1
    BY DEF Stretch
  <2> QED
    BY <2>5, <2>6, <1>1
<1>6. GapInv'
  <2> SUFFICES ASSUME NEW i \in Number, NEW f \in heard', NEW g \in heard',
                      f.pkt <= i, i <= g.pkt
               PROVE  (\E h \in heard' : h.pkt = i) \/ now > i + BufferMs
    BY DEF GapInv
  <2>1. i \in Nat
    BY <1>1
  <2>2. CASE i >= b.pkt
    <3>1. g.pkt <= l.pkt /\ g.pkt \in Nat
      <4>1. CASE g \in heard
        BY <4>1, <1>1, <1>2
      <4>2. CASE g \notin heard
        BY <4>2, <1>3
      <4> QED
        BY <4>1, <4>2
    <3>2. i \in b.pkt .. l.pkt
      BY <2>1, <2>2, <3>1, <1>1
    <3> QED
      BY <3>2 DEF Stretch
  <2>3. CASE i < b.pkt
    <3>1. f \in heard
      <4>1. f \notin heard => f.pkt \in Nat /\ b.pkt <= f.pkt
        BY <1>3
      <4> QED
        BY <4>1, <2>1, <2>3, <1>1
    <3>2. PICK z \in heard : Youngest(z)
      BY <3>1, <1>4
    <3>3. z.pkt \in Nat
      BY <1>2
    <3>4. CASE z.pkt < i
      BY <3>2, <3>4, <2>3
    <3>5. CASE i <= z.pkt
      <4>1. (\E h \in heard : h.pkt = i) \/ now > i + BufferMs
        BY <3>1, <3>5 DEF SpokenInv, GapInv
      <4> QED
        BY <4>1 DEF Stretch
    <3> QED
      BY <3>3, <3>4, <3>5, <2>1
  <2> QED
    BY <2>1, <2>2, <2>3, <1>1
<1>7. Spaced'
  <2> SUFFICES ASSUME NEW x \in heard', NEW y \in heard', Adjacent(x, y)'
               PROVE  /\ y.pos - x.pos <= y.pkt - x.pkt + MaxDelay
                      /\ y.pkt - x.pkt <= y.pos - x.pos + MaxDelay
    BY DEF Spaced
  <2>1. /\ x.pos < y.pos
        /\ \A c \in heard' : c.pos <= x.pos \/ y.pos <= c.pos
    BY DEF Adjacent
  <2>2. CASE x \in heard /\ y \in heard
    <3>1. Adjacent(x, y)
      BY <2>1, <2>2 DEF Adjacent, Stretch
    <3> QED
      BY <3>1, <2>2 DEF SpokenInv, Spaced
  <2>3. CASE x \notin heard /\ y \in heard
    <3>1. x.pkt \in Nat /\ x.pkt >= b.pkt /\ x.pos >= position
      BY <2>3, <1>1, <1>3
    <3>2. y.pos \in Int /\ y.pos < position
      BY <2>3, <1>2
    <3>3. x.pos \in Int
      BY <2>3, <1>1, <1>3
    <3> QED
      BY <3>1, <3>2, <3>3, <2>1, <1>1
  <2>4. CASE x \notin heard /\ y \notin heard
    <3>1. /\ x.pkt \in Nat /\ y.pkt \in Nat
          /\ x.pos = position + pad + x.pkt - b.pkt
          /\ y.pos = position + pad + y.pkt - b.pkt
      BY <2>4, <1>3
    <3> QED
      BY <3>1, <1>1
  <2>5. CASE x \in heard /\ y \notin heard
    <3>1. PICK z \in heard : Youngest(z)
      BY <2>5, <1>4
    <3>2. /\ z.pkt \in Nat /\ z.pos = position - 1
          /\ pad + 1 <= b.pkt - z.pkt + MaxDelay
          /\ b.pkt - z.pkt <= pad + 1 + MaxDelay
      BY <3>1, <1>2 DEF SpokenInv, EndInv
    <3>3. /\ y.pkt \in Nat /\ y.pkt >= b.pkt
          /\ y.pos = position + pad + y.pkt - b.pkt
      BY <2>5, <1>3
    <3>4. x.pos \in Int /\ x.pkt \in Nat /\ x.pos <= position - 1
      BY <2>5, <1>1, <1>2
    <3>5. x.pos = z.pos
      <4>1. z.pos <= x.pos \/ y.pos <= z.pos
        BY <2>1 DEF Stretch
      <4> QED
        BY <4>1, <3>2, <3>3, <3>4, <1>1
    <3>6. x.pkt = z.pkt
      <4>1. (x.pos < z.pos <=> x.pkt < z.pkt) /\ (z.pos < x.pos <=> z.pkt < x.pkt)
        BY <2>5 DEF CleanInv, Ordered
      <4> QED
        BY <4>1, <3>2, <3>4, <3>5
    <3>7. b.pkt \in b.pkt .. l.pkt
      BY <1>1
    <3>8. PICK e \in heard' : e.pos = position + pad + b.pkt - b.pkt
      BY <3>7 DEF Stretch
    <3>9. e.pos = position + pad
      BY <3>8, <1>1
    <3>10. y.pos = position + pad /\ y.pkt = b.pkt
      <4>1. e.pos <= x.pos \/ y.pos <= e.pos
        BY <2>1
      <4> QED
        BY <4>1, <3>2, <3>3, <3>5, <3>9, <1>1
    <3> QED
      BY <3>2, <3>4, <3>5, <3>6, <3>10, <1>1
  <2> QED
    BY <2>2, <2>3, <2>4, <2>5
<1> QED
  BY <1>5, <1>6, <1>7

\* The timer that sendToEngine arms for the packets it leaves.
LEMMA SendArmsTimer ==
  ASSUME Inv, ArrivalInv, now' = now, NEW D \in SUBSET delayedBuffers,
         NEW b \in Buffer, NEW pad \in Nat, SendToEngine(b, pad, D)
  PROVE  TimerInv' /\ ArrivalInv'
<1> DEFINE rest == D \ RunAfter(b.seq, D)
<1>1. delayedBuffers' = rest /\ rest \subseteq delayedBuffers
  BY DEF SendToEngine
<1>2. /\ delayedBuffers \subseteq Buffer /\ Number \subseteq Nat
      /\ BufferMs \in Nat /\ now \in Nat
  BY ReorderAssumption DEF Inv, TypeOK, Number
<1>3. CASE delayedTimeout' = NotArmed
  BY <1>1, <1>3 DEF TimerInv, ArrivalInv
<1>4. ASSUME NEW h \in Oldest(rest),
             delayedTimeout' = SetDelayedTimer(NotArmed, Due(h))
      PROVE  TimerInv'
  <2>1. h \in rest /\ h.at \in Nat /\ h.pkt \in Nat /\ h.pkt <= h.at
    BY <1>1, <1>2 DEF Oldest, ArrivalInv, Buffer
  <2>2. delayedTimeout' = Due(h)
    BY <1>4 DEF SetDelayedTimer
  <2>3. Due(h) >= h.pkt + BufferMs
    BY <2>1, <1>2 DEF Due
  <2> QED
    BY <1>1, <2>1, <2>2, <2>3 DEF TimerInv
<1>5. ArrivalInv'
  BY <1>1 DEF ArrivalInv
<1> QED
  BY <1>3, <1>4, <1>5 DEF SendToEngine

LEMMA YoungestIsLast ==
  ASSUME Inv, CleanInv, phase = "open", NEW z \in heard, Youngest(z)
  PROVE  IsLast(z)
<1>1. PICK l \in heard : IsLast(l)
  BY DEF CleanInv, LastInv
<1>2. z.pkt \in Nat /\ l.pkt \in Nat
  BY ReorderAssumption DEF Inv, TypeOK, Number
<1>3. z.pkt = l.pkt
  BY <1>1, <1>2 DEF IsLast, Youngest
<1> QED
  BY <1>1, <1>3 DEF IsLast

LEMMA SpokenReceive ==
  ASSUME Clean, Inv, CleanInv, CleanInv', SpokenInv,
         NEW p \in network, Receive(p)
  PROVE  SpokenInv'
<1> DEFINE i == p[1]
           q == Seq16(i)
           base == IF sequenceIndex = Unset THEN q ELSE sequenceIndex
           seq == Correct(base, q)
           b == [seq |-> seq, pkt |-> i, at |-> now, copy |-> p[2]]
<1>1. /\ i \in Number /\ i \in Nat /\ p[2] \in {1, 2} /\ now \in Nat
      /\ i <= now /\ now <= i + MaxDelay
      /\ MaxDelay \in Nat /\ BufferMs \in Nat
  BY ReorderAssumption DEF Inv, TypeOK, Number, CleanInv, NetworkInv
<1>2. phase = "open" /\ phase' = phase /\ now' = now
  BY DEF Receive
<1>3. sequenceIndex \in Int /\ q \in Int
  <2>1. First + i \in Int
    BY <1>1, ReorderAssumption
  <2> QED
    BY <2>1, DivisionFacts DEF Seq16, Inv, TypeOK
<1>4. base \in Int /\ seq \in Int
  <2>1. base \in Int
    BY <1>3
  <2> QED
    BY <2>1, <1>3, CorrectType
<1>5. b \in Buffer
  BY <1>1, <1>4 DEF Buffer
<1> HIDE DEF q, base, seq
<1>6. CASE UNCHANGED <<delayedBuffers, delayedTimeout, lastData, engineVars>>
  BY <1>2, <1>6 DEF SpokenInv, ArrivalInv, EndInv, TimerInv, GapInv, Spaced,
                    Adjacent, Youngest, engineVars
<1>7. CASE /\ delayedBuffers' = delayedBuffers \cup {b}
           /\ delayedTimeout' = SetDelayedTimer(delayedTimeout, now + BufferMs)
           /\ UNCHANGED <<lastData, engineVars>>
  <2>1. ArrivalInv'
    BY <1>1, <1>7 DEF SpokenInv, ArrivalInv
  <2>2. TimerInv'
    <3>1. CASE delayedTimeout = NotArmed
      <4>1. delayedTimeout' = now + BufferMs /\ now + BufferMs >= b.pkt + BufferMs
        BY <3>1, <1>1, <1>7 DEF SetDelayedTimer
      <4> QED
        BY <4>1, <1>7 DEF TimerInv
    <3>2. CASE delayedTimeout # NotArmed
      <4>1. delayedTimeout' = delayedTimeout
        BY <3>2, <1>7 DEF SetDelayedTimer
      <4> QED
        BY <3>2, <4>1, <1>7 DEF SpokenInv, TimerInv
    <3> QED
      BY <3>1, <3>2
  <2>3. EndInv' /\ GapInv' /\ Spaced'
    BY <1>2, <1>7 DEF SpokenInv, EndInv, GapInv, Spaced, Adjacent, Youngest,
                      engineVars
  <2> QED
    BY <2>1, <2>2, <2>3 DEF SpokenInv
<1>8. CASE seq - base \in {0, 1} /\ SendToEngine(b, 0, delayedBuffers)
  <2>1. /\ \A c \in delayedBuffers : /\ c.pkt > b.pkt
                                     /\ c.seq - b.seq = c.pkt - b.pkt
        /\ \A h \in heard : h.pkt < b.pkt
        /\ \A z \in heard : IsLast(z) => b.pkt = z.pkt + 1
    <3>1. Plausible(i)
      BY DEF Receive
    <3>2. base = IF sequenceIndex = Unset THEN Seq16(i) ELSE sequenceIndex
      BY DEF base, q
    <3>3. seq = Correct(base, Seq16(i))
      BY DEF seq, q
    <3> QED
      BY <3>1, <3>2, <3>3, <1>2, <1>8, NextInLine
  <2>2. PICK l \in {b} \cup delayedBuffers : Stretch(b, l, 0)
    BY <2>1, <1>2, <1>5, <1>8, SendAddsStretch DEF CleanInv
  <2>3. l \in Buffer /\ l.pkt <= l.at /\ l.at <= l.pkt + MaxDelay
    BY <1>1, <1>5 DEF Inv, TypeOK, SpokenInv, ArrivalInv
  <2>4. ASSUME NEW z \in heard, Youngest(z)
        PROVE  /\ 0 + 1 <= b.pkt - z.pkt + MaxDelay
               /\ b.pkt - z.pkt <= 0 + 1 + MaxDelay
               /\ \A j \in Number : z.pkt < j /\ j < b.pkt => now > j + BufferMs
    <3>1. b.pkt = z.pkt + 1
      BY <2>1, <2>4, <1>2, YoungestIsLast
    <3>2. z.pkt \in Nat /\ Number \subseteq Nat
      BY ReorderAssumption DEF Inv, TypeOK, Number
    <3> QED
      BY <3>1, <3>2, <1>1
  <2>5. EndInv' /\ GapInv' /\ Spaced'
    BY <2>1, <2>2, <2>3, <2>4, <1>2, <1>5, StretchKeepsSpoken
  <2>6. TimerInv' /\ ArrivalInv'
    BY <1>2, <1>5, <1>8, SendArmsTimer DEF SpokenInv
  <2> QED
    BY <2>5, <2>6 DEF SpokenInv
<1> QED
  BY <1>6, <1>7, <1>8 DEF Receive, q, base, seq

LEMMA SpokenTimerFires ==
  ASSUME Inv, CleanInv, CleanInv', SpokenInv, TimerFires
  PROVE  SpokenInv'
<1>1. PICK h \in Oldest(delayedBuffers) :
        SendToEngine(h, Silence(h), delayedBuffers \ {h})
  BY DEF TimerFires
<1> DEFINE D == delayedBuffers \ {h}
           pad == Silence(h)
<1>2. /\ h \in delayedBuffers /\ delayedBuffers \subseteq Buffer /\ h \in Buffer
      /\ h.pkt <= h.at /\ h.at <= h.pkt + MaxDelay
  BY DEF Oldest, Inv, TypeOK, SpokenInv, ArrivalInv
<1>3. /\ h.pkt \in Nat /\ h.at \in Nat /\ h.seq \in Int /\ Number \subseteq Nat
      /\ lastData \in Nat /\ now \in Nat /\ delayedTimeout \in Int
      /\ BufferMs \in Nat /\ MaxDelay \in Nat
  BY <1>2, ReorderAssumption DEF Buffer, Number, Inv, TypeOK, NotArmed
<1>4. pad \in Nat
  BY <1>3 DEF Silence
<1>5. now' = now /\ phase' = phase /\ delayedTimeout <= now
  BY DEF TimerFires
<1>6. TimerInv' /\ ArrivalInv'
  BY <1>1, <1>2, <1>4, <1>5, SendArmsTimer DEF SpokenInv
<1>7. CASE phase = "open"
  <2>1. PICK z \in heard : IsLast(z)
    BY <1>2, <1>7 DEF CleanInv, LastInv
  <2>2. /\ h.pkt > z.pkt /\ h.seq - sequenceIndex = h.pkt - z.pkt
        /\ z.pkt \in Nat /\ sequenceIndex \in Nat
    BY <2>1, <1>2, ReorderAssumption DEF IsLast, Inv, TypeOK, Number
  <2>3. ASSUME NEW c \in delayedBuffers
        PROVE  /\ c.pkt >= h.pkt /\ c.seq - h.seq = c.pkt - h.pkt
               /\ c # h => c.pkt > h.pkt
    <3>1. c.pkt \in Nat /\ c.seq \in Int
      BY <1>2, <1>3 DEF Buffer
    <3>2. c.pkt > z.pkt /\ c.seq - sequenceIndex = c.pkt - z.pkt
      BY <2>1 DEF IsLast
    <3>3. c # h => c.pkt # h.pkt
      BY <1>2 DEF CleanInv, BufferInv
    <3>4. ~(c.seq < h.seq)
      BY <1>1, <1>3, <3>1 DEF Oldest, UpTo, Earlier
    <3> QED
      BY <3>1, <3>2, <3>3, <3>4, <2>2, <1>3
  <2>4. \A c \in D : c.pkt > h.pkt /\ c.seq - h.seq = c.pkt - h.pkt
    BY <2>3
  <2>5. PICK l \in {h} \cup D : Stretch(h, l, pad)
    BY <2>4, <1>1, <1>2, <1>4, <1>7, SendAddsStretch DEF CleanInv
  <2>6. l \in Buffer /\ l.pkt <= l.at /\ l.at <= l.pkt + MaxDelay
    BY <1>2 DEF SpokenInv, ArrivalInv
  <2>7. \A g \in heard : g.pkt < h.pkt
    <3>1. \A g \in heard : g.pkt \in Nat /\ g.pkt <= z.pkt
      BY <2>1, <1>3 DEF IsLast, Inv, TypeOK
    <3> QED
      BY <3>1, <2>2, <1>3
  <2>8. now >= h.pkt + BufferMs
    <3>1. PICK c \in delayedBuffers : delayedTimeout >= c.pkt + BufferMs
      BY DEF SpokenInv, TimerInv, TimerFires
    <3>2. c.pkt \in Nat /\ c.pkt >= h.pkt
      BY <2>3, <1>2, <1>3 DEF Buffer
    <3> QED
      BY <3>1, <3>2, <1>3, <1>5
  <2>9. ASSUME NEW y \in heard, Youngest(y)
        PROVE  /\ pad + 1 <= h.pkt - y.pkt + MaxDelay
               /\ h.pkt - y.pkt <= pad + 1 + MaxDelay
               /\ \A i \in Number : y.pkt < i /\ i < h.pkt => now > i + BufferMs
    <3>1. y.pkt \in Nat /\ y.pkt < h.pkt
      BY <2>7, <1>3 DEF Inv, TypeOK
    <3>2. y.pkt + 1 <= lastData /\ lastData <= y.pkt + 1 + MaxDelay
      BY <2>9, <1>7 DEF SpokenInv, EndInv
    <3>3. CASE h.at > lastData
      <4>1. pad = h.at - lastData
        BY <3>3 DEF Silence
      <4> QED
        BY <4>1, <3>1, <3>2, <2>8, <1>2, <1>3
    <3>4. CASE ~(h.at > lastData)
      <4>1. pad = 0
        BY <3>4 DEF Silence
      <4> QED
        BY <4>1, <3>1, <3>2, <3>4, <2>8, <1>2, <1>3
    <3> QED
      BY <3>3, <3>4
  <2>10. EndInv' /\ GapInv' /\ Spaced'
    BY <2>5, <2>6, <2>7, <2>9, <1>2, <1>4, <1>5, <1>7, StretchKeepsSpoken
  <2> QED
    BY <2>10, <1>6 DEF SpokenInv
<1>8. CASE phase # "open"
  <2>1. heard' = heard /\ position' = position
    BY <1>1, <1>8 DEF SendToEngine, EngineHears, engineVars
  <2>2. EndInv' /\ GapInv' /\ Spaced'
    BY <2>1, <1>5, <1>8 DEF SpokenInv, EndInv, GapInv, Spaced, Adjacent
  <2> QED
    BY <2>2, <1>6 DEF SpokenInv
<1> QED
  BY <1>7, <1>8

LEMMA SpokenOthers ==
  ASSUME Inv, SpokenInv,
         \/ \E p \in network : Lose(p)
         \/ Close \/ EngineClosed \/ TimerFiresClosed \/ Tick
  PROVE  SpokenInv'
<1>1. /\ UNCHANGED <<serverVars, engineVars>>
      /\ phase' = "open" => phase = "open"
  BY DEF Lose, Close, EngineClosed, TimerFiresClosed, Tick
<1>2. now' >= now /\ now \in Nat /\ now' \in Nat
  BY DEF Lose, Close, EngineClosed, TimerFiresClosed, Tick, Inv, TypeOK
<1>3. ArrivalInv' /\ EndInv' /\ TimerInv' /\ Spaced'
  BY <1>1 DEF SpokenInv, ArrivalInv, EndInv, TimerInv, Spaced, Adjacent,
              Youngest, serverVars, engineVars
<1>4. GapInv'
  <2>1. heard' = heard
    BY <1>1 DEF engineVars
  <2>2. \A i \in Number : now > i + BufferMs => now' > i + BufferMs
    BY <1>2, ReorderAssumption DEF Number
  <2> QED
    BY <2>1, <2>2 DEF SpokenInv, GapInv
<1> QED
  BY <1>3, <1>4 DEF SpokenInv

LEMMA SpokenInit == Init => SpokenInv
  BY DEF Init, SpokenInv, ArrivalInv, EndInv, TimerInv, GapInv, Spaced, NotArmed

LEMMA SpokenNext ==
  /\ Clean /\ Inv /\ CleanInv /\ CleanInv' /\ SpokenInv
  /\ [Next]_allVars
  => SpokenInv'
<1> SUFFICES ASSUME Clean, Inv, CleanInv, CleanInv', SpokenInv, [Next]_allVars
             PROVE  SpokenInv'
  OBVIOUS
<1>1. CASE \E p \in network : Receive(p)
  BY <1>1, SpokenReceive
<1>2. CASE TimerFires
  BY <1>2, SpokenTimerFires
<1>3. CASE \/ \E p \in network : Lose(p)
           \/ Close \/ EngineClosed \/ TimerFiresClosed \/ Tick
  BY <1>3, SpokenOthers
<1>4. CASE UNCHANGED allVars
  BY <1>4 DEF SpokenInv, ArrivalInv, EndInv, TimerInv, GapInv, Spaced, Adjacent,
              Youngest, vars, allVars
<1> QED
  BY <1>1, <1>2, <1>3, <1>4 DEF Next, Step

LEMMA SpokenInvariance == Spec => [](Clean => SpokenInv)
<1>1. Init => (Clean => SpokenInv)
  BY SpokenInit
<1>2. /\ Inv /\ (Clean => CleanInv) /\ (Clean => CleanInv)'
      /\ (Clean => SpokenInv) /\ [Next]_allVars
      => (Clean => SpokenInv)'
  BY SpokenNext, CleanStays
<1> QED
  BY <1>1, <1>2, Invariance, CleanInvariance, PTL DEF Spec

\* The silence that the timer inserts lasts as long as the packets that are
\* missing, up to the jitter of the network, however late the packets come and
\* whatever is lost: what the engine hears keeps the rhythm of what was said.
THEOREM SilenceFits == Spec => []SpokenTimeKept
<1>1. (Clean => SpokenInv) => SpokenTimeKept
  BY DEF SpokenInv, Spaced, Adjacent, SpokenTimeKept
<1> QED
  BY <1>1, SpokenInvariance, PTL

\* A packet that comes in time is not dropped: either it follows what was
\* heard, or it was heard already.
LEMMA ReceivedIsKept ==
  ASSUME Clean, Inv, CleanInv, SpokenInv, NEW p \in network, Receive(p),
         now <= p[1] + BufferMs, \E h \in heard : h.pkt <= p[1]
  PROVE  \/ \E h \in heard' : h.pkt = p[1]
         \/ \E b \in delayedBuffers' : b.pkt = p[1]
<1> DEFINE i == p[1]
           q == Seq16(i)
           base == IF sequenceIndex = Unset THEN q ELSE sequenceIndex
           seq == Correct(base, q)
           b == [seq |-> seq, pkt |-> i, at |-> now, copy |-> p[2]]
<1>1. /\ i \in Number /\ i \in Nat /\ p[2] \in {1, 2}
      /\ now \in Nat /\ BufferMs \in Nat /\ Number \subseteq Nat
  BY ReorderAssumption DEF Inv, TypeOK, Number
<1>2. phase = "open" /\ Plausible(i)
  BY DEF Receive
<1>3. PICK l \in heard : IsLast(l)
  BY <1>2 DEF CleanInv, LastInv
<1>4. /\ l.pkt \in Nat /\ base = sequenceIndex /\ base \in Nat
      /\ seq = sequenceIndex + i - l.pkt
  <2>1. l.pkt \in Nat
    BY <1>1 DEF Inv, TypeOK
  <2>2. /\ base = sequenceIndex /\ base \in Nat \ {0}
        /\ seq = sequenceIndex + i - l.pkt
    BY <1>2, <1>3, ReceivedNumber
  <2> QED
    BY <2>1, <2>2
<1> HIDE DEF q, base, seq
<1>5. CASE seq < base
  <2>1. i <= l.pkt
    BY <1>1, <1>4, <1>5
  <2>2. (\E h \in heard : h.pkt = i) \/ now > i + BufferMs
    BY <2>1, <1>1 DEF SpokenInv, GapInv
  <2>3. \A h \in heard : h.pkt # i
    BY DEF CleanInv, NetworkInv
  <2> QED
    BY <2>2, <2>3, <1>1
<1>6. CASE delayedBuffers' = delayedBuffers \cup {b}
  <2>1. b \in delayedBuffers' /\ b.pkt = i
    BY <1>6
  <2> QED
    BY <2>1
<1>7. CASE seq - base \in {0, 1} /\ SendToEngine(b, 0, delayedBuffers)
  <2>1. b \in Buffer
    BY <1>1, <1>4 DEF Buffer
  <2>2. \A c \in delayedBuffers : c.pkt > b.pkt /\ c.seq - b.seq = c.pkt - b.pkt
    <3>1. base = IF sequenceIndex = Unset THEN Seq16(i) ELSE sequenceIndex
      BY DEF base, q
    <3>2. seq = Correct(base, Seq16(i))
      BY DEF seq, q
    <3> QED
      BY <3>1, <3>2, <1>2, <1>7, NextInLine
  <2>3. PICK k \in {b} \cup delayedBuffers : Stretch(b, k, 0)
    BY <2>1, <2>2, <1>2, <1>7, SendAddsStretch DEF CleanInv
  <2>4. k.pkt \in Nat /\ k.pkt >= i
    BY <2>1, <2>3, <1>1 DEF Inv, TypeOK, Buffer, Stretch
  <2>5. i \in b.pkt .. k.pkt
    BY <2>4, <1>1
  <2> QED
    BY <2>3, <2>5 DEF Stretch
<1> QED
  BY <1>5, <1>6, <1>7 DEF Receive, q, base, seq

\* Reordering loses nothing: a packet behind the first one heard that arrives
\* within delayedBufferMs of its time is passed on or waits, whatever happened
\* to those around it, and however the numbers wrap.
THEOREM InTimeMeansKept == Spec /\ Clean => NothingSkipped
<1> DEFINE Kept(p) ==
      Receive(p) /\ now <= p[1] + BufferMs /\ (\E h \in heard : h.pkt <= p[1])
      => \/ \E h \in heard' : h.pkt = p[1]
         \/ \E b \in delayedBuffers' : b.pkt = p[1]
<1>1. Clean /\ [Next]_allVars => Clean'
  BY CleanStays
<1>2. Clean /\ Inv /\ (Clean => CleanInv) /\ (Clean => SpokenInv)
        => \A p \in network : Kept(p)
  BY ReceivedIsKept
<1>3. (\A p \in network : Kept(p)) =>
        [\A p \in network :
           /\ "zero" \notin faults
           /\ Receive(p)
           /\ now <= p[1] + BufferMs
           /\ \E h \in heard : h.pkt <= p[1]
           => \/ \E h \in heard' : h.pkt = p[1]
              \/ \E b \in delayedBuffers' : b.pkt = p[1]]_vars
  OBVIOUS
<1> QED
  BY <1>1, <1>2, <1>3, Invariance, CleanInvariance, SpokenInvariance, PTL
     DEF Spec, NothingSkipped

=============================================================================
