----------------------------- MODULE RtpReorder -----------------------------
(***************************************************************************)
(* The packet order management of one RTP port (rtp_server.js).            *)
(*                                                                         *)
(* A caller sends one packet of one tick of audio per tick.  The network   *)
(* delays, loses and duplicates packets.  The server extends the 16 bit    *)
(* sequence number of a packet, hands packets to the engine client in      *)
(* order, keeps those that came too early in delayedBuffers, and gives up  *)
(* on a missing packet when a timer fires: silence is sent in its place.   *)
(*                                                                         *)
(* The 'message' handler has no await: one action is one packet or one     *)
(* timer.  Packets carry their true number, which the server never sees:   *)
(* the properties compare what the server made of the 16 bits with it.     *)
(***************************************************************************)
EXTENDS Integers

CONSTANTS
  SHORT_SIZE,   \* sequence numbers are taken modulo this (2^16 in the code)
  First,        \* the sequence number of packet 0, random in RTP
  BufferMs,     \* config.server.rtp.delayedBufferMs, in ticks
  MaxDelay,     \* the longest time a packet travels, in ticks
  Scenarios,    \* sets of faults; a behaviour has those of one of them
  Packets,      \* bounds the stream
  MaxTime       \* bounds the clock

(***************************************************************************)
(*   "loss"       packets get lost                                         *)
(*   "duplicate"  packets arrive twice                                     *)
(*   "zero"       the first packet that arrives has sequence number 0      *)
(*   "close"      the session ends while packets arrive                    *)
(***************************************************************************)
Fault == {"loss", "duplicate", "zero", "close"}

ASSUME ReorderAssumption ==
  /\ SHORT_SIZE \in Nat /\ SHORT_SIZE > 1 /\ SHORT_SIZE % 2 = 0
  /\ First \in 0 .. SHORT_SIZE - 1
  /\ BufferMs \in Nat
  /\ MaxDelay \in Nat /\ 2 * MaxDelay < SHORT_SIZE
  /\ Scenarios \subseteq SUBSET Fault
  /\ Packets \in Nat \ {0}
  /\ MaxTime \in Nat

VARIABLES
  faults,         \* the scenario
  now,            \* the time, in ticks
  network,        \* the packets that travel: <<true number, copy>>
  sequenceIndex,  \* extended number of the last packet sent; see Unset
  delayedBuffers, \* packets that wait for an earlier one
  delayedTimeout, \* when the timer is due, or NotArmed
  lastData,       \* lastDataTimestamp: when the audio sent so far ends
  heard,          \* what the engine got: packet and position in its audio
  position,       \* the length of the audio the engine got
  phase           \* of the server

vars == <<now, network, sequenceIndex, delayedBuffers, delayedTimeout,
          lastData, heard, position, phase>>
allVars == <<faults, vars>>

engineVars == <<heard, position>>
serverVars == <<sequenceIndex, delayedBuffers, delayedTimeout, lastData>>

DELAY_PACKET_THRESHOLD == SHORT_SIZE \div 2

\* sequenceIndex is null at first, and every test of it is `sequenceIndex ||
\* seq`, which takes 0 for null.
Unset == 0
NotArmed == -1

Number == 0 .. Packets - 1
Copies(i) == {i} \X (IF "duplicate" \in faults THEN {1, 2} ELSE {1})

Buffer == [seq : Int, pkt : Number, at : Nat, copy : {1, 2}]
Phases == {"open", "closing", "closed", "crashed"}

TypeOK ==
  /\ faults \in Scenarios
  /\ now \in Nat
  /\ network \subseteq Number \X {1, 2}
  /\ sequenceIndex \in Int
  /\ delayedBuffers \subseteq Buffer
  /\ delayedTimeout \in 0 .. now + BufferMs \cup {NotArmed}
  /\ lastData \in Nat
  /\ heard \subseteq [pkt : Number, pos : Int]
  /\ position \in Nat
  /\ phase \in Phases

Init ==
  /\ faults \in Scenarios
  /\ now = 0
  /\ network = Copies(0)
  /\ sequenceIndex = Unset
  /\ delayedBuffers = {}
  /\ delayedTimeout = NotArmed
  /\ lastData = 0
  /\ heard = {}
  /\ position = 0
  /\ phase = "open"

-----------------------------------------------------------------------------
(***************************************************************************)
(* Sequence numbers.                                                       *)
(***************************************************************************)
Seq16(i) == (First + i) % SHORT_SIZE

\* correctSequence: the extended number nearest to x whose lower half is q.
\* Mutant: numbers that wrap stay in the cycle of x.
SameCycle(x, q) == (x \div SHORT_SIZE) * SHORT_SIZE + q

Correct(x, q) ==
  LET upper == x \div SHORT_SIZE
      diff  == (x % SHORT_SIZE) - q
  IN  CASE diff > DELAY_PACKET_THRESHOLD    -> (upper + 1) * SHORT_SIZE + q
        [] diff < - DELAY_PACKET_THRESHOLD  -> (upper - 1) * SHORT_SIZE + q
        [] OTHER                            -> upper * SHORT_SIZE + q

-----------------------------------------------------------------------------
(***************************************************************************)
(* delayedBuffers: an array that is sorted by number (the sort is stable)  *)
(* before it is read.  Here: the set of its elements and their order.      *)
(***************************************************************************)
\* Mutant: the array is read in the order of arrival.
ArrivedEarlier(b, c) == b.at < c.at \/ (b.at = c.at /\ b.seq > c.seq)

Earlier(b, c) ==
  \/ b.seq < c.seq
  \/ b.seq = c.seq /\ b.at < c.at
  \/ b.seq = c.seq /\ b.at = c.at /\ b.copy < c.copy

UpTo(b, D) == {c \in D : c = b \/ Earlier(c, b)}

Oldest(D) == {b \in D : UpTo(b, D) = {b}}

\* The packets that the loop of sendToEngine takes after number x: the array
\* up to the first element that does not follow its predecessor.  A packet
\* that waits twice, or is older than x, stops the loop.
RunAfter(x, D) ==
  {b \in D : LET U == UpTo(b, D)
             IN  /\ {c.seq : c \in U} = x + 1 .. b.seq
                 /\ \A c, d \in U : c.seq = d.seq => c = d}

\* setDelayedTimer: a timer that runs is left alone.  Mutant: never armed.
NoTimer(t, due) == t
SetDelayedTimer(t, due) == IF t = NotArmed THEN due ELSE t

\* The due time of the timer of a packet: delayedBufferMs after its arrival.
Due(h) == IF h.at + BufferMs < now THEN now ELSE h.at + BufferMs

\* sendBuffer, of b behind pad ticks of silence and of the run that follows
\* it up to l.  A client that is closing ignores it.
EngineHears(b, pad, run, l) ==
  IF phase = "open"
    THEN /\ heard' = heard
              \cup {[pkt |-> b.pkt, pos |-> position + pad]}
              \cup {[pkt |-> c.pkt, pos |-> position + pad + c.seq - b.seq] :
                      c \in run}
         /\ position' = position + pad + l.seq - b.seq + 1
    ELSE UNCHANGED engineVars

\* sendToEngine(b), with D in delayedBuffers: l is the last packet it sends.
SendToEngine(b, pad, D) ==
  LET run  == RunAfter(b.seq, D)
      rest == D \ run
  IN  /\ \E l \in run \cup {b} :
           /\ \A c \in run : c.seq <= l.seq
           /\ EngineHears(b, pad, run, l)
           /\ sequenceIndex' = l.seq
           /\ lastData' = l.at + 1
      /\ delayedBuffers' = rest
      /\ \/ /\ rest = {}
            /\ delayedTimeout' = NotArmed
         \/ \E h \in Oldest(rest) :
              delayedTimeout' = SetDelayedTimer(NotArmed, Due(h))

-----------------------------------------------------------------------------
(***************************************************************************)
(* The 'message' handler.                                                  *)
(***************************************************************************)

\* What the network is trusted with: no gap of half a cycle, and, unless the
\* run is about it, no stream that starts at 0.
Plausible(i) ==
  /\ heard # {} => \E h \in heard : i - h.pkt < DELAY_PACKET_THRESHOLD
  /\ "zero" \in faults \/ heard # {} \/ Seq16(i) # 0

\* The copies of a packet are alike: the second is received or lost second.
InTurn(p) == p[2] = 2 => <<p[1], 1>> \notin network

Receive(p) ==
  LET q    == Seq16(p[1])
      base == IF sequenceIndex = Unset THEN q ELSE sequenceIndex
      seq  == Correct(base, q)
      b    == [seq |-> seq, pkt |-> p[1], at |-> now, copy |-> p[2]]
  IN  /\ p \in network
      /\ InTurn(p)
      /\ phase = "open"
      /\ Plausible(p[1])
      /\ network' = network \ {p}
      /\ \/ /\ seq < base
            /\ sequenceIndex' = base
            /\ UNCHANGED <<delayedBuffers, delayedTimeout, lastData,
                           engineVars>>
         \/ /\ seq - base > 1
            /\ sequenceIndex' = base
            /\ delayedBuffers' = delayedBuffers \cup {b}
            /\ delayedTimeout' = SetDelayedTimer(delayedTimeout, now + BufferMs)
            /\ UNCHANGED <<lastData, engineVars>>
         \/ /\ seq - base \in {0, 1}
            /\ SendToEngine(b, 0, delayedBuffers)
      /\ UNCHANGED <<now, phase>>

(***************************************************************************)
(* The timer.  The oldest packet is sent, behind as much silence as lies   *)
(* between the end of the audio sent so far and its arrival.               *)
(***************************************************************************)
\* Mutant: what is missing is not replaced.
NoSilence(h) == 0
Silence(h) == IF h.at > lastData THEN h.at - lastData ELSE 0

TimerFires ==
  /\ delayedTimeout # NotArmed
  /\ delayedTimeout <= now
  /\ phase \in {"open", "closing"}
  /\ \E h \in Oldest(delayedBuffers) :
       SendToEngine(h, Silence(h), delayedBuffers \ {h})
  /\ UNCHANGED <<now, network, phase>>

(***************************************************************************)
(* close(): the socket is closed, then the engine client, for as long as   *)
(* it takes, then engineClient is null.  The timer keeps running, and the  *)
(* exception it ends with is not caught by anybody in a worker.            *)
(***************************************************************************)
Close ==
  /\ "close" \in faults
  /\ phase = "open"
  /\ phase' = "closing"
  /\ UNCHANGED <<now, network, serverVars, engineVars>>

EngineClosed ==
  /\ phase = "closing"
  /\ phase' = "closed"
  /\ UNCHANGED <<now, network, serverVars, engineVars>>

TimerFiresClosed ==
  /\ delayedTimeout # NotArmed
  /\ delayedTimeout <= now
  /\ phase = "closed"
  /\ phase' = "crashed"
  /\ UNCHANGED <<now, network, serverVars, engineVars>>

-----------------------------------------------------------------------------
(***************************************************************************)
(* The network and the clock: a packet is sent at every tick, and none     *)
(* travels for longer than MaxDelay.                                       *)
(***************************************************************************)
Lose(p) ==
  /\ p \in network
  /\ InTurn(p)
  /\ "loss" \in faults \/ phase # "open"
  /\ network' = network \ {p}
  /\ UNCHANGED <<now, serverVars, engineVars, phase>>

Tick ==
  /\ now < MaxTime
  /\ \A p \in network : now < p[1] + MaxDelay
  /\ now' = now + 1
  /\ network' = IF now + 1 \in Number THEN network \cup Copies(now + 1)
                                      ELSE network
  /\ UNCHANGED <<serverVars, engineVars, phase>>

Step ==
  \/ \E p \in network : Receive(p) \/ Lose(p)
  \/ TimerFires
  \/ Close
  \/ EngineClosed
  \/ TimerFiresClosed
  \/ Tick

Next == Step /\ UNCHANGED faults

Spec == Init /\ [][Next]_allVars

\* Timers fire, time passes and what travels arrives.
TimedSpec == Spec /\ WF_vars(TimerFires) /\ WF_vars(Tick)
                  /\ \A p \in Number \X {1, 2} : WF_vars(Receive(p))

-----------------------------------------------------------------------------
(***************************************************************************)
(* Properties.                                                             *)
(***************************************************************************)

\* The engine hears the packets in the order in which they were spoken, each
\* of them once, across the wrap of the sequence numbers and whatever is
\* delayed or lost (correctSequence, delayedBuffers and the timer together),
\* if the network duplicates nothing and the stream does not start at 0.
Clean == "duplicate" \notin faults /\ "zero" \notin faults

Ordered == \A a, b \in heard : a.pos < b.pos <=> a.pkt < b.pkt

InOrder == Clean => Ordered

\* A packet that waits is waited for: while delayedBuffers holds a packet the
\* timer is armed, whatever the order in which packets and timers come.
WaitersHaveTimer ==
  delayedBuffers # {} => delayedTimeout # NotArmed

\* The silence the timer inserts is as long as the packets that are missing:
\* between two packets that the engine hears one after the other lies the time
\* that lay between them when they were spoken, up to the jitter of the network.
SpokenTimeKept ==
  \A a, b \in heard :
    /\ Clean
    /\ a.pos < b.pos
    /\ \A c \in heard : c.pos <= a.pos \/ b.pos <= c.pos
    => /\ b.pos - a.pos <= b.pkt - a.pkt + MaxDelay
       /\ b.pkt - a.pkt <= b.pos - a.pos + MaxDelay

\* Reordering loses nothing: a packet that follows the first one heard and
\* arrives no later than delayedBufferMs after it was spoken is passed on or
\* waits, whatever happens to the packets before and behind it, if the stream
\* does not start at 0.
NothingSkipped ==
  [][\A p \in network :
       /\ "zero" \notin faults
       /\ Receive(p)
       /\ now <= p[1] + BufferMs
       /\ \E h \in heard : h.pkt <= p[1]
       => \/ \E h \in heard' : h.pkt = p[1]
          \/ \E b \in delayedBuffers' : b.pkt = p[1]]_vars

\* A packet that waits is passed on in the end, unless the session ends: a
\* missing packet, or a copy of one, never blocks the stream for ever.
WaitersHeard ==
  \A i \in Number :
    (\E b \in delayedBuffers : b.pkt = i) ~>
      (phase # "open" \/ \A b \in delayedBuffers : b.pkt # i)

\* The handlers of a closed server do not use its engine client any more
\* ("if (this.engineClient)", rtp_server.js:85): the worker survives.
WorkerSurvives == phase # "crashed"

=============================================================================
