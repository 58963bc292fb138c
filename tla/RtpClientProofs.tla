--------------------------- MODULE RtpClientProofs ---------------------------
(***************************************************************************)
(* Proofs about the command line client, for every packet size, every      *)
(* number of bits of a packet's number and every length of the audio.      *)
(*                                                                         *)
(* CallInv relates where the main thread is to the request under way and   *)
(* the server's session.  SenderInv says which thread runs send_audiodata  *)
(* when, and what is left of a channel when it stops.  StreamInv relates   *)
(* the counters of a channel to each other and to what has been sent: a    *)
(* channel is at most one packet ahead of its counter of packets, namely   *)
(* after an exception, and dead when it happens again.                     *)
(***************************************************************************)
EXTENDS RtpClient, TLAPS

CallInv ==
  /\ main \in {"open", "start"} =>
       request = "none" /\ session = "none" /\ ~rtpok /\ ~startok
  /\ main = "starting" =>
       /\ ~rtpok /\ request \in {"start", "accepted", "refused"}
       /\ request \in {"start", "refused"} => session = "none"
       /\ request = "accepted" => session = "open" \/ "expired" \in faults
  /\ request \in {"accepted", "refused"} => main = "starting"
  /\ request = "start" => main = "starting" \/ "slow" \in faults
  /\ request = "terminate" => main = "terminating" \/ "slow" \in faults
  /\ request = "answered" => main = "terminating" /\ session = "ended"
  /\ main \in {"prepare", "threads", "join", "flush"} =>
       /\ rtpok => /\ request = "none"
                   /\ session = "open" \/ "expired" \in faults
       /\ ~rtpok /\ "slow" \notin faults =>
            request = "none" /\ session = "none"
  /\ main \in {"terminating", "done"} /\ "slow" \notin faults =>
       request # "start"
  /\ startok /\ ~rtpok => session = "none" /\ request = "none"
  /\ request \in {"start", "accepted", "refused"} => ~startok
  /\ main = "terminating" => request \in {"terminate", "answered"}
  /\ NoOrphan

\* Before the threads run.
Preparing == main \in {"open", "start", "starting", "prepare", "threads"}

SenderInv ==
  /\ Preparing => \A c \in Channel : sender[c] = "idle"
  /\ \A c \in Channel :
       /\ Runs(c) => \/ sender[c] = "sending" /\ main = "join"
                     \/ sender[c] = "flushing" /\ main = "flush"
       /\ main = "join" => sender[c] # "flushing"
       /\ main = "flush" => sender[c] # "sending"
       /\ main \in {"join", "flush"} /\ sender[c] = "idle" => ~PacketLeft(c)
       /\ main = "terminating" => ~PacketLeft(c)
       /\ main = "done" /\ "mono" \notin faults => ~PacketLeft(c)

\* An exception has lost a packet.
Behind(c) ==
  Streaming /\ seq[c] = SeqLimit /\ pos[c] = seq[c] * PacketSize + PacketSize

Counters(c) ==
  /\ raw[c] = seq[c] * PacketSize
  /\ Streaming => seq[c] <= SeqLimit
  /\ \/ main = "dead"
     \/ pos[c] = seq[c] * PacketSize
     \/ Behind(c) /\ sender[c] # "sending"
  /\ main = "join" /\ sender[c] = "dead" => Behind(c)
  /\ main = "flush" /\ sender[c] = "flushing" => ~PacketLeft(c) \/ Behind(c)
  /\ main = "flush" => sender[c] # "dead"

Stream ==
  /\ \A p \in sent :
       /\ p.from = p.seq * PacketSize
       /\ p.seq < SeqLimit /\ p.seq < seq[p.chn]
  /\ Streaming /\ Connected =>
       \A c \in Channel : \A n \in 0 .. seq[c] - 1 :
         \E p \in sent : p.chn = c /\ p.seq = n

Overlong == \E c \in Channel : Packets(c) > SeqLimit + 1

StreamInv ==
  /\ Preparing => sent = {} /\ \A c \in Channel : seq[c] = 0 /\ pos[c] = 0
  /\ \A c \in Channel : Counters(c)
  /\ Stream
  /\ main = "dead" => {"pcap", "noOutput", "noAudio"} \cap faults # {} \/ Overlong

Inv == TypeOK /\ CallInv /\ SenderInv /\ StreamInv

-----------------------------------------------------------------------------
(***************************************************************************)
(* Arithmetic.                                                             *)
(***************************************************************************)

\* A counter that goes up by one goes up by a packet.
LEMMA NextMultiple ==
  ASSUME NEW n \in Nat
  PROVE  /\ n * PacketSize \in Nat
         /\ (n + 1) * PacketSize = n * PacketSize + PacketSize
         /\ PacketSize \in Nat \ {0}
         /\ 0 * PacketSize = 0
<1>1. PacketSize \in Nat \ {0}
  BY RtpClientAssumption
<1> QED
  BY <1>1, SMT

LEMMA DivisionFacts ==
  ASSUME NEW n \in Nat
  PROVE  /\ n \div PacketSize \in Nat
         /\ (n \div PacketSize) * PacketSize <= n
         /\ n < (n \div PacketSize) * PacketSize + PacketSize
<1>1. PacketSize \in Nat \ {0}
  BY RtpClientAssumption
<1>2. /\ n \div PacketSize \in Int
      /\ n % PacketSize \in 0 .. PacketSize - 1
      /\ n = PacketSize * (n \div PacketSize) + (n % PacketSize)
  BY <1>1, SMT
<1>3. n \div PacketSize >= 0
  BY <1>1, <1>2, SMT
<1> QED
  BY <1>1, <1>2, <1>3, SMT

\* The packets of n bytes are the multiples of PacketSize that fit.
LEMMA PacketsFit ==
  ASSUME NEW n \in Nat, NEW k \in Nat, k * PacketSize <= n
  PROVE  /\ k <= n \div PacketSize
         /\ n < k * PacketSize + PacketSize => k = n \div PacketSize
<1> DEFINE q == n \div PacketSize
<1>1. PacketSize \in Nat \ {0}
  BY RtpClientAssumption
<1>2. q \in Nat /\ q * PacketSize <= n /\ n < q * PacketSize + PacketSize
  BY DivisionFacts
<1> HIDE DEF q
<1>3. q < k => q * PacketSize + PacketSize <= k * PacketSize
  BY <1>1, <1>2, SMT
<1>4. k < q => k * PacketSize + PacketSize <= q * PacketSize
  BY <1>1, <1>2, SMT
<1>5. k * PacketSize \in Nat /\ q * PacketSize \in Nat
  BY <1>2, NextMultiple
<1>6. k <= q /\ (n < k * PacketSize + PacketSize => k = q)
  BY <1>1, <1>2, <1>3, <1>4, <1>5
<1> QED
  BY <1>6 DEF q

-----------------------------------------------------------------------------
(***************************************************************************)
(* The types, and the call.                                                *)
(***************************************************************************)

LEMMA TypeStep ==
  ASSUME TypeOK, [Next]_allVars
  PROVE  TypeOK'
<1> USE RtpClientAssumption DEF TypeOK, Packet, callVars, bufferVars
<1>1. CASE OpenCapture /\ UNCHANGED faults
  BY <1>1 DEF OpenCapture
<1>2. CASE OpenSoundFile /\ UNCHANGED faults
  BY <1>2 DEF OpenSoundFile
<1>3. CASE Start /\ UNCHANGED faults
  BY <1>3 DEF Start
<1>4. CASE ServerStarts /\ UNCHANGED faults
  BY <1>4 DEF ServerStarts
<1>5. CASE StartAnswered /\ UNCHANGED faults
  BY <1>5 DEF StartAnswered
<1>6. CASE PrepareBuffers /\ UNCHANGED faults
  BY <1>6 DEF PrepareBuffers
<1>7. CASE StartThreads /\ UNCHANGED faults
  BY <1>7 DEF StartThreads
<1>8. CASE BeforeEnd /\ UNCHANGED faults
  BY <1>8 DEF BeforeEnd
<1>9. CASE End /\ UNCHANGED faults
  BY <1>9 DEF End
<1>10. CASE ServerEnds /\ UNCHANGED faults
  BY <1>10 DEF ServerEnds
<1>11. CASE EndAnswered /\ UNCHANGED faults
  BY <1>11 DEF EndAnswered
<1>12. CASE Expire /\ UNCHANGED faults
  BY <1>12 DEF Expire
<1>13. ASSUME NEW c \in Channel, SendPacket(c), UNCHANGED faults
      PROVE  TypeOK'
  BY <1>13 DEF SendPacket, PacketLeft, PacketNumber, Channel
<1>14. ASSUME NEW c \in Channel, SendRaises(c), UNCHANGED faults
      PROVE  TypeOK'
  BY <1>14 DEF SendRaises, PacketLeft, Channel
<1>15. ASSUME NEW c \in Channel, SendReturns(c), UNCHANGED faults
      PROVE  TypeOK'
  BY <1>15 DEF SendReturns
<1>16. CASE UNCHANGED allVars
  BY <1>16 DEF allVars, vars
<1> QED
  BY <1>1, <1>2, <1>3, <1>4, <1>5, <1>6, <1>7, <1>8, <1>9, <1>10, <1>11, <1>12,
     <1>13, <1>14, <1>15, <1>16 DEF Next

LEMMA CallStep ==
  ASSUME TypeOK, CallInv, SenderInv, [Next]_allVars
  PROVE  CallInv'
<1> USE DEF TypeOK, CallInv, NoOrphan, TimesOut, MustTerminate, callVars, bufferVars
<1>1. CASE OpenCapture /\ UNCHANGED faults
  BY <1>1 DEF OpenCapture
<1>2. CASE OpenSoundFile /\ UNCHANGED faults
  BY <1>2 DEF OpenSoundFile
<1>3. CASE Start /\ UNCHANGED faults
  BY <1>3 DEF Start
<1>4. CASE ServerStarts /\ UNCHANGED faults
  BY <1>4 DEF ServerStarts
<1>5. CASE StartAnswered /\ UNCHANGED faults
  BY <1>5 DEF StartAnswered
<1>6. CASE PrepareBuffers /\ UNCHANGED faults
  BY <1>6 DEF PrepareBuffers
<1>7. CASE StartThreads /\ UNCHANGED faults
  BY <1>7 DEF StartThreads
<1>8. CASE BeforeEnd /\ UNCHANGED faults
  BY <1>8 DEF BeforeEnd
<1>9. CASE End /\ UNCHANGED faults
  BY <1>9 DEF End
<1>10. CASE ServerEnds /\ UNCHANGED faults
  BY <1>10 DEF ServerEnds
<1>11. CASE EndAnswered /\ UNCHANGED faults
  BY <1>11 DEF EndAnswered
<1>12. CASE Expire /\ UNCHANGED faults
  BY <1>12 DEF Expire
<1>13. ASSUME NEW c \in Channel, SendPacket(c), UNCHANGED faults
      PROVE  CallInv'
  BY <1>13 DEF SendPacket
<1>14. ASSUME NEW c \in Channel, SendRaises(c), UNCHANGED faults
      PROVE  CallInv'
  BY <1>14 DEF SendRaises, SenderInv
<1>15. ASSUME NEW c \in Channel, SendReturns(c), UNCHANGED faults
      PROVE  CallInv'
  BY <1>15 DEF SendReturns
<1>16. CASE UNCHANGED allVars
  BY <1>16 DEF allVars, vars
<1> QED
  BY <1>1, <1>2, <1>3, <1>4, <1>5, <1>6, <1>7, <1>8, <1>9, <1>10, <1>11, <1>12,
     <1>13, <1>14, <1>15, <1>16 DEF Next

-----------------------------------------------------------------------------
(***************************************************************************)
(* The threads, and what they send.                                        *)
(***************************************************************************)

LEMMA SenderStep ==
  ASSUME TypeOK, CallInv, SenderInv, StreamInv, [Next]_allVars
  PROVE  SenderInv'
<1> USE RtpClientAssumption
    DEF TypeOK, SenderInv, Preparing, Runs, PacketLeft, Channel, callVars, bufferVars
<1>1. CASE OpenCapture /\ UNCHANGED faults
  BY <1>1 DEF OpenCapture
<1>2. CASE OpenSoundFile /\ UNCHANGED faults
  BY <1>2 DEF OpenSoundFile
<1>3. CASE Start /\ UNCHANGED faults
  BY <1>3 DEF Start
<1>4. CASE ServerStarts /\ UNCHANGED faults
  BY <1>4 DEF ServerStarts
<1>5. CASE StartAnswered /\ UNCHANGED faults
  BY <1>5 DEF StartAnswered
<1>6. CASE PrepareBuffers /\ UNCHANGED faults
  BY <1>6 DEF PrepareBuffers
<1>7. CASE StartThreads /\ UNCHANGED faults
  BY <1>7 DEF StartThreads
<1>8. CASE BeforeEnd /\ UNCHANGED faults
  BY <1>8 DEF BeforeEnd, Joined
<1>9. CASE End /\ UNCHANGED faults
  BY <1>9 DEF End
<1>10. CASE ServerEnds /\ UNCHANGED faults
  BY <1>10 DEF ServerEnds
<1>11. CASE EndAnswered /\ UNCHANGED faults
  BY <1>11 DEF EndAnswered
<1>12. CASE Expire /\ UNCHANGED faults
  BY <1>12 DEF Expire
<1>13. ASSUME NEW c \in Channel, SendPacket(c), UNCHANGED faults
      PROVE  SenderInv'
  BY <1>13 DEF SendPacket
<1>14. ASSUME NEW c \in Channel, SendRaises(c), UNCHANGED faults
      PROVE  SenderInv'
  BY <1>14 DEF SendRaises
<1>15. ASSUME NEW c \in Channel, SendReturns(c), UNCHANGED faults
      PROVE  SenderInv'
  BY <1>15 DEF SendReturns
<1>16. CASE UNCHANGED allVars
  BY <1>16 DEF allVars, vars
<1> QED
  BY <1>1, <1>2, <1>3, <1>4, <1>5, <1>6, <1>7, <1>8, <1>9, <1>10, <1>11, <1>12,
     <1>13, <1>14, <1>15, <1>16 DEF Next

\* The main thread and the server.
LEMMA StreamMainStep ==
  ASSUME TypeOK, CallInv, SenderInv, StreamInv, UNCHANGED <<faults, input, bufferVars>>,
         \/ OpenCapture \/ OpenSoundFile \/ Start \/ ServerStarts
         \/ StartAnswered \/ PrepareBuffers \/ StartThreads \/ BeforeEnd
         \/ End \/ ServerEnds \/ EndAnswered \/ Expire
  PROVE  StreamInv'
<1> USE RtpClientAssumption DEF TypeOK, StreamInv, Preparing, callVars, bufferVars
<1>1. Overlong' = Overlong /\ Connected' = Connected
  BY DEF Overlong, Packets, Connected
<1>2. \A c \in Channel : PacketLeft(c)' = PacketLeft(c)
  BY DEF PacketLeft
<1>3. Preparing \/ Streaming' = Streaming
  BY DEF Streaming, OpenCapture, OpenSoundFile, Start, ServerStarts, StartAnswered,
     PrepareBuffers,
         StartThreads, BeforeEnd, End, ServerEnds, EndAnswered, Expire
<1>4. CASE OpenCapture
  <2>1. \A c \in Channel : Counters(c)'
    BY <1>2, <1>4 DEF OpenCapture, Counters, Behind, Streaming
  <2>2. Stream'
    BY <1>1, <1>4 DEF OpenCapture, Stream, Streaming, Channel
  <2> QED
    BY <1>1, <1>4, <2>1, <2>2 DEF OpenCapture
<1>5. CASE OpenSoundFile
  <2>1. \A c \in Channel : Counters(c)'
    BY <1>2, <1>5 DEF OpenSoundFile, Counters, Behind, Streaming
  <2>2. Stream'
    BY <1>1, <1>5 DEF OpenSoundFile, Stream, Streaming, Channel
  <2> QED
    BY <1>1, <1>5, <2>1, <2>2 DEF OpenSoundFile
<1>6. CASE Start
  <2>1. \A c \in Channel : Counters(c)'
    BY <1>2, <1>6 DEF Start, Counters, Behind, Streaming
  <2>2. Stream'
    BY <1>1, <1>6 DEF Start, Stream, Streaming, Channel
  <2> QED
    BY <1>1, <1>6, <2>1, <2>2 DEF Start
<1>7. CASE ServerStarts
  <2>1. \A c \in Channel : Counters(c)'
    BY <1>2, <1>7 DEF ServerStarts, Counters, Behind, Streaming
  <2>2. Stream'
    BY <1>1, <1>7 DEF ServerStarts, Stream, Streaming, Channel
  <2> QED
    BY <1>1, <1>7, <2>1, <2>2 DEF ServerStarts
<1>8. CASE StartAnswered
  <2>1. \A c \in Channel : Counters(c)'
    BY <1>2, <1>8 DEF StartAnswered, Counters, Behind, Streaming
  <2>2. Stream'
    BY <1>1, <1>8 DEF StartAnswered, Stream, Streaming, Channel
  <2> QED
    BY <1>1, <1>8, <2>1, <2>2 DEF StartAnswered
<1>9. CASE PrepareBuffers
  <2>1. \A c \in Channel : Counters(c)'
    BY <1>2, <1>9 DEF PrepareBuffers, Counters, Behind, Streaming
  <2>2. Stream'
    BY <1>1, <1>9 DEF PrepareBuffers, Stream, Streaming, Channel
  <2> QED
    BY <1>1, <1>9, <2>1, <2>2 DEF PrepareBuffers
<1>10. CASE StartThreads
  <2>1. \A c \in Channel : Counters(c)'
    BY <1>2, <1>10 DEF StartThreads, Counters, Behind, Streaming
  <2>2. Stream'
    BY <1>1, <1>10 DEF StartThreads, Stream, Streaming, Channel
  <2> QED
    BY <1>1, <1>10, <2>1, <2>2 DEF StartThreads
<1>11. CASE BeforeEnd
  <2>1. \A c \in Channel : Counters(c)'
    BY <1>2, <1>11 DEF BeforeEnd, Joined, SenderInv, Counters, Behind, Streaming
  <2>2. Stream'
    BY <1>1, <1>11 DEF BeforeEnd, Stream, Streaming, Channel
  <2> QED
    BY <1>1, <1>11, <2>1, <2>2 DEF BeforeEnd
<1>12. CASE End
  <2>1. \A c \in Channel : Counters(c)'
    BY <1>2, <1>12 DEF End, Counters, Behind, Streaming
  <2>2. Stream'
    BY <1>1, <1>12 DEF End, Stream, Streaming, Channel
  <2> QED
    BY <1>1, <1>12, <2>1, <2>2 DEF End
<1>13. CASE ServerEnds
  <2>1. \A c \in Channel : Counters(c)'
    BY <1>2, <1>13 DEF ServerEnds, Counters, Behind, Streaming
  <2>2. Stream'
    BY <1>1, <1>13 DEF ServerEnds, Stream, Streaming, Channel
  <2> QED
    BY <1>1, <1>13, <2>1, <2>2 DEF ServerEnds
<1>14. CASE EndAnswered
  <2>1. \A c \in Channel : Counters(c)'
    BY <1>2, <1>14 DEF EndAnswered, Counters, Behind, Streaming
  <2>2. Stream'
    BY <1>1, <1>14 DEF EndAnswered, Stream, Streaming, Channel
  <2> QED
    BY <1>1, <1>14, <2>1, <2>2 DEF EndAnswered
<1>15. CASE Expire
  <2>1. \A c \in Channel : Counters(c)'
    BY <1>2, <1>15 DEF Expire, Counters, Behind, Streaming
  <2>2. Stream'
    BY <1>1, <1>15 DEF Expire, Stream, Streaming, Channel
  <2> QED
    BY <1>1, <1>15, <2>1, <2>2 DEF Expire
<1> QED
  BY <1>4, <1>5, <1>6, <1>7, <1>8, <1>9, <1>10, <1>11, <1>12, <1>13, <1>14, <1>15

\* before_end() sends nothing: what its loop finds is a packet whose number has
\* been an exception before.
LEMMA SendPacketStep ==
  ASSUME TypeOK, SenderInv, StreamInv, UNCHANGED faults,
         NEW c \in Channel, SendPacket(c)
  PROVE  StreamInv'
<1> USE RtpClientAssumption DEF TypeOK, StreamInv, callVars, bufferVars
<1>1. main \in {"join", "flush"} /\ sender[c] \in {"sending", "flushing"}
  BY DEF SendPacket, SenderInv
<1>2. ~Behind(c)
  BY DEF SendPacket, Behind, Fits, PacketNumber
<1>3. sender[c] = "sending" /\ main = "join"
  BY <1>1, <1>2 DEF SendPacket, SenderInv, Counters
<1>4. /\ seq[c] \in Nat /\ pos[c] \in Nat /\ pos[c] = seq[c] * PacketSize
      /\ Streaming => seq[c] < SeqLimit
  BY <1>2, <1>3 DEF SendPacket, Counters, Fits, PacketNumber
<1>5. (seq[c] + 1) * PacketSize = seq[c] * PacketSize + PacketSize
  BY <1>4, NextMultiple
<1>6. /\ seq'[c] = seq[c] + 1 /\ raw'[c] = raw[c] + PacketSize
      /\ pos'[c] = pos[c] + PacketSize
      /\ \A d \in Channel \ {c} :
           seq'[d] = seq[d] /\ raw'[d] = raw[d] /\ pos'[d] = pos[d]
      /\ main' = main /\ sender' = sender /\ input' = input
      /\ Streaming' = Streaming /\ Connected' = Connected
  BY DEF SendPacket, Streaming, Connected
<1>7. Counters(c)'
  BY <1>3, <1>4, <1>5, <1>6 DEF Counters
<1>8. ASSUME NEW d \in Channel \ {c}
      PROVE  Counters(d)'
  <2>1. Behind(d)' = Behind(d) /\ PacketLeft(d)' = PacketLeft(d)
    BY <1>6, <1>8 DEF Behind, PacketLeft
  <2> QED
    BY <1>6, <1>8, <2>1 DEF Counters
<1>9. Stream'
  <2> DEFINE new == [chn |-> c, seq |-> seq[c], from |-> pos[c]]
  <2>1. sent' = IF Streaming /\ Connected THEN sent \cup {new} ELSE sent
    BY DEF SendPacket, PacketNumber
  <2>2. ASSUME NEW p \in sent'
        PROVE  p.from = p.seq * PacketSize /\ p.seq < SeqLimit /\ p.seq < seq'[p.chn]
    <3>1. CASE p \in sent
      <4>1. p.chn \in Channel /\ p.seq \in Nat
        BY <3>1 DEF Packet
      <4>2. p.from = p.seq * PacketSize /\ p.seq < SeqLimit /\ p.seq < seq[p.chn]
        BY <3>1 DEF Stream
      <4>3. seq'[p.chn] >= seq[p.chn]
        BY <1>4, <1>6, <4>1
      <4>4. p.seq < seq'[p.chn]
        BY <1>4, <1>6, <4>1, <4>2, <4>3
      <4> QED
        BY <4>2, <4>4
    <3>2. CASE p = new /\ Streaming
      BY <1>4, <1>6, <3>2
    <3> QED
      BY <2>1, <2>2, <3>1, <3>2
  <2>3. ASSUME Streaming, Connected, NEW d \in Channel, NEW n \in 0 .. seq'[d] - 1
        PROVE  \E p \in sent' : p.chn = d /\ p.seq = n
    <3>1. CASE d = c /\ n = seq[c]
      <4>1. new \in sent'
        BY <2>1, <2>3
      <4>2. new.chn = d /\ new.seq = n
        BY <3>1
      <4> QED
        BY <4>1, <4>2
    <3>2. CASE ~(d = c /\ n = seq[c])
      <4>1. n \in 0 .. seq[d] - 1
        BY <1>4, <1>6, <3>2
      <4>2. PICK p \in sent : p.chn = d /\ p.seq = n
        BY <2>3, <4>1 DEF Stream
      <4> QED
        BY <2>1, <4>2
    <3> QED
      BY <3>1, <3>2
  <2> QED
    BY <1>6, <2>2, <2>3 DEF Stream
<1> QED
  BY <1>3, <1>6, <1>7, <1>8, <1>9 DEF Preparing

\* The first exception ends a thread, the second one the client.
LEMMA SendRaisesStep ==
  ASSUME TypeOK, SenderInv, StreamInv, UNCHANGED faults,
         NEW c \in Channel, SendRaises(c)
  PROVE  StreamInv'
<1> USE RtpClientAssumption DEF TypeOK, StreamInv, callVars, bufferVars
<1>1. \/ sender[c] = "sending" /\ main = "join"
      \/ sender[c] = "flushing" /\ main = "flush"
  BY DEF SendRaises, SenderInv
<1>2. /\ seq[c] \in Nat /\ pos[c] \in Nat /\ input[c] \in Nat
      /\ Streaming /\ seq[c] = SeqLimit
  BY DEF SendRaises, Fits, PacketNumber, Counters
<1>3. /\ pos'[c] = pos[c] + PacketSize /\ pos'[c] <= input[c]
      /\ seq' = seq /\ raw' = raw /\ sent' = sent /\ input' = input
      /\ sender'[c] = "dead"
      /\ \A d \in Channel \ {c} : pos'[d] = pos[d] /\ sender'[d] = sender[d]
      /\ main' = IF sender[c] = "flushing" THEN "dead" ELSE main
      /\ Streaming' = Streaming /\ Connected' = Connected
  BY <1>2 DEF SendRaises, PacketLeft, Streaming, Connected
<1>4. Counters(c)'
  <2>1. CASE sender[c] = "sending"
    <3>1. pos[c] = seq[c] * PacketSize
      BY <1>1, <2>1 DEF Counters
    <3>2. seq[c] * PacketSize \in Nat /\ PacketSize \in Nat
      BY <1>2, NextMultiple
    <3>3. Behind(c)'
      BY <1>2, <1>3, <3>1, <3>2 DEF Behind
    <3> QED
      BY <1>1, <1>2, <1>3, <2>1, <3>3 DEF Counters
  <2>2. CASE sender[c] = "flushing"
    BY <1>1, <1>2, <1>3, <2>2 DEF Counters
  <2> QED
    BY <1>1, <2>1, <2>2
<1>5. ASSUME NEW d \in Channel \ {c}
      PROVE  Counters(d)'
  <2>1. Behind(d)' = Behind(d) /\ PacketLeft(d)' = PacketLeft(d)
    BY <1>3, <1>5 DEF Behind, PacketLeft
  <2> QED
    BY <1>1, <1>3, <1>5, <2>1 DEF Counters
<1>6. Stream'
  BY <1>3 DEF Stream
<1>7. CASE sender[c] = "flushing"
  <2>1. pos[c] = seq[c] * PacketSize + PacketSize
    BY <1>1, <1>7 DEF SendRaises, Counters, Behind
  <2>2. (seq[c] + 1) * PacketSize = seq[c] * PacketSize + PacketSize
    BY <1>2, NextMultiple
  <2>3. ((seq[c] + 1) + 1) * PacketSize = (seq[c] + 1) * PacketSize + PacketSize
    BY <1>2, NextMultiple
  <2>4. ((seq[c] + 1) + 1) * PacketSize = pos'[c]
    BY <1>3, <2>1, <2>2, <2>3
  <2>5. (seq[c] + 1) + 1 <= Packets(c)
    <3>1. (seq[c] + 1) + 1 \in Nat /\ ((seq[c] + 1) + 1) * PacketSize <= input[c]
      BY <1>2, <1>3, <2>4
    <3> QED
      BY <1>2, <3>1, PacketsFit DEF Packets
  <2>6. Packets(c) \in Nat
    BY <1>2, DivisionFacts DEF Packets
  <2>7. Packets(c)' > SeqLimit + 1
    BY <1>2, <1>3, <2>5, <2>6 DEF Packets
  <2> QED
    BY <1>1, <1>3, <1>4, <1>5, <1>6, <1>7, <2>7 DEF Preparing, Overlong
<1>8. CASE sender[c] = "sending"
  BY <1>1, <1>3, <1>4, <1>5, <1>6, <1>8 DEF Preparing
<1> QED
  BY <1>1, <1>7, <1>8

LEMMA SendReturnsStep ==
  ASSUME TypeOK, SenderInv, StreamInv, UNCHANGED faults,
         NEW c \in Channel, SendReturns(c)
  PROVE  StreamInv'
<1> USE DEF TypeOK, StreamInv, callVars, bufferVars
<1>1. main \in {"join", "flush"}
  BY DEF SendReturns, SenderInv
<1>2. Stream' /\ Overlong' = Overlong
  BY DEF SendReturns, Stream, Streaming, Connected, Overlong, Packets
<1>3. ASSUME NEW d \in Channel
      PROVE  Counters(d)'
  <2>1. Behind(d)' = Behind(d) /\ PacketLeft(d)' = PacketLeft(d)
    BY DEF SendReturns, Behind, PacketLeft, Streaming
  <2> QED
    BY <2>1 DEF SendReturns, Counters, Streaming
<1> QED
  BY <1>1, <1>2, <1>3 DEF SendReturns, Preparing

-----------------------------------------------------------------------------
(***************************************************************************)
(* The theorems.                                                           *)
(***************************************************************************)

LEMMA InvInit == Init => Inv
<1> SUFFICES ASSUME Init PROVE Inv
  OBVIOUS
<1> USE RtpClientAssumption DEF Init
<1>1. TypeOK
  <2>1. input \in [Channel -> Nat]
    BY SMT
  <2>2. \A c \in Channel : pos[c] <= input[c]
    BY <2>1, SMT
  <2> QED
    BY <2>1, <2>2 DEF TypeOK
<1>2. CallInv
  BY DEF CallInv, NoOrphan
<1>3. SenderInv
  BY DEF SenderInv, Preparing, Runs
<1>4. StreamInv
  <2>1. 0 * PacketSize = 0
    BY NextMultiple
  <2> QED
    BY <2>1 DEF StreamInv, Counters, Stream, Preparing, Streaming, Channel
<1> QED
  BY <1>1, <1>2, <1>3, <1>4 DEF Inv

LEMMA InvStep ==
  ASSUME Inv, [Next]_allVars
  PROVE  Inv'
<1>1. TypeOK' /\ CallInv' /\ SenderInv'
  BY TypeStep, CallStep, SenderStep DEF Inv
<1>2. StreamInv'
  <2>1. CASE UNCHANGED allVars
    BY <2>1 DEF allVars, vars, bufferVars, callVars, Inv, StreamInv, Preparing,
       Counters, Behind,
                Stream, Streaming, Connected, PacketLeft, Overlong, Packets
  <2>2. CASE Next
    <3>1. UNCHANGED faults
      BY <2>2 DEF Next
    <3>2. CASE \E c \in Channel : SendPacket(c) \/ SendRaises(c) \/ SendReturns(c)
      BY <3>1, <3>2, SendPacketStep, SendRaisesStep, SendReturnsStep DEF Inv
    <3>3. CASE \/ OpenCapture \/ OpenSoundFile \/ Start \/ ServerStarts
               \/ StartAnswered \/ PrepareBuffers \/ StartThreads \/ BeforeEnd
               \/ End \/ ServerEnds \/ EndAnswered \/ Expire
      <4>1. UNCHANGED <<input, bufferVars>>
        BY <3>3 DEF OpenCapture, OpenSoundFile, Start, ServerStarts, StartAnswered,
           PrepareBuffers,
                    StartThreads, BeforeEnd, End, ServerEnds, EndAnswered, Expire
      <4> QED
        BY <3>1, <3>3, <4>1, StreamMainStep DEF Inv
    <3> QED
      BY <2>2, <3>2, <3>3 DEF Next
  <2> QED
    BY <2>1, <2>2
<1> QED
  BY <1>1, <1>2 DEF Inv

LEMMA Invariance == Spec => []Inv
  BY InvInit, InvStep, PTL DEF Spec

\* Type correctness, and no channel is read beyond its audio.
THEOREM TypeCorrect == Spec => []TypeOK
<1>1. Inv => TypeOK
  BY DEF Inv
<1> QED
  BY <1>1, Invariance, PTL

\* What the server gets of a channel is its audio from the beginning, without
\* a gap, in packets that are numbered from 0, for every size of a packet and
\* of its number (send_audiodata(), lines 281-307).
THEOREM StreamsContiguous == Spec => []StreamContiguous
<1>1. Inv => StreamContiguous
  <2> SUFFICES ASSUME Inv, NEW c \in Channel
               PROVE  LET stream == {p \in sent : p.chn = c}
                      IN  /\ \A p \in stream : p.from = p.seq * PacketSize /\ p.seq < SeqLimit
                          /\ Streaming /\ Connected =>
                               {p.seq : p \in stream} = 0 .. seq[c] - 1
    BY DEF StreamContiguous
  <2> DEFINE stream == {p \in sent : p.chn = c}
  <2>1. Stream /\ sent \subseteq Packet /\ seq[c] \in Nat
    BY DEF Inv, StreamInv, TypeOK
  <2>2. \A p \in stream : p.from = p.seq * PacketSize /\ p.seq < SeqLimit
    BY <2>1 DEF Stream
  <2>3. ASSUME Streaming, Connected
        PROVE  {p.seq : p \in stream} = 0 .. seq[c] - 1
    <3>1. \A p \in stream : p.seq \in 0 .. seq[c] - 1
      BY <2>1 DEF Stream, Packet
    <3>2. \A n \in 0 .. seq[c] - 1 : \E p \in stream : p.seq = n
      BY <2>1, <2>3 DEF Stream
    <3> QED
      BY <3>1, <3>2
  <2> QED
    BY <2>2, <2>3
<1> QED
  BY <1>1, Invariance, PTL

\* What a client that is done has kept back of a channel is less than a packet,
\* if there are numbers enough; and what a client dies of.
THEOREM TailsLost == Spec => []OnlyTailLost
<1>1. Inv => OnlyTailLost
  <2> SUFFICES ASSUME Inv, Fitting, main = "done", "mono" \notin faults, NEW c \in Channel
               PROVE  raw[c] = Packets(c) * PacketSize
    BY DEF Inv, StreamInv, OnlyTailLost, Overlong
  <2>1. /\ seq[c] \in Nat /\ pos[c] \in Nat /\ input[c] \in Nat /\ pos[c] <= input[c]
        /\ raw[c] = seq[c] * PacketSize
    BY DEF Inv, TypeOK, StreamInv, Counters
  <2>2. input[c] < pos[c] + PacketSize
    BY <2>1, RtpClientAssumption DEF Inv, SenderInv, PacketLeft
  <2>3. pos[c] = seq[c] * PacketSize
    <3>1. ~Behind(c)
      <4> SUFFICES ASSUME Behind(c) PROVE FALSE
        OBVIOUS
      <4>1. (seq[c] + 1) * PacketSize = pos[c] /\ seq[c] = SeqLimit
        BY <2>1, NextMultiple DEF Behind
      <4>2. (seq[c] + 1) \in Nat /\ (seq[c] + 1) * PacketSize <= input[c]
        BY <2>1, <4>1
      <4>3. seq[c] + 1 <= Packets(c) /\ Packets(c) \in Nat
        BY <2>1, <4>2, PacketsFit, DivisionFacts DEF Packets
      <4> QED
        BY <2>1, <4>1, <4>3 DEF Fitting
    <3> QED
      BY <3>1 DEF Inv, StreamInv, Counters
  <2>4. seq[c] * PacketSize <= input[c] /\ input[c] < seq[c] * PacketSize + PacketSize
    BY <2>1, <2>2, <2>3
  <2>5. seq[c] = Packets(c)
    BY <2>1, <2>4, PacketsFit DEF Packets
  <2> QED
    BY <2>1, <2>5
<1> QED
  BY <1>1, Invariance, PTL

\* A client that is done leaves no session at the server, unless it gave up its
\* start before it was answered, or its terminate is still to be handled.
THEOREM NoOrphans == Spec => []NoOrphan
<1>1. Inv => NoOrphan
  BY DEF Inv, CallInv
<1> QED
  BY <1>1, Invariance, PTL

\* Packets are sent only while the server has the session, whatever the order
\* of the two threads, unless the server ends it by itself.
THEOREM AudioInsideCall == Spec => SentInsideCall
<1>1. ASSUME Inv, [Next]_allVars
      PROVE  [sent' # sent => \/ session = "open" /\ request = "none"
                              \/ "expired" \in faults]_allVars
  <2> SUFFICES ASSUME sent' # sent, "expired" \notin faults
               PROVE  session = "open" /\ request = "none"
    OBVIOUS
  <2>1. PICK c \in Channel : SendPacket(c)
    BY <1>1 DEF Next, allVars, vars, bufferVars, OpenCapture, OpenSoundFile, Start,
       ServerStarts,
                StartAnswered, PrepareBuffers, StartThreads, SendRaises, SendReturns, BeforeEnd,
                End, ServerEnds, EndAnswered, Expire
  <2>2. rtpok /\ main \in {"join", "flush"}
    BY <1>1, <2>1 DEF SendPacket, Streaming, Inv, SenderInv
  <2> QED
    BY <1>1, <2>2 DEF Inv, CallInv
<1> QED
  BY <1>1, Invariance, PTL DEF Spec, SentInsideCall

=============================================================================
