------------------------------ MODULE RtpClient ------------------------------
(***************************************************************************)
(* One sound file of the RTP command line client (esas_rtpcli/app.py).     *)
(*                                                                         *)
(* The main thread runs CallTask.start(), which asks the server for the    *)
(* call, starts a thread per channel that runs send_audiodata() over the   *)
(* whole audio of the channel, joins them and runs CallTask.end(), which   *)
(* asks the server to terminate the call.                                  *)
(*                                                                         *)
(* Audio is bytes that are told apart by their position in the channel     *)
(* only.  One action is one packet, or one step of the main thread between *)
(* two requests.                                                           *)
(***************************************************************************)
EXTENDS Integers

CONSTANTS
  PacketSize,   \* paclen: RTP_PAYLOAD_SIZE - HEADER_SIZE
  SeqLimit,     \* a packet's number has 16 bits: 2^16
  MaxAudio,     \* bounds the audio of a channel, in bytes
  Scenarios     \* sets of circumstances; a behaviour has those of one of them

(***************************************************************************)
(*   "pcap"      the file is a telephone capture                           *)
(*   "mono"      the file does not have two channels, or is not readable   *)
(*   "local"     X_RTP_STREAM is off: nothing is sent, only files written  *)
(*   "refused"   the server may refuse the call                            *)
(*   "slow"      a request may last longer than the 15 s the client waits  *)
(*   "noSocket"  no socket can be opened                                   *)
(*   "noOutput"  the raw files cannot be created                           *)
(*   "noAudio"   the header of the file can be read, but not its audio     *)
(*   "expired"   the server's timer may end the call at any time           *)
(***************************************************************************)
Circumstance ==
  {"pcap", "mono", "local", "refused", "slow", "noSocket", "noOutput",
   "noAudio", "expired"}

ASSUME RtpClientAssumption ==
  /\ PacketSize \in Nat \ {0}
  /\ SeqLimit \in Nat
  /\ MaxAudio \in Nat
  /\ Scenarios \subseteq SUBSET Circumstance

Channel == {0, 1}

VARIABLES
  faults,    \* the scenario
  input,     \* audiobuffer["size"]: length of the audio of each channel
  main,      \* where the main thread is
  request,   \* the request that is under way
  session,   \* the server's session of the call
  startok,   \* CallTask.startok
  rtpok,     \* CallTask.rtpok, and svrconnect, which is set with it
  sender,    \* the send_audiodata() of each channel
  pos, seq,  \* audiobuffer: audio cut into packets, and packets
  raw,       \* length of each channel's raw file
  sent       \* packets that the client has put on the network

callVars == <<request, session, startok, rtpok>>
bufferVars == <<pos, seq, raw, sent>>
vars == <<input, main, callVars, sender, bufferVars>>
allVars == <<faults, vars>>

Packet == [chn : Channel, seq : Nat, from : Nat]

TypeOK ==
  /\ faults \in Scenarios
  /\ input \in [Channel -> Nat]
  /\ main \in {"open", "start", "starting", "prepare", "threads", "join",
               "flush", "terminating", "done", "dead"}
  /\ request \in {"none", "start", "accepted", "refused", "terminate",
                  "answered"}
  /\ session \in {"none", "open", "ended"}
  /\ startok \in BOOLEAN /\ rtpok \in BOOLEAN
  /\ sender \in [Channel -> {"idle", "sending", "flushing", "dead"}]
  /\ pos \in [Channel -> Nat] /\ seq \in [Channel -> Nat]
  /\ \A c \in Channel : pos[c] <= input[c]
  /\ raw \in [Channel -> Nat]
  /\ sent \subseteq Packet

Init ==
  /\ faults \in Scenarios
  /\ input \in [Channel -> 0 .. MaxAudio]
  /\ main = "open" /\ request = "none" /\ session = "none"
  /\ startok = FALSE /\ rtpok = FALSE
  /\ sender = [c \in Channel |-> "idle"]
  /\ pos = [c \in Channel |-> 0] /\ seq = [c \in Channel |-> 0]
  /\ raw = [c \in Channel |-> 0]
  /\ sent = {}

-----------------------------------------------------------------------------
(***************************************************************************)
(* The file, CallTask.prepare() and start().  A request that the client    *)
(* has given up may still reach the server.                                *)
(***************************************************************************)

\* The parameters of a capture have no wavformat: prepare() is a KeyError.
OpenCapture ==
  /\ main = "open" /\ "pcap" \in faults
  /\ main' = "dead"
  /\ UNCHANGED <<input, callVars, sender, bufferVars>>

OpenSoundFile ==
  /\ main = "open" /\ "pcap" \notin faults
  /\ main' = IF "mono" \in faults THEN "done" ELSE "start"
  /\ UNCHANGED <<input, callVars, sender, bufferVars>>

Start ==
  /\ main = "start"
  /\ \/ /\ "local" \in faults
        /\ main' = "prepare" /\ startok' = TRUE
        /\ UNCHANGED request
     \/ /\ "local" \notin faults
        /\ main' = "starting" /\ request' = "start"
        /\ UNCHANGED startok
  /\ UNCHANGED <<input, session, rtpok, sender, bufferVars>>

\* make_request: an exception, a timeout among them, counts as a refusal.
TimesOut == "slow" \in faults

ServerStarts ==
  /\ request = "start"
  /\ \/ /\ session' = "open"
        /\ request' = IF main = "starting" THEN "accepted" ELSE "none"
     \/ /\ "refused" \in faults
        /\ request' = IF main = "starting" THEN "refused" ELSE "none"
        /\ UNCHANGED session
  /\ UNCHANGED <<input, main, startok, rtpok, sender, bufferVars>>

StartAnswered ==
  /\ main = "starting"
  /\ main' = "prepare"
  /\ \/ /\ request = "accepted"
        /\ startok' = TRUE /\ rtpok' = TRUE
        /\ request' = "none"
     \/ /\ request = "refused"
        /\ request' = "none"
        /\ UNCHANGED <<startok, rtpok>>
     \/ /\ TimesOut
        /\ request' = IF request = "start" THEN "start" ELSE "none"
        /\ UNCHANGED <<startok, rtpok>>
  /\ UNCHANGED <<input, session, sender, bufferVars>>

PrepareBuffers ==
  /\ main = "prepare"
  /\ main' = IF "noOutput" \in faults THEN "dead" ELSE "threads"
  /\ UNCHANGED <<input, callVars, sender, bufferVars>>

\* The audio is read and the threads are started, whether the call was started
\* or not.
StartThreads ==
  /\ main = "threads"
  /\ \/ /\ "noAudio" \in faults
        /\ main' = "dead"
        /\ UNCHANGED sender
     \/ /\ "noAudio" \notin faults
        /\ main' = "join"
        /\ sender' = [c \in Channel |-> "sending"]
  /\ UNCHANGED <<input, callVars, bufferVars>>

-----------------------------------------------------------------------------
(***************************************************************************)
(* send_audiodata().                                                       *)
(***************************************************************************)

\* A loop runs; before_end() goes over channel 0 before channel 1.
Runs(c) ==
  \/ sender[c] = "sending"
  \/ sender[c] = "flushing" /\ (c = 1 => sender[0] = "idle")

\* Line 289.  Mutant: a packet too few.
FullAndMore(c) == input[c] - pos[c] > PacketSize
PacketLeft(c) == input[c] - pos[c] >= PacketSize

\* The number is taken from audiobuffer["seq"].  Mutant: counted from 1.
NumberFromOne(c) == seq[c] + 1
PacketNumber(c) == seq[c]

\* Line 299, and RTPSender.send(), which catches what goes wrong.  Mutant: one
\* of the two suffices.
StreamingEither == rtpok \/ startok
Streaming == rtpok /\ startok
Connected == "noSocket" \notin faults

\* rtp: a number that does not fit is an exception.
Fits(n) == n < SeqLimit

SendPacket(c) ==
  /\ Runs(c) /\ PacketLeft(c)
  /\ Streaming => Fits(PacketNumber(c))
  /\ pos' = [pos EXCEPT ![c] = @ + PacketSize]
  /\ seq' = [seq EXCEPT ![c] = @ + 1]
  /\ raw' = [raw EXCEPT ![c] = @ + PacketSize]
  /\ sent' = IF Streaming /\ Connected
               THEN sent \cup {[chn |-> c, seq |-> PacketNumber(c), from |-> pos[c]]}
               ELSE sent
  /\ UNCHANGED <<input, main, callVars, sender>>

\* The exception ends the thread that it happens in; pos is already set.
SendRaises(c) ==
  /\ Runs(c) /\ PacketLeft(c)
  /\ Streaming /\ ~Fits(PacketNumber(c))
  /\ pos' = [pos EXCEPT ![c] = @ + PacketSize]
  /\ sender' = [sender EXCEPT ![c] = "dead"]
  /\ main' = IF sender[c] = "flushing" THEN "dead" ELSE main
  /\ UNCHANGED <<input, callVars, seq, raw, sent>>

SendReturns(c) ==
  /\ Runs(c) /\ ~PacketLeft(c)
  /\ sender' = [sender EXCEPT ![c] = "idle"]
  /\ UNCHANGED <<input, main, callVars, bufferVars>>

-----------------------------------------------------------------------------
(***************************************************************************)
(* CallTask.end().                                                         *)
(***************************************************************************)

\* Both threads are joined.
Joined == \A c \in Channel : sender[c] # "sending"

BeforeEnd ==
  /\ main = "join" /\ Joined
  /\ main' = "flush"
  /\ sender' = [c \in Channel |-> "flushing"]
  /\ UNCHANGED <<input, callVars, bufferVars>>

\* Line 321.  Mutant: only a call whose audio has all been sent.
TerminateComplete == rtpok /\ \A c \in Channel : pos[c] = input[c]
MustTerminate == rtpok

End ==
  /\ main = "flush"
  /\ \A c \in Channel : sender[c] = "idle"
  /\ \/ MustTerminate /\ main' = "terminating" /\ request' = "terminate"
     \/ ~MustTerminate /\ main' = "done" /\ UNCHANGED request
  /\ UNCHANGED <<input, session, startok, rtpok, sender, bufferVars>>

ServerEnds ==
  /\ request = "terminate"
  /\ session' = "ended"
  /\ request' = IF main = "terminating" THEN "answered" ELSE "none"
  /\ UNCHANGED <<input, main, startok, rtpok, sender, bufferVars>>

\* Whatever the answer is, and without one, the client is done.
EndAnswered ==
  /\ main = "terminating"
  /\ request = "answered" \/ TimesOut
  /\ main' = "done"
  /\ request' = IF request = "terminate" THEN "terminate" ELSE "none"
  /\ UNCHANGED <<input, session, startok, rtpok, sender, bufferVars>>

\* The timer of the server's session, which the client does not know of.
Expire ==
  /\ "expired" \in faults
  /\ session = "open"
  /\ session' = "ended"
  /\ UNCHANGED <<input, main, request, startok, rtpok, sender, bufferVars>>

Next ==
  /\ \/ OpenCapture \/ OpenSoundFile
     \/ Start \/ ServerStarts \/ StartAnswered
     \/ PrepareBuffers \/ StartThreads
     \/ \E c \in Channel :
          SendPacket(c) \/ SendRaises(c) \/ SendReturns(c)
     \/ BeforeEnd \/ End \/ ServerEnds \/ EndAnswered \/ Expire
  /\ UNCHANGED faults

Spec == Init /\ [][Next]_allVars

-----------------------------------------------------------------------------
(***************************************************************************)
(* Properties.                                                             *)
(***************************************************************************)

\* What the server gets of a channel is a prefix of its audio: packet number n
\* holds the n-th PacketSize bytes, and no number is left out or used twice,
\* whatever the other channel and the server do.
StreamContiguous ==
  \A c \in Channel :
    LET stream == {p \in sent : p.chn = c}
    IN  /\ \A p \in stream : p.from = p.seq * PacketSize /\ p.seq < SeqLimit
        /\ Streaming /\ Connected =>
             {p.seq : p \in stream} = 0 .. seq[c] - 1

\* Audio that is sent is sent inside the call: after the server has opened the
\* session and before it is asked to terminate it (join() of both threads).
SentInsideCall ==
  [][sent' # sent => \/ session = "open" /\ request = "none"
                     \/ "expired" \in faults]_allVars

\* A call that has more packets in a channel than there are numbers.
Packets(c) == input[c] \div PacketSize
Fitting == \A c \in Channel : Packets(c) <= SeqLimit

\* The client keeps back less than a packet at the end of a channel (the loop
\* of before_end() never sends it), if the numbers suffice.  It dies only on a
\* capture, on a file it cannot open, or when it has no number for a packet
\* that before_end() sends: the second one without, since the first one ends
\* the thread of its channel.
OnlyTailLost ==
  /\ main = "done" /\ Fitting /\ "mono" \notin faults =>
       \A c \in Channel : raw[c] = Packets(c) * PacketSize
  /\ main = "dead" =>
       \/ {"pcap", "noOutput", "noAudio"} \cap faults # {}
       \/ \E c \in Channel : Packets(c) > SeqLimit + 1

\* A client that is done leaves no session behind at the server, unless the
\* answer to its start came too late, or its terminate is still on the way.
NoOrphan ==
  (main = "done" /\ session = "open") =>
    "slow" \in faults /\ (~startok \/ request = "terminate")

=============================================================================
