--------------------------- MODULE EngineContract ---------------------------
(***************************************************************************)
(* What an engine client promises to those who call its close(), and all   *)
(* that the models of its owners may use of it: a call returns at once     *)
(* unless the engine has got audio; then the first call waits until the    *)
(* client is closed, and one that finds another waiting never returns.  A  *)
(* client that was closed takes no audio and makes nobody wait any more.   *)
(* (close() and the line `if (!this.closing)` of sendBuffer, with all that *)
(* start(), ffmpeg, timers and the engine do in between, are the code's    *)
(* means to that end.)                                                     *)
(***************************************************************************)
CONSTANTS
  Call,    \* the owner's calls of close()
  Self,    \* the client's own call, when the engine reports an error
  NoCall

VARIABLES
  state,   \* none, open, closing or closed
  fed,     \* whether the engine has got audio
  waiter,  \* the call that waits for the client to be closed
  calls    \* what has become of the owner's calls

Init ==
  /\ state = "none"
  /\ fed = FALSE
  /\ waiter = NoCall
  /\ calls = [c \in Call |-> "idle"]

Open ==
  /\ state = "none"
  /\ state' = "open"
  /\ UNCHANGED <<fed, waiter, calls>>

Feed ==
  /\ state = "open"
  /\ fed' = TRUE
  /\ UNCHANGED <<state, waiter, calls>>

\* Of an owner without a client too.
CloseAtOnce(c) ==
  /\ state \in {"none", "closed"} \/ (state = "open" /\ ~fed)
  /\ state' = IF state = "none" THEN "none" ELSE "closed"
  /\ calls' = [calls EXCEPT ![c] = "returned"]
  /\ UNCHANGED <<fed, waiter>>

CloseAndWait(c) ==
  /\ state = "open" /\ fed
  /\ state' = "closing"
  /\ waiter' = c
  /\ calls' = [calls EXCEPT ![c] = "waiting"]
  /\ UNCHANGED fed

CloseHangs(c) ==
  /\ state = "closing"
  /\ calls' = [calls EXCEPT ![c] = "waiting"]
  /\ UNCHANGED <<state, fed, waiter>>

CloseItself ==
  /\ state = "open"
  /\ \/ fed /\ state' = "closing" /\ waiter' = Self
     \/ ~fed /\ state' = "closed" /\ UNCHANGED waiter
  /\ UNCHANGED <<fed, calls>>

Closed ==
  /\ state = "closing"
  /\ state' = "closed"
  /\ waiter' = NoCall
  /\ calls' = [c \in Call |-> IF c = waiter THEN "returned" ELSE calls[c]]
  /\ UNCHANGED fed

Next ==
  \/ Open \/ Feed \/ CloseItself \/ Closed
  \/ \E c \in Call : CloseAtOnce(c) \/ CloseAndWait(c) \/ CloseHangs(c)

Spec == Init /\ [][Next]_<<state, fed, waiter, calls>>

=============================================================================
