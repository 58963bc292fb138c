---------------------------- MODULE CallRegistry ----------------------------
(***************************************************************************)
(* What the session manager promises about call identifiers.  A session    *)
(* goes through the phases                                                 *)
(*                                                                         *)
(*     new --Acquire--> holds --Release--> over                            *)
(*      \--Refuse-----------------------/                                  *)
(*                                                                         *)
(* and to "lost" when its worker dies.  A call is held by at most one      *)
(* session.  While that session holds it nobody can take the call away:    *)
(* the key is freed in the very step in which its own holder stops         *)
(* holding, or after the holder is lost.                                   *)
(*                                                                         *)
(* The throw of registerCallID ("callID1 X is processing") and the DEL of  *)
(* deregisterCallID, which does not look at the key it deletes, are the    *)
(* code's means to that end.                                               *)
(***************************************************************************)
CONSTANTS Session, CallID, NoSession

VARIABLES
  holder,   \* the session that holds a call, or NoSession
  phase     \* where a session is: "new", "holds", "over" or "lost"

Init ==
  /\ holder = [c \in CallID |-> NoSession]
  /\ phase = [s \in Session |-> "new"]

Acquire(s, c) ==
  /\ phase[s] = "new"
  /\ holder[c] = NoSession
  /\ holder' = [holder EXCEPT ![c] = s]
  /\ phase' = [phase EXCEPT ![s] = "holds"]

Refuse(s) ==
  /\ phase[s] = "new"
  /\ phase' = [phase EXCEPT ![s] = "over"]
  /\ UNCHANGED holder

Release(s, c) ==
  /\ phase[s] = "holds"
  /\ holder[c] = s
  /\ holder' = [holder EXCEPT ![c] = NoSession]
  /\ phase' = [phase EXCEPT ![s] = "over"]

\* Sessions die with their worker and leave their keys behind ...
LoseTo(gone) == [s \in Session |-> IF s \in gone THEN "lost" ELSE phase[s]]

Lose ==
  /\ \E gone \in SUBSET Session : phase' = LoseTo(gone)
  /\ UNCHANGED holder

\* ... which expire.
Expire(s, c) ==
  /\ phase[s] = "lost"
  /\ holder[c] = s
  /\ holder' = [holder EXCEPT ![c] = NoSession]
  /\ UNCHANGED phase

\* The whole registry starts again; whoever holds a call is lost.
Reset ==
  /\ holder' = [c \in CallID |-> NoSession]
  /\ \E gone \in SUBSET Session :
       /\ \A c \in CallID : holder[c] \in gone \cup {NoSession}
       /\ phase' = LoseTo(gone)

Next ==
  \/ \E s \in Session, c \in CallID :
       Acquire(s, c) \/ Release(s, c) \/ Expire(s, c)
  \/ \E s \in Session : Refuse(s)
  \/ Lose
  \/ Reset

Spec == Init /\ [][Next]_<<holder, phase>>

=============================================================================
