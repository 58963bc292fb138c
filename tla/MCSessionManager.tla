-------------------------- MODULE MCSessionManager --------------------------
(***************************************************************************)
(* TLC instance of SessionManager.  Sessions, workers, calls and requests  *)
(* are interchangeable; safety runs use that, liveness runs do not.        *)
(***************************************************************************)
EXTENDS SessionManager, TLC

Symmetry == Permutations(Session) \cup Permutations(Worker)
              \cup Permutations(CallID) \cup Permutations(Request)
=============================================================================
