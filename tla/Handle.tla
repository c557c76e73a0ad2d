------------------------------- MODULE Handle -------------------------------
(***************************************************************************)
(* The contract of sessionHandler.Handle (internal/server/config.go): one  *)
(* session, in the phases of SessionPhases, under a context that may be    *)
(* cancelled at any time.                                                  *)
(***************************************************************************)
EXTENDS SessionPhases

VARIABLES
  s,   \* the session
  ctx  \* its context is cancelled

Init == s = Fresh /\ ctx = FALSE

Move == s' \in Runner(s, ctx) \cup World(s) /\ ctx' = ctx

Cancel == ~ctx /\ ctx' = TRUE /\ s' = s

Next == Move \/ Cancel

Spec == Init /\ [][Next]_<<s, ctx>>
=============================================================================
