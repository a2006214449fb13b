------------------------------ MODULE MCBotEdit ------------------------------
(***************************************************************************)
(* Three updates of one user (a prompt, its reply and the choice after a   *)
(* conflict are three) against other clients.                              *)
(***************************************************************************)
EXTENDS BotEdit, TLC

MCSymmetry == Permutations(Update)

\* Bound of the search for a counterexample: every call is answered in time, and
\* no text becomes a task of its own.
Answered == late = {} /\ captured = {}
=============================================================================
