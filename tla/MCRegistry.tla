----------------------------- MODULE MCRegistry -----------------------------
(***************************************************************************)
(* A registry of two or three records, with tokens and prompts enough to   *)
(* push every record out, and addresses that are used again.               *)
(***************************************************************************)
EXTENDS Registry

MCSymmetry == Permutations(Element) \union Permutations(Token)
              \union Permutations(Prompt) \union Permutations(Action)
=============================================================================
