------------------------------ MODULE MCBotChat ------------------------------
(***************************************************************************)
(* A small instance of BotChat.                                            *)
(***************************************************************************)
EXTENDS BotChat, TLC

MCSymmetry == Permutations(Id) \union Permutations(Message) \union Permutations(Goroutine)
=============================================================================
