-------------------------- MODULE LeastRecentlyUsed --------------------------
(***************************************************************************)
(* What the bot's registry of actions promises: under each name (a button  *)
(* token or a prompt's message id) the action it was last given for, for   *)
(* the Capacity names used most recently and for no other.                 *)
(***************************************************************************)
EXTENDS Naturals, Sequences, SequencesExt

CONSTANTS Name, Action, Capacity, Missing

VARIABLES
    recent,     \* the names that resolve, the most recently used one first
    given,      \* what each of them resolves to
    answer      \* what the last lookup returned, or Missing

promised == <<recent, given, answer>>

Truncate(s) == SubSeq(s, 1, IF Len(s) > Capacity THEN Capacity ELSE Len(s))

Start ==
    /\ recent = <<>>
    /\ given = [n \in {} |-> Missing]
    /\ answer = Missing

Give(n, a) ==
    /\ recent' = Truncate(<<n>> \o RemoveFirst(recent, n))
    /\ given' = [m \in {recent'[k] : k \in DOMAIN recent'} |-> IF m = n THEN a ELSE given[m]]
    /\ answer' = Missing

Find(n) ==
    \/ /\ n \in {recent[k] : k \in DOMAIN recent}
       /\ recent' = <<n>> \o RemoveFirst(recent, n)
       /\ answer' = given[n]
       /\ UNCHANGED given
    \/ /\ n \notin {recent[k] : k \in DOMAIN recent}
       /\ answer' = Missing
       /\ UNCHANGED <<recent, given>>

Step == \E n \in Name : Find(n) \/ \E a \in Action : Give(n, a)

Promise == Start /\ [][Step]_promised
=============================================================================
