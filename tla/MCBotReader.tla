----------------------------- MODULE MCBotReader -----------------------------
(***************************************************************************)
(* Small instances of BotReader: five tasks in trees that meet each limit  *)
(* of a page, alike enough for every tiebreak to decide somewhere.         *)
(***************************************************************************)
EXTENDS BotReader

CONSTANT word

MCOrders == {<<1, 2, 3, 4, 5>>, <<5, 4, 3, 2, 1>>, <<2, 4, 1, 5, 3>>}

\* One instant to the next day, in UTC and, for some offsets, not there.
MCInstants == {0, day - 1, day}

MCOffsets == {-840, -60, 0, 345, 840}

Plain == [priority |-> "none", due |-> Null, created |-> 0]

\* All alike; one with a due date that passes, and an older one; one deep in a tree
\* with an urgent priority, and one with a due date that comes near.
MCKinds ==
    {[i \in Id |-> Plain],
     [[i \in Id |-> Plain] EXCEPT ![4].due = 0, ![5].created = -week],
     [[i \in Id |-> Plain] EXCEPT ![1].priority = "high", ![3].due = day]}

\* The child lists: five roots; a tree too large for a page, and one root; two trees
\* and a root; a chain and two roots.
MCShapes ==
    {[i \in Id |-> <<>>],
     [i \in Id |-> IF i = 2 THEN <<4, 1, 3>> ELSE <<>>],
     [i \in Id |-> IF i = 3 THEN <<1>> ELSE IF i = 2 THEN <<5>> ELSE <<>>],
     [i \in Id |-> IF i = 5 THEN <<1>> ELSE IF i = 1 THEN <<3>> ELSE <<>>]}

MCTasks ==
    {[i \in Id |->
        [title |-> IF i = 4 THEN {} ELSE {word}, closed |-> FALSE, priority |-> kinds[i].priority,
         due |-> kinds[i].due, created |-> kinds[i].created, kids |-> shape[i]]] :
     shape \in MCShapes, kinds \in MCKinds}
=============================================================================
