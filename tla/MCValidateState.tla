--------------------------- MODULE MCValidateState ---------------------------
(***************************************************************************)
(* Every map of up to three tasks whose child lists hold up to two ids,    *)
(* the ids of missing tasks included.                                      *)
(***************************************************************************)
EXTENDS ValidateState

CONSTANTS b, bad, todo, done, unknown

ShortLists == UNION {[1..n -> Id] : n \in 0..2}

TaskWith(kids) ==
    [content |-> [body |-> b, status |-> todo, kids |-> kids],
     meta |-> [created |-> 1, updated |-> 1, completed |-> Null, version |-> 1]]

MCInputs ==
    UNION {{[i \in ids |-> TaskWith(lists[i])] : lists \in [ids -> ShortLists]} : ids \in SUBSET Id}
=============================================================================
