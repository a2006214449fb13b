----------------------------- MODULE MCTaskServer -----------------------------
(***************************************************************************)
(* A small instance of TaskServer: two handlers, two tasks that may change *)
(* their status, one string that may be the secret, a rate that is refused *)
(* and one that stands for the default, whose bucket holds two.            *)
(***************************************************************************)
EXTENDS TaskServer, TLC

CONSTANTS b, bad, todo, done, unknown

ServerContents(statuses) == [body: {b}, status: statuses, kids: {<<>>}]

MCRates == {-1, 0}

MCAdds == [content: ServerContents(Status), parent: {Null}, position: {Null}]

MCBatches == {<<op>> : op \in [id: Id, content: ServerContents(Status), expected: 1..2]}
=============================================================================
