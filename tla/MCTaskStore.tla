----------------------------- MODULE MCTaskStore -----------------------------
(***************************************************************************)
(* Small instances of TaskStore.                                           *)
(***************************************************************************)
EXTENDS TaskStore, TLC

CONSTANTS b, bad, todo, done, unknown

MCSymmetry == Permutations(Id) \union Permutations(Handler)

WireOf(bodies, statuses, lists) == [body: bodies, status: statuses, kids: lists]

\* Child lists: none, one child, two in either order, and one child twice.
ShortLists == UNION {[1..n -> Id] : n \in 0..2}
TinyLists == {<<>>} \union {<<i>> : i \in Id}

Task1(status, kids, version) ==
    [content |-> [body |-> b, status |-> status, kids |-> kids],
     meta |-> [created |-> 1, updated |-> 1,
               completed |-> IF status \in Terminal THEN 1 ELSE Null, version |-> version]]

\* The files a first start may meet: an empty one with no format version; one
\* of a later format; one that lists a task under itself.
MCFiles ==
    {[fmt |-> 0, sv |-> 1, tasks |-> NoTasks],
     [fmt |-> CurrentFmt + 1, sv |-> 1, tasks |-> NoTasks]}
    \union {[fmt |-> CurrentFmt, sv |-> 1, tasks |-> (i :> Task1(todo, <<i>>, 1))] : i \in Id}

AddsOf(contents, positions) ==
    [content: contents, parent: Id \union {Null}, position: positions]

OpsOf(contents, versions) == [id: Id, content: contents, expected: versions]

----------------------------------------------------------------------------
\* Structure: every child list of up to two ids, one status; positions before
\* the list, at its ends, and past it.
StructureAdds ==
    AddsOf(WireOf({b}, {todo}, {<<>>}), {Null, -1, 0, 1, 3})
    \union [content: WireOf({bad}, {todo}, {<<>>}) \union WireOf({b}, {todo}, {<<i>> : i \in Id}),
            parent: {Null}, position: {Null}]

StructureBatches ==
    {<<op>> : op \in OpsOf(WireOf({b}, {todo}, ShortLists), 1..3)}

\* Batches: two ops at once, the empty batch, a duplicate id, a bad content.
BatchAdds == AddsOf(WireOf({b}, {todo}, {<<>>}), {Null})

BatchBatches ==
    LET ops == OpsOf(WireOf({b}, {todo}, TinyLists), 1..2)
    IN  {<<>>} \union {<<op>> : op \in OpsOf(WireOf({b}, {unknown}, {<<>>}), {1})}
        \union [1..2 -> ops]

AllAdds == StructureAdds \union BatchAdds

AllBatches == StructureBatches \union BatchBatches
=============================================================================
