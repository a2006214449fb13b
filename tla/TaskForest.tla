----------------------------- MODULE TaskForest -----------------------------
(***************************************************************************)
(* The data every part of seshat shares: a task (internal/task/task.go), a *)
(* forest of tasks kept as a map from id to task whose contents list their *)
(* children in order (server/task.go), the invariants of that forest       *)
(* (server/validate.go) and the pure parts of the three mutations          *)
(* (server/store.go): the candidate map each of them builds before it is   *)
(* validated and saved.                                                    *)
(*                                                                         *)
(* The fields of Content that nothing structural depends on (title,        *)
(* description, priority, tags and dates) are one value, body.             *)
(***************************************************************************)
EXTENDS Integers, Sequences, Functions

CONSTANTS
    Id,        \* task ids (server-assigned ULIDs)
    Body,      \* what validateContent accepts as title, priority, tags, dates
    BadBody,   \* a content it refuses: a blank title or an unknown priority
    Status,    \* todo, in_progress, done, cancelled
    Terminal,  \* the members of Status that end a task: done, cancelled
    BadStatus, \* a status string outside the enum
    Open,      \* the status a new task is compared with: todo
    Time,      \* instants of the wall clock (which need not move forward)
    Null       \* an absent pointer: no completed_at, no parent_id, no position

ASSUME ValueAssumption ==
    /\ BadBody \notin Body
    /\ BadStatus \notin Status
    /\ Terminal \subseteq Status
    /\ Open \in Status \ Terminal
    /\ Null \notin Time
    /\ Null \notin Id
    /\ Null \notin Int

(***************************************************************************)
(* Types.                                                                  *)
(***************************************************************************)
Content == [body: Body, status: Status, kids: Seq(Id)]

\* What may arrive over the wire, before validateContent.
WireContent == [body: Body \union {BadBody},
                status: Status \union {BadStatus},
                kids: Seq(Id)]

Meta == [created: Time, updated: Time, completed: Time \union {Null}, version: Nat]

Task == [content: Content, meta: Meta]

\* A map id -> task: a function on the set of ids that exist.
IsTaskMap(tasks) == DOMAIN tasks \subseteq Id /\ tasks \in [DOMAIN tasks -> Task]

NoTasks == [i \in {} |-> {}]

UpdateOp == [id: Id, content: WireContent, expected: Nat]

\* The position is any int the client sends, also a negative one.
AddRequest == [content: WireContent, parent: Id \union {Null}, position: Int \union {Null}]

-----------------------------------------------------------------------------
(***************************************************************************)
(* The forest invariants, as validateState checks them.                    *)
(***************************************************************************)
ChildIds(tasks, p) == Range(tasks[p].content.kids)

NoDuplicateInList(tasks) ==
    \A p \in DOMAIN tasks : IsInjective(tasks[p].content.kids)

NoDanglingChild(tasks) ==
    \A p \in DOMAIN tasks : ChildIds(tasks, p) \subseteq DOMAIN tasks

SingleContainer(tasks) ==
    \A p, q \in DOMAIN tasks :
        p # q => ChildIds(tasks, p) \intersect ChildIds(tasks, q) = {}

\* No set of tasks in which each one is the child of another member (or of
\* itself): what the depth-first search reports when it meets a task it is
\* still visiting.
NoCycle(tasks) ==
    \A S \in SUBSET DOMAIN tasks :
        (\A x \in S : \E p \in S : x \in ChildIds(tasks, p)) => S = {}

IsForest(tasks) ==
    /\ NoDuplicateInList(tasks)
    /\ NoDanglingChild(tasks)
    /\ SingleContainer(tasks)
    /\ NoCycle(tasks)

\* Mutant: the search for cycles is left out.
validateLists(tasks) ==
    /\ NoDuplicateInList(tasks)
    /\ NoDanglingChild(tasks)
    /\ SingleContainer(tasks)

\* The verdict of validateState, whose loops are in ValidateState.
validateState(tasks) == IsForest(tasks)

\* parent is the inverse of the child lists.
IsInverse(parent, tasks) ==
    /\ DOMAIN parent = UNION {ChildIds(tasks, p) : p \in DOMAIN tasks}
    /\ \A c \in DOMAIN parent : parent[c] \in DOMAIN tasks /\ c \in ChildIds(tasks, parent[c])

\* completed_at is set exactly on the tasks whose status is terminal.
Stamped(t) == t.meta.completed # Null <=> t.content.status \in Terminal

-----------------------------------------------------------------------------
(***************************************************************************)
(* Helpers of the mutations.                                               *)
(***************************************************************************)
\* Mutant: only the status is looked at.
validateStatusOnly(c) == c.status \in Status

validateContent(c) == c.body \in Body /\ c.status \in Status

\* Mutant: reopening a task leaves its completion time behind.
applyCompletionKeeping(meta, old, next, now) ==
    IF old \notin Terminal /\ next \in Terminal
    THEN [meta EXCEPT !.completed = now]
    ELSE meta

applyCompletion(meta, old, next, now) ==
    CASE old \notin Terminal /\ next \in Terminal -> [meta EXCEPT !.completed = now]
      [] old \in Terminal /\ next \notin Terminal -> [meta EXCEPT !.completed = Null]
      [] OTHER -> meta

\* What every write to an existing task does to its meta.
Touch(meta, now) ==
    [created |-> meta.created, updated |-> now,
     completed |-> meta.completed, version |-> meta.version + 1]

clamp(v, lo, hi) == IF v < lo THEN lo ELSE IF v > hi THEN hi ELSE v

\* The tail is shifted by one to make room after the first i elements.
insertAt(s, i, v) ==
    [j \in 1..(Len(s) + 1) |->
        IF j <= i THEN s[j] ELSE IF j = i + 1 THEN v ELSE s[j - 1]]

\* In a valid forest v stands in its list once, so filtering it out is
\* closing the gap at that one place.
removeString(s, v) ==
    IF v \notin Range(s) THEN s
    ELSE LET gap == CHOOSE k \in DOMAIN s : s[k] = v
         IN  [j \in 1..(Len(s) - 1) |-> IF j < gap THEN s[j] ELSE s[j + 1]]

\* st.parent: the container of every task that has one. Of two containers
\* the last one visited would win; a valid forest has no such pair.
rebuildIndex(tasks) ==
    [c \in UNION {ChildIds(tasks, p) : p \in DOMAIN tasks} |->
        CHOOSE p \in DOMAIN tasks : c \in ChildIds(tasks, p)]

-----------------------------------------------------------------------------
(***************************************************************************)
(* The candidate maps of Add, Update and Delete.                           *)
(***************************************************************************)
NewTask(content, now) ==
    [content |-> [content EXCEPT !.kids = <<>>],
     meta    |-> applyCompletion([created |-> now, updated |-> now,
                                  completed |-> Null, version |-> 1],
                                 Open, content.status, now)]

\* Mutant: a negative position is taken for one that was not given.
InsertPositionSentinel(position, len) ==
    IF position = Null \/ position < 0 THEN len ELSE clamp(position, 0, len)

InsertPosition(position, len) ==
    IF position = Null THEN len ELSE clamp(position, 0, len)

\* Mutant: a container's version does not count the change of its child list.
AdoptSilently(t, id, position, now) ==
    [t EXCEPT !.content.kids = insertAt(@, InsertPosition(position, Len(@)), id)]

AdoptChild(t, id, position, now) ==
    [content |-> [t.content EXCEPT !.kids =
                    insertAt(@, InsertPosition(position, Len(@)), id)],
     meta    |-> Touch(t.meta, now)]

AddCandidate(tasks, id, req, now) ==
    [i \in DOMAIN tasks \union {id} |->
        IF i = id THEN NewTask(req.content, now)
        ELSE IF i = req.parent THEN AdoptChild(tasks[i], id, req.position, now)
        ELSE tasks[i]]

\* The whole content is replaced, the list of children with it.
Rewrite(t, content, now) ==
    [content |-> content,
     meta    |-> Touch(applyCompletion(t.meta, t.content.status, content.status, now), now)]

UpdateCandidate(tasks, ops, now) ==
    [i \in DOMAIN tasks |->
        IF \E k \in DOMAIN ops : ops[k].id = i
        THEN Rewrite(tasks[i], ops[CHOOSE k \in DOMAIN ops : ops[k].id = i].content, now)
        ELSE tasks[i]]

DisownChild(t, id, now) ==
    [content |-> [t.content EXCEPT !.kids = removeString(@, id)],
     meta    |-> Touch(t.meta, now)]

\* Mutant: the deleted task stays in the list of its container.
DeleteOnly(tasks, parent, id, now) == [i \in DOMAIN tasks \ {id} |-> tasks[i]]

\* The container is found through the index, not by a search. The children
\* of the deleted task are left alone: they become roots.
DeleteCandidate(tasks, parent, id, now) ==
    [i \in DOMAIN tasks \ {id} |->
        IF id \in DOMAIN parent /\ parent[id] = i
        THEN DisownChild(tasks[i], id, now)
        ELSE tasks[i]]
=============================================================================
