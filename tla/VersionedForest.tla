--------------------------- MODULE VersionedForest ---------------------------
(***************************************************************************)
(* What the server promises its clients, with no lock, no file, no crash   *)
(* windows: one forest of versioned tasks that changes in whole mutations. *)
(* It is the contract of schema/SCHEMA.md as store.go gives it: every      *)
(* mutation counts one in state_version and one in the version of each     *)
(* task it changes, leaves a forest, never brings a deleted id back, and   *)
(* is answered only once it cannot be undone.                              *)
(***************************************************************************)
EXTENDS TaskForest

CONSTANTS Handler, NoReply, Replies

VARIABLES
    sv,         \* state_version
    tasks,      \* the forest
    known,      \* ids that exist or existed
    replies,    \* what each request in progress is about to be told
    delivered   \* the highest state_version any client was told

promised == <<sv, tasks, known, replies, delivered>>

\* A task that stays is the same, or it moved on by exactly one version. Its
\* creation time never changes, and its completion time changes only when
\* its status passes between open and terminal.
Advances(old, new) ==
    \/ new = old
    \/ /\ new.meta.version = old.meta.version + 1
       /\ new.meta.created = old.meta.created
       /\ (old.content.status \in Terminal) = (new.content.status \in Terminal)
            => new.meta.completed = old.meta.completed

\* A new task starts at version 1 with no children.
Fresh(new) == new.meta.version = 1 /\ new.content.kids = <<>>

Changed(old, new) == {i \in DOMAIN old \intersect DOMAIN new : new[i] # old[i]}

\* What an operation may do to the forest beyond its own tasks: at most one
\* other task, the container, whose child list gains or loses the task.
Mutation(op, ids, old, new) ==
    /\ IsForest(new)
    /\ \A i \in DOMAIN old \intersect DOMAIN new : Advances(old[i], new[i])
    /\ \A i \in DOMAIN new \ DOMAIN old : Fresh(new[i])
    /\ CASE op = "update" -> DOMAIN new = DOMAIN old /\ Changed(old, new) = ids
         [] op = "add"    -> /\ DOMAIN new = DOMAIN old \union ids
                             /\ \A i \in Changed(old, new) :
                                    ChildIds(new, i) = ChildIds(old, i) \union ids
         [] op = "delete" -> /\ DOMAIN new = DOMAIN old \ ids
                             /\ \A i \in Changed(old, new) :
                                    ChildIds(new, i) = ChildIds(old, i) \ ids

Start ==
    /\ sv \in Nat
    /\ IsTaskMap(tasks)
    /\ known = DOMAIN tasks
    /\ replies = [h \in Handler |-> NoReply]
    /\ delivered = 0

Tell(h, answer) ==
    /\ replies[h] = NoReply
    /\ answer \in Replies
    /\ replies' = [replies EXCEPT ![h] = answer]

Mutate(h) ==
    /\ sv' = sv + 1
    /\ known' = known \union DOMAIN tasks'
    /\ \E answer \in {replies'[h]} :
        /\ Tell(h, answer)
        /\ answer.code = "ok"
        /\ answer.op \in {"add", "update", "delete"}
        /\ answer.sv = sv + 1
        /\ Mutation(answer.op, answer.ids, tasks, tasks')
    /\ (DOMAIN tasks' \ DOMAIN tasks) \intersect known = {}
    /\ UNCHANGED delivered

\* A refused request changes nothing at all.
Refuse(h) ==
    /\ \E answer \in {replies'[h]} :
        /\ Tell(h, answer)
        /\ answer.code # "ok"
        /\ answer.sv = 0
    /\ UNCHANGED <<sv, tasks, known, delivered>>

Read(h) ==
    /\ \E answer \in {replies'[h]} :
        /\ Tell(h, answer)
        /\ answer.code = "ok"
        /\ answer.op = "get"
        /\ answer.sv = sv
    /\ UNCHANGED <<sv, tasks, known, delivered>>

Deliver(h) ==
    /\ replies[h] # NoReply
    /\ replies' = [replies EXCEPT ![h] = NoReply]
    /\ delivered' = IF replies[h].sv > delivered THEN replies[h].sv ELSE delivered
    /\ UNCHANGED <<sv, tasks, known>>

\* A crash loses answers, and nothing else.
LoseReplies ==
    /\ replies' = [h \in Handler |-> NoReply]
    /\ UNCHANGED <<sv, tasks, known, delivered>>

Step ==
    \/ LoseReplies
    \/ \E h \in Handler : Mutate(h) \/ Refuse(h) \/ Read(h) \/ Deliver(h)

Promise == Start /\ [][Step]_promised
=============================================================================
