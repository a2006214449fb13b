------------------------------ MODULE TaskStore ------------------------------
(***************************************************************************)
(* The server's Store (server/store.go) and the request handlers that call *)
(* it (server/handlers.go): a forest in memory behind one RWMutex, and one *)
(* JSON file that every mutation rewrites (temporary file, fsync, rename)  *)
(* before memory is changed. The process may die between any two steps and *)
(* be started again on whatever file it left.                              *)
(*                                                                         *)
(* Before it takes the lock a handler looks only at its own request, and   *)
(* from there to the save it changes nothing shared; so the arrival of a   *)
(* request, its validation and the building of the candidate are one step. *)
(* The save, the commit to memory and the response are steps of their own. *)
(***************************************************************************)
EXTENDS TaskForest

CONSTANTS
    Handler,            \* the goroutines serving requests
    CurrentFmt,         \* CurrentDataFormatVersion
    InitialFiles,       \* what a data file may hold before the first start
    AddRequests,        \* the add requests clients may send
    UpdateBatches,      \* the update requests clients may send
    MaxStateVersion     \* bound: requests are taken while state_version is below

IsState(s) ==
    /\ s = [fmt |-> s.fmt, sv |-> s.sv, tasks |-> s.tasks]
    /\ s.fmt \in Nat
    /\ s.sv \in Nat
    /\ IsTaskMap(s.tasks)

ASSUME StoreAssumption ==
    /\ CurrentFmt \in Nat \ {0}
    /\ \A file \in InitialFiles : IsState(file)
    /\ AddRequests \subseteq AddRequest
    /\ UpdateBatches \subseteq Seq(UpdateOp)
    /\ MaxStateVersion \in Nat
    /\ Null \notin Handler

VARIABLES
    exists,   \* there is a data file
    disk,     \* what it holds; the empty state while there is none
    up,       \* the process runs
    mem,      \* st.state
    parent,   \* st.parent: child -> container
    lock,     \* the handler that holds st.mu for writing, or Null
    cand,     \* the candidate state of that handler
    pc,       \* where each handler is
    reply,    \* the response each handler is about to write
    used,     \* every id that was ever on disk: newID returns none of them
    acked     \* history: the highest state_version a client has been sent

vars == <<exists, disk, up, mem, parent, lock, cand, pc, reply, used, acked>>

EmptyState == [fmt |-> CurrentFmt, sv |-> 0, tasks |-> NoTasks]

Codes == {"ok", "bad_request", "not_found", "conflict", "invariant", "internal"}
Operations == {"add", "update", "delete", "get"}
NoReply == [op |-> "none", code |-> "none", sv |-> 0, ids |-> {}]

\* The response: the tasks a mutation returns (or deleted), the tasks that
\* conflict, and the state_version of a 200.
Replies == [op: Operations, code: Codes, sv: Nat, ids: SUBSET Id]

-----------------------------------------------------------------------------
(***************************************************************************)
(* Starting.                                                               *)
(***************************************************************************)
\* A file with no data_format_version is one of version 1.
Adopt(file) ==
    [fmt |-> IF file.fmt = 0 THEN 1 ELSE file.fmt, sv |-> file.sv, tasks |-> file.tasks]

Loadable(file) ==
    /\ Adopt(file).fmt <= CurrentFmt
    /\ validateState(file.tasks)

Serve(state) ==
    /\ up' = TRUE
    /\ mem' = state
    /\ parent' = rebuildIndex(state.tasks)

Init ==
    /\ \/ exists = FALSE /\ disk = EmptyState
       \/ exists = TRUE /\ disk \in InitialFiles
    /\ up = FALSE
    /\ mem = EmptyState
    /\ parent = NoTasks
    /\ lock = Null
    /\ cand = EmptyState
    /\ pc = [h \in Handler |-> "idle"]
    /\ reply = [h \in Handler |-> NoReply]
    /\ used = DOMAIN disk.tasks
    /\ acked = 0

\* Mutant: data_format_version is not compared.
loadAnyFormat ==
    /\ ~up
    /\ exists
    /\ validateState(disk.tasks)
    /\ Serve(Adopt(disk))
    /\ UNCHANGED <<exists, disk, lock, cand, pc, reply, used, acked>>

\* NewStore on a missing file writes the empty state and serves it. When that
\* write fails the process exits, which is no step. A file it cannot load
\* (a later format, or no forest) is left as it is and nothing is served.
load ==
    /\ ~up
    /\ \/ /\ ~exists
          /\ exists' = TRUE
          /\ disk' = EmptyState
          /\ Serve(EmptyState)
       \/ /\ exists
          /\ Loadable(disk)
          /\ Serve(Adopt(disk))
          /\ UNCHANGED <<exists, disk>>
    /\ UNCHANGED <<lock, cand, pc, reply, used, acked>>

-----------------------------------------------------------------------------
(***************************************************************************)
(* Handlers.                                                               *)
(***************************************************************************)
\* The handler has its answer without having changed anything.
Answer(h, op, code, sv, ids) ==
    /\ pc' = [pc EXCEPT ![h] = "replying"]
    /\ reply' = [reply EXCEPT ![h] = [op |-> op, code |-> code, sv |-> sv, ids |-> ids]]
    /\ UNCHANGED <<exists, disk, up, mem, parent, lock, cand, used, acked>>

\* The last steps of every mutation: validate the candidate map, and keep the
\* lock for the save when it is a forest.
Propose(h, op, ids, tasks) ==
    \/ /\ ~validateState(tasks)
       /\ Answer(h, op, "invariant", 0, {})
    \/ /\ validateState(tasks)
       /\ lock' = h
       /\ cand' = [fmt |-> mem.fmt, sv |-> mem.sv + 1, tasks |-> tasks]
       /\ pc' = [pc EXCEPT ![h] = "saving"]
       /\ reply' = [reply EXCEPT ![h] = [op |-> op, code |-> "ok",
                                       sv |-> mem.sv + 1, ids |-> ids]]
       /\ UNCHANGED <<exists, disk, up, mem, parent, used, acked>>

Ready(h) == up /\ pc[h] = "idle"

\* Mutant: the mutex is not taken.
Unlocked(h) == Ready(h) /\ mem.sv < MaxStateVersion

\* st.mu is acquired.
Locked(h) == Ready(h) /\ lock = Null /\ mem.sv < MaxStateVersion

Add(h) ==
    \E req \in AddRequests :
        \/ /\ Ready(h)
           /\ ~validateContent(req.content) \/ req.content.kids # <<>>
           /\ Answer(h, "add", "bad_request", 0, {})
        \/ /\ Locked(h)
           /\ validateContent(req.content)
           /\ req.content.kids = <<>>
           /\ \/ /\ req.parent # Null
                 /\ req.parent \notin DOMAIN mem.tasks
                 /\ Answer(h, "add", "not_found", 0, {})
              \/ /\ req.parent = Null \/ req.parent \in DOMAIN mem.tasks
                 /\ \E id \in Id \ used, now \in Time :
                        Propose(h, "add", {id}, AddCandidate(mem.tasks, id, req, now))

WellFormed(ops) ==
    /\ \A k \in DOMAIN ops : validateContent(ops[k].content)
    /\ \A j, k \in DOMAIN ops : ops[j].id = ops[k].id => j = k

AllExist(ops) == \A k \in DOMAIN ops : ops[k].id \in DOMAIN mem.tasks

Current(op) == op.expected = mem.tasks[op.id].meta.version

Update(h) ==
    \E ops \in UpdateBatches :
        \/ /\ Ready(h)
           /\ ~WellFormed(ops)
           /\ Answer(h, "update", "bad_request", 0, {})
        \/ /\ Locked(h)
           /\ WellFormed(ops)
           /\ \/ /\ ~AllExist(ops)
                 /\ Answer(h, "update", "not_found", 0, {})
              \/ /\ AllExist(ops)
                 /\ \E k \in DOMAIN ops : ~Current(ops[k])
                 /\ Answer(h, "update", "conflict", 0,
                           {ops[k].id : k \in {k \in DOMAIN ops : ~Current(ops[k])}})
              \/ /\ AllExist(ops)
                 /\ \A k \in DOMAIN ops : Current(ops[k])
                 /\ \E now \in Time :
                        Propose(h, "update", {ops[k].id : k \in DOMAIN ops},
                                UpdateCandidate(mem.tasks, ops, now))

Delete(h) ==
    /\ Locked(h)
    /\ \E id \in Id :
        \/ /\ id \notin DOMAIN mem.tasks
           /\ Answer(h, "delete", "not_found", 0, {})
        \/ /\ id \in DOMAIN mem.tasks
           /\ \E now \in Time :
                  Propose(h, "delete", {id},
                          DeleteCandidate(mem.tasks, parent, id, now))

\* A read lock excludes only the writer.
Snapshot(h) ==
    /\ Ready(h)
    /\ lock = Null
    /\ Answer(h, "get", "ok", mem.sv, {})

\* The 500 of a save that failed.
Failed(op) == [op |-> op, code |-> "internal", sv |-> 0, ids |-> {}]

\* Mutant: memory was changed before the save, and is not put back.
SaveFailsTooLate(h) ==
    /\ pc[h] = "saving"
    /\ mem' = cand
    /\ lock' = Null
    /\ cand' = EmptyState
    /\ pc' = [pc EXCEPT ![h] = "replying"]
    /\ reply' = [reply EXCEPT ![h] = Failed(reply[h].op)]
    /\ UNCHANGED <<exists, disk, up, parent, used, acked>>

\* Mutant: the error of the rename is not looked at.
SaveFailsUnseen(h) ==
    /\ pc[h] = "saving"
    /\ pc' = [pc EXCEPT ![h] = "renamed"]
    /\ UNCHANGED <<exists, disk, up, mem, parent, lock, cand, reply, used, acked>>

\* Mutant: the error path returns without unlocking.
SaveFailsLocked(h) ==
    /\ pc[h] = "saving"
    /\ pc' = [pc EXCEPT ![h] = "replying"]
    /\ reply' = [reply EXCEPT ![h] = Failed(reply[h].op)]
    /\ UNCHANGED <<exists, disk, up, mem, parent, lock, cand, used, acked>>

\* Creating, writing, syncing or renaming the temporary file failed. The
\* candidate is dropped and the deferred unlock runs.
SaveFails(h) ==
    /\ pc[h] = "saving"
    /\ lock' = Null
    /\ cand' = EmptyState
    /\ pc' = [pc EXCEPT ![h] = "replying"]
    /\ reply' = [reply EXCEPT ![h] = Failed(reply[h].op)]
    /\ UNCHANGED <<exists, disk, up, mem, parent, used, acked>>

\* The rename: from here the candidate is what a restart finds.
saveState(h) ==
    /\ pc[h] = "saving"
    /\ exists' = TRUE
    /\ disk' = cand
    /\ used' = used \union DOMAIN cand.tasks
    /\ pc' = [pc EXCEPT ![h] = "renamed"]
    /\ UNCHANGED <<up, mem, parent, lock, cand, reply, acked>>

\* Mutant: the index is not rebuilt.
CommitStateOnly(h) ==
    /\ pc[h] = "renamed"
    /\ mem' = cand
    /\ lock' = Null
    /\ cand' = EmptyState
    /\ pc' = [pc EXCEPT ![h] = "replying"]
    /\ UNCHANGED <<exists, disk, up, parent, reply, used, acked>>

\* st.state = cand, the index is rebuilt and the deferred unlock runs.
Commit(h) ==
    /\ pc[h] = "renamed"
    /\ mem' = cand
    /\ parent' = rebuildIndex(cand.tasks)
    /\ lock' = Null
    /\ cand' = EmptyState
    /\ pc' = [pc EXCEPT ![h] = "replying"]
    /\ UNCHANGED <<exists, disk, up, reply, used, acked>>

\* The response reaches the client.
Respond(h) ==
    /\ pc[h] = "replying"
    /\ pc' = [pc EXCEPT ![h] = "idle"]
    /\ reply' = [reply EXCEPT ![h] = NoReply]
    /\ acked' = IF reply[h].sv > acked THEN reply[h].sv ELSE acked
    /\ UNCHANGED <<exists, disk, up, mem, parent, lock, cand, used>>

\* The process dies. Everything but the file is gone, with the responses no
\* client has received yet.
Crash ==
    /\ up
    /\ up' = FALSE
    /\ mem' = EmptyState
    /\ parent' = NoTasks
    /\ lock' = Null
    /\ cand' = EmptyState
    /\ pc' = [h \in Handler |-> "idle"]
    /\ reply' = [h \in Handler |-> NoReply]
    /\ UNCHANGED <<exists, disk, used, acked>>

Next ==
    \/ load
    \/ Crash
    \/ \E h \in Handler :
        \/ Add(h) \/ Update(h) \/ Delete(h) \/ Snapshot(h)
        \/ SaveFails(h) \/ saveState(h) \/ Commit(h) \/ Respond(h)

Spec == Init /\ [][Next]_vars

\* A handler that has begun runs on: its goroutine is scheduled, and each of
\* its file operations returns.
Fairness ==
    \A h \in Handler :
        WF_vars(SaveFails(h) \/ saveState(h) \/ Commit(h) \/ Respond(h))

FairSpec == Spec /\ Fairness

-----------------------------------------------------------------------------
(***************************************************************************)
(* Properties.                                                             *)
(***************************************************************************)
TypeOK ==
    /\ exists \in BOOLEAN
    /\ up \in BOOLEAN
    /\ IsState(disk) /\ IsState(mem) /\ IsState(cand)
    /\ DOMAIN parent \subseteq Id /\ parent \in [DOMAIN parent -> Id]
    /\ lock \in Handler \union {Null}
    /\ pc \in [Handler -> {"idle", "saving", "renamed", "replying"}]
    /\ reply \in [Handler -> Replies \union {NoReply}]
    /\ used \in SUBSET Id
    /\ acked \in Nat

\* The comment on saveState: no memory/disk divergence. While the process runs
\* the file holds what memory holds, except between the rename and the commit
\* of the one handler that has the lock; then it holds that candidate.
NoDivergence ==
    up => /\ exists
          /\ IF \E h \in Handler : pc[h] = "renamed"
             THEN disk = cand
             ELSE Adopt(disk) = mem

\* One writer: the candidate in hand belongs to the holder of the lock, and it
\* is the successor of the state every reader sees.
OneWriter ==
    \A h \in Handler :
        pc[h] \in {"saving", "renamed"} => lock = h /\ up /\ cand.sv = mem.sv + 1

\* Whatever clients send and wherever the process dies, what is served is a
\* forest: tasks have one container, children exist, and nothing is a
\* descendant of itself.
ServedForest == up => IsForest(mem.tasks)

\* The index Delete relies on to find a container is the inverse of the child
\* lists, after every mutation and after every start.
IndexIsInverse == up => IsInverse(parent, mem.tasks)

\* A server can always be started again on the file a server wrote: a file that
\* does not load is one that was there before the first start, untouched (so a
\* file of a later format is never overwritten by this binary).
RestartSafe == Loadable(disk) \/ (disk \in InitialFiles /\ ~up)

\* A state_version a client was told of (by a write or a read) is on disk: a
\* restart never takes back what was acknowledged or shown.
AckedIsDurable ==
    \A v \in {acked} \union {reply[h].sv : h \in {g \in Handler : pc[g] = "replying"}} :
        v <= disk.sv

\* Adding a leaf and deleting a task cannot break a forest: the 422 that
\* validateState may raise reaches only the clients of Update.
OnlyUpdateBreaksForest ==
    \A h \in Handler : reply[h].code = "invariant" => reply[h].op = "update"

\* In every forest on which it gets the lock, an Add puts the new task at the
\* position the client asked for, and moves no sibling past another: those that
\* stood at places up to that position stay before it, the others follow it. A
\* negative position is the front, one past the end, or none, is the end.
Placed(old, new, id, position) ==
    /\ Len(new) = Len(old) + 1
    /\ id \in Range(new)
    /\ \A k \in DOMAIN old :
        IF position = Null \/ k <= position THEN new[k] = old[k] ELSE new[k + 1] = old[k]

AddsWhereAsked ==
    up /\ lock = Null =>
        \A req \in AddRequests, id \in Id \ used, now \in Time :
            req.parent \in DOMAIN mem.tasks =>
                Placed(mem.tasks[req.parent].content.kids,
                       AddCandidate(mem.tasks, id, req, now)[req.parent].content.kids,
                       id, req.position)

\* completed_at is set exactly on the tasks whose status is terminal, however
\* the status came to be what it is.
CompletionStamped == up => \A i \in DOMAIN mem.tasks : Stamped(mem.tasks[i])

\* Every handler that took the lock gives it back, also when its save fails.
LockReleased == \A h \in Handler : lock = h ~> lock # h

\* The store keeps the promise of VersionedForest, with the file as the state
\* promised: a mutation takes effect at its rename.
PendingReply(h) == IF pc[h] \in {"renamed", "replying"} THEN reply[h] ELSE NoReply

VF == INSTANCE VersionedForest
        WITH sv <- disk.sv, tasks <- disk.tasks, known <- used,
             replies <- [h \in Handler |-> PendingReply(h)], delivered <- acked

KeepsPromise == VF!Promise
=============================================================================
