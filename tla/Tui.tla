--------------------------------- MODULE Tui ---------------------------------
(***************************************************************************)
(* The terminal UI (tui/model.zig) in its shell (tui/app.zig), on a server *)
(* that other clients change. One loop takes keys and results; a worker    *)
(* carries a request out and posts its result; $EDITOR runs inside the     *)
(* loop and posts its text like a result.                                  *)
(*                                                                         *)
(* Keys wait in the same queue as results. A key may be handled whatever   *)
(* results are posted: it was there first. For the result of $EDITOR it    *)
(* was typed ahead, before $EDITOR had the terminal, or in the instant     *)
(* between its two results; TypeAhead allows that.                         *)
(*                                                                         *)
(* Of the seven fields there is one for each kind of editor: title stands  *)
(* for the lines, status for the pickers (also for the priority, where a   *)
(* new task is opened), description for $EDITOR. Which tasks have a row is *)
(* left to the ledger: a task that loses its row passes the cursor on.     *)
(***************************************************************************)
EXTENDS Naturals, Sequences, FiniteSets, SequencesExt

CONSTANTS
    Id,
    Old,        \* what a field holds in the beginning
    Theirs,     \* what another client writes into it
    Title,      \* the titles typed for new tasks
    Bad,        \* text its editor refuses: an empty title, no date
    Contested,  \* bound: the fields other clients edit
    MaxVersion, \* bound: a version below it can be edited, here or there,
                \* and an edit begun here can be sent again at it
    MaxQueue,   \* bound: $EDITOR is opened while fewer results are waiting
    TypeAhead,  \* keys may be handled before a result of $EDITOR
    Null

ASSUME TuiAssumption ==
    /\ {MaxVersion, MaxQueue} \subseteq Nat
    /\ TypeAhead \in BOOLEAN
    /\ Contested \subseteq {"title", "status", "description"}
    /\ Cardinality({Old, Theirs, Bad, Null}) = 4
    /\ Title \intersect {Old, Theirs, Bad, Null} = {}
    /\ Null \notin Id

Field == {"title", "status", "description"}

\* What the user writes into a field is known by the task it is meant for.
Typed(i, f) == <<i, f>>
Value == {Old, Theirs} \union (Id \X Field)
Text == Value \union Title \union {Bad, Null}

\* What a new task holds is old to everyone, also the title typed for it once
\* it is stored: the request has the title, and the answer names it.
NewFields == [f \in Field |-> Old]
Titled(title) == [NewFields EXCEPT !["title"] = title]

Task == [version: Nat, fields: [Field -> Value]]
NoTasks == [i \in {} |-> Null]
IsTasks(t) == DOMAIN t \subseteq Id /\ \A i \in DOMAIN t : t[i] \in Task

VARIABLES
    server,     \* the server's tasks
    used,       \* every id it has given
    tasks,      \* m.tasks
    cursor,     \* m.cursor_id
    mode,
    filtering,
    in_flight,
    wire,       \* the requests of the workers, and the results they hold
    queue       \* results that wait for the loop

vars == <<server, used, tasks, cursor, mode, filtering, in_flight, wire, queue>>
world == <<server, used>>
model == <<tasks, cursor, mode, filtering, in_flight>>

\* Mode and InFlight. An editor is a line, a picker, or $EDITOR, whose text is
\* Null until it has come back. The slot of a create has the title that was sent.
Mode(kind, id, field, editor, text) ==
    [kind |-> kind, id |-> id, field |-> field, editor |-> editor, text |-> text]

Plain(kind) == Mode(kind, Null, Null, Null, Null)
List == Plain("list")
Idle == Plain("none")
AtField(f) == Mode("field", Null, f, Null, Null)

EditorOf(f) ==
    CASE f = "title" -> "line" [] f = "status" -> "picker" [] f = "description" -> "external"

\* A Job: a commit names the version it was made from, and for the properties
\* the field it is about.
Job(kind, id, version, fields, field) ==
    [kind |-> kind, id |-> id, version |-> version, fields |-> fields, field |-> field]

Request(job) == [job |-> job, result |-> Null]
FetchRequest == Request(Job("refresh", Null, 0, Null, Null))

Event(kind, t, text) == [kind |-> kind, tasks |-> t, text |-> text]
RequestFailed == Event("request_failed", NoTasks, Null)

Init ==
    /\ \E known \in SUBSET Id :
        /\ server = [i \in known |-> [version |-> 1, fields |-> NewFields]]
        /\ used = known
    /\ tasks = NoTasks
    /\ cursor = Null
    /\ mode = List
    /\ filtering \in BOOLEAN
    /\ in_flight = Plain("refresh")
    /\ wire = <<FetchRequest>>
    /\ queue = <<>>

-----------------------------------------------------------------------------
(***************************************************************************)
(* The worker and the server.                                              *)
(***************************************************************************)
\* The server has dealt with a request; its answer may be lost on the way.
Answered(k, event) ==
    \E result \in {event, RequestFailed} : wire' = [wire EXCEPT ![k].result = result]

ServeFetch(k) ==
    /\ wire[k].job.kind = "refresh"
    /\ Answered(k, Event("tasks_loaded", server, Null))
    /\ UNCHANGED world

ServeCommit(k) ==
    LET job == wire[k].job
        current == [i \in {job.id} |-> server[i]]
        next == [version |-> job.version + 1, fields |-> job.fields] IN
    /\ job.kind = "commit"
    /\ \/ /\ job.id \notin DOMAIN server
          /\ Answered(k, RequestFailed)
          /\ UNCHANGED server
       \/ /\ job.id \in DOMAIN server
          /\ job.version # server[job.id].version
          /\ Answered(k, Event("conflict", current, Null))
          /\ UNCHANGED server
       \/ /\ job.id \in DOMAIN server
          /\ job.version = server[job.id].version
          /\ server' = [server EXCEPT ![job.id] = next]
          /\ Answered(k, Event("commit_ok", [i \in {job.id} |-> next], Null))
    /\ UNCHANGED used

Added(t, i, task) == [j \in DOMAIN t \union {i} |-> IF j = i THEN task ELSE t[j]]

ServeCreate(k) ==
    /\ wire[k].job.kind = "create"
    /\ \E i \in Id \ used :
        LET new == [version |-> 1, fields |-> NewFields] IN
        /\ server' = Added(server, i, new)
        /\ used' = used \union {i}
        /\ Answered(k, Event("create_ok", [j \in {i} |-> new], wire[k].job.fields["title"]))

ServeDelete(k) ==
    LET id == wire[k].job.id IN
    /\ wire[k].job.kind = "delete"
    /\ \/ id \notin DOMAIN server /\ Answered(k, RequestFailed)
       \/ id \in DOMAIN server /\ Answered(k, Event("delete_ok", NoTasks, Null))
    /\ server' = [i \in DOMAIN server \ {id} |-> server[i]]
    /\ UNCHANGED used

\* The server is not reached, or refuses.
Unreached(k) == wire' = [wire EXCEPT ![k].result = RequestFailed] /\ UNCHANGED world

Serve ==
    /\ \E k \in DOMAIN wire :
        /\ wire[k].result = Null
        /\ ServeFetch(k) \/ ServeCommit(k) \/ ServeCreate(k) \/ ServeDelete(k) \/ Unreached(k)
    /\ UNCHANGED <<model, queue>>

\* The worker posts what it holds, as its last act.
runRequest ==
    \E k \in DOMAIN wire :
        /\ wire[k].result # Null
        /\ queue' = Append(queue, wire[k].result)
        /\ wire' = RemoveAt(wire, k)
        /\ UNCHANGED <<world, model>>

\* Another client adds, edits or deletes a task.
Elsewhere ==
    /\ \/ \E i \in Id \ used :
            /\ server' = Added(server, i, [version |-> 1, fields |-> NewFields])
            /\ used' = used \union {i}
       \/ \E i \in DOMAIN server, f \in Contested :
            /\ server[i].version < MaxVersion
            /\ server[i].fields[f] # Theirs
            /\ server' = [server EXCEPT ![i].version = @ + 1, ![i].fields[f] = Theirs]
            /\ UNCHANGED used
       \/ \E i \in DOMAIN server :
            /\ server' = [j \in DOMAIN server \ {i} |-> server[j]]
            /\ UNCHANGED used
    /\ UNCHANGED <<model, wire, queue>>

-----------------------------------------------------------------------------
(***************************************************************************)
(* Results (sharedEvent).                                                  *)
(***************************************************************************)
Busy == in_flight.kind # "none"

Send(job) == wire' = Append(wire, Request(job))

\* The loop takes the oldest result.
Result(kind) ==
    /\ mode.kind # "over"
    /\ queue # <<>>
    /\ Head(queue).kind = kind
    /\ queue' = Tail(queue)
    /\ UNCHANGED <<world, filtering>>

\* Where recompute may leave the cursor: every task may have lost its row to
\* a filter, or to a fold above it; but without a filter some task has one.
Rows(t, filtered) ==
    IF t = NoTasks \/ filtered THEN DOMAIN t \union {Null} ELSE DOMAIN t

Answers(kind) == IF in_flight.kind = kind THEN Idle ELSE in_flight

\* The task the mode is about.
modeAnchor ==
    CASE mode.kind \in {"editing", "confirm_delete"} -> mode.id
      [] mode.kind = "field" -> cursor
      [] OTHER -> Null

\* Mutant: the cursor is not resolved again.
TasksLoadedInPlace ==
    /\ Result("tasks_loaded")
    /\ in_flight' = Answers("refresh")
    /\ tasks' = Head(queue).tasks
    /\ mode' = IF modeAnchor \in DOMAIN tasks' \union {Null} THEN mode ELSE List
    /\ UNCHANGED <<cursor, wire>>

TasksLoaded ==
    /\ Result("tasks_loaded")
    /\ in_flight' = Answers("refresh")
    /\ tasks' = Head(queue).tasks
    /\ cursor' \in Rows(tasks', filtering)
    /\ mode' = IF modeAnchor \in DOMAIN tasks' \union {Null} THEN mode ELSE List
    /\ UNCHANGED wire

\* Mutant: of a task that is known only the version is taken.
mergeVersions ==
    LET incoming == Head(queue).tasks IN
    tasks' = [i \in DOMAIN tasks \union DOMAIN incoming |->
                IF i \notin DOMAIN incoming THEN tasks[i]
                ELSE IF i \in DOMAIN tasks
                     THEN [tasks[i] EXCEPT !.version = incoming[i].version]
                     ELSE incoming[i]]

mergeTasks ==
    LET incoming == Head(queue).tasks IN
    tasks' = [i \in DOMAIN tasks \union DOMAIN incoming |->
                IF i \in DOMAIN incoming THEN incoming[i] ELSE tasks[i]]

CommitOk ==
    /\ Result("commit_ok")
    /\ in_flight' = Answers("commit")
    /\ mergeTasks
    /\ cursor' \in Rows(tasks', filtering)
    /\ UNCHANGED <<mode, wire>>

\* The new task is selected and opened at its priority; it has a row unless
\* the filter takes it. The mode is cleared whatever it holds by now: the title
\* that was sent, or what was typed over it since.
CreateOk ==
    /\ Result("create_ok")
    /\ in_flight' = Answers("create")
    /\ mergeTasks
    /\ cursor' \in IF filtering THEN Rows(tasks', TRUE) ELSE DOMAIN Head(queue).tasks
    /\ mode' = AtField("status")
    /\ UNCHANGED wire

\* Mutant: the slot is freed, and the fetch is nobody's.
DeleteOkIdle ==
    /\ Result("delete_ok")
    /\ in_flight' = Answers("delete")
    /\ Send(FetchRequest.job)
    /\ UNCHANGED <<tasks, cursor, mode>>

\* The children of a deleted task move, so everything is fetched again.
DeleteOk ==
    /\ Result("delete_ok")
    /\ in_flight' = IF in_flight.kind = "delete" THEN Plain("refresh") ELSE in_flight
    /\ Send(FetchRequest.job)
    /\ UNCHANGED <<tasks, cursor, mode>>

\* Mutant: the editor comes back for the task under the cursor.
restoreAtCursor ==
    IF in_flight.kind # "commit" \/ (in_flight.editor = "external" /\ in_flight.text = Null)
    THEN mode
    ELSE [in_flight EXCEPT !.kind = "editing", !.id = cursor]

\* The mode with the editor of the commit in flight, if it had one.
restoreEditor ==
    IF in_flight.kind # "commit" \/ (in_flight.editor = "external" /\ in_flight.text = Null)
    THEN mode
    ELSE [in_flight EXCEPT !.kind = "editing"]

\* Mutant: the slot is cleared with the editor in it.
ConflictDrops ==
    /\ Result("conflict")
    /\ in_flight' = Idle
    /\ mergeTasks
    /\ cursor' \in Rows(tasks', filtering)
    /\ UNCHANGED <<mode, wire>>

Conflict ==
    /\ Result("conflict")
    /\ mode' = restoreEditor
    /\ in_flight' = Idle
    /\ mergeTasks
    /\ cursor' \in Rows(tasks', filtering)
    /\ UNCHANGED wire

\* The failure of a request, or of $EDITOR.
Failed ==
    /\ \E kind \in {"request_failed", "editor_failed"} : Result(kind)
    /\ mode' = restoreEditor
    /\ in_flight' = Idle
    /\ UNCHANGED <<tasks, cursor, wire>>

\* Mutant: the patch is sent as the content.
finishBareCommit(id, patched, text, slot) ==
    /\ in_flight' = [slot EXCEPT !.kind = "commit"]
    /\ Send(Job("commit", id, tasks[id].version,
                [f \in Field |-> IF f = patched THEN text ELSE Old], patched))

\* finishCommit: the whole content goes out with one field patched, and the
\* editor moves into the slot.
finishCommit(id, patched, text, slot) ==
    /\ in_flight' = [slot EXCEPT !.kind = "commit"]
    /\ Send(Job("commit", id, tasks[id].version,
                [tasks[id].fields EXCEPT ![patched] = text], patched))

\* commitDescription: with the task gone only the text is kept.
commitDescription(editing) ==
    \/ /\ editing.id \notin DOMAIN tasks
       /\ mode' = editing
       /\ UNCHANGED <<in_flight, wire>>
    \/ /\ editing.id \in DOMAIN tasks
       /\ mode' = AtField(editing.field)
       /\ finishCommit(editing.id, "description", editing.text, editing)

\* What $EDITOR returned, if anything, belongs to the editor that is open now.
editorReturned ==
    /\ Result("editor_returned")
    /\ \/ /\ mode.kind # "editing"
          /\ UNCHANGED <<mode, in_flight, wire>>
       \/ /\ mode.kind = "editing"
          /\ Head(queue).text = Null
          /\ mode' = AtField(mode.field)
          /\ UNCHANGED <<in_flight, wire>>
       \/ /\ mode.kind = "editing"
          /\ Head(queue).text # Null
          /\ Busy
          /\ UNCHANGED <<mode, in_flight, wire>>
       \/ /\ mode.kind = "editing"
          /\ Head(queue).text # Null
          /\ ~Busy
          /\ commitDescription([mode EXCEPT !.editor = "external", !.text = Head(queue).text])
    /\ UNCHANGED <<tasks, cursor>>

-----------------------------------------------------------------------------
(***************************************************************************)
(* Keys. A key that refuseIfBusy drops changes nothing.                    *)
(***************************************************************************)
FromEditor(event) == event.kind \in {"editor_returned", "editor_failed"}

\* A key is handled in a mode.
Key(kind) ==
    /\ mode.kind = kind
    /\ TypeAhead \/ \A k \in DOMAIN queue : ~FromEditor(queue[k])
    /\ UNCHANGED <<world, tasks>>

Editable(id) == tasks[id].version < MaxVersion

Quit ==
    /\ Key("list")
    /\ mode' = Plain("over")
    /\ UNCHANGED <<cursor, filtering, in_flight, wire, queue>>

Navigate ==
    /\ Key("list")
    /\ cursor' \in DOMAIN tasks
    /\ UNCHANGED <<mode, filtering, in_flight, wire, queue>>

\* Mutant: a refresh does not wait for the request in flight.
RefreshAnyway ==
    /\ Key("list")
    /\ in_flight' = Plain("refresh")
    /\ Send(FetchRequest.job)
    /\ UNCHANGED <<cursor, mode, filtering, queue>>

Refresh ==
    /\ Key("list")
    /\ ~Busy
    /\ in_flight' = Plain("refresh")
    /\ Send(FetchRequest.job)
    /\ UNCHANGED <<cursor, mode, filtering, queue>>

\* The one edit without an editor: the slot holds an empty one.
cycleStatus ==
    /\ Key("list")
    /\ ~Busy
    /\ cursor # Null
    /\ Editable(cursor)
    /\ finishCommit(cursor, "status", Typed(cursor, "status"),
                    Mode("editing", cursor, "status", "external", Null))
    /\ UNCHANGED <<cursor, mode, filtering, queue>>

openPrompt ==
    /\ Key("list")
    /\ ~Busy
    /\ mode' \in {Mode("add", Null, Null, "line", Bad), Plain("filter")}
    /\ UNCHANGED <<cursor, filtering, in_flight, wire, queue>>

openConfirmDelete ==
    /\ Key("list")
    /\ ~Busy
    /\ cursor # Null
    /\ mode' = Mode("confirm_delete", cursor, Null, Null, Null)
    /\ UNCHANGED <<cursor, filtering, in_flight, wire, queue>>

Descend ==
    /\ Key("list")
    /\ cursor # Null
    /\ mode' = AtField("title")
    /\ UNCHANGED <<cursor, filtering, in_flight, wire, queue>>

clearFilter ==
    /\ Key("list")
    /\ filtering
    /\ filtering' = FALSE
    /\ cursor' \in Rows(tasks, FALSE)
    /\ UNCHANGED <<mode, in_flight, wire, queue>>

\* y, or n and escape.
Confirm ==
    /\ Key("confirm_delete")
    /\ mode' = List
    /\ \/ UNCHANGED <<in_flight, wire>>
       \/ /\ ~Busy
          /\ in_flight' = Mode("delete", mode.id, Null, Null, Null)
          /\ Send(Job("delete", mode.id, 0, Null, Null))
    /\ UNCHANGED <<cursor, filtering, queue>>

\* An expression, or an emptied prompt; one that is refused changes nothing.
applyFilter ==
    /\ Key("filter")
    /\ mode' = List
    /\ filtering' \in BOOLEAN
    /\ cursor' \in Rows(tasks, filtering')
    /\ UNCHANGED <<in_flight, wire, queue>>

\* Enter in the add prompt, which stays open and goes on taking keys. The title
\* that was sent is in the request and in the slot.
submitAdd ==
    /\ Key("add")
    /\ ~Busy
    /\ mode.text # Bad
    /\ in_flight' = Mode("create", Null, Null, Null, mode.text)
    /\ Send(Job("create", Null, 0, Titled(mode.text), Null))
    /\ UNCHANGED <<cursor, mode, filtering, queue>>

stepField ==
    /\ Key("field")
    /\ \E f \in Field : mode' = AtField(f)
    /\ UNCHANGED <<cursor, filtering, in_flight, wire, queue>>

\* runEditor: the text of a changed file, nothing, or an $EDITOR that does not
\* start, which is a cancel and then a failure.
runEditor(id) ==
    \/ \E text \in {Typed(id, "description"), Null} :
            queue' = Append(queue, Event("editor_returned", NoTasks, text))
    \/ queue' = queue \o <<Event("editor_returned", NoTasks, Null),
                           Event("editor_failed", NoTasks, Null)>>

openEditor ==
    /\ Key("field")
    /\ ~Busy
    /\ cursor # Null
    /\ Editable(cursor)
    /\ \/ /\ mode.field # "description"
          /\ mode' = Mode("editing", cursor, mode.field, EditorOf(mode.field),
                          tasks[cursor].fields[mode.field])
          /\ UNCHANGED queue
       \/ /\ mode.field = "description"
          /\ Len(queue) < MaxQueue
          /\ mode' = Mode("editing", cursor, mode.field, "external", Null)
          /\ runEditor(cursor)
    /\ UNCHANGED <<cursor, filtering, in_flight, wire>>

\* Keys that change the text of a line, or turn a picker.
Type ==
    /\ mode.editor \in {"line", "picker"}
    /\ \/ /\ Key("editing")
          /\ mode' \in {[mode EXCEPT !.text = Typed(mode.id, mode.field)],
                        [mode EXCEPT !.text = IF mode.editor = "line" THEN Bad ELSE @]}
       \/ /\ Key("add")
          /\ mode' \in {[mode EXCEPT !.text = t] : t \in Title \union {Bad}}
    /\ UNCHANGED <<cursor, filtering, in_flight, wire, queue>>

\* Enter in an editor, which stays open when its text is refused.
commitEdit ==
    /\ Key("editing")
    /\ ~Busy
    /\ mode.text \notin {Bad, Null}
    /\ mode.id \in DOMAIN tasks => tasks[mode.id].version <= MaxVersion
    /\ \/ /\ mode.editor = "external"
          /\ commitDescription(mode)
       \/ /\ mode.editor # "external"
          /\ mode.id \in DOMAIN tasks
          /\ mode' = AtField(mode.field)
          /\ finishCommit(mode.id, mode.field, mode.text, mode)
    /\ UNCHANGED <<cursor, filtering, queue>>

\* Escape: one level up. What was typed is given up.
Escape ==
    /\ \/ /\ Key("editing")
          /\ mode' = AtField(mode.field)
          /\ UNCHANGED cursor
       \/ /\ \E kind \in {"add", "filter"} : Key(kind)
          /\ mode' = List
          /\ UNCHANGED cursor
       \/ /\ Key("field")
          /\ mode' = List
          /\ cursor' \in Rows(tasks, filtering)
    /\ UNCHANGED <<filtering, in_flight, wire, queue>>

Handle ==
    \/ TasksLoaded \/ CommitOk \/ CreateOk \/ DeleteOk \/ Conflict \/ Failed \/ editorReturned

KeyPress ==
    \/ Quit \/ Navigate \/ Refresh \/ cycleStatus \/ openPrompt \/ openConfirmDelete
    \/ Descend \/ clearFilter \/ Confirm \/ applyFilter \/ submitAdd \/ stepField
    \/ openEditor \/ Type \/ commitEdit \/ Escape

Next == Serve \/ runRequest \/ Elsewhere \/ Handle \/ KeyPress

Spec == Init /\ [][Next]_vars

-----------------------------------------------------------------------------
(***************************************************************************)
(* Properties. With TypeAhead some of them fail: the result of $EDITOR      *)
(* names no task, and its failure no request.                              *)
(***************************************************************************)
TypeOK ==
    /\ IsTasks(server) /\ IsTasks(tasks)
    /\ DOMAIN server \subseteq used /\ used \subseteq Id
    /\ cursor \in DOMAIN tasks \union {Null}
    /\ mode.kind \in {"list", "field", "editing", "filter", "add", "confirm_delete", "over"}
    /\ in_flight.kind \in {"none", "commit", "create", "delete", "refresh"}
    /\ \A m \in {mode, in_flight} :
        /\ m.id \in Id \union {Null}
        /\ m.field \in Field \union {Null}
        /\ m.editor \in {"line", "picker", "external", Null}
        /\ m.text \in Text
    /\ filtering \in BOOLEAN

ResultsOf(kind) ==
    CASE kind = "commit" -> {"commit_ok", "conflict", "request_failed"}
      [] kind = "create" -> {"create_ok", "request_failed"}
      [] kind = "delete" -> {"delete_ok", "request_failed"}
      [] kind = "refresh" -> {"tasks_loaded", "request_failed"}
      [] kind = "none" -> {}

Outstanding == Len(wire) + Cardinality({k \in DOMAIN queue : ~FromEditor(queue[k])})

\* The slot tells the truth: something is in flight exactly while one request
\* of its kind is at a worker or its result waits, so the client is never busy
\* for ever and never has two mutations under way.
SlotIsRequest ==
    /\ Outstanding = (IF Busy THEN 1 ELSE 0)
    /\ \A k \in DOMAIN wire : wire[k].job.kind = in_flight.kind
    /\ \A k \in DOMAIN queue :
        FromEditor(queue[k]) \/ queue[k].kind \in ResultsOf(in_flight.kind)

\* "There is no optimistic write": what is on the screen is what the server had
\* at the version shown, never a value it has not accepted.
NoOptimism ==
    \A i \in DOMAIN tasks \intersect DOMAIN server :
        /\ tasks[i].version <= server[i].version
        /\ tasks[i].version = server[i].version => tasks[i] = server[i]

\* Whatever conflicts, failures and refreshes do to the cursor, text reaches
\* no task and no field but those it was typed for.
TextLandsWhereTyped ==
    \A i \in DOMAIN server, f \in Field : server[i].fields[f] \in {Old, Theirs, Typed(i, f)}

\* A commit sends the whole content, and changes one field of what the server
\* has, whatever other clients did before.
CommitsOneField ==
    [][\A k \in DOMAIN wire :
        LET job == wire[k].job IN
        wire[k].result = Null /\ ServeCommit(k) /\ server' # server =>
            server' = [server EXCEPT ![job.id].version = @ + 1,
                                     ![job.id].fields[job.field] = job.fields[job.field]]]_vars

\* Text the user typed and has neither saved nor given up: in the mode, in the
\* slot of a commit, whose editor may come back, or on its way from $EDITOR.
Held ==
    LET waiting == {queue[k].text : k \in {n \in DOMAIN queue : FromEditor(queue[n])}}
        slot == IF in_flight.kind = "commit" THEN in_flight.text ELSE Null IN
    ({mode.text, slot} \union waiting) \ {Old, Theirs, Bad, Null}

\* An answer has the text in a task, or as the title of the new one.
Saves(event, text) ==
    \/ event.text = text
    \/ \E i \in DOMAIN event.tasks, f \in Field : event.tasks[i].fields[f] = text

\* The prompt of a create in flight holds something else by now.
TypedOver == mode.kind = "add" /\ mode.text # in_flight.text

\* Typed text survives every failure and every conflict: it is let go only by
\* a key that gives it up, or by the answer that it was saved. There is one
\* exception: what was typed into the add prompt after Enter goes with the
\* prompt when the create succeeds, saved nowhere.
TextIsSafe ==
    [][\A text \in Held \ Held' :
        \/ (Escape \/ Type) /\ text = mode.text
        \/ (CommitOk \/ CreateOk) /\ text = in_flight.text /\ Saves(Head(queue), text)
        \/ CreateOk /\ TypedOver /\ text = mode.text]_vars

\* The screen never goes back to an older version of a task.
NoGoingBack ==
    [][\A i \in DOMAIN tasks \intersect DOMAIN tasks' :
        tasks[i].version <= tasks'[i].version]_vars

-----------------------------------------------------------------------------
(***************************************************************************)
(* What comments say, and the code does not do.                            *)
(***************************************************************************)
\* The comment on create_ok: the cursor lands on the new task, so that it does
\* not vanish; and it is this task whose priority is offered next.
CreatedIsUnderCursor ==
    [][CreateOk => cursor' \in DOMAIN Head(queue).tasks]_vars

\* The comment on failEvent: only one request is ever outstanding, so that the
\* error it reports is its own. A failure of $EDITOR empties the slot of a
\* request that a key typed ahead has sent in the meantime.
OneOutstanding == Outstanding <= 1
=============================================================================
