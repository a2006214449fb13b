------------------------------- MODULE TuiProofs -------------------------------
(***************************************************************************)
(* Proofs about Tui, for any tasks, other clients and bounds. They come in *)
(* two layers.                                                             *)
(*                                                                         *)
(* DataInv says what the client's copies are worth, and needs nothing of   *)
(* the order in which keys and results are handled: every copy of a task,  *)
(* on the screen, at a worker or in the queue, is the task at some version *)
(* up to the server's, and at the server's version it is the server's      *)
(* task. It holds with TypeAhead too.                                      *)
(*                                                                         *)
(* LoopInv says how the slot, the wire, the queue and the mode go together *)
(* when no key is handled before a result of $EDITOR: at most one of the   *)
(* three, a request, its result or a return of $EDITOR, is under way, and  *)
(* while it is the mode can be only the one that waits for it.             *)
(***************************************************************************)
EXTENDS Tui, SequenceTheorems, FiniteSetTheorems, TLAPS

-----------------------------------------------------------------------------
(***************************************************************************)
(* The kinds of things, and copies of the server's tasks.                  *)
(***************************************************************************)
Known == UNION {[ids -> Task] : ids \in SUBSET Id}

EventKind == {"tasks_loaded", "commit_ok", "create_ok", "delete_ok", "conflict",
              "request_failed", "editor_returned", "editor_failed"}
Events == [kind: EventKind, tasks: Known, text: Value \union {Null}]
          \union [kind: {"create_ok"}, tasks: Known, text: Title]

JobKind == {"commit", "create", "delete", "refresh"}
Jobs == [kind: JobKind, id: Id \union {Null}, version: Nat,
         fields: [Field -> Value \union Title] \union {Null}, field: Field \union {Null}]
Requests == [job: Jobs, result: Events \union {Null}]

Modes == [kind: {"list", "field", "editing", "filter", "add", "confirm_delete", "over",
                 "none", "commit", "create", "delete", "refresh"},
          id: Id \union {Null}, field: Field \union {Null},
          editor: {"line", "picker", "external", Null}, text: Text]

\* An editor, open or in the slot, is about a field of a task, and its text is
\* something that field may hold, something refused, or nothing yet. The add
\* prompt holds a title or something refused, the slot of a create a title.
EditorFits(m) ==
    /\ m \in Modes
    /\ m.kind \in {"editing", "commit"} =>
        m.id \in Id /\ m.field \in Field /\ m.text \in Value \union {Bad, Null}
    /\ m.kind = "field" => m.field \in Field
    /\ m.kind = "add" => m.text \in Title \union {Bad}
    /\ m.kind = "create" => m.text \in Title

ModeKind == {"list", "field", "editing", "filter", "add", "confirm_delete", "over"}
ModeFits(m) == EditorFits(m) /\ m.kind \in ModeKind
SlotFits(m) == EditorFits(m) /\ m.kind \in JobKind \union {"none"}

\* What t holds, a server has held that now holds s and has given the ids u.
Seen(t, s, u) ==
    /\ t \in Known
    /\ DOMAIN t \subseteq u
    /\ \A i \in DOMAIN t \intersect DOMAIN s :
        /\ t[i].version <= s[i].version
        /\ t[i].version = s[i].version => t[i] = s[i]

\* The job of a commit is such a copy of its task, but for the one field.
JobFits(j, s, u) ==
    /\ j.kind = "create" => j.fields["title"] \in Title
    /\ j.kind = "commit" =>
        /\ j.id \in u /\ j.field \in Field /\ j.fields \in [Field -> Value]
        /\ j.id \in DOMAIN s =>
            /\ j.version <= s[j.id].version
            /\ j.version = s[j.id].version =>
                \A f \in Field \ {j.field} : j.fields[f] = s[j.id].fields[f]

RequestFits(r, s, u) ==
    /\ JobFits(r.job, s, u)
    /\ r.result = Null \/ Seen(r.result.tasks, s, u)

DataInv ==
    /\ server \in Known /\ DOMAIN server \subseteq used /\ used \subseteq Id
    /\ Seen(tasks, server, used)
    /\ cursor \in DOMAIN tasks \union {Null}
    /\ ModeFits(mode) /\ SlotFits(in_flight)
    /\ filtering \in BOOLEAN
    /\ wire \in Seq(Requests)
    /\ \A k \in DOMAIN wire : RequestFits(wire[k], server, used)
    /\ queue \in Seq(Events)
    /\ \A k \in DOMAIN queue : Seen(queue[k].tasks, server, used)

-----------------------------------------------------------------------------
(***************************************************************************)
(* One thing at a time.                                                    *)
(***************************************************************************)
Allowed(i, f) == {Old, Theirs, Typed(i, f)}

\* Text is only where it was typed for.
Proper(t) == \A i \in DOMAIN t, f \in Field : t[i].fields[f] \in Allowed(i, f)

\* A result is no older than what is on the screen.
Fresh(t, screen) == \A i \in DOMAIN t \intersect DOMAIN screen : screen[i].version <= t[i].version

\* An event that answers the request of the slot: when it is a success, the
\* text in the slot is saved.
Answer(e, slot, screen) ==
    /\ e.kind \in ResultsOf(slot.kind)
    /\ e.text = IF e.kind = "create_ok" THEN slot.text ELSE Null
    /\ e.kind = "commit_ok" => slot.text = Null \/ Saves(e, slot.text)
    /\ Proper(e.tasks) /\ Fresh(e.tasks, screen)

\* A job takes the text in the slot along.
Carries(j, slot) ==
    /\ j.kind = "commit" =>
        slot.text = Null \/ (j.field \in Field /\ j.fields[j.field] = slot.text)
    /\ j.kind = "create" => j.fields["title"] = slot.text

\* The request of the slot, at a worker.
Proceeds(r, slot, screen) ==
    /\ r.job.kind = slot.kind
    /\ Carries(r.job, slot)
    /\ slot.kind = "commit" => \A f \in Field : r.job.fields[f] \in Allowed(r.job.id, f)
    /\ r.result = Null \/ Answer(r.result, slot, screen)

\* Nothing is under way; or a worker has the request of the slot; or its result
\* waits for the loop.
Quiet == in_flight.kind = "none" /\ wire = <<>> /\ queue = <<>>

AtWorker ==
    /\ in_flight.kind # "none" /\ Len(wire) = 1 /\ queue = <<>>
    /\ Proceeds(wire[1], in_flight, tasks)

Posted ==
    /\ in_flight.kind # "none" /\ wire = <<>> /\ Len(queue) = 1
    /\ Answer(queue[1], in_flight, tasks)

\* $EDITOR has run, for the empty editor that is open, or has failed for one
\* that is closed again.
Returned(text) == Event("editor_returned", NoTasks, text)
NotStarted == Event("editor_failed", NoTasks, Null)

EditorBack ==
    /\ in_flight.kind = "none"
    /\ wire = <<>>
    /\ \/ /\ mode.kind = "editing" /\ mode.editor = "external" /\ mode.text = Null
          /\ \/ \E text \in {Typed(mode.id, "description"), Null} : queue = <<Returned(text)>>
             \/ queue = <<Returned(Null), NotStarted>>
       \/ mode.kind = "field" /\ queue = <<NotStarted>>

\* An editor holds the text of its own field of its own task.
OwnText(m) ==
    /\ m.text \in Allowed(m.id, m.field) \union {Bad, Null}
    /\ m.editor = "external" => m.field = "description" \/ m.text = Null

\* What may be open while what is in the slot: an editor never waits behind a
\* request, and only an editor, the add prompt and their requests hold text.
ModesAgree(m, slot) ==
    /\ m.kind \in {"editing", "confirm_delete", "filter"} => slot.kind = "none"
    /\ m.kind = "add" => slot.kind \in {"none", "create"}
    /\ m.kind = "editing" =>
        /\ OwnText(m)
        /\ m.editor = "external" => m.field = "description"
    /\ m.kind \notin {"editing", "add"} => m.text = Null
    /\ slot.kind = "commit" => OwnText(slot)
    /\ slot.kind \notin {"commit", "create"} => slot.text = Null

LoopInv ==
    /\ ~TypeAhead
    /\ Quiet \/ AtWorker \/ Posted \/ EditorBack
    /\ Proper(server) /\ Proper(tasks)
    /\ ModesAgree(mode, in_flight)

-----------------------------------------------------------------------------
(***************************************************************************)
(* Sequences: what is in one after a step was in it before, or is new.     *)
(***************************************************************************)
LEMMA Appended ==
    ASSUME NEW S, NEW s \in Seq(S), NEW e \in S
    PROVE  /\ Append(s, e) \in Seq(S)
           /\ \A k \in DOMAIN Append(s, e) :
                Append(s, e)[k] = e \/ \E j \in DOMAIN s : Append(s, e)[k] = s[j]
  OBVIOUS

LEMMA Dequeued ==
    ASSUME NEW S, NEW s \in Seq(S), s # <<>>
    PROVE  /\ Head(s) = s[1] /\ 1 \in DOMAIN s /\ Head(s) \in S
           /\ Tail(s) \in Seq(S)
           /\ \A k \in DOMAIN Tail(s) : \E j \in DOMAIN s : Tail(s)[k] = s[j]
<1>1. Len(s) \in Nat /\ Len(s) # 0
  OBVIOUS
<1>2. \A k \in DOMAIN Tail(s) : k + 1 \in DOMAIN s /\ Tail(s)[k] = s[k + 1]
  BY <1>1
<1>3. QED  BY <1>1, <1>2

LEMMA LastOne ==
    ASSUME NEW S, NEW s \in Seq(S), Len(s) = 1
    PROVE  Tail(s) = <<>>
<1>1. Tail(s) \in Seq(S) /\ Len(Tail(s)) = 0
  OBVIOUS
<1>2. QED  BY <1>1, EmptySeq

LEMMA HeadOne == \A a : Head(<<a>>) = a /\ Tail(<<a>>) = <<>>
<1> SUFFICES ASSUME NEW a
             PROVE  Head(<<a>>) = a /\ Tail(<<a>>) = <<>>
  OBVIOUS
<1>1. <<a>> \in Seq({a}) /\ Len(<<a>>) = 1
  OBVIOUS
<1>2. QED  BY <1>1, LastOne

LEMMA HeadTwo == \A a, b : Head(<<a, b>>) = a /\ Tail(<<a, b>>) = <<b>>
<1> SUFFICES ASSUME NEW a, NEW b
             PROVE  Head(<<a, b>>) = a /\ Tail(<<a, b>>) = <<b>>
  OBVIOUS
<1>1. /\ Tail(<<a, b>>) \in Seq({a, b}) /\ <<b>> \in Seq({a, b})
      /\ Len(Tail(<<a, b>>)) = 1 /\ Tail(<<a, b>>)[1] = b
  OBVIOUS
<1>2. Tail(<<a, b>>) = <<b>>
  BY <1>1, SeqEqual
<1>3. QED  BY <1>2

LEMMA Removed ==
    ASSUME NEW S, NEW s \in Seq(S), NEW n \in DOMAIN s
    PROVE  /\ RemoveAt(s, n) \in Seq(S)
           /\ \A k \in DOMAIN RemoveAt(s, n) : \E j \in DOMAIN s : RemoveAt(s, n)[k] = s[j]
<1> DEFINE a == SubSeq(s, 1, n - 1)
           b == SubSeq(s, n + 1, Len(s))
<1>1. n \in 1..Len(s) /\ Len(s) \in Nat
  OBVIOUS
<1>2. a \in Seq(S) /\ Len(a) = n - 1 /\ \A k \in 1..(n - 1) : a[k] = s[k]
  BY <1>1, SubSeqProperties
<1>3. b \in Seq(S) /\ Len(b) = Len(s) - n /\ \A k \in 1..(Len(s) - n) : b[k] = s[n + k]
  <2>1. n + 1 \in 1..Len(s) + 1 /\ Len(s) \in n..Len(s)
    BY <1>1
  <2>2. \A i \in (n + 1)..Len(s) : s[i] \in S
    BY <1>1
  <2>3. QED  BY <1>1, <2>1, <2>2
<1>4. RemoveAt(s, n) = a \o b
  BY DEF RemoveAt
<1> HIDE DEF a, b
<1>5. a \o b \in Seq(S) /\ Len(a \o b) = Len(s) - 1
  BY <1>1, <1>2, <1>3
<1>6. ASSUME NEW k \in DOMAIN (a \o b)
      PROVE  \E j \in DOMAIN s : (a \o b)[k] = s[j]
  <2>1. k \in 1..(Len(s) - 1)
    BY <1>1, <1>5, <1>6
  <2>2. CASE k <= n - 1
    BY <1>1, <1>2, <1>3, <2>1, <2>2
  <2>3. CASE k > n - 1
    <3> DEFINE m == k - (n - 1)
    <3>1. m \in 1..(Len(s) - n) /\ n + m \in 1..Len(s)
      BY <1>1, <2>1, <2>3
    <3>2. (a \o b)[k] = b[m]
      BY <1>1, <1>2, <1>3, <2>1, <2>3
    <3> HIDE DEF m
    <3>3. b[m] = s[n + m]
      BY <1>3, <3>1
    <3>4. QED  BY <3>1, <3>2, <3>3
  <2>4. QED  BY <1>1, <2>1, <2>2, <2>3
<1>7. QED  BY <1>4, <1>5, <1>6

-----------------------------------------------------------------------------
(***************************************************************************)
(* Copies keep their worth while the server moves on.                      *)
(***************************************************************************)
\* A server that holds s and has given the ids u may come to t and v: no id is
\* given twice, and a task that changes has a later version.
Later(s, u, t, v) ==
    /\ u \subseteq v
    /\ \A i \in DOMAIN t \intersect u :
        i \in DOMAIN s /\ (t[i] = s[i] \/ s[i].version < t[i].version)

LEMMA InKnown ==
    ASSUME NEW t
    PROVE  t \in Known <=> \E ids \in SUBSET Id : t \in [ids -> Task]
  BY DEF Known

LEMMA KnownTask ==
    ASSUME NEW t \in Known, NEW i \in DOMAIN t
    PROVE  /\ t[i] \in Task /\ i \in Id
           /\ t[i].version \in Nat /\ t[i].fields \in [Field -> Value]
  BY DEF Known, Task

LEMMA KnownIds == \A t \in Known : DOMAIN t \subseteq Id
  BY DEF Known

LEMMA NoTasksKnown == NoTasks \in Known /\ DOMAIN NoTasks = {}
<1>1. NoTasks \in [{} -> Task] /\ {} \in SUBSET Id
  BY DEF NoTasks
<1>2. QED  BY <1>1 DEF Known

LEMMA SeenStays ==
    ASSUME NEW x, NEW s \in Known, NEW u, NEW t \in Known, NEW v,
           Seen(x, s, u), Later(s, u, t, v)
    PROVE  Seen(x, t, v)
<1>1. x \in Known /\ DOMAIN x \subseteq v
  BY DEF Seen, Later
<1>2. ASSUME NEW i \in DOMAIN x \intersect DOMAIN t
      PROVE  /\ x[i].version <= t[i].version
             /\ x[i].version = t[i].version => x[i] = t[i]
  <2>1. i \in DOMAIN s /\ (t[i] = s[i] \/ s[i].version < t[i].version)
    BY <1>2 DEF Seen, Later
  <2>2. /\ x[i].version <= s[i].version
        /\ x[i].version = s[i].version => x[i] = s[i]
    BY <1>2, <2>1 DEF Seen
  <2>3. x[i].version \in Nat /\ s[i].version \in Nat /\ t[i].version \in Nat
    BY <1>1, <1>2, <2>1, KnownTask
  <2>4. QED  BY <2>1, <2>2, <2>3
<1>3. QED  BY <1>1, <1>2 DEF Seen

LEMMA JobStays ==
    ASSUME NEW j \in Jobs, NEW s \in Known, NEW u, NEW t \in Known, NEW v,
           JobFits(j, s, u), Later(s, u, t, v)
    PROVE  JobFits(j, t, v)
<1>1. SUFFICES ASSUME j.kind = "commit", j.id \in DOMAIN t
               PROVE  /\ j.version <= t[j.id].version
                      /\ j.version = t[j.id].version =>
                            \A f \in Field \ {j.field} : j.fields[f] = t[j.id].fields[f]
  BY DEF JobFits, Later
<1>2. /\ j.id \in DOMAIN s
      /\ t[j.id] = s[j.id] \/ s[j.id].version < t[j.id].version
  BY <1>1 DEF JobFits, Later
<1>3. /\ j.version <= s[j.id].version
      /\ j.version = s[j.id].version =>
            \A f \in Field \ {j.field} : j.fields[f] = s[j.id].fields[f]
  BY <1>1, <1>2 DEF JobFits
<1>4. j.version \in Nat /\ s[j.id].version \in Nat /\ t[j.id].version \in Nat
  BY <1>1, <1>2, KnownTask DEF Jobs
<1>5. QED  BY <1>2, <1>3, <1>4

LEMMA RequestStays ==
    ASSUME NEW r \in Requests, NEW s \in Known, NEW u, NEW t \in Known, NEW v,
           RequestFits(r, s, u), Later(s, u, t, v)
    PROVE  RequestFits(r, t, v)
<1>1. r.job \in Jobs
  BY DEF Requests
<1>2. QED  BY <1>1, SeenStays, JobStays DEF RequestFits

LEMMA EmptySeen == \A s, u : Seen(NoTasks, s, u)
  BY NoTasksKnown DEF Seen

-----------------------------------------------------------------------------
(***************************************************************************)
(* The server's steps.                                                     *)
(***************************************************************************)
\* Adding, changing and deleting a task are such moves.
LEMMA WorldAdds ==
    ASSUME DataInv, NEW i \in Id \ used, NEW task \in Task
    PROVE  /\ Added(server, i, task) \in Known
           /\ DOMAIN Added(server, i, task) = DOMAIN server \union {i}
           /\ Added(server, i, task)[i] = task
           /\ Later(server, used, Added(server, i, task), used \union {i})
<1> DEFINE t == Added(server, i, task)
<1>1. server \in Known /\ DOMAIN server \subseteq used /\ used \subseteq Id
  BY DEF DataInv
<1>2. DOMAIN t = DOMAIN server \union {i} /\ t[i] = task
  BY DEF Added
<1>3. \A j \in DOMAIN server : t[j] = server[j]
  BY <1>1 DEF Added
<1>4. t \in [DOMAIN server \union {i} -> Task]
  BY <1>1, KnownTask DEF Added
<1>5. t \in Known
  BY <1>1, <1>4 DEF Known
<1>6. Later(server, used, t, used \union {i})
  BY <1>1, <1>2, <1>3 DEF Later
<1>7. QED  BY <1>2, <1>5, <1>6

LEMMA WorldChanges ==
    ASSUME DataInv, NEW i \in DOMAIN server, NEW task \in Task,
           server[i].version < task.version
    PROVE  /\ [server EXCEPT ![i] = task] \in Known
           /\ DOMAIN [server EXCEPT ![i] = task] = DOMAIN server
           /\ Later(server, used, [server EXCEPT ![i] = task], used)
<1> DEFINE t == [server EXCEPT ![i] = task]
<1>1. server \in Known /\ DOMAIN server \subseteq used
  BY DEF DataInv
<1>2. server \in [DOMAIN server -> Task] /\ DOMAIN server \subseteq Id
  BY <1>1 DEF Known
<1>3. t \in [DOMAIN server -> Task]
  BY <1>2
<1>4. t \in Known
  BY <1>2, <1>3 DEF Known
<1>5. Later(server, used, t, used)
  BY <1>2 DEF Later
<1>6. QED  BY <1>4, <1>5

LEMMA WorldDeletes ==
    ASSUME DataInv, NEW ids
    PROVE  /\ [j \in DOMAIN server \ ids |-> server[j]] \in Known
           /\ Later(server, used, [j \in DOMAIN server \ ids |-> server[j]], used)
<1> DEFINE t == [j \in DOMAIN server \ ids |-> server[j]]
<1>1. server \in Known /\ DOMAIN server \subseteq used
  BY DEF DataInv
<1>2. server \in [DOMAIN server -> Task] /\ DOMAIN server \subseteq Id
  BY <1>1 DEF Known
<1>3. t \in [DOMAIN server \ ids -> Task]
  BY <1>2
<1>4. t \in Known
  BY <1>2, <1>3 DEF Known
<1>5. Later(server, used, t, used)
  BY <1>2 DEF Later
<1>6. QED  BY <1>4, <1>5

LEMMA WorldStays == DataInv => Later(server, used, server, used)
  BY DEF DataInv, Later

\* What is in the client is worth as much after such a move.
WorldMoved ==
    /\ Later(server, used, server', used')
    /\ server' \in Known /\ DOMAIN server' \subseteq used' /\ used' \subseteq Id

LEMMA ClientStays ==
    ASSUME DataInv, WorldMoved
    PROVE  /\ Seen(tasks, server', used')
           /\ \A k \in DOMAIN wire : RequestFits(wire[k], server', used')
           /\ \A k \in DOMAIN queue : Seen(queue[k].tasks, server', used')
<1>1. server \in Known /\ wire \in Seq(Requests)
  BY DEF DataInv
<1>2. \A k \in DOMAIN wire : wire[k] \in Requests
  BY <1>1
<1>3. Seen(tasks, server', used')
  BY <1>1, SeenStays DEF DataInv, WorldMoved
<1>4. ASSUME NEW k \in DOMAIN wire  PROVE RequestFits(wire[k], server', used')
  BY <1>1, <1>2, RequestStays DEF DataInv, WorldMoved
<1>5. ASSUME NEW k \in DOMAIN queue  PROVE Seen(queue[k].tasks, server', used')
  BY <1>1, SeenStays DEF DataInv, WorldMoved
<1>6. QED  BY <1>3, <1>4, <1>5

LEMMA WorldStep ==
    ASSUME DataInv, WorldMoved, UNCHANGED <<model, wire, queue>>
    PROVE  DataInv'
<1>1. /\ Seen(tasks, server', used')
      /\ \A k \in DOMAIN wire : RequestFits(wire[k], server', used')
      /\ \A k \in DOMAIN queue : Seen(queue[k].tasks, server', used')
  BY ClientStays
<1>2. QED  BY <1>1 DEF DataInv, WorldMoved, model

\* A result is typed, and worth something, when it is made.
Sound(e, s, u) == e \in Events /\ Seen(e.tasks, s, u)

LEMMA SoundEvent ==
    ASSUME NEW kind \in EventKind, NEW t, NEW s, NEW u, Seen(t, s, u),
           NEW text \in Value \union {Null}
    PROVE  Sound(Event(kind, t, text), s, u)
  BY DEF Sound, Event, Events, Seen

LEMMA FailedSound == \A s, u : Sound(RequestFailed, s, u)
<1>1. "request_failed" \in EventKind
  BY DEF EventKind
<1>2. QED  BY <1>1, SoundEvent, EmptySeen DEF RequestFailed

LEMMA AnswerStep ==
    ASSUME DataInv, WorldMoved, UNCHANGED <<model, queue>>, NEW k \in DOMAIN wire,
           NEW e, Sound(e, server', used'), wire' = [wire EXCEPT ![k].result = e]
    PROVE  DataInv'
<1>1. /\ Seen(tasks, server', used')
      /\ \A j \in DOMAIN wire : RequestFits(wire[j], server', used')
      /\ \A j \in DOMAIN queue : Seen(queue[j].tasks, server', used')
  BY ClientStays
<1>2. wire \in Seq(Requests) /\ wire[k] \in Requests
  BY DEF DataInv
<1>3. e \in Events /\ Seen(e.tasks, server', used')
  BY DEF Sound
<1> DEFINE r == [wire[k] EXCEPT !.result = e]
<1>4. r \in Requests /\ r.job = wire[k].job /\ r.result = e
  BY <1>2, <1>3 DEF Requests
<1>5. RequestFits(r, server', used')
  BY <1>1, <1>3, <1>4 DEF RequestFits
<1>6. wire' = [wire EXCEPT ![k] = r]
  OBVIOUS
<1> HIDE DEF r
<1>7. wire' \in Seq(Requests) /\ DOMAIN wire' = DOMAIN wire
  BY <1>2, <1>4, <1>6
<1>8. \A j \in DOMAIN wire' : RequestFits(wire'[j], server', used')
  BY <1>1, <1>2, <1>5, <1>6
<1>9. QED  BY <1>1, <1>7, <1>8 DEF DataInv, WorldMoved, model

\* A copy made of the server as it is.
LEMMA SeenNow ==
    ASSUME NEW s \in Known, NEW u, NEW t \in Known, DOMAIN t \subseteq u,
           \A i \in DOMAIN t \intersect DOMAIN s : t[i] = s[i]
    PROVE  Seen(t, s, u)
<1>1. ASSUME NEW i \in DOMAIN t \intersect DOMAIN s
      PROVE  t[i].version <= s[i].version
  BY KnownTask
<1>2. QED  BY <1>1 DEF Seen

LEMMA OneKnown ==
    ASSUME NEW i \in Id, NEW task \in Task
    PROVE  /\ [j \in {i} |-> task] \in Known
           /\ DOMAIN [j \in {i} |-> task] = {i}
           /\ [j \in {i} |-> task][i] = task
<1>1. [j \in {i} |-> task] \in [{i} -> Task] /\ {i} \in SUBSET Id
  OBVIOUS
<1>2. QED  BY <1>1 DEF Known

LEMMA FetchStep ==
    ASSUME DataInv, NEW k \in DOMAIN wire, ServeFetch(k), UNCHANGED <<model, queue>>
    PROVE  DataInv'
<1>1. server' = server /\ used' = used
  BY DEF ServeFetch, world
<1>2. server \in Known /\ DOMAIN server \subseteq used /\ used \subseteq Id
  BY DEF DataInv
<1>3. WorldMoved
  BY <1>1, <1>2, WorldStays DEF WorldMoved
<1>4. Seen(server, server, used)
  BY <1>2, SeenNow
<1>5. Sound(Event("tasks_loaded", server, Null), server, used)
  BY <1>4, SoundEvent DEF EventKind
<1>6. PICK e \in {Event("tasks_loaded", server, Null), RequestFailed} :
          wire' = [wire EXCEPT ![k].result = e]
  BY DEF ServeFetch, Answered
<1>7. Sound(e, server', used')
  BY <1>1, <1>5, FailedSound
<1>8. QED  BY <1>3, <1>6, <1>7, AnswerStep

LEMMA UnreachedStep ==
    ASSUME DataInv, NEW k \in DOMAIN wire, Unreached(k), UNCHANGED <<model, queue>>
    PROVE  DataInv'
<1>1. server' = server /\ used' = used
  BY DEF Unreached, world
<1>2. WorldMoved
  BY <1>1, WorldStays DEF WorldMoved, DataInv
<1>3. QED  BY <1>2, FailedSound, AnswerStep DEF Unreached

\* What a request holds.
LEMMA AtWire ==
    ASSUME DataInv, NEW k \in DOMAIN wire
    PROVE  /\ wire[k] \in Requests /\ wire[k].job \in Jobs
           /\ JobFits(wire[k].job, server, used)
<1>1. wire[k] \in Requests
  BY DEF DataInv
<1>2. QED  BY <1>1 DEF DataInv, RequestFits, Requests

LEMMA CommitStep ==
    ASSUME DataInv, NEW k \in DOMAIN wire, ServeCommit(k), UNCHANGED <<model, queue>>
    PROVE  DataInv'
<1> DEFINE job == wire[k].job
           current == [i \in {job.id} |-> server[i]]
           next == [version |-> job.version + 1, fields |-> job.fields]
<1>1. /\ job \in Jobs /\ job.kind = "commit" /\ JobFits(job, server, used)
      /\ used' = used
  BY AtWire DEF ServeCommit
<1>2. server \in Known /\ DOMAIN server \subseteq used /\ used \subseteq Id
  BY DEF DataInv
<1>3. job.id \in used /\ job.id \in Id /\ next \in Task
  BY <1>1, <1>2 DEF JobFits, Jobs, Task
<1>4. CASE server' = server /\ Answered(k, RequestFailed)
  <2>1. WorldMoved
    BY <1>1, <1>2, <1>4, WorldStays DEF WorldMoved
  <2>2. QED  BY <1>4, <2>1, FailedSound, AnswerStep DEF Answered
<1>5. CASE /\ job.id \in DOMAIN server /\ server' = server
           /\ Answered(k, Event("conflict", current, Null))
  <2>1. WorldMoved
    BY <1>1, <1>2, <1>5, WorldStays DEF WorldMoved
  <2>2. current = [i \in {job.id} |-> server[job.id]] /\ server[job.id] \in Task
    BY <1>2, <1>5, KnownTask
  <2>3. current \in Known /\ DOMAIN current = {job.id} /\ current[job.id] = server[job.id]
    BY <1>3, <2>2, OneKnown
  <2> HIDE DEF current
  <2>4. Seen(current, server, used)
    BY <1>2, <1>3, <2>3, SeenNow
  <2>5. Sound(Event("conflict", current, Null), server, used)
    BY <2>4, SoundEvent DEF EventKind
  <2>6. PICK e \in {Event("conflict", current, Null), RequestFailed} :
            wire' = [wire EXCEPT ![k].result = e]
    BY <1>5 DEF Answered
  <2>7. Sound(e, server', used')
    BY <1>1, <1>5, <2>5, FailedSound
  <2>8. QED  BY <2>1, <2>6, <2>7, AnswerStep
<1>6. CASE /\ job.id \in DOMAIN server /\ job.version = server[job.id].version
           /\ server' = [server EXCEPT ![job.id] = next]
           /\ Answered(k, Event("commit_ok", [i \in {job.id} |-> next], Null))
  <2>1. server[job.id].version < next.version
    BY <1>2, <1>6, KnownTask
  <2> HIDE DEF next
  <2>2. /\ server' \in Known /\ DOMAIN server' = DOMAIN server
        /\ Later(server, used, server', used)
    BY <1>3, <1>6, <2>1, WorldChanges
  <2>3. WorldMoved
    BY <1>1, <1>2, <2>2 DEF WorldMoved
  <2> DEFINE one == [i \in {job.id} |-> next]
  <2>4. one \in Known /\ DOMAIN one = {job.id} /\ one[job.id] = next
    BY <1>3, OneKnown
  <2>5. server'[job.id] = next
    BY <1>6
  <2> HIDE DEF one
  <2>6. Seen(one, server', used')
    BY <1>1, <1>3, <2>2, <2>4, <2>5, SeenNow
  <2>7. Sound(Event("commit_ok", one, Null), server', used')
    BY <2>6, SoundEvent DEF EventKind
  <2>8. PICK e \in {Event("commit_ok", one, Null), RequestFailed} :
            wire' = [wire EXCEPT ![k].result = e]
    BY <1>6 DEF Answered, one
  <2>9. QED  BY <2>3, <2>7, <2>8, FailedSound, AnswerStep
<1>7. QED  BY <1>4, <1>5, <1>6 DEF ServeCommit

LEMMA NewTask ==
    [version |-> 1, fields |-> NewFields] \in Task /\ NewFields \in [Field -> Value]
  BY DEF Task, NewFields, Value

LEMMA CreateStep ==
    ASSUME DataInv, NEW k \in DOMAIN wire, ServeCreate(k), UNCHANGED <<model, queue>>
    PROVE  DataInv'
<1> DEFINE new == [version |-> 1, fields |-> NewFields]
           title == wire[k].job.fields["title"]
<1>1. PICK i \in Id \ used :
        /\ server' = Added(server, i, new)
        /\ used' = used \union {i}
        /\ Answered(k, Event("create_ok", [j \in {i} |-> new], title))
  BY DEF ServeCreate
<1>2. new \in Task /\ title \in Title
  BY AtWire, NewTask DEF ServeCreate, JobFits
<1>3. DOMAIN server \subseteq used /\ used \subseteq Id
  BY DEF DataInv
<1> HIDE DEF new, title
<1> DEFINE one == [j \in {i} |-> new]
<1>4. /\ server' \in Known /\ DOMAIN server' = DOMAIN server \union {i} /\ server'[i] = new
      /\ Later(server, used, server', used')
  BY <1>1, <1>2, WorldAdds
<1>5. WorldMoved
  BY <1>1, <1>3, <1>4 DEF WorldMoved
<1>6. one \in Known /\ DOMAIN one = {i} /\ one[i] = new
  BY <1>2, OneKnown
<1> HIDE DEF one
<1>7. Seen(one, server', used')
  BY <1>1, <1>4, <1>6, SeenNow
<1>8. Sound(Event("create_ok", one, title), server', used')
  BY <1>2, <1>7 DEF Sound, Event, Events, Seen
<1>9. PICK e \in {Event("create_ok", one, title), RequestFailed} :
          wire' = [wire EXCEPT ![k].result = e]
  BY <1>1 DEF Answered, one
<1>10. QED  BY <1>5, <1>8, <1>9, FailedSound, AnswerStep

LEMMA DeleteStep ==
    ASSUME DataInv, NEW k \in DOMAIN wire, ServeDelete(k), UNCHANGED <<model, queue>>
    PROVE  DataInv'
<1>1. /\ server' = [i \in DOMAIN server \ {wire[k].job.id} |-> server[i]]
      /\ used' = used
  BY DEF ServeDelete
<1>2. server' \in Known /\ Later(server, used, server', used')
  BY <1>1, WorldDeletes
<1>3. WorldMoved
  BY <1>1, <1>2 DEF WorldMoved, DataInv
<1>4. Sound(Event("delete_ok", NoTasks, Null), server', used')
  BY EmptySeen, SoundEvent DEF EventKind
<1>5. PICK e \in {Event("delete_ok", NoTasks, Null), RequestFailed} :
          wire' = [wire EXCEPT ![k].result = e]
  BY DEF ServeDelete, Answered
<1>6. QED  BY <1>3, <1>4, <1>5, FailedSound, AnswerStep

LEMMA ServeData == DataInv /\ Serve => DataInv'
<1> SUFFICES ASSUME DataInv, UNCHANGED <<model, queue>>, NEW k \in DOMAIN wire,
                    ServeFetch(k) \/ ServeCommit(k) \/ ServeCreate(k) \/ ServeDelete(k)
                        \/ Unreached(k)
             PROVE  DataInv'
  BY DEF Serve
<1>1. QED  BY FetchStep, CommitStep, CreateStep, DeleteStep, UnreachedStep

LEMMA PostData == DataInv /\ runRequest => DataInv'
<1> SUFFICES ASSUME DataInv, NEW k \in DOMAIN wire, wire[k].result # Null,
                    queue' = Append(queue, wire[k].result), wire' = RemoveAt(wire, k),
                    UNCHANGED <<world, model>>
             PROVE  DataInv'
  BY DEF runRequest
<1>1. wire \in Seq(Requests) /\ queue \in Seq(Events)
  BY DEF DataInv
<1>2. /\ wire[k].result \in Events
      /\ Seen(wire[k].result.tasks, server, used)
  BY AtWire DEF Requests, DataInv, RequestFits
<1>3. /\ queue' \in Seq(Events)
      /\ \A j \in DOMAIN queue' : Seen(queue'[j].tasks, server, used)
  <2> DEFINE e == wire[k].result
  <2> HIDE DEF e
  <2>1. e \in Events /\ Seen(e.tasks, server, used) /\ queue' = Append(queue, e)
    BY <1>2 DEF e
  <2>2. /\ Append(queue, e) \in Seq(Events)
        /\ \A j \in DOMAIN Append(queue, e) :
                Append(queue, e)[j] = e \/ \E i \in DOMAIN queue : Append(queue, e)[j] = queue[i]
    BY <1>1, <2>1, Appended
  <2>3. QED  BY <2>1, <2>2 DEF DataInv
<1>4. /\ wire' \in Seq(Requests)
      /\ \A j \in DOMAIN wire' : RequestFits(wire'[j], server, used)
  BY <1>1, Removed DEF DataInv
<1>5. QED  BY <1>3, <1>4 DEF DataInv, world, model

LEMMA ElsewhereData == DataInv /\ Elsewhere => DataInv'
<1> SUFFICES ASSUME DataInv, Elsewhere
             PROVE  WorldMoved
  <2>1. Elsewhere => UNCHANGED <<model, wire, queue>>
    BY DEF Elsewhere
  <2>2. QED  BY <2>1, WorldStep
<1>1. server \in Known /\ DOMAIN server \subseteq used /\ used \subseteq Id
  BY DEF DataInv
<1>2. ASSUME NEW i \in Id \ used,
             server' = Added(server, i, [version |-> 1, fields |-> NewFields]),
             used' = used \union {i}
      PROVE  WorldMoved
  BY <1>1, <1>2, NewTask, WorldAdds DEF WorldMoved
<1>3. ASSUME NEW i \in DOMAIN server, NEW f \in Contested, used' = used,
             server' = [server EXCEPT ![i].version = @ + 1, ![i].fields[f] = Theirs]
      PROVE  WorldMoved
  <2> DEFINE task == [version |-> server[i].version + 1,
                      fields |-> [server[i].fields EXCEPT ![f] = Theirs]]
  <2>1. server[i] \in Task /\ server[i].version \in Nat
    BY <1>1, KnownTask
  <2>2. task \in Task /\ server[i].version < task.version
    BY <2>1, TuiAssumption DEF Task, Field, Value
  <2>3. server' = [server EXCEPT ![i] = task]
    <3>1. \A j \in DOMAIN server : server[j] \in Task
      BY <1>1, KnownTask
    <3>2. server'[i] = task
      BY <1>3, <2>1 DEF Task
    <3>3. server \in [DOMAIN server -> Task]
      BY <1>1 DEF Known
    <3>4. QED  BY <1>3, <3>2, <3>3
  <2> HIDE DEF task
  <2>4. /\ server' \in Known /\ DOMAIN server' = DOMAIN server
        /\ Later(server, used, server', used)
    BY <2>2, <2>3, WorldChanges
  <2>5. used' = used
    BY <1>3
  <2>6. QED  BY <1>1, <2>4, <2>5 DEF WorldMoved
<1>4. ASSUME NEW i \in DOMAIN server, used' = used,
             server' = [j \in DOMAIN server \ {i} |-> server[j]]
      PROVE  WorldMoved
  BY <1>1, <1>4, WorldDeletes DEF WorldMoved
<1>5. QED  BY <1>2, <1>3, <1>4 DEF Elsewhere

-----------------------------------------------------------------------------
(***************************************************************************)
(* The client's steps.                                                     *)
(***************************************************************************)
\* The wire is as it was, or carries one more sound job.
WireGoesOn == wire' = wire \/ \E j \in Jobs : JobFits(j, server, used) /\ Send(j)

LEMMA WireData ==
    ASSUME DataInv, WireGoesOn
    PROVE  /\ wire' \in Seq(Requests)
           /\ \A k \in DOMAIN wire' : RequestFits(wire'[k], server, used)
<1>1. wire \in Seq(Requests) /\ \A k \in DOMAIN wire : RequestFits(wire[k], server, used)
  BY DEF DataInv
<1>2. ASSUME NEW j \in Jobs, JobFits(j, server, used), Send(j)
      PROVE  /\ wire' \in Seq(Requests)
             /\ \A k \in DOMAIN wire' : RequestFits(wire'[k], server, used)
  <2> DEFINE r == Request(j)
  <2>1. r \in Requests /\ RequestFits(r, server, used)
    BY <1>2 DEF Request, Requests, RequestFits
  <2>2. wire' = Append(wire, r)
    BY <1>2 DEF Send
  <2> HIDE DEF r
  <2>3. /\ Append(wire, r) \in Seq(Requests)
        /\ \A k \in DOMAIN Append(wire, r) :
             Append(wire, r)[k] = r \/ \E i \in DOMAIN wire : Append(wire, r)[k] = wire[i]
    BY <1>1, <2>1, Appended
  <2>4. QED  BY <1>1, <2>1, <2>2, <2>3
<1>3. QED  BY <1>1, <1>2 DEF WireGoesOn

\* The queue holds sound results.
QueueData ==
    /\ queue' \in Seq(Events)
    /\ \A k \in DOMAIN queue' : Seen(queue'[k].tasks, server, used)

LEMMA ClientStep ==
    ASSUME DataInv, UNCHANGED world, Seen(tasks', server, used),
           cursor' \in DOMAIN tasks' \union {Null},
           ModeFits(mode'), SlotFits(in_flight'), filtering' \in BOOLEAN,
           WireGoesOn, QueueData
    PROVE  DataInv'
<1>1. /\ wire' \in Seq(Requests)
      /\ \A k \in DOMAIN wire' : RequestFits(wire'[k], server, used)
  BY WireData
<1>2. QED  BY <1>1 DEF DataInv, QueueData, world

LEMMA QueueStays == DataInv /\ UNCHANGED queue => QueueData
  BY DEF DataInv, QueueData

LEMMA RowsData == \A t, b : \A c \in Rows(t, b) : c \in DOMAIN t \union {Null}
  BY DEF Rows

\* Modes and slots.
LEMMA PlainModes ==
    ASSUME NEW kind \in {"list", "filter", "over"}
    PROVE  ModeFits(Plain(kind)) /\ Plain(kind).text = Null /\ Plain(kind).kind = kind
  BY DEF ModeFits, EditorFits, Modes, ModeKind, Plain, Mode, Text

LEMMA PlainSlots ==
    ASSUME NEW kind \in {"none", "refresh"}
    PROVE  SlotFits(Plain(kind)) /\ Plain(kind).text = Null /\ Plain(kind).kind = kind
  BY DEF SlotFits, EditorFits, Modes, JobKind, Plain, Mode, Text

LEMMA FieldModes ==
    ASSUME NEW f \in Field
    PROVE  ModeFits(AtField(f)) /\ AtField(f).text = Null /\ AtField(f).kind = "field"
  BY DEF ModeFits, EditorFits, Modes, ModeKind, AtField, Mode, Text

LEMMA AnswersSlot == DataInv => \A kind : SlotFits(Answers(kind))
  BY PlainSlots DEF DataInv, Answers, Idle

LEMMA RestoredMode == DataInv => ModeFits(restoreEditor)
<1> SUFFICES ASSUME DataInv
             PROVE  ModeFits(restoreEditor)
  OBVIOUS
<1>1. CASE in_flight.kind # "commit" \/ (in_flight.editor = "external" /\ in_flight.text = Null)
  BY <1>1 DEF restoreEditor, DataInv
<1>2. CASE ~(in_flight.kind # "commit" \/ (in_flight.editor = "external" /\ in_flight.text = Null))
  <2>1. in_flight \in Modes /\ in_flight.kind = "commit" /\ EditorFits(in_flight)
    BY <1>2 DEF DataInv, SlotFits, EditorFits
  <2>2. restoreEditor = [in_flight EXCEPT !.kind = "editing"]
    BY <1>2 DEF restoreEditor
  <2>3. QED  BY <2>1, <2>2 DEF ModeFits, ModeKind, EditorFits, Modes
<1>3. QED  BY <1>1, <1>2

\* A commit is made from the copy on the screen.
LEMMA FinishCommitData ==
    ASSUME DataInv, NEW id \in DOMAIN tasks, NEW patched \in Field, NEW text \in Value,
           NEW slot, EditorFits(slot), slot.kind = "editing",
           finishCommit(id, patched, text, slot)
    PROVE  SlotFits(in_flight') /\ WireGoesOn
<1>1. SlotFits(in_flight')
  BY DEF finishCommit, SlotFits, EditorFits, Modes, JobKind
<1> DEFINE j == Job("commit", id, tasks[id].version,
                    [tasks[id].fields EXCEPT ![patched] = text], patched)
<1>2. Seen(tasks, server, used)
  BY DEF DataInv
<1>3. id \in Id /\ id \in used /\ tasks[id].version \in Nat /\ tasks[id].fields \in [Field -> Value]
  BY <1>2, KnownTask DEF Seen
<1>4. j \in Jobs
  BY <1>3 DEF Job, Jobs, JobKind
<1>5. /\ j.id = id /\ j.field = patched /\ j.kind = "commit" /\ j.version = tasks[id].version
      /\ j.fields \in [Field -> Value]
      /\ \A f \in Field \ {patched} : j.fields[f] = tasks[id].fields[f]
  BY <1>3 DEF Job
<1>6. Send(j)
  BY DEF finishCommit
<1> HIDE DEF j
<1>7. id \in DOMAIN server =>
        /\ tasks[id].version <= server[id].version
        /\ tasks[id].version = server[id].version => tasks[id] = server[id]
  BY <1>2 DEF Seen
<1>8. JobFits(j, server, used)
  BY <1>3, <1>5, <1>7 DEF JobFits
<1>9. QED  BY <1>1, <1>4, <1>6, <1>8 DEF WireGoesOn

LEMMA FetchData == DataInv /\ Send(FetchRequest.job) => WireGoesOn
<1>1. /\ FetchRequest.job \in Jobs
      /\ FetchRequest.job.kind = "refresh"
  BY DEF FetchRequest, Request, Job, Jobs, JobKind
<1>2. JobFits(FetchRequest.job, server, used)
  BY <1>1 DEF JobFits
<1>3. QED  BY <1>1, <1>2 DEF WireGoesOn

\* What the loop takes from the queue.
LEMMA ResultData ==
    ASSUME DataInv, NEW kind, Result(kind)
    PROVE  /\ Head(queue) \in Events /\ Head(queue) = queue[1] /\ 1 \in DOMAIN queue
           /\ Seen(Head(queue).tasks, server, used)
           /\ QueueData /\ UNCHANGED world /\ filtering' \in BOOLEAN
<1>1. queue \in Seq(Events) /\ queue # <<>> /\ queue' = Tail(queue)
  BY DEF DataInv, Result
<1>2. QED  BY <1>1, Dequeued DEF Result, DataInv, QueueData

LEMMA MergeData ==
    ASSUME DataInv, NEW kind, Result(kind), mergeTasks
    PROVE  /\ Seen(tasks', server, used)
           /\ DOMAIN tasks' = DOMAIN tasks \union DOMAIN Head(queue).tasks
           /\ \A i \in DOMAIN tasks' : tasks'[i] = IF i \in DOMAIN Head(queue).tasks
                                                   THEN Head(queue).tasks[i] ELSE tasks[i]
<1> DEFINE x == Head(queue).tasks
<1>1. Seen(x, server, used) /\ Seen(tasks, server, used)
  BY ResultData DEF DataInv
<1>2. tasks' = [i \in DOMAIN tasks \union DOMAIN x |-> IF i \in DOMAIN x THEN x[i] ELSE tasks[i]]
  BY DEF mergeTasks
<1> HIDE DEF x
<1>3. tasks' \in Known
  <2>1. \A i \in DOMAIN x : x[i] \in Task /\ i \in Id
    BY <1>1, KnownTask DEF Seen
  <2>2. \A i \in DOMAIN tasks : tasks[i] \in Task /\ i \in Id
    BY <1>1, KnownTask DEF Seen
  <2>3. tasks' \in [DOMAIN tasks \union DOMAIN x -> Task]
    BY <1>2, <2>1, <2>2
  <2>4. DOMAIN tasks \union DOMAIN x \in SUBSET Id
    BY <2>1, <2>2
  <2>5. QED  BY <2>3, <2>4, InKnown
<1>4. Seen(tasks', server, used)
  BY <1>1, <1>2, <1>3 DEF Seen
<1>5. QED  BY <1>2, <1>4 DEF x

LEMMA CommitDescriptionData ==
    ASSUME DataInv, NEW editing, EditorFits(editing), editing.kind = "editing",
           editing.text \in Value, commitDescription(editing)
    PROVE  ModeFits(mode') /\ SlotFits(in_flight') /\ WireGoesOn
<1>1. CASE /\ mode' = editing
           /\ UNCHANGED <<in_flight, wire>>
  BY <1>1 DEF ModeFits, ModeKind, DataInv, WireGoesOn
<1>2. CASE /\ editing.id \in DOMAIN tasks
           /\ mode' = AtField(editing.field)
           /\ finishCommit(editing.id, "description", editing.text, editing)
  <2>1. ModeFits(mode')
    BY <1>2, FieldModes DEF EditorFits
  <2>2. QED  BY <1>2, <2>1, FinishCommitData DEF Field
<1>3. QED  BY <1>1, <1>2 DEF commitDescription

\* Results leave the data sound.
LEMMA HandleData == DataInv /\ Handle => DataInv'
<1> SUFFICES ASSUME DataInv, Handle
             PROVE  DataInv'
  OBVIOUS
<1>1. ModeFits(mode) /\ SlotFits(in_flight) /\ (wire' = wire => WireGoesOn)
  BY DEF DataInv, WireGoesOn
<1>2. Seen(tasks, server, used) /\ cursor \in DOMAIN tasks \union {Null}
  BY DEF DataInv
<1>3. CASE TasksLoaded
  <2>1. Seen(tasks', server, used) /\ QueueData /\ UNCHANGED world /\ filtering' \in BOOLEAN
    BY <1>3, ResultData DEF TasksLoaded
  <2>2. ModeFits(mode') /\ SlotFits(in_flight')
    BY <1>1, <1>3, PlainModes, AnswersSlot DEF TasksLoaded, List
  <2>3. cursor' \in DOMAIN tasks' \union {Null} /\ WireGoesOn
    BY <1>1, <1>3, RowsData DEF TasksLoaded
  <2>4. QED  BY <2>1, <2>2, <2>3, ClientStep
<1>4. CASE CommitOk
  <2>1. QueueData /\ UNCHANGED world /\ filtering' \in BOOLEAN /\ Seen(tasks', server, used)
    BY <1>4, ResultData, MergeData DEF CommitOk
  <2>2. ModeFits(mode') /\ SlotFits(in_flight')
    BY <1>1, <1>4, AnswersSlot DEF CommitOk
  <2>3. cursor' \in DOMAIN tasks' \union {Null} /\ WireGoesOn
    BY <1>1, <1>4, RowsData DEF CommitOk
  <2>4. QED  BY <2>1, <2>2, <2>3, ClientStep
<1>5. CASE CreateOk
  <2>1. /\ QueueData /\ UNCHANGED world /\ filtering' \in BOOLEAN /\ Seen(tasks', server, used)
        /\ DOMAIN Head(queue).tasks \subseteq DOMAIN tasks'
    BY <1>5, ResultData, MergeData DEF CreateOk
  <2>2. ModeFits(mode') /\ SlotFits(in_flight')
    BY <1>1, <1>5, AnswersSlot, FieldModes DEF CreateOk, Field
  <2>3. cursor' \in DOMAIN tasks' \union {Null} /\ WireGoesOn
    BY <1>1, <1>5, <2>1, RowsData DEF CreateOk
  <2>4. QED  BY <2>1, <2>2, <2>3, ClientStep
<1>6. CASE DeleteOk
  <2>1. QueueData /\ UNCHANGED world /\ filtering' \in BOOLEAN
    BY <1>6, ResultData DEF DeleteOk
  <2>2. ModeFits(mode') /\ SlotFits(in_flight')
    BY <1>1, <1>6, PlainSlots DEF DeleteOk
  <2>3. Seen(tasks', server, used) /\ cursor' \in DOMAIN tasks' \union {Null} /\ WireGoesOn
    BY <1>2, <1>6, FetchData DEF DeleteOk
  <2>4. QED  BY <2>1, <2>2, <2>3, ClientStep
<1>7. CASE Conflict
  <2>1. QueueData /\ UNCHANGED world /\ filtering' \in BOOLEAN /\ Seen(tasks', server, used)
    BY <1>7, ResultData, MergeData DEF Conflict
  <2>2. ModeFits(mode') /\ SlotFits(in_flight')
    BY <1>7, RestoredMode, PlainSlots DEF Conflict, Idle
  <2>3. cursor' \in DOMAIN tasks' \union {Null} /\ WireGoesOn
    BY <1>1, <1>7, RowsData DEF Conflict
  <2>4. QED  BY <2>1, <2>2, <2>3, ClientStep
<1>8. CASE Failed
  <2>1. QueueData /\ UNCHANGED world /\ filtering' \in BOOLEAN
    BY <1>8, ResultData DEF Failed
  <2>2. ModeFits(mode') /\ SlotFits(in_flight')
    BY <1>8, RestoredMode, PlainSlots DEF Failed, Idle
  <2>3. Seen(tasks', server, used) /\ cursor' \in DOMAIN tasks' \union {Null} /\ WireGoesOn
    BY <1>1, <1>2, <1>8 DEF Failed
  <2>4. QED  BY <2>1, <2>2, <2>3, ClientStep
<1>9. CASE editorReturned
  <2>1. QueueData /\ UNCHANGED world /\ filtering' \in BOOLEAN
    BY <1>9, ResultData DEF editorReturned
  <2>2. Seen(tasks', server, used) /\ cursor' \in DOMAIN tasks' \union {Null}
    BY <1>2, <1>9 DEF editorReturned
  <2>3. ModeFits(mode') /\ SlotFits(in_flight') /\ WireGoesOn
    <3>1. CASE UNCHANGED <<mode, in_flight, wire>>
      BY <1>1, <3>1
    <3>2. CASE mode.kind = "editing" /\ mode' = AtField(mode.field) /\ UNCHANGED <<in_flight, wire>>
      BY <1>1, <3>2, FieldModes DEF ModeFits, EditorFits
    <3>3. CASE /\ mode.kind = "editing" /\ Head(queue).text # Null
               /\ commitDescription([mode EXCEPT !.editor = "external", !.text = Head(queue).text])
      <4> DEFINE editing == [mode EXCEPT !.editor = "external", !.text = Head(queue).text]
      <4>1. Head(queue).text \in Value
        BY <1>9, <3>3, ResultData DEF editorReturned, Events, Result
      <4>2. EditorFits(editing) /\ editing.kind = "editing" /\ editing.text \in Value
        BY <1>1, <3>3, <4>1 DEF ModeFits, EditorFits, Modes, Text
      <4>3. commitDescription(editing)
        BY <3>3
      <4> HIDE DEF editing
      <4>4. QED  BY <4>2, <4>3, CommitDescriptionData
    <3>4. QED  BY <1>9, <3>1, <3>2, <3>3 DEF editorReturned
  <2>4. QED  BY <2>1, <2>2, <2>3, ClientStep
<1>10. QED
  BY <1>3, <1>4, <1>5, <1>6, <1>7, <1>8, <1>9 DEF Handle

LEMMA EditorOfFits == \A f \in Field : EditorOf(f) \in {"line", "picker", "external"}
  BY DEF EditorOf, Field

LEMMA RunEditorData ==
    ASSUME DataInv, NEW id \in Id, runEditor(id)
    PROVE  QueueData
<1>1. /\ queue \in Seq(Events)
      /\ \A k \in DOMAIN queue : Seen(queue[k].tasks, server, used)
  BY DEF DataInv
<1>2. ASSUME NEW q \in Seq(Events), \A k \in DOMAIN q : Seen(q[k].tasks, server, used),
             NEW kind \in EventKind, NEW text \in Value \union {Null}
      PROVE  LET e == Event(kind, NoTasks, text) IN
             /\ Append(q, e) \in Seq(Events)
             /\ \A k \in DOMAIN Append(q, e) : Seen(Append(q, e)[k].tasks, server, used)
  <2> DEFINE e == Event(kind, NoTasks, text)
  <2>1. e \in Events /\ Seen(e.tasks, server, used)
    BY EmptySeen, SoundEvent DEF Sound
  <2> HIDE DEF e
  <2>2. /\ Append(q, e) \in Seq(Events)
        /\ \A k \in DOMAIN Append(q, e) :
             Append(q, e)[k] = e \/ \E j \in DOMAIN q : Append(q, e)[k] = q[j]
    BY <2>1, Appended
  <2>3. QED  BY <1>2, <2>1, <2>2 DEF e
<1>3. CASE \E text \in {Typed(id, "description"), Null} :
                queue' = Append(queue, Event("editor_returned", NoTasks, text))
  <2>1. Typed(id, "description") \in Value
    BY DEF Typed, Value, Field
  <2>2. QED  BY <1>1, <1>2, <1>3, <2>1 DEF EventKind, QueueData
<1>4. CASE queue' = queue \o <<Event("editor_returned", NoTasks, Null),
                               Event("editor_failed", NoTasks, Null)>>
  <2> DEFINE a == Event("editor_returned", NoTasks, Null)
             b == Event("editor_failed", NoTasks, Null)
  <2>1. /\ Append(queue, a) \in Seq(Events)
        /\ \A k \in DOMAIN Append(queue, a) : Seen(Append(queue, a)[k].tasks, server, used)
    BY <1>1, <1>2 DEF EventKind
  <2> DEFINE q == Append(queue, a)
  <2> HIDE DEF q
  <2>2. q \in Seq(Events) /\ \A k \in DOMAIN q : Seen(q[k].tasks, server, used)
    BY <2>1 DEF q
  <2>3. /\ Append(q, b) \in Seq(Events)
        /\ \A k \in DOMAIN Append(q, b) : Seen(Append(q, b)[k].tasks, server, used)
    BY <1>2, <2>2 DEF EventKind
  <2>4. queue' = Append(q, b)
    <3> HIDE DEF a, b
    <3>1. queue' = queue \o <<a, b>>
      BY <1>4 DEF a, b
    <3>2. QED  BY <1>1, <3>1 DEF q
  <2>5. QED  BY <2>3, <2>4 DEF QueueData
<1>5. QED  BY <1>3, <1>4 DEF runEditor

\* The task under the cursor has a row, and is on the screen.
LEMMA UnderCursor ==
    ASSUME DataInv, cursor # Null
    PROVE  cursor \in DOMAIN tasks /\ cursor \in Id /\ tasks[cursor].fields \in [Field -> Value]
<1>1. cursor \in DOMAIN tasks /\ tasks \in Known
  BY DEF DataInv, Seen
<1>2. QED  BY <1>1, KnownTask

LEMMA OpenEditorData ==
    ASSUME DataInv, openEditor
    PROVE  ModeFits(mode') /\ QueueData
<1>1. cursor \in DOMAIN tasks /\ cursor \in Id /\ tasks[cursor].fields \in [Field -> Value]
  BY UnderCursor DEF openEditor
<1>2. mode.kind = "field" /\ mode.field \in Field
  BY DEF openEditor, Key, DataInv, ModeFits, EditorFits
<1>3. CASE /\ mode' = Mode("editing", cursor, mode.field, EditorOf(mode.field),
                           tasks[cursor].fields[mode.field])
           /\ UNCHANGED queue
  <2> DEFINE text == tasks[cursor].fields[mode.field]
             editor == EditorOf(mode.field)
  <2>1. text \in Value /\ editor \in {"line", "picker", "external"}
    BY <1>1, <1>2, EditorOfFits
  <2> HIDE DEF text, editor
  <2>2. mode' = Mode("editing", cursor, mode.field, editor, text)
    BY <1>3 DEF text, editor
  <2>3. ModeFits(mode')
    BY <1>1, <1>2, <2>1, <2>2 DEF ModeFits, EditorFits, Modes, ModeKind, Mode, Text
  <2>4. QED  BY <1>3, <2>3, QueueStays
<1>4. CASE /\ mode' = Mode("editing", cursor, mode.field, "external", Null)
           /\ runEditor(cursor)
  <2>1. ModeFits(mode')
    BY <1>1, <1>2, <1>4 DEF ModeFits, EditorFits, Modes, ModeKind, Mode, Text
  <2>2. QED  BY <1>1, <1>4, <2>1, RunEditorData
<1>5. QED  BY <1>3, <1>4 DEF openEditor

\* Keys leave the data sound.
LEMMA KeyData == DataInv /\ KeyPress => DataInv'
<1> SUFFICES ASSUME DataInv, KeyPress
             PROVE  DataInv'
  OBVIOUS
<1>1. /\ ModeFits(mode) /\ SlotFits(in_flight) /\ filtering \in BOOLEAN
      /\ Seen(tasks, server, used) /\ cursor \in DOMAIN tasks \union {Null}
  BY DEF DataInv
<1>2. (wire' = wire => WireGoesOn) /\ (queue' = queue => QueueData)
  BY QueueStays DEF WireGoesOn
<1>3. UNCHANGED <<world, tasks>>
  BY DEF KeyPress, Key, Quit, Navigate, Refresh, cycleStatus, openPrompt, openConfirmDelete,
     Descend, clearFilter, Confirm, applyFilter, submitAdd, stepField, openEditor, Type,
     commitEdit, Escape
<1>4. Seen(tasks', server, used) /\ DOMAIN tasks' = DOMAIN tasks
  BY <1>1, <1>3
<1>5. ASSUME cursor' \in DOMAIN tasks \union {Null}, ModeFits(mode'), SlotFits(in_flight'),
             filtering' \in BOOLEAN, WireGoesOn, QueueData
      PROVE  DataInv'
  BY <1>3, <1>4, <1>5, ClientStep
<1>6. CASE Quit \/ Descend \/ stepField
  <2>1. ModeFits(mode')
    BY <1>6, PlainModes, FieldModes DEF Quit, Descend, stepField, Field
  <2>2. QED  BY <1>1, <1>2, <1>5, <1>6, <2>1 DEF Quit, Descend, stepField
<1>7. CASE Navigate \/ clearFilter
  BY <1>1, <1>2, <1>5, <1>7, RowsData DEF Navigate, clearFilter
<1>8. CASE Refresh
  BY <1>1, <1>2, <1>5, <1>8, PlainSlots, FetchData DEF Refresh
<1>9. CASE cycleStatus
  <2> DEFINE slot == Mode("editing", cursor, "status", "external", Null)
             text == Typed(cursor, "status")
  <2>1. cursor \in DOMAIN tasks /\ cursor \in Id
    BY <1>9, UnderCursor DEF cycleStatus
  <2>2. EditorFits(slot) /\ slot.kind = "editing"
    BY <2>1 DEF EditorFits, Modes, Mode, Field, Text
  <2>3. text \in Value /\ "status" \in Field
    BY <2>1 DEF Typed, Value, Field
  <2> HIDE DEF slot, text
  <2>4. finishCommit(cursor, "status", text, slot)
    BY <1>9 DEF cycleStatus, slot, text
  <2>5. SlotFits(in_flight') /\ WireGoesOn
    BY <2>1, <2>2, <2>3, <2>4, FinishCommitData
  <2>6. QED  BY <1>1, <1>2, <1>5, <1>9, <2>5 DEF cycleStatus
<1>10. CASE openPrompt
  <2>1. ModeFits(Mode("add", Null, Null, "line", Bad))
    BY DEF ModeFits, EditorFits, Modes, ModeKind, Mode, Text
  <2>2. QED  BY <1>1, <1>2, <1>5, <1>10, <2>1, PlainModes DEF openPrompt
<1>11. CASE openConfirmDelete
  <2>1. cursor \in Id
    BY <1>11, UnderCursor DEF openConfirmDelete
  <2>2. ModeFits(Mode("confirm_delete", cursor, Null, Null, Null))
    BY <2>1 DEF ModeFits, EditorFits, Modes, ModeKind, Mode, Text
  <2>3. QED  BY <1>1, <1>2, <1>5, <1>11, <2>2 DEF openConfirmDelete
<1>12. CASE Confirm
  <2>1. ModeFits(mode')
    BY <1>12, PlainModes DEF Confirm, List
  <2>2. mode.id \in Id \union {Null}
    BY <1>1 DEF ModeFits, EditorFits, Modes
  <2>3. SlotFits(Mode("delete", mode.id, Null, Null, Null))
    BY <2>2 DEF SlotFits, EditorFits, Modes, JobKind, Mode, Text
  <2>4. /\ Job("delete", mode.id, 0, Null, Null) \in Jobs
        /\ JobFits(Job("delete", mode.id, 0, Null, Null), server, used)
    BY <2>2 DEF Job, Jobs, JobKind, JobFits
  <2>5. SlotFits(in_flight') /\ WireGoesOn
    BY <1>1, <1>2, <1>12, <2>3, <2>4 DEF Confirm, WireGoesOn
  <2>6. QED  BY <1>1, <1>2, <1>5, <1>12, <2>1, <2>5 DEF Confirm
<1>13. CASE applyFilter
  BY <1>1, <1>2, <1>5, <1>13, PlainModes, RowsData DEF applyFilter, List
<1>14. CASE submitAdd
  <2> DEFINE j == Job("create", Null, 0, Titled(mode.text), Null)
             slot == Mode("create", Null, Null, Null, mode.text)
  <2>1. mode.text \in Title
    BY <1>1, <1>14 DEF submitAdd, Key, ModeFits, EditorFits
  <2>2. Titled(mode.text) \in [Field -> Value \union Title] /\ Titled(mode.text)["title"] \in Title
    BY <2>1, NewTask DEF Titled, Field
  <2>3. j \in Jobs /\ JobFits(j, server, used)
    BY <2>2 DEF Job, Jobs, JobKind, JobFits
  <2>4. SlotFits(slot)
    BY <2>1 DEF SlotFits, EditorFits, Modes, JobKind, Mode, Text
  <2>5. in_flight' = slot /\ Send(j)
    BY <1>14 DEF submitAdd
  <2> HIDE DEF j, slot
  <2>6. SlotFits(in_flight') /\ WireGoesOn
    BY <2>3, <2>4, <2>5 DEF WireGoesOn
  <2>7. QED  BY <1>1, <1>2, <1>5, <1>14, <2>6 DEF submitAdd
<1>15. CASE openEditor
  BY <1>1, <1>2, <1>5, <1>15, OpenEditorData DEF openEditor
<1>16. CASE Type
  <2>1. mode \in Modes
    BY <1>1 DEF ModeFits, EditorFits
  <2>2. ModeFits(mode')
    <3>1. CASE /\ mode.kind = "editing"
               /\ mode' \in {[mode EXCEPT !.text = Typed(mode.id, mode.field)],
                             [mode EXCEPT !.text = IF mode.editor = "line" THEN Bad ELSE @]}
      <4>1. Typed(mode.id, mode.field) \in Value
        BY <1>1, <3>1 DEF ModeFits, EditorFits, Typed, Value
      <4>2. QED  BY <1>1, <2>1, <3>1, <4>1 DEF ModeFits, ModeKind, EditorFits, Modes, Text
    <3>2. CASE /\ mode.kind = "add"
               /\ mode' \in {[mode EXCEPT !.text = t] : t \in Title \union {Bad}}
      BY <1>1, <2>1, <3>2 DEF ModeFits, ModeKind, EditorFits, Modes, Text
    <3>3. QED  BY <1>16, <3>1, <3>2 DEF Type, Key
  <2>3. QED  BY <1>1, <1>2, <1>5, <1>16, <2>2 DEF Type
<1>17. CASE commitEdit
  <2>1. /\ EditorFits(mode) /\ mode.kind = "editing" /\ mode.text \in Value
        /\ mode.field \in Field
    BY <1>1, <1>17 DEF commitEdit, Key, ModeFits, EditorFits
  <2>2. ModeFits(mode') /\ SlotFits(in_flight') /\ WireGoesOn
    <3>1. CASE commitDescription(mode)
      BY <2>1, <3>1, CommitDescriptionData
    <3>2. CASE /\ mode.id \in DOMAIN tasks
               /\ mode' = AtField(mode.field)
               /\ finishCommit(mode.id, mode.field, mode.text, mode)
      BY <2>1, <3>2, FieldModes, FinishCommitData
    <3>3. QED  BY <1>17, <3>1, <3>2 DEF commitEdit
  <2>3. QED  BY <1>1, <1>2, <1>5, <1>17, <2>2 DEF commitEdit
<1>18. CASE Escape
  <2>1. ModeFits(mode')
    BY <1>1, <1>18, PlainModes, FieldModes DEF Escape, Key, List, ModeFits, EditorFits
  <2>2. cursor' \in DOMAIN tasks \union {Null}
    BY <1>1, <1>18, RowsData DEF Escape
  <2>3. QED  BY <1>1, <1>2, <1>5, <1>18, <2>1, <2>2 DEF Escape
<1>19. QED
  BY <1>6, <1>7, <1>8, <1>9, <1>10, <1>11, <1>12, <1>13, <1>14, <1>15, <1>16, <1>17, <1>18
     DEF KeyPress

-----------------------------------------------------------------------------
(***************************************************************************)
(* What holds with keys typed ahead, too.                                  *)
(***************************************************************************)
LEMMA DataInit == Init => DataInv
<1> SUFFICES ASSUME Init
             PROVE  DataInv
  OBVIOUS
<1>1. PICK known \in SUBSET Id :
        /\ server = [i \in known |-> [version |-> 1, fields |-> NewFields]]
        /\ used = known
  BY DEF Init
<1>2. server \in Known /\ DOMAIN server = known
  <2>1. server \in [known -> Task]
    BY <1>1, NewTask
  <2>2. QED  BY <1>1, <2>1, InKnown
<1>3. ModeFits(mode) /\ SlotFits(in_flight)
  BY PlainModes, PlainSlots DEF Init, List
<1>4. /\ FetchRequest \in Requests
      /\ FetchRequest.job.kind = "refresh" /\ FetchRequest.result = Null
  BY DEF FetchRequest, Request, Requests, Job, Jobs, JobKind
<1>5. RequestFits(FetchRequest, server, used)
  BY <1>4 DEF RequestFits, JobFits
<1>6. wire \in Seq(Requests) /\ \A k \in DOMAIN wire : wire[k] = FetchRequest
  BY <1>4 DEF Init
<1>7. Seen(tasks, server, used)
  BY EmptySeen DEF Init
<1>8. QED  BY <1>1, <1>2, <1>3, <1>5, <1>6, <1>7 DEF Init, DataInv

LEMMA DataStep == DataInv /\ [Next]_vars => DataInv'
<1>1. UNCHANGED vars /\ DataInv => DataInv'
  BY DEF vars, DataInv
<1>2. QED  BY <1>1, ServeData, PostData, ElsewhereData, HandleData, KeyData DEF Next

THEOREM DataInvariant == Spec => []DataInv
  BY DataInit, DataStep, PTL DEF Spec

\* In every state, whatever is typed when: the server, the screen, the cursor,
\* the mode and the slot hold what they should; the cursor is on a task that is
\* known, or on none.
THEOREM TuiTypes == Spec => []TypeOK
<1>1. DataInv => TypeOK
  <2> SUFFICES ASSUME DataInv
               PROVE  TypeOK
    OBVIOUS
  <2>1. server \in Known /\ tasks \in Known
    BY DEF DataInv, Seen
  <2>2. IsTasks(server) /\ IsTasks(tasks)
    BY <2>1, KnownTask, KnownIds DEF IsTasks
  <2>3. mode \in Modes /\ in_flight \in Modes
    BY DEF DataInv, ModeFits, SlotFits, EditorFits
  <2>4. ASSUME NEW m \in Modes
        PROVE  /\ m.id \in Id \union {Null}
               /\ m.field \in Field \union {Null}
               /\ m.editor \in {"line", "picker", "external", Null}
               /\ m.text \in Text
    BY DEF Modes
  <2>5. QED  BY <2>2, <2>3, <2>4 DEF DataInv, ModeFits, SlotFits, ModeKind, JobKind, TypeOK
<1>2. QED  BY <1>1, DataInvariant, PTL

\* What is on the screen, the server has accepted, however keys, results and
\* other clients interleave, and whatever is lost.
THEOREM NothingUnaccepted == Spec => []NoOptimism
<1>1. DataInv => NoOptimism
  BY DEF DataInv, Seen, NoOptimism
<1>2. QED  BY <1>1, DataInvariant, PTL

\* The formula inside CommitsOneField.
OneFieldStep ==
    \A k \in DOMAIN wire :
        LET job == wire[k].job IN
        wire[k].result = Null /\ ServeCommit(k) /\ server' # server =>
            server' = [server EXCEPT ![job.id].version = @ + 1,
                                     ![job.id].fields[job.field] = job.fields[job.field]]

\* A commit that the server accepts was made from the very task it changes.
LEMMA OneFieldAction == DataInv => OneFieldStep
<1> SUFFICES ASSUME DataInv, NEW k \in DOMAIN wire, ServeCommit(k), server' # server
             PROVE  server' = [server EXCEPT
                                 ![wire[k].job.id].version = @ + 1,
                                 ![wire[k].job.id].fields[wire[k].job.field] =
                                     wire[k].job.fields[wire[k].job.field]]
  BY DEF OneFieldStep
<1> DEFINE job == wire[k].job
           id == job.id
<1>1. /\ id \in DOMAIN server /\ job.version = server[id].version /\ job.kind = "commit"
      /\ server' = [server EXCEPT ![id] = [version |-> job.version + 1, fields |-> job.fields]]
  BY DEF ServeCommit
<1>2. /\ job.fields \in [Field -> Value] /\ job.field \in Field
      /\ \A f \in Field \ {job.field} : job.fields[f] = server[id].fields[f]
  BY <1>1, AtWire DEF JobFits
<1>3. server[id] \in Task /\ server[id].fields \in [Field -> Value]
  BY <1>1, KnownTask DEF DataInv
<1> HIDE DEF job, id
<1>4. job.fields = [server[id].fields EXCEPT ![job.field] = job.fields[job.field]]
  BY <1>2, <1>3
<1>5. [version |-> job.version + 1, fields |-> job.fields]
        = [server[id] EXCEPT !.version = @ + 1, !.fields[job.field] = job.fields[job.field]]
  <2> DEFINE t == server[id]
             f == job.field
             g == job.fields
             x == job.fields[job.field]
             r == [t EXCEPT !.version = t.version + 1, !.fields[f] = x]
  <2>1. t \in Task /\ job.version = t.version /\ g = [t.fields EXCEPT ![f] = x]
    BY <1>1, <1>3, <1>4
  <2> HIDE DEF t, f, g, x
  <2>2. t = [version |-> t.version, fields |-> t.fields] /\ DOMAIN t = {"version", "fields"}
    BY <2>1 DEF Task
  <2>3. r.version = job.version + 1 /\ r.fields = g
    BY <2>1, <2>2
  <2>4. DOMAIN r = {"version", "fields"} /\ r = [y \in DOMAIN r |-> r[y]]
    BY <2>2
  <2> HIDE DEF r
  <2>5. r = [version |-> r.version, fields |-> r.fields]
    BY <2>4
  <2>6. [version |-> job.version + 1, fields |-> g] = r
    BY <2>3, <2>5
  <2>7. QED  BY <2>6 DEF r, t, f, g, x
<1>6. server' = [server EXCEPT ![id].version = @ + 1,
                               ![id].fields[job.field] = job.fields[job.field]]
  BY <1>1, <1>5
<1>7. QED  BY <1>6 DEF job, id

\* No commit carries a stale field back: what is accepted changes one field of
\* the server's task, in every interleaving.
THEOREM CommitsChangeOneField == Spec => CommitsOneField
<1>1. DataInv /\ [Next]_vars => [OneFieldStep]_vars
  BY OneFieldAction
<1>2. Spec => [][OneFieldStep]_vars
  BY <1>1, DataInvariant, PTL DEF Spec
<1>3. QED  BY <1>2 DEF CommitsOneField, OneFieldStep

-----------------------------------------------------------------------------
(***************************************************************************)
(* One thing at a time: the server's steps.                                *)
(***************************************************************************)
LEMMA LoopInit == ~TypeAhead /\ Init => LoopInv
<1> SUFFICES ASSUME ~TypeAhead, Init
             PROVE  LoopInv
  OBVIOUS
<1>1. /\ in_flight.kind = "refresh" /\ in_flight.text = Null
      /\ mode.kind = "list" /\ mode.text = Null
  BY PlainModes, PlainSlots DEF Init, List
<1>2. /\ Len(wire) = 1 /\ wire[1].job.kind = "refresh" /\ wire[1].result = Null
      /\ queue = <<>>
  BY DEF Init, FetchRequest, Request, Job
<1>3. AtWorker
  BY <1>1, <1>2 DEF AtWorker, Proceeds, Carries
<1>4. Proper(tasks)
  BY NoTasksKnown DEF Init, Proper
<1>5. Proper(server)
  BY DEF Init, Proper, NewFields, Allowed
<1>6. ModesAgree(mode, in_flight)
  BY <1>1 DEF ModesAgree
<1>7. QED  BY <1>3, <1>4, <1>5, <1>6 DEF LoopInv

\* While the server has something to do, it is the request of the slot.
LEMMA OnlyRequest ==
    ASSUME DataInv, LoopInv, NEW k \in DOMAIN wire
    PROVE  /\ k = 1 /\ AtWorker
           /\ \A e : Append(queue, e) = <<e>>
<1>1. wire # <<>>
  OBVIOUS
<1>2. AtWorker
  BY <1>1 DEF LoopInv, Quiet, Posted, EditorBack
<1>3. queue = <<>> /\ Len(wire) = 1
  BY <1>2 DEF AtWorker
<1>4. k = 1
  BY <1>3 DEF DataInv
<1>5. QED  BY <1>2, <1>3, <1>4

LEMMA FailureAnswers ==
    ASSUME NEW slot, slot.kind \in JobKind, NEW screen
    PROVE  Answer(RequestFailed, slot, screen)
  BY NoTasksKnown DEF Answer, RequestFailed, Event, ResultsOf, JobKind, Proper, Fresh

LEMMA AnswerLoop ==
    ASSUME DataInv, LoopInv, AtWorker, UNCHANGED <<model, queue>>, Proper(server'),
           NEW e, Answer(e, in_flight, tasks), wire' = [wire EXCEPT ![1].result = e]
    PROVE  LoopInv'
<1>1. wire \in Seq(Requests) /\ Len(wire) = 1 /\ wire[1] \in Requests
  BY DEF DataInv, AtWorker
<1>2. Len(wire') = 1 /\ wire'[1].job = wire[1].job /\ wire'[1].result = e
  BY <1>1 DEF Requests
<1>3. UNCHANGED <<tasks, mode, in_flight, queue>>
  BY DEF model
<1>4. AtWorker'
  BY <1>2, <1>3 DEF AtWorker, Proceeds
<1>5. QED  BY <1>3, <1>4 DEF LoopInv

\* One task, as the answer to a commit or a create.
LEMMA OneProper ==
    ASSUME NEW i, NEW task, \A f \in Field : task.fields[f] \in Allowed(i, f),
           NEW screen, i \in DOMAIN screen => screen[i].version <= task.version
    PROVE  Proper([j \in {i} |-> task]) /\ Fresh([j \in {i} |-> task], screen)
  BY DEF Proper, Fresh

LEMMA ServeCommitLoop ==
    ASSUME DataInv, LoopInv, AtWorker, ServeCommit(1), UNCHANGED <<model, queue>>
    PROVE  LoopInv'
<1> DEFINE job == wire[1].job
           current == [i \in {job.id} |-> server[i]]
           next == [version |-> job.version + 1, fields |-> job.fields]
<1>1. 1 \in DOMAIN wire
  BY DEF AtWorker, DataInv
<1>2. /\ job \in Jobs /\ JobFits(job, server, used) /\ job.kind = "commit"
      /\ in_flight.kind = "commit"
      /\ \A f \in Field : job.fields[f] \in Allowed(job.id, f)
      /\ Carries(job, in_flight)
  BY <1>1, AtWire DEF ServeCommit, AtWorker, Proceeds
<1>3. /\ server \in Known /\ Seen(tasks, server, used) /\ Proper(server)
      /\ Answer(RequestFailed, in_flight, tasks)
  BY <1>2, FailureAnswers DEF DataInv, LoopInv, JobKind
<1>4. CASE server' = server /\ Answered(1, RequestFailed)
  BY <1>3, <1>4, AnswerLoop DEF Answered
<1>5. CASE /\ job.id \in DOMAIN server /\ server' = server
           /\ Answered(1, Event("conflict", current, Null))
  <2> DEFINE task == server[job.id]
  <2>1. current = [i \in {job.id} |-> task]
    OBVIOUS
  <2>2. \A f \in Field : task.fields[f] \in Allowed(job.id, f)
    BY <1>3, <1>5 DEF Proper
  <2>3. job.id \in DOMAIN tasks => tasks[job.id].version <= task.version
    BY <1>3, <1>5 DEF Seen
  <2> HIDE DEF task, current
  <2>4. Proper(current) /\ Fresh(current, tasks)
    BY <2>1, <2>2, <2>3, OneProper
  <2>5. Answer(Event("conflict", current, Null), in_flight, tasks)
    BY <1>2, <2>4 DEF Answer, Event, ResultsOf
  <2>6. PICK e \in {Event("conflict", current, Null), RequestFailed} :
            wire' = [wire EXCEPT ![1].result = e]
    BY <1>5 DEF Answered
  <2>7. QED  BY <1>3, <1>5, <2>5, <2>6, AnswerLoop
<1>6. CASE /\ job.id \in DOMAIN server /\ job.version = server[job.id].version
           /\ server' = [server EXCEPT ![job.id] = next]
           /\ Answered(1, Event("commit_ok", [i \in {job.id} |-> next], Null))
  <2> DEFINE one == [i \in {job.id} |-> next]
  <2>1. job.id \in DOMAIN tasks => tasks[job.id].version <= next.version
    <3>1. ASSUME job.id \in DOMAIN tasks
          PROVE  /\ tasks[job.id].version <= server[job.id].version
                 /\ tasks[job.id].version \in Nat /\ server[job.id].version \in Nat
      BY <1>3, <1>6, <3>1, KnownTask DEF Seen
    <3>2. QED  BY <1>6, <3>1
  <2>2. \A f \in Field : next.fields[f] \in Allowed(job.id, f)
    BY <1>2
  <2> DEFINE ok == Event("commit_ok", one, Null)
  <2>8. ok.tasks = one /\ DOMAIN one = {job.id} /\ one[job.id].fields = job.fields
    BY DEF Event
  <2>9. in_flight.text = Null \/ Saves(ok, in_flight.text)
    BY <1>2, <2>8 DEF Carries, Saves
  <2> HIDE DEF next, ok
  <2>3. Proper(one) /\ Fresh(one, tasks)
    BY <2>1, <2>2, OneProper
  <2>4. Answer(Event("commit_ok", one, Null), in_flight, tasks)
    <3>1. ok.kind = "commit_ok" /\ ok.text = Null
      BY DEF ok, Event
    <3>2. Answer(ok, in_flight, tasks)
      BY <1>2, <2>3, <2>8, <2>9, <3>1 DEF Answer, ResultsOf
    <3>3. QED  BY <3>2 DEF ok
  <2>5. Proper(server')
    BY <1>3, <1>6, <2>2 DEF Proper
  <2>6. PICK e \in {Event("commit_ok", one, Null), RequestFailed} :
            wire' = [wire EXCEPT ![1].result = e]
    BY <1>6 DEF Answered
  <2>7. QED  BY <1>3, <2>4, <2>5, <2>6, AnswerLoop
<1>7. QED  BY <1>4, <1>5, <1>6 DEF ServeCommit

LEMMA ServeLoop == DataInv /\ LoopInv /\ Serve => LoopInv'
<1> SUFFICES ASSUME DataInv, LoopInv, Serve
             PROVE  LoopInv'
  OBVIOUS
<1>1. PICK k \in DOMAIN wire :
        /\ wire[k].result = Null
        /\ ServeFetch(k) \/ ServeCommit(k) \/ ServeCreate(k) \/ ServeDelete(k) \/ Unreached(k)
  BY DEF Serve
<1>2. k = 1 /\ AtWorker /\ UNCHANGED <<model, queue>>
  BY OnlyRequest DEF Serve
<1>3. /\ in_flight.kind = wire[1].job.kind /\ in_flight.kind \in JobKind
      /\ wire[1].job \in Jobs /\ JobFits(wire[1].job, server, used)
  BY <1>2, AtWire DEF AtWorker, Proceeds, DataInv, SlotFits
<1>4. /\ server \in Known /\ Seen(tasks, server, used) /\ DOMAIN server \subseteq used
      /\ Proper(server)
      /\ Answer(RequestFailed, in_flight, tasks)
  BY <1>3, FailureAnswers DEF DataInv, LoopInv
<1>5. CASE ServeFetch(1)
  <2>1. server' = server
    BY <1>5 DEF ServeFetch, world
  <2>2. Fresh(server, tasks)
    BY <1>4 DEF Fresh, Seen
  <2>3. Answer(Event("tasks_loaded", server, Null), in_flight, tasks)
    BY <1>3, <1>4, <1>5, <2>2 DEF ServeFetch, Answer, Event, ResultsOf
  <2>4. PICK e \in {Event("tasks_loaded", server, Null), RequestFailed} :
            wire' = [wire EXCEPT ![1].result = e]
    BY <1>5 DEF ServeFetch, Answered
  <2>5. QED  BY <1>2, <1>4, <2>1, <2>3, <2>4, AnswerLoop
<1>6. CASE ServeCreate(1)
  <2> DEFINE new == [version |-> 1, fields |-> NewFields]
             title == wire[1].job.fields["title"]
  <2>1. PICK i \in Id \ used :
          /\ server' = Added(server, i, new)
          /\ Answered(1, Event("create_ok", [j \in {i} |-> new], title))
    BY <1>6 DEF ServeCreate
  <2>2. \A f \in Field : new.fields[f] \in Allowed(i, f)
    BY DEF NewFields, Allowed
  <2>9. title = in_flight.text
    BY <1>2, <1>6 DEF ServeCreate, AtWorker, Proceeds, Carries
  <2> HIDE DEF new, title
  <2> DEFINE one == [j \in {i} |-> new]
  <2>3. i \notin DOMAIN tasks
    BY <1>4, <2>1 DEF Seen
  <2>4. Proper(one) /\ Fresh(one, tasks)
    BY <2>2, <2>3, OneProper
  <2>5. Answer(Event("create_ok", one, title), in_flight, tasks)
    BY <1>3, <1>6, <2>4, <2>9 DEF ServeCreate, Answer, Event, ResultsOf
  <2>6. Proper(server')
    BY <1>4, <2>1, <2>2 DEF Proper, Added
  <2>7. PICK e \in {Event("create_ok", one, title), RequestFailed} :
            wire' = [wire EXCEPT ![1].result = e]
    BY <2>1 DEF Answered
  <2>8. QED  BY <1>2, <1>4, <2>5, <2>6, <2>7, AnswerLoop
<1>7. CASE ServeDelete(1)
  <2>1. Proper(server')
    BY <1>4, <1>7 DEF ServeDelete, Proper
  <2>2. Answer(Event("delete_ok", NoTasks, Null), in_flight, tasks)
    BY <1>3, <1>7, NoTasksKnown DEF ServeDelete, Answer, Event, ResultsOf, Proper, Fresh
  <2>3. PICK e \in {Event("delete_ok", NoTasks, Null), RequestFailed} :
            wire' = [wire EXCEPT ![1].result = e]
    BY <1>7 DEF ServeDelete, Answered
  <2>4. QED  BY <1>2, <1>4, <2>1, <2>2, <2>3, AnswerLoop
<1>8. CASE Unreached(1)
  BY <1>2, <1>4, <1>8, AnswerLoop DEF Unreached, world
<1>9. QED  BY <1>1, <1>2, <1>5, <1>6, <1>7, <1>8, ServeCommitLoop

LEMMA PostLoop == DataInv /\ LoopInv /\ runRequest => LoopInv'
<1> SUFFICES ASSUME DataInv, LoopInv, NEW k \in DOMAIN wire, wire[k].result # Null,
                    queue' = Append(queue, wire[k].result), wire' = RemoveAt(wire, k),
                    UNCHANGED <<world, model>>
             PROVE  LoopInv'
  BY DEF runRequest
<1>1. k = 1 /\ AtWorker
  BY OnlyRequest
<1>2. wire \in Seq(Requests) /\ Len(wire) = 1
  BY <1>1 DEF DataInv, AtWorker
<1>3. wire' = <<>>
  BY <1>1, <1>2 DEF RemoveAt
<1>4. queue' = <<wire[1].result>>
  BY <1>1, OnlyRequest
<1>5. UNCHANGED <<tasks, mode, in_flight, server>>
  BY DEF model, world
<1>6. Posted'
  BY <1>1, <1>3, <1>4, <1>5 DEF AtWorker, Proceeds, Posted
<1>7. QED  BY <1>5, <1>6 DEF LoopInv

LEMMA ElsewhereLoop == DataInv /\ LoopInv /\ Elsewhere => LoopInv'
<1> SUFFICES ASSUME DataInv, LoopInv, Elsewhere
             PROVE  LoopInv'
  OBVIOUS
<1>1. UNCHANGED <<tasks, mode, in_flight, wire, queue>>
  BY DEF Elsewhere, model
<1>2. (Quiet \/ AtWorker \/ Posted \/ EditorBack)'
  BY <1>1 DEF LoopInv, Quiet, AtWorker, Posted, EditorBack
<1>3. Proper(server) /\ server \in Known
  BY DEF LoopInv, DataInv
<1>4. Proper(server')
  <2>1. ASSUME NEW i \in Id \ used,
               server' = Added(server, i, [version |-> 1, fields |-> NewFields])
        PROVE  Proper(server')
    BY <1>3, <2>1 DEF Proper, Added, NewFields, Allowed
  <2>2. ASSUME NEW i \in DOMAIN server, NEW f \in Contested,
               server' = [server EXCEPT ![i].version = @ + 1, ![i].fields[f] = Theirs]
        PROVE  Proper(server')
    <3>1. \A j \in DOMAIN server : server[j] \in Task /\ server[j].fields \in [Field -> Value]
      BY <1>3, KnownTask
    <3>2. /\ DOMAIN server' = DOMAIN server
          /\ server'[i].fields = [server[i].fields EXCEPT ![f] = Theirs]
          /\ \A j \in DOMAIN server \ {i} : server'[j] = server[j]
      BY <2>2, <3>1 DEF Task
    <3>3. \A g \in Field : server'[i].fields[g] \in Allowed(i, g)
      BY <1>3, <3>1, <3>2 DEF Proper, Allowed
    <3>4. QED  BY <1>3, <3>2, <3>3 DEF Proper
  <2>3. ASSUME NEW i \in DOMAIN server, server' = [j \in DOMAIN server \ {i} |-> server[j]]
        PROVE  Proper(server')
    BY <1>3, <2>3 DEF Proper
  <2>4. QED  BY <2>1, <2>2, <2>3 DEF Elsewhere
<1>5. QED  BY <1>1, <1>2, <1>4 DEF LoopInv

-----------------------------------------------------------------------------
(***************************************************************************)
(* One thing at a time: the client's steps.                                *)
(***************************************************************************)
LEMMA QuietLoop ==
    ASSUME LoopInv, Proper(server'), Proper(tasks'), in_flight'.kind = "none",
           wire' = <<>>, queue' = <<>>, ModesAgree(mode', in_flight')
    PROVE  LoopInv'
  BY DEF LoopInv, Quiet

LEMMA SentLoop ==
    ASSUME LoopInv, wire = <<>>, queue' = <<>>, server' = server, tasks' = tasks,
           NEW j, j.kind # "none", Send(j), in_flight'.kind = j.kind,
           j.kind = "commit" => \A f \in Field : j.fields[f] \in Allowed(j.id, f),
           Carries(j, in_flight'), ModesAgree(mode', in_flight')
    PROVE  LoopInv'
<1> DEFINE r == Request(j)
<1>1. r.job = j /\ r.result = Null
  BY DEF Request
<1> HIDE DEF r
<1>2. wire' = <<r>>
  BY DEF Send, r
<1>3. Len(wire') = 1 /\ wire'[1] = r
  BY <1>2
<1>4. AtWorker'
  BY <1>1, <1>3 DEF AtWorker, Proceeds
<1>5. QED  BY <1>4 DEF LoopInv

\* A commit carries the content on the screen, and text that belongs there.
LEMMA FinishCommitLoop ==
    ASSUME DataInv, LoopInv, wire = <<>>, queue' = <<>>, server' = server, tasks' = tasks,
           NEW id \in DOMAIN tasks, NEW patched \in Field, NEW text \in Allowed(id, patched),
           NEW slot \in Modes, OwnText(slot), slot.text \in {text, Null},
           finishCommit(id, patched, text, slot),
           mode'.kind \in {"list", "field"}, mode'.text = Null
    PROVE  LoopInv'
<1> DEFINE j == Job("commit", id, tasks[id].version,
                    [tasks[id].fields EXCEPT ![patched] = text], patched)
<1>1. tasks[id].fields \in [Field -> Value]
  BY KnownTask DEF DataInv, Seen
<1>2. \A f \in Field : tasks[id].fields[f] \in Allowed(id, f)
  BY DEF LoopInv, Proper
<1>3. j.kind = "commit" /\ \A f \in Field : j.fields[f] \in Allowed(j.id, f)
  BY <1>1, <1>2 DEF Job
<1>4. Send(j) /\ in_flight' = [slot EXCEPT !.kind = "commit"]
  BY DEF finishCommit
<1>5. in_flight'.kind = "commit" /\ OwnText(in_flight')
  BY <1>4 DEF Modes, OwnText
<1>6. ModesAgree(mode', in_flight')
  BY <1>5 DEF ModesAgree
<1>7. j.field = patched /\ j.fields[patched] = text /\ in_flight'.text = slot.text
  BY <1>1, <1>4 DEF Job, Modes
<1> HIDE DEF j
<1>8. Carries(j, in_flight')
  BY <1>3, <1>7 DEF Carries
<1>9. QED  BY <1>3, <1>4, <1>5, <1>6, <1>8, SentLoop

\* A result is the answer to the request of the slot, and the last thing under
\* way; or it comes from $EDITOR.
LEMMA Taken ==
    ASSUME DataInv, LoopInv, NEW kind, Result(kind)
    PROVE  \/ /\ Answer(Head(queue), in_flight, tasks) /\ kind \in ResultsOf(in_flight.kind)
              /\ wire = <<>> /\ queue' = <<>> /\ in_flight.kind \in JobKind
           \/ EditorBack /\ kind = Head(queue).kind /\ kind \in {"editor_returned", "editor_failed"}
<1>1. queue # <<>> /\ queue' = Tail(queue) /\ Head(queue).kind = kind
  BY DEF Result
<1>2. CASE Posted
  <2>1. Len(queue) = 1 /\ queue \in Seq(Events) /\ Head(queue) = queue[1]
    BY <1>1, <1>2, ResultData DEF Posted, DataInv
  <2>2. Tail(queue) = <<>>
    BY <2>1, LastOne
  <2>3. in_flight.kind \in JobKind
    BY <1>2 DEF Posted, DataInv, SlotFits
  <2>4. QED  BY <1>1, <1>2, <2>1, <2>2, <2>3 DEF Posted, Answer
<1>3. CASE EditorBack
  <2>1. \/ \E text : queue = <<Returned(text)>>
        \/ queue = <<Returned(Null), NotStarted>>
        \/ queue = <<NotStarted>>
    BY <1>3 DEF EditorBack
  <2>2. Head(queue).kind \in {"editor_returned", "editor_failed"}
    BY <2>1 DEF Returned, NotStarted, Event
  <2>3. QED  BY <1>1, <1>3, <2>2
<1>4. QED  BY <1>1, <1>2, <1>3 DEF LoopInv, Quiet, AtWorker

LEMMA MergeProper ==
    ASSUME DataInv, LoopInv, NEW kind, Result(kind), mergeTasks,
           Answer(Head(queue), in_flight, tasks)
    PROVE  Proper(tasks')
<1> DEFINE x == Head(queue).tasks
<1>1. Proper(x) /\ Proper(tasks)
  BY DEF Answer, LoopInv
<1>2. /\ DOMAIN tasks' = DOMAIN tasks \union DOMAIN x
      /\ \A i \in DOMAIN tasks' : tasks'[i] = IF i \in DOMAIN x THEN x[i] ELSE tasks[i]
  BY MergeData
<1> HIDE DEF x
<1>3. QED  BY <1>1, <1>2 DEF Proper

\* Only the answer to a request of its kind is taken for it.
LEMMA TakenFor ==
    ASSUME DataInv, LoopInv, NEW kind, Result(kind),
           kind \notin {"editor_returned", "editor_failed"}
    PROVE  /\ Answer(Head(queue), in_flight, tasks)
           /\ wire = <<>> /\ queue' = <<>> /\ server' = server
           /\ in_flight.kind \in JobKind
           /\ kind = "tasks_loaded" => in_flight.kind = "refresh"
           /\ kind \in {"commit_ok", "conflict"} => in_flight.kind = "commit"
           /\ kind = "create_ok" => in_flight.kind = "create"
           /\ kind = "delete_ok" => in_flight.kind = "delete"
<1>1. /\ Answer(Head(queue), in_flight, tasks) /\ kind \in ResultsOf(in_flight.kind)
      /\ wire = <<>> /\ queue' = <<>> /\ in_flight.kind \in JobKind
  BY Taken
<1>2. server' = server
  BY DEF Result, world
<1>3. QED  BY <1>1, <1>2 DEF JobKind, ResultsOf

\* The editor that comes back after a conflict or a failure.
LEMMA RestoredAgrees ==
    ASSUME DataInv, LoopInv
    PROVE  ModesAgree(restoreEditor, Idle)
<1>1. Idle.kind = "none" /\ Idle.text = Null
  BY PlainSlots DEF Idle
<1>2. CASE in_flight.kind # "commit" \/ (in_flight.editor = "external" /\ in_flight.text = Null)
  <2>1. restoreEditor = mode
    BY <1>2 DEF restoreEditor
  <2>2. QED  BY <1>1, <2>1 DEF LoopInv, ModesAgree
<1>3. CASE in_flight.kind = "commit" /\ ~(in_flight.editor = "external" /\ in_flight.text = Null)
  <2>1. restoreEditor = [in_flight EXCEPT !.kind = "editing"] /\ in_flight \in Modes
    BY <1>3 DEF restoreEditor, DataInv, SlotFits, EditorFits
  <2>2. /\ restoreEditor.kind = "editing" /\ restoreEditor.text = in_flight.text
        /\ restoreEditor.id = in_flight.id /\ restoreEditor.field = in_flight.field
        /\ restoreEditor.editor = in_flight.editor
    BY <2>1 DEF Modes
  <2>3. OwnText(in_flight)
    BY <1>3 DEF LoopInv, ModesAgree
  <2>4. QED  BY <1>1, <1>3, <2>2, <2>3 DEF ModesAgree, OwnText
<1>4. QED  BY <1>2, <1>3

LEMMA ReturnedBack ==
    ASSUME DataInv, LoopInv, Result("editor_returned")
    PROVE  EditorBack
<1>1. "editor_returned" \notin ResultsOf(in_flight.kind) \/ in_flight.kind \notin JobKind
  BY DEF ResultsOf, JobKind
<1>2. QED  BY <1>1, Taken

\* $EDITOR's text goes out for the task and the field it was opened for.
LEMMA ReturnedLoop ==
    ASSUME DataInv, LoopInv, editorReturned
    PROVE  LoopInv'
<1>1. /\ Result("editor_returned") /\ Head(queue).kind = "editor_returned"
      /\ queue' = Tail(queue) /\ UNCHANGED <<world, tasks>>
  BY DEF editorReturned, Result
<1>2. EditorBack
  BY <1>1, ReturnedBack
<1>3. /\ mode.kind = "editing" /\ mode.editor = "external" /\ mode.text = Null
      /\ in_flight.kind = "none" /\ wire = <<>>
      /\ \/ \E text \in {Typed(mode.id, "description"), Null} : queue = <<Returned(text)>>
         \/ queue = <<Returned(Null), NotStarted>>
  <2>1. queue # <<NotStarted>>
    BY <1>1 DEF NotStarted, Event
  <2>2. QED  BY <1>2, <2>1 DEF EditorBack
<1>4. /\ ModesAgree(mode, in_flight) /\ Proper(server) /\ Proper(tasks)
      /\ mode.field = "description" /\ ModeFits(mode) /\ mode \in Modes
  BY <1>3 DEF LoopInv, ModesAgree, DataInv, ModeFits, EditorFits
<1>5. Proper(server') /\ Proper(tasks')
  BY <1>1, <1>4 DEF world
<1>6. ASSUME mode' = AtField(mode.field), UNCHANGED <<in_flight, wire>>, Head(queue).text = Null
      PROVE  LoopInv'
  <2>1. mode'.kind = "field" /\ mode'.text = Null
    BY <1>4, <1>6, FieldModes DEF ModeFits, EditorFits, Field
  <2>2. ModesAgree(mode', in_flight')
    BY <1>3, <1>4, <1>6, <2>1 DEF ModesAgree
  <2>3. queue' = <<>> \/ queue' = <<NotStarted>>
    BY <1>1, <1>3, HeadOne, HeadTwo
  <2>4. CASE queue' = <<>>
    BY <1>3, <1>5, <1>6, <2>2, <2>4, QuietLoop
  <2>5. CASE queue' = <<NotStarted>>
    <3>1. EditorBack'
      BY <1>3, <1>6, <2>1, <2>5 DEF EditorBack, NotStarted
    <3>2. QED  BY <1>5, <2>2, <3>1 DEF LoopInv
  <2>6. QED  BY <2>3, <2>4, <2>5
<1>7. ASSUME Head(queue).text # Null,
             commitDescription([mode EXCEPT !.editor = "external", !.text = Head(queue).text])
      PROVE  LoopInv'
  <2> DEFINE editing == [mode EXCEPT !.editor = "external", !.text = Head(queue).text]
  <2>1. Head(queue).text = Typed(mode.id, "description") /\ queue' = <<>>
    <3>1. Head(queue) # Returned(Null)
      BY <1>7 DEF Returned, Event
    <3>2. queue # <<Returned(Null), NotStarted>>
      BY <3>1, HeadTwo
    <3>3. queue = <<Returned(Typed(mode.id, "description"))>>
      BY <1>3, <3>1, <3>2, HeadOne
    <3>4. Head(queue) = Returned(Typed(mode.id, "description")) /\ Tail(queue) = <<>>
      BY <3>3, HeadOne
    <3>5. QED  BY <1>1, <3>4 DEF Returned, Event
  <2>2. Typed(mode.id, "description") \in Text
    BY <1>3, <1>4 DEF ModeFits, EditorFits, Typed, Text, Value, Field
  <2>3. /\ editing \in Modes /\ editing.kind = "editing" /\ editing.editor = "external"
        /\ editing.id = mode.id /\ editing.field = "description"
        /\ editing.text = Typed(mode.id, "description")
    BY <1>3, <1>4, <2>1, <2>2 DEF Modes
  <2>4. commitDescription(editing)
    BY <1>7
  <2> HIDE DEF editing
  <2>5. OwnText(editing) /\ ModesAgree(editing, in_flight)
    BY <1>3, <1>4, <2>3 DEF OwnText, ModesAgree, Allowed
  <2>6. CASE mode' = editing /\ UNCHANGED <<in_flight, wire>>
    BY <1>3, <1>5, <2>1, <2>5, <2>6, QuietLoop
  <2>7. CASE /\ editing.id \in DOMAIN tasks
             /\ mode' = AtField(editing.field)
             /\ finishCommit(editing.id, "description", editing.text, editing)
    <3>1. mode'.kind = "field" /\ mode'.text = Null
      BY <2>3, <2>7, FieldModes DEF Field
    <3>2. editing.text \in Allowed(editing.id, "description") /\ "description" \in Field
      BY <2>3 DEF Allowed, Field
    <3>3. server' = server /\ tasks' = tasks
      BY <1>1 DEF world
    <3>4. QED  BY <1>3, <2>1, <2>3, <2>5, <2>7, <3>1, <3>2, <3>3, FinishCommitLoop
  <2>8. QED  BY <2>4, <2>6, <2>7 DEF commitDescription
<1>8. QED  BY <1>3, <1>6, <1>7 DEF editorReturned, Busy

LEMMA FailedLoop ==
    ASSUME DataInv, LoopInv, Failed
    PROVE  LoopInv'
<1>1. PICK kind \in {"request_failed", "editor_failed"} : Result(kind)
  BY DEF Failed
<1>2. /\ mode' = restoreEditor /\ in_flight' = Idle /\ tasks' = tasks /\ wire' = wire
      /\ server' = server /\ queue' = Tail(queue) /\ Head(queue).kind = kind
  BY <1>1 DEF Failed, Result, world
<1>3. wire = <<>> /\ queue' = <<>>
  <2>1. CASE wire = <<>> /\ queue' = <<>>
    BY <2>1
  <2>2. CASE EditorBack /\ kind = "editor_failed"
    <3>1. queue = <<NotStarted>>
      <4>1. Head(queue).kind # "editor_returned"
        BY <1>2, <2>2
      <4>2. \A text : Head(queue) # Returned(text)
        BY <4>1 DEF Returned, Event
      <4>3. QED  BY <2>2, <4>2, HeadOne, HeadTwo DEF EditorBack
    <3>2. QED  BY <1>2, <2>2, <3>1, HeadOne DEF EditorBack
  <2>3. QED  BY <1>1, <1>2, <2>1, <2>2, Taken
<1>4. ModesAgree(mode', in_flight')
  BY <1>2, RestoredAgrees
<1>5. Proper(server') /\ Proper(tasks') /\ in_flight'.kind = "none"
  BY <1>2, PlainSlots DEF LoopInv, Idle
<1>6. QED  BY <1>2, <1>3, <1>4, <1>5, QuietLoop

\* Results go on one at a time.
LEMMA HandleLoop == DataInv /\ LoopInv /\ Handle => LoopInv'
<1> SUFFICES ASSUME DataInv, LoopInv, Handle
             PROVE  LoopInv'
  OBVIOUS
<1>1. Proper(server) /\ Proper(tasks) /\ ModesAgree(mode, in_flight)
  BY DEF LoopInv
<1>2. Idle.kind = "none" /\ Idle.text = Null
  BY PlainSlots DEF Idle
<1>3. CASE TasksLoaded
  <2>1. /\ Answer(Head(queue), in_flight, tasks) /\ in_flight.kind = "refresh"
        /\ wire = <<>> /\ queue' = <<>> /\ server' = server
    BY <1>3, TakenFor DEF TasksLoaded
  <2>2. in_flight' = Idle /\ wire' = wire /\ tasks' = Head(queue).tasks
    BY <1>3, <2>1 DEF TasksLoaded, Answers
  <2>3. mode' = mode \/ mode' = List
    BY <1>3 DEF TasksLoaded
  <2>4. ModesAgree(mode', in_flight')
    BY <1>1, <1>2, <2>2, <2>3, PlainModes DEF ModesAgree, List
  <2>5. Proper(tasks')
    BY <2>1, <2>2 DEF Answer
  <2>6. QED  BY <1>1, <1>2, <2>1, <2>2, <2>4, <2>5, QuietLoop
<1>4. CASE CommitOk
  <2>1. /\ Answer(Head(queue), in_flight, tasks) /\ in_flight.kind = "commit"
        /\ wire = <<>> /\ queue' = <<>> /\ server' = server
    BY <1>4, TakenFor DEF CommitOk
  <2>2. in_flight' = Idle /\ wire' = wire /\ mode' = mode
    BY <1>4, <2>1 DEF CommitOk, Answers
  <2>3. ModesAgree(mode', in_flight')
    BY <1>1, <1>2, <2>2 DEF ModesAgree
  <2>4. Proper(tasks')
    BY <1>4, <2>1, MergeProper DEF CommitOk
  <2>5. QED  BY <1>1, <1>2, <2>1, <2>2, <2>3, <2>4, QuietLoop
<1>5. CASE CreateOk
  <2>1. /\ Answer(Head(queue), in_flight, tasks) /\ in_flight.kind = "create"
        /\ wire = <<>> /\ queue' = <<>> /\ server' = server
    BY <1>5, TakenFor DEF CreateOk
  <2>2. in_flight' = Idle /\ wire' = wire /\ mode' = AtField("status")
    BY <1>5, <2>1 DEF CreateOk, Answers
  <2>3. ModesAgree(mode', in_flight')
    BY <1>2, <2>2, FieldModes DEF ModesAgree, Field
  <2>4. Proper(tasks')
    BY <1>5, <2>1, MergeProper DEF CreateOk
  <2>5. QED  BY <1>1, <1>2, <2>1, <2>2, <2>3, <2>4, QuietLoop
<1>6. CASE DeleteOk
  <2>1. /\ in_flight.kind = "delete" /\ wire = <<>> /\ queue' = <<>> /\ server' = server
    BY <1>6, TakenFor DEF DeleteOk
  <2>2. /\ in_flight' = Plain("refresh") /\ mode' = mode /\ tasks' = tasks
        /\ Send(FetchRequest.job)
    BY <1>6, <2>1 DEF DeleteOk
  <2>3. FetchRequest.job.kind = "refresh"
    BY DEF FetchRequest, Request, Job
  <2>4. in_flight'.kind = "refresh" /\ in_flight'.text = Null
    BY <2>2, PlainSlots
  <2>5. ModesAgree(mode', in_flight')
    BY <1>1, <2>1, <2>2, <2>4 DEF ModesAgree
  <2>6. Carries(FetchRequest.job, in_flight')
    BY <2>3 DEF Carries
  <2>7. QED  BY <2>1, <2>2, <2>3, <2>4, <2>5, <2>6, SentLoop
<1>7. CASE Conflict
  <2>1. /\ Answer(Head(queue), in_flight, tasks)
        /\ wire = <<>> /\ queue' = <<>> /\ server' = server
    BY <1>7, TakenFor DEF Conflict
  <2>2. in_flight' = Idle /\ wire' = wire /\ mode' = restoreEditor
    BY <1>7 DEF Conflict
  <2>3. ModesAgree(mode', in_flight')
    BY <2>2, RestoredAgrees
  <2>4. Proper(tasks')
    BY <1>7, <2>1, MergeProper DEF Conflict
  <2>5. QED  BY <1>1, <1>2, <2>1, <2>2, <2>3, <2>4, QuietLoop
<1>8. QED
  BY <1>3, <1>4, <1>5, <1>6, <1>7, FailedLoop, ReturnedLoop DEF Handle

\* No key is handled before a result of $EDITOR.
LEMMA KeyTime ==
    ASSUME LoopInv, NEW kind, Key(kind)
    PROVE  /\ Quiet \/ AtWorker \/ Posted
           /\ ~Busy => Quiet
           /\ mode.kind = kind /\ server' = server /\ tasks' = tasks
<1>1. \A k \in DOMAIN queue : ~FromEditor(queue[k])
  BY DEF Key, LoopInv
<1>2. ~EditorBack
  <2>1. \A text, q : ~(FromEditor(Returned(text)) /\ queue = <<Returned(text)>>)
    BY <1>1
  <2>2. FromEditor(NotStarted) /\ \A text : FromEditor(Returned(text))
    BY DEF FromEditor, NotStarted, Returned, Event
  <2>3. queue # <<NotStarted>> /\ queue # <<Returned(Null), NotStarted>>
    BY <1>1, <2>2
  <2>4. QED  BY <2>1, <2>2, <2>3 DEF EditorBack
<1>3. QED  BY <1>2 DEF LoopInv, Busy, AtWorker, Posted, Key, world

\* A key that sends nothing.
LEMMA StillLoop ==
    ASSUME LoopInv, NEW kind, Key(kind), UNCHANGED <<in_flight, wire, queue>>,
           ModesAgree(mode', in_flight)
    PROVE  LoopInv'
<1>1. server' = server /\ tasks' = tasks /\ (Quiet \/ AtWorker \/ Posted)
  BY KeyTime
<1>2. (Quiet \/ AtWorker \/ Posted)'
  BY <1>1 DEF Quiet, AtWorker, Posted
<1>3. QED  BY <1>1, <1>2 DEF LoopInv

LEMMA OpenEditorLoop ==
    ASSUME DataInv, LoopInv, openEditor
    PROVE  LoopInv'
<1>1. /\ Key("field") /\ cursor \in DOMAIN tasks /\ cursor \in Id
      /\ UNCHANGED <<in_flight, wire>>
  BY UnderCursor DEF openEditor
<1>2. /\ Quiet /\ server' = server /\ tasks' = tasks
      /\ Proper(server) /\ Proper(tasks) /\ ModesAgree(mode, in_flight)
  BY <1>1, KeyTime DEF openEditor, LoopInv
<1>3. mode.field \in Field
  BY <1>1 DEF Key, DataInv, ModeFits, EditorFits
<1>4. CASE /\ mode.field # "description"
           /\ mode' = Mode("editing", cursor, mode.field, EditorOf(mode.field),
                           tasks[cursor].fields[mode.field])
           /\ UNCHANGED queue
  <2> DEFINE text == tasks[cursor].fields[mode.field]
             editor == EditorOf(mode.field)
  <2>1. text \in Allowed(cursor, mode.field) /\ editor # "external"
    BY <1>1, <1>2, <1>3, <1>4 DEF Proper, EditorOf, Field
  <2> HIDE DEF text, editor
  <2>2. mode' = Mode("editing", cursor, mode.field, editor, text)
    BY <1>4 DEF text, editor
  <2>3. ModesAgree(mode', in_flight)
    BY <1>2, <2>1, <2>2 DEF ModesAgree, OwnText, Mode, Quiet
  <2>4. QED  BY <1>1, <1>4, <2>3, StillLoop
<1>5. CASE /\ mode.field = "description"
           /\ mode' = Mode("editing", cursor, mode.field, "external", Null)
           /\ runEditor(cursor)
  <2>1. /\ mode'.kind = "editing" /\ mode'.editor = "external" /\ mode'.text = Null
        /\ mode'.id = cursor /\ mode'.field = "description"
    BY <1>5 DEF Mode
  <2>2. \/ \E text \in {Typed(cursor, "description"), Null} : queue' = <<Returned(text)>>
        \/ queue' = <<Returned(Null), NotStarted>>
    <3>1. queue = <<>>
      BY <1>2 DEF Quiet
    <3>2. \A a, b : Append(queue, a) = <<a>> /\ queue \o <<a, b>> = <<a, b>>
      BY <3>1
    <3>3. CASE \E text \in {Typed(cursor, "description"), Null} :
                    queue' = Append(queue, Returned(text))
      BY <3>2, <3>3
    <3>4. CASE queue' = queue \o <<Returned(Null), NotStarted>>
      BY <3>2, <3>4
    <3>5. QED  BY <1>5, <3>3, <3>4 DEF runEditor, Returned, NotStarted
  <2>3. in_flight' = in_flight /\ in_flight.kind = "none" /\ wire' = <<>>
    BY <1>1, <1>2 DEF Quiet
  <2>4. EditorBack'
    BY <2>1, <2>2, <2>3 DEF EditorBack
  <2>5. ModesAgree(mode', in_flight')
    BY <1>2, <2>1, <2>3 DEF ModesAgree, OwnText
  <2>6. QED  BY <1>2, <2>4, <2>5 DEF LoopInv
<1>6. QED  BY <1>4, <1>5 DEF openEditor

LEMMA CommitEditLoop ==
    ASSUME DataInv, LoopInv, commitEdit
    PROVE  LoopInv'
<1>1. Key("editing") /\ mode.text \notin {Bad, Null} /\ queue' = queue
  BY DEF commitEdit
<1>2. /\ Quiet /\ server' = server /\ tasks' = tasks /\ mode.kind = "editing"
      /\ wire = <<>> /\ queue' = <<>>
  BY <1>1, KeyTime DEF commitEdit, Quiet
<1>3. /\ ModesAgree(mode, in_flight) /\ OwnText(mode) /\ mode \in Modes
      /\ mode.text \in Allowed(mode.id, mode.field) /\ mode.field \in Field
      /\ mode.editor = "external" => mode.field = "description"
  BY <1>1, <1>2 DEF LoopInv, ModesAgree, OwnText, DataInv, ModeFits, EditorFits
<1>4. CASE mode' = mode /\ UNCHANGED <<in_flight, wire>>
  BY <1>1, <1>3, <1>4, StillLoop
<1>5. CASE /\ mode.id \in DOMAIN tasks
           /\ mode' = AtField(mode.field)
           /\ finishCommit(mode.id, mode.field, mode.text, mode)
  <2>1. mode'.kind = "field" /\ mode'.text = Null
    BY <1>3, <1>5, FieldModes
  <2>2. QED  BY <1>2, <1>3, <1>5, <2>1, FinishCommitLoop
<1>6. QED
  BY <1>3, <1>4, <1>5 DEF commitEdit, commitDescription

\* Keys begin one thing, and only when nothing is under way.
LEMMA KeyLoop == DataInv /\ LoopInv /\ KeyPress => LoopInv'
<1> SUFFICES ASSUME DataInv, LoopInv, KeyPress
             PROVE  LoopInv'
  OBVIOUS
<1>1. ModesAgree(mode, in_flight)
  BY DEF LoopInv
<1>2. ASSUME Quiet
      PROVE  /\ in_flight.kind = "none" /\ wire = <<>> /\ queue = <<>>
             /\ in_flight.text = Null
  BY <1>1, <1>2 DEF Quiet, ModesAgree
<1>3. CASE Quit \/ Descend \/ stepField
  <2>1. mode'.kind \in {"over", "field"} /\ mode'.text = Null
    BY <1>3, PlainModes, FieldModes DEF Quit, Descend, stepField, Field
  <2>2. ModesAgree(mode', in_flight)
    BY <1>1, <2>1 DEF ModesAgree
  <2>3. QED  BY <1>3, <2>2, StillLoop DEF Quit, Descend, stepField
<1>4. CASE Navigate \/ clearFilter
  BY <1>1, <1>4, StillLoop DEF Navigate, clearFilter
<1>5. CASE applyFilter
  <2>1. mode'.kind = "list" /\ mode'.text = Null
    BY <1>5, PlainModes DEF applyFilter, List
  <2>2. ModesAgree(mode', in_flight)
    BY <1>1, <2>1 DEF ModesAgree
  <2>3. QED  BY <1>5, <2>2, StillLoop DEF applyFilter
<1>6. CASE Refresh
  <2>1. Quiet /\ mode.kind = "list" /\ server' = server /\ tasks' = tasks
    BY <1>6, KeyTime DEF Refresh
  <2>2. FetchRequest.job.kind = "refresh"
    BY DEF FetchRequest, Request, Job
  <2>3. in_flight'.kind = "refresh" /\ in_flight'.text = Null
    BY <1>6, PlainSlots DEF Refresh
  <2>4. ModesAgree(mode', in_flight')
    BY <1>1, <1>6, <2>1, <2>3 DEF Refresh, ModesAgree
  <2>5. Carries(FetchRequest.job, in_flight')
    BY <2>2 DEF Carries
  <2>6. QED  BY <1>2, <1>6, <2>1, <2>2, <2>3, <2>4, <2>5, SentLoop DEF Refresh
<1>7. CASE cycleStatus
  <2> DEFINE slot == Mode("editing", cursor, "status", "external", Null)
             text == Typed(cursor, "status")
  <2>1. Quiet /\ mode.kind = "list" /\ server' = server /\ tasks' = tasks
    BY <1>7, KeyTime DEF cycleStatus
  <2>2. cursor \in DOMAIN tasks /\ cursor \in Id
    BY <1>7, UnderCursor DEF cycleStatus
  <2>3. slot \in Modes /\ OwnText(slot) /\ slot.text = Null
    BY <2>2 DEF Modes, Mode, Field, Text, OwnText
  <2>4. text \in Allowed(cursor, "status") /\ "status" \in Field
    BY DEF Allowed, Field
  <2>5. mode'.kind = "list" /\ mode'.text = Null
    BY <1>1, <1>7, <2>1 DEF cycleStatus, ModesAgree
  <2>6. finishCommit(cursor, "status", text, slot) /\ queue' = queue
    BY <1>7 DEF cycleStatus
  <2> HIDE DEF slot, text
  <2>7. QED  BY <1>2, <2>1, <2>2, <2>3, <2>4, <2>5, <2>6, FinishCommitLoop
<1>8. CASE openPrompt
  <2>1. Quiet
    BY <1>8, KeyTime DEF openPrompt
  <2>2. ModesAgree(Mode("add", Null, Null, "line", Bad), in_flight)
    BY <1>2, <2>1 DEF ModesAgree, Mode
  <2>3. ModesAgree(Plain("filter"), in_flight)
    BY <1>2, <2>1, PlainModes DEF ModesAgree
  <2>4. QED  BY <1>8, <2>2, <2>3, StillLoop DEF openPrompt
<1>9. CASE openConfirmDelete
  <2>1. Quiet
    BY <1>9, KeyTime DEF openConfirmDelete
  <2>2. ModesAgree(Mode("confirm_delete", cursor, Null, Null, Null), in_flight)
    BY <1>2, <2>1 DEF ModesAgree, Mode
  <2>3. QED  BY <1>9, <2>2, StillLoop DEF openConfirmDelete
<1>10. CASE Confirm
  <2>1. mode'.kind = "list" /\ mode'.text = Null /\ queue' = queue
    BY <1>10, PlainModes DEF Confirm, List
  <2>2. CASE UNCHANGED <<in_flight, wire>>
    <3>1. ModesAgree(mode', in_flight)
      BY <1>1, <2>1 DEF ModesAgree
    <3>2. QED  BY <1>10, <2>2, <3>1, StillLoop DEF Confirm
  <2>3. CASE /\ ~Busy
             /\ in_flight' = Mode("delete", mode.id, Null, Null, Null)
             /\ Send(Job("delete", mode.id, 0, Null, Null))
    <3> DEFINE j == Job("delete", mode.id, 0, Null, Null)
    <3>1. Quiet /\ server' = server /\ tasks' = tasks
      BY <1>10, <2>3, KeyTime DEF Confirm
    <3>2. j.kind = "delete" /\ in_flight'.kind = "delete" /\ in_flight'.text = Null
      BY <2>3 DEF Job, Mode
    <3>3. ModesAgree(mode', in_flight')
      BY <2>1, <3>2 DEF ModesAgree
    <3>4. Send(j)
      BY <2>3
    <3> HIDE DEF j
    <3>5. Carries(j, in_flight')
      BY <3>2 DEF Carries
    <3>6. QED  BY <1>2, <2>1, <3>1, <3>2, <3>3, <3>4, <3>5, SentLoop
  <2>4. QED  BY <1>10, <2>2, <2>3 DEF Confirm
<1>11. CASE submitAdd
  <2> DEFINE j == Job("create", Null, 0, Titled(mode.text), Null)
  <2>1. Quiet /\ mode.kind = "add" /\ server' = server /\ tasks' = tasks
    BY <1>11, KeyTime DEF submitAdd
  <2>2. /\ j.kind = "create" /\ in_flight'.kind = "create"
        /\ j.fields["title"] = in_flight'.text
    BY <1>11 DEF submitAdd, Job, Mode, Titled, NewFields, Field
  <2>3. ModesAgree(mode', in_flight')
    BY <1>11, <2>1, <2>2 DEF submitAdd, ModesAgree
  <2>4. Send(j) /\ queue' = queue
    BY <1>11 DEF submitAdd
  <2> HIDE DEF j
  <2>5. Carries(j, in_flight')
    BY <2>2 DEF Carries
  <2>6. QED  BY <1>2, <2>1, <2>2, <2>3, <2>4, <2>5, SentLoop
<1>12. CASE Type
  <2>1. mode \in Modes
    BY DEF DataInv, ModeFits, EditorFits
  <2>2. ModesAgree(mode', in_flight)
    <3>1. CASE /\ mode.kind = "editing"
               /\ mode' \in {[mode EXCEPT !.text = Typed(mode.id, mode.field)],
                             [mode EXCEPT !.text = IF mode.editor = "line" THEN Bad ELSE @]}
      <4>1. /\ mode'.kind = "editing" /\ mode'.id = mode.id /\ mode'.field = mode.field
            /\ mode'.editor = mode.editor
            /\ mode'.text \in {Typed(mode.id, mode.field), Bad, mode.text}
        BY <2>1, <3>1 DEF Modes
      <4>2. mode.editor # "external"
        BY <1>12 DEF Type
      <4>3. QED  BY <1>1, <3>1, <4>1, <4>2 DEF ModesAgree, OwnText, Allowed
    <3>2. CASE /\ mode.kind = "add"
               /\ mode' \in {[mode EXCEPT !.text = t] : t \in Title \union {Bad}}
      <4>1. mode'.kind = "add"
        BY <2>1, <3>2 DEF Modes
      <4>2. QED  BY <1>1, <3>2, <4>1 DEF ModesAgree
    <3>3. QED  BY <1>12, <3>1, <3>2 DEF Type, Key
  <2>3. QED  BY <1>12, <2>2, StillLoop DEF Type
<1>13. CASE Escape
  <2>1. mode'.kind \in {"field", "list"} /\ mode'.text = Null
    BY <1>13, PlainModes, FieldModes DEF Escape, Key, List, DataInv, ModeFits, EditorFits
  <2>2. ModesAgree(mode', in_flight)
    BY <1>1, <2>1 DEF ModesAgree
  <2>3. QED  BY <1>13, <2>2, StillLoop DEF Escape
<1>14. QED
  BY <1>3, <1>4, <1>5, <1>6, <1>7, <1>8, <1>9, <1>10, <1>11, <1>12, <1>13, OpenEditorLoop,
     CommitEditLoop DEF KeyPress

-----------------------------------------------------------------------------
(***************************************************************************)
(* What holds when no key is typed ahead of $EDITOR.                       *)
(***************************************************************************)
LEMMA LoopStep == DataInv /\ LoopInv /\ [Next]_vars => LoopInv'
<1>1. UNCHANGED vars /\ LoopInv => LoopInv'
  BY DEF vars, LoopInv, Quiet, AtWorker, Posted, EditorBack
<1>2. QED  BY <1>1, ServeLoop, PostLoop, ElsewhereLoop, HandleLoop, KeyLoop DEF Next

THEOREM LoopInvariant ==
    ASSUME ~TypeAhead
    PROVE  Spec => [](DataInv /\ LoopInv)
<1>1. Init => DataInv /\ LoopInv
  BY DataInit, LoopInit
<1>2. DataInv /\ LoopInv /\ [Next]_vars => (DataInv /\ LoopInv)'
  BY DataStep, LoopStep
<1>3. QED  BY <1>1, <1>2, PTL DEF Spec

\* The slot is never wrong: the client is busy exactly while one request of the
\* slot's kind is at a worker or its result waits, whatever fails and however
\* $EDITOR returns.
THEOREM SlotTellsTheTruth ==
    ASSUME ~TypeAhead
    PROVE  Spec => []SlotIsRequest
<1>1. DataInv /\ LoopInv => SlotIsRequest
  <2> SUFFICES ASSUME DataInv, LoopInv
               PROVE  SlotIsRequest
    OBVIOUS
  <2> DEFINE waiting == {k \in DOMAIN queue : ~FromEditor(queue[k])}
  <2>1. CASE Quiet
    <3>1. waiting = {} /\ Len(wire) = 0 /\ DOMAIN wire = {} /\ DOMAIN queue = {}
      BY <2>1 DEF Quiet
    <3>2. Outstanding = 0
      BY <3>1, FS_EmptySet DEF Outstanding
    <3>3. QED  BY <2>1, <3>1, <3>2 DEF SlotIsRequest, Busy, Quiet
  <2>2. CASE AtWorker
    <3>1. waiting = {} /\ Len(wire) = 1 /\ DOMAIN wire = {1} /\ DOMAIN queue = {}
      BY <2>2 DEF AtWorker, DataInv
    <3>2. Outstanding = 1
      BY <3>1, FS_EmptySet DEF Outstanding
    <3>3. QED  BY <2>2, <3>1, <3>2 DEF SlotIsRequest, Busy, AtWorker, Proceeds
  <2>3. CASE Posted
    <3>1. Len(wire) = 0 /\ DOMAIN wire = {} /\ DOMAIN queue = {1}
      BY <2>3 DEF Posted, DataInv
    <3>2. queue[1].kind \in ResultsOf(in_flight.kind) /\ in_flight.kind \in JobKind
      BY <2>3 DEF Posted, Answer, DataInv, SlotFits
    <3>3. ~FromEditor(queue[1])
      BY <3>2 DEF FromEditor, ResultsOf, JobKind
    <3>4. waiting = {1}
      BY <3>1, <3>3
    <3>5. Cardinality(waiting) = 1
      <4>1. Cardinality({1}) = 1
        BY FS_Singleton
      <4>2. QED  BY <3>4, <4>1
    <3>6. Outstanding = 1
      BY <3>1, <3>5 DEF Outstanding
    <3>7. QED  BY <2>3, <3>1, <3>2, <3>6 DEF SlotIsRequest, Busy, Posted
  <2>4. CASE EditorBack
    <3>1. \A k \in DOMAIN queue : FromEditor(queue[k])
      <4>1. FromEditor(NotStarted) /\ \A text : FromEditor(Returned(text))
        BY DEF FromEditor, NotStarted, Returned, Event
      <4>2. \A a : DOMAIN <<a>> = {1} /\ <<a>>[1] = a
        OBVIOUS
      <4>3. \A a, b : DOMAIN <<a, b>> = {1, 2} /\ <<a, b>>[1] = a /\ <<a, b>>[2] = b
        OBVIOUS
      <4>4. QED  BY <2>4, <4>1, <4>2, <4>3 DEF EditorBack
    <3>2. waiting = {} /\ Len(wire) = 0 /\ DOMAIN wire = {}
      BY <2>4, <3>1 DEF EditorBack
    <3>3. Outstanding = 0
      BY <3>2, FS_EmptySet DEF Outstanding
    <3>4. QED  BY <2>4, <3>1, <3>2, <3>3 DEF SlotIsRequest, Busy, EditorBack
  <2>5. QED  BY <2>1, <2>2, <2>3, <2>4 DEF LoopInv
<1>2. QED  BY <1>1, LoopInvariant, PTL

\* No text the user typed for one field of one task is ever saved in another.
THEOREM TextStaysWhereTyped ==
    ASSUME ~TypeAhead
    PROVE  Spec => []TextLandsWhereTyped
<1>1. DataInv /\ LoopInv => TextLandsWhereTyped
  BY DEF LoopInv, Proper, Allowed, TextLandsWhereTyped
<1>2. QED  BY <1>1, LoopInvariant, PTL

\* The formula inside NoGoingBack.
NoGoingBackStep ==
    \A i \in DOMAIN tasks \intersect DOMAIN tasks' : tasks[i].version <= tasks'[i].version

\* The screen changes only by the answer to the one request under way, which was
\* made after the screen was.
LEMMA NoGoingBackAction ==
    ASSUME DataInv, LoopInv, Next
    PROVE  NoGoingBackStep
<1>1. tasks \in Known
  BY DEF DataInv, Seen
<1>2. ASSUME tasks' = tasks  PROVE NoGoingBackStep
  BY <1>1, <1>2, KnownTask DEF NoGoingBackStep
<1>3. CASE TasksLoaded
  <2>1. Fresh(Head(queue).tasks, tasks) /\ tasks' = Head(queue).tasks
    BY <1>3, TakenFor DEF TasksLoaded, Answer
  <2>2. QED  BY <2>1 DEF Fresh, NoGoingBackStep
<1>4. ASSUME NEW kind \in {"commit_ok", "create_ok", "conflict"}, Result(kind), mergeTasks
      PROVE  NoGoingBackStep
  <2> DEFINE x == Head(queue).tasks
  <2>1. Fresh(x, tasks)
    BY <1>4, TakenFor DEF Answer
  <2>2. /\ DOMAIN tasks' = DOMAIN tasks \union DOMAIN x
        /\ \A i \in DOMAIN tasks' : tasks'[i] = IF i \in DOMAIN x THEN x[i] ELSE tasks[i]
    BY <1>4, MergeData
  <2> HIDE DEF x
  <2>3. \A i \in DOMAIN tasks : tasks[i].version <= tasks[i].version
    BY <1>1, KnownTask
  <2>4. QED  BY <2>1, <2>2, <2>3 DEF Fresh, NoGoingBackStep
<1>5. CASE CommitOk \/ CreateOk \/ Conflict
  BY <1>4, <1>5 DEF CommitOk, CreateOk, Conflict
<1>6. CASE DeleteOk \/ Failed \/ editorReturned
  BY <1>2, <1>6 DEF DeleteOk, Failed, editorReturned
<1>7. CASE Serve \/ runRequest \/ Elsewhere
  BY <1>2, <1>7 DEF Serve, runRequest, Elsewhere, model
<1>8. CASE KeyPress
  <2>1. tasks' = tasks
    BY <1>8 DEF KeyPress, Key, Quit, Navigate, Refresh, cycleStatus, openPrompt,
       openConfirmDelete, Descend, clearFilter, Confirm, applyFilter, submitAdd, stepField,
       openEditor, Type, commitEdit, Escape
  <2>2. QED  BY <1>2, <2>1
<1>9. QED  BY <1>3, <1>5, <1>6, <1>7, <1>8 DEF Next, Handle

\* The screen never shows an older version of a task after a newer one.
THEOREM ScreenNeverGoesBack ==
    ASSUME ~TypeAhead
    PROVE  Spec => NoGoingBack
<1>1. DataInv /\ LoopInv /\ [Next]_vars => [NoGoingBackStep]_vars
  BY NoGoingBackAction
<1>2. Spec => [][NoGoingBackStep]_vars
  BY <1>1, LoopInvariant, PTL DEF Spec
<1>3. QED  BY <1>2 DEF NoGoingBack, NoGoingBackStep

\* The formula inside TextIsSafe.
TextIsSafeStep ==
    \A text \in Held \ Held' :
        \/ (Escape \/ Type) /\ text = mode.text
        \/ (CommitOk \/ CreateOk) /\ text = in_flight.text /\ Saves(Head(queue), text)
        \/ CreateOk /\ TypedOver /\ text = mode.text

\* Text is held in three places.
LEMMA HeldIn ==
    ASSUME NEW text \in Held
    PROVE  /\ text \notin {Old, Theirs, Bad, Null}
           /\ \/ text = mode.text
              \/ in_flight.kind = "commit" /\ text = in_flight.text
              \/ \E k \in DOMAIN queue : FromEditor(queue[k]) /\ text = queue[k].text
  BY DEF Held

LEMMA HeldStays ==
    ASSUME NEW text, text \notin {Old, Theirs, Bad, Null},
           \/ text = mode'.text
           \/ in_flight'.kind = "commit" /\ text = in_flight'.text
           \/ \E k \in DOMAIN queue' : FromEditor(queue'[k]) /\ text = queue'[k].text
    PROVE  text \in Held'
  BY DEF Held, FromEditor

\* When a result other than $EDITOR's is taken, no text is on its way.
LEMMA NothingInQueue ==
    ASSUME DataInv, LoopInv, NEW kind, Result(kind), NEW k \in DOMAIN queue,
           FromEditor(queue[k]), queue[k].text # Null
    PROVE  /\ kind = "editor_returned" /\ mode.kind = "editing" /\ in_flight.kind = "none"
           /\ queue = <<Returned(queue[k].text)>>
           /\ Head(queue).text = queue[k].text
<1>1. queue # <<>> /\ Head(queue).kind = kind
  BY DEF Result
<1>2. EditorBack
  <2>1. ~Quiet /\ ~AtWorker
    BY <1>1 DEF Quiet, AtWorker
  <2>2. CASE Posted
    <3>1. k = 1
      BY <2>2 DEF Posted, DataInv
    <3>2. QED  BY <2>2, <3>1 DEF Posted, Answer, FromEditor, ResultsOf, DataInv, SlotFits, JobKind
  <2>3. QED  BY <2>1, <2>2 DEF LoopInv
<1>3. Returned(Null).text = Null /\ NotStarted.text = Null
  BY DEF Returned, NotStarted, Event
<1>4. \A a : DOMAIN <<a>> = {1} /\ <<a>>[1] = a
  OBVIOUS
<1>5. \A a, b : DOMAIN <<a, b>> = {1, 2} /\ <<a, b>>[1] = a /\ <<a, b>>[2] = b
  OBVIOUS
<1>6. queue # <<Returned(Null), NotStarted>> /\ queue # <<NotStarted>>
  BY <1>3, <1>4, <1>5
<1>7. PICK text : queue = <<Returned(text)>>
  BY <1>2, <1>6 DEF EditorBack
<1>8. queue[k] = Returned(text) /\ Head(queue) = Returned(text)
  BY <1>4, <1>7, HeadOne
<1>9. Returned(text).text = text /\ Returned(text).kind = "editor_returned"
  BY DEF Returned, Event
<1>10. mode.kind = "editing" /\ in_flight.kind = "none"
  BY <1>2, <1>6 DEF EditorBack
<1>11. QED  BY <1>1, <1>7, <1>8, <1>9, <1>10

\* An answer lets go of no text but that of what it answers.
LEMMA AnswerKeepsText ==
    ASSUME DataInv, LoopInv, NEW kind, Result(kind),
           kind \notin {"editor_returned", "editor_failed"}, NEW text \in Held
    PROVE  \/ text = mode.text /\ mode.kind = "add" /\ in_flight.kind = "create"
           \/ text = in_flight.text /\ in_flight.kind = "commit"
<1>1. \A k \in DOMAIN queue : FromEditor(queue[k]) => queue[k].text = Null
  BY NothingInQueue
<1>2. /\ text # Null
      /\ text = mode.text \/ (in_flight.kind = "commit" /\ text = in_flight.text)
  BY <1>1, HeldIn
<1>3. ModesAgree(mode, in_flight) /\ in_flight.kind \in JobKind
  BY TakenFor DEF LoopInv
<1>4. QED  BY <1>2, <1>3 DEF ModesAgree, JobKind

\* The editor that comes back brings its text.
LEMMA RestoredText ==
    ASSUME DataInv, in_flight.kind = "commit", in_flight.text # Null
    PROVE  restoreEditor.text = in_flight.text
  BY DEF restoreEditor, DataInv, SlotFits, EditorFits, Modes

\* Results: what is not answered is kept.
LEMMA HandleKeepsText ==
    ASSUME DataInv, LoopInv, Handle
    PROVE  TextIsSafeStep
<1> SUFFICES ASSUME NEW text \in Held, text \notin Held',
                    ~((CommitOk \/ CreateOk) /\ text = in_flight.text /\ Saves(Head(queue), text)),
                    ~(CreateOk /\ TypedOver /\ text = mode.text)
             PROVE  FALSE
  BY DEF TextIsSafeStep
<1>1. /\ text \notin {Old, Theirs, Bad, Null} /\ text # mode'.text
      /\ in_flight'.kind = "commit" => text # in_flight'.text
  BY HeldIn, HeldStays
<1>2. ModesAgree(mode, in_flight)
  BY DEF LoopInv
<1>3. CASE TasksLoaded
  BY <1>3, AnswerKeepsText, TakenFor DEF TasksLoaded
<1>4. CASE CommitOk
  <2>1. /\ Answer(Head(queue), in_flight, tasks) /\ in_flight.kind = "commit"
        /\ Head(queue).kind = "commit_ok"
    BY <1>4, TakenFor DEF CommitOk, Result
  <2>2. text = in_flight.text
    BY <1>1, <1>4, <2>1, AnswerKeepsText DEF CommitOk
  <2>3. Saves(Head(queue), text)
    BY <1>1, <2>1, <2>2 DEF Answer
  <2>4. QED  BY <1>4, <2>2, <2>3
<1>5. CASE CreateOk
  <2>1. /\ Answer(Head(queue), in_flight, tasks) /\ in_flight.kind = "create"
        /\ Head(queue).kind = "create_ok"
    BY <1>5, TakenFor DEF CreateOk, Result
  <2>2. text = mode.text /\ mode.kind = "add"
    BY <1>5, <2>1, AnswerKeepsText DEF CreateOk
  <2>3. CASE text # in_flight.text
    BY <1>5, <2>2, <2>3 DEF TypedOver
  <2>4. CASE text = in_flight.text
    <3>1. Saves(Head(queue), text)
      BY <2>1, <2>4 DEF Answer, Saves
    <3>2. QED  BY <1>5, <2>4, <3>1
  <2>5. QED  BY <2>3, <2>4
<1>6. CASE DeleteOk
  BY <1>6, AnswerKeepsText, TakenFor DEF DeleteOk
<1>7. CASE Conflict
  BY <1>1, <1>7, AnswerKeepsText, TakenFor, RestoredText DEF Conflict
<1>8. CASE Failed
  <2>1. mode' = restoreEditor
    BY <1>8 DEF Failed
  <2>2. \A k \in DOMAIN queue : FromEditor(queue[k]) => queue[k].text = Null
    BY <1>8, NothingInQueue DEF Failed
  <2>3. text = mode.text \/ (in_flight.kind = "commit" /\ text = in_flight.text)
    BY <1>1, <2>2, HeldIn
  <2>4. in_flight.kind # "commit" => restoreEditor = mode
    BY DEF restoreEditor
  <2>5. in_flight.kind = "commit" => mode.text = Null
    BY <1>2 DEF ModesAgree
  <2>6. QED  BY <1>1, <2>1, <2>3, <2>4, <2>5, RestoredText
<1>9. CASE editorReturned
  <2>1. Result("editor_returned")
    BY <1>9 DEF editorReturned
  <2>2. CASE \E k \in DOMAIN queue : FromEditor(queue[k]) /\ text = queue[k].text
    <3>1. /\ mode.kind = "editing" /\ in_flight.kind = "none" /\ Head(queue).text = text
          /\ queue = <<Returned(text)>>
      BY <1>1, <2>1, <2>2, NothingInQueue
    <3> DEFINE editing == [mode EXCEPT !.editor = "external", !.text = Head(queue).text]
    <3>2. commitDescription(editing)
      BY <1>1, <1>9, <3>1 DEF editorReturned, Busy
    <3>3. editing \in Modes /\ editing.text = text
      <4>1. mode \in Modes
        BY DEF DataInv, ModeFits, EditorFits
      <4>2. Head(queue).text \in Value \union {Null}
        BY <2>1, ResultData DEF Events, Result
      <4>3. QED  BY <3>1, <4>1, <4>2 DEF Modes, Text
    <3> HIDE DEF editing
    <3>4. mode' = editing \/ in_flight' = [editing EXCEPT !.kind = "commit"]
      BY <3>2 DEF commitDescription, finishCommit
    <3>5. QED  BY <1>1, <3>3, <3>4 DEF Modes
  <2>3. CASE in_flight.kind = "commit" /\ text = in_flight.text
    BY <2>1, <2>3, ReturnedBack DEF EditorBack
  <2>4. CASE text = mode.text
    <3>1. EditorBack
      BY <2>1, ReturnedBack
    <3>2. QED  BY <1>1, <1>2, <2>4, <3>1 DEF EditorBack, ModesAgree
  <2>5. QED  BY <2>2, <2>3, <2>4, HeldIn
<1>10. QED
  BY <1>3, <1>4, <1>5, <1>6, <1>7, <1>8, <1>9 DEF Handle

\* Keys: what is sent is in the slot, and what is not sent is still open.
LEMMA KeyKeepsText ==
    ASSUME DataInv, LoopInv, KeyPress
    PROVE  TextIsSafeStep
<1> SUFFICES ASSUME NEW text \in Held, text \notin Held',
                    ~((Escape \/ Type) /\ text = mode.text)
             PROVE  FALSE
  BY DEF TextIsSafeStep
<1>1. /\ text \notin {Old, Theirs, Bad, Null} /\ text # mode'.text
      /\ in_flight'.kind = "commit" => text # in_flight'.text
      /\ \A k \in DOMAIN queue' : FromEditor(queue'[k]) => text # queue'[k].text
  BY HeldIn, HeldStays
<1>2. /\ ModesAgree(mode, in_flight)
      /\ mode.kind \notin {"editing", "add"} => mode.text = Null
      /\ in_flight.kind = "none" => in_flight.text = Null
  BY DEF LoopInv, ModesAgree
<1>3. ASSUME queue' = queue
      PROVE  text = mode.text \/ (in_flight.kind = "commit" /\ text = in_flight.text)
  BY <1>1, <1>3, HeldIn
<1>4. CASE Quit \/ Navigate \/ openPrompt \/ openConfirmDelete \/ Descend \/ clearFilter
           \/ applyFilter \/ stepField
  BY <1>1, <1>2, <1>3, <1>4 DEF Quit, Navigate, openPrompt, openConfirmDelete, Descend,
     clearFilter, applyFilter, stepField, Key
<1>5. CASE Refresh \/ cycleStatus \/ submitAdd
  BY <1>1, <1>2, <1>3, <1>5 DEF Refresh, cycleStatus, submitAdd, Busy
<1>6. CASE Confirm
  BY <1>1, <1>2, <1>3, <1>6 DEF Confirm, Key, Busy
<1>7. CASE openEditor
  <2>1. Quiet /\ mode.kind = "field"
    BY <1>7, KeyTime DEF openEditor
  <2>2. QED  BY <1>1, <1>2, <2>1, HeldIn DEF Quiet
<1>8. CASE Type \/ Escape
  <2>1. queue' = queue /\ in_flight' = in_flight
    BY <1>8 DEF Type, Escape
  <2>2. QED  BY <1>1, <1>3, <1>8, <2>1
<1>9. CASE commitEdit
  <2>1. /\ Key("editing") /\ ~Busy /\ queue' = queue
        /\ commitDescription(mode)
           \/ finishCommit(mode.id, mode.field, mode.text, mode)
    BY <1>9 DEF commitEdit
  <2>2. in_flight.kind = "none" /\ mode \in Modes
    BY <2>1 DEF Busy, DataInv, ModeFits, EditorFits
  <2>3. text = mode.text
    BY <1>1, <1>2, <1>3, <2>1, <2>2
  <2>4. mode' = mode \/ in_flight' = [mode EXCEPT !.kind = "commit"]
    BY <2>1 DEF commitDescription, finishCommit
  <2>5. QED  BY <1>1, <2>2, <2>3, <2>4 DEF Modes
<1>10. QED
  BY <1>4, <1>5, <1>6, <1>7, <1>8, <1>9 DEF KeyPress

LEMMA TextIsSafeAction ==
    ASSUME DataInv, LoopInv, Next
    PROVE  TextIsSafeStep
<1>1. ASSUME UNCHANGED <<mode, in_flight>>,
             \A k \in DOMAIN queue : \E j \in DOMAIN queue' : queue'[j] = queue[k]
      PROVE  TextIsSafeStep
  <2>1. ASSUME NEW text \in Held  PROVE text \in Held'
    BY <1>1, HeldIn, HeldStays
  <2>2. QED  BY <2>1 DEF TextIsSafeStep
<1>2. CASE Serve \/ Elsewhere
  BY <1>1, <1>2 DEF Serve, Elsewhere, model
<1>3. CASE runRequest
  <2>1. PICK k \in DOMAIN wire : queue' = Append(queue, wire[k].result)
    BY <1>3 DEF runRequest
  <2>2. queue = <<>>
    BY <2>1, OnlyRequest DEF AtWorker
  <2>3. QED  BY <1>1, <1>3, <2>2 DEF runRequest, model
<1>4. QED  BY <1>2, <1>3, HandleKeepsText, KeyKeepsText DEF Next

\* No failure, conflict or refresh loses a text the user has typed, and a success
\* only what it has not saved of the add prompt: what was typed over the title
\* after Enter.
THEOREM TypedTextIsSafe ==
    ASSUME ~TypeAhead
    PROVE  Spec => TextIsSafe
<1>1. DataInv /\ LoopInv /\ [Next]_vars => [TextIsSafeStep]_vars
  BY TextIsSafeAction
<1>2. Spec => [][TextIsSafeStep]_vars
  BY <1>1, LoopInvariant, PTL DEF Spec
<1>3. QED  BY <1>2 DEF TextIsSafe, TextIsSafeStep
=============================================================================
