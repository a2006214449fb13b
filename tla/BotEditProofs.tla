---------------------------- MODULE BotEditProofs ----------------------------
(***************************************************************************)
(* BotEdit's invariants and action properties, for any number of updates,  *)
(* fields, values and children, and whatever other clients do.             *)
(*                                                                         *)
(* What the bot knows of the task, in a prompt, in a job or in a request   *)
(* on its way, is the task as it was at some version: at the version the   *)
(* server has now it is the task itself, and that is what makes a saved    *)
(* edit change one field. And of each update there is one call the server  *)
(* may still carry out: the one being made, or one that was given up on.   *)
(***************************************************************************)
EXTENDS BotEdit, TLAPS

Kind == {"none", "prompt", "capture", "confirm", "delete"} \union Editing

JobRecord == [kind: Kind, field: Field \union {None}, text: Value \union {None}, pinned: Nat,
              seen: Task \union {None}, base: Task \union {None}, tries: {1, 2}]

\* t is the task as it was, now being what it is.
Known(t, now) ==
    /\ t \in Task
    /\ t.version \in 1..now.version
    /\ t.version = now.version => t = now

\* What the server may do to the task.
Moves(old, new) == new = old \/ (new \in Task /\ new.version = old.version + 1)

JobFits(j, now) ==
    /\ j \in JobRecord
    /\ j.kind \in Editing => j.field \in Field /\ j.text \in Value
    /\ j.kind \in {"reply", "overwrite", "prompt"} => j.field \in TextField
    /\ j.kind \in {"reply", "overwrite"} => j.text \in Value
    /\ j.kind = "reply" => Known(j.seen, now) /\ j.pinned = j.seen.version
    /\ j.kind # "reply" => j.pinned = 0

\* A base was fetched after what the reply is about had been seen.
BaseFits(j, b, now) ==
    /\ Known(b, now)
    /\ j.kind = "reply" => j.seen.version <= b.version

AtFits(at, j, now) ==
    /\ at = "fetch" => j.kind \in Editing \union {"prompt", "confirm"}
    /\ at = "update" => j.kind \in Editing /\ BaseFits(j, j.base, now)
    /\ at = "delete" => j.kind = "delete"
    /\ at = "add" => j.kind = "capture"
    /\ at = "conflict" => j.kind = "reply"
    /\ at \in {"prompt", "register"} => j.kind = "prompt" /\ Known(j.base, now)

\* What an update was told, and how often it changed the server.
Told(at, told, n) ==
    /\ n \in {0, 1}
    /\ at # "done" => told = "none"
    /\ at \in {"card", "list"} => n = 1
    /\ at \notin {"card", "list", "done"} => n = 0
    /\ told = "saved" => n = 1
    /\ told \in {"conflict", "offered"} => n = 0

EditRequest(u, j, b) ==
    [by |-> u, op |-> "update", field |-> j.field,
     content |-> [b.content EXCEPT ![j.field] = j.text],
     kids |-> b.kids, version |-> IF j.pinned # 0 THEN j.pinned ELSE b.version]

RequestFits(r, j, now) ==
    \/ j.kind \in Editing /\ \E b \in Task : BaseFits(j, b, now) /\ r = EditRequest(r.by, j, b)
    \/ j.kind = "delete" /\ r = OtherRequest(r.by, "delete")
    \/ j.kind = "capture" /\ r = OtherRequest(r.by, "add")

-----------------------------------------------------------------------------
(***************************************************************************)
(* The invariant.                                                          *)
(***************************************************************************)
Typed ==
    /\ task \in Task /\ task.version >= 1
    /\ alive \in BOOLEAN
    /\ captured \subseteq Update
    /\ pc \in [Update -> {"new", "fetch", "update", "delete", "add", "card", "list",
                          "conflict", "prompt", "register", "done"}]
    /\ DOMAIN job = Update
    /\ outcome \in [Update -> {"none", "saved", "failed", "gone", "conflict", "offered",
                               "shown", "silence"}]
    /\ commits \in [Update -> Nat]

ChatFits ==
    /\ shown \subseteq Update /\ confirms \subseteq Update /\ DOMAIN prompts \subseteq Update
    /\ \A p \in DOMAIN prompts :
        prompts[p].field \in TextField /\ Known(prompts[p].seen, task)
    /\ \A c \in conflicts : c.field \in TextField /\ c.text \in Value /\ c.seen \in Task

UpdateFits(u) ==
    /\ JobFits(job[u], task)
    /\ AtFits(pc[u], job[u], task)
    /\ Told(pc[u], outcome[u], commits[u])

\* A request nobody waits for any more is the only one of its update.
LateFits(r) ==
    /\ r.by \in Update
    /\ RequestFits(r, job[r.by], task)
    /\ pc[r.by] = "done"
    /\ commits[r.by] = 0
    /\ outcome[r.by] \notin {"saved", "conflict", "offered"}

EditInv ==
    /\ Typed
    /\ ChatFits
    /\ \A u \in Update : UpdateFits(u)
    /\ \A r \in late : LateFits(r)
    /\ \A r, s \in late : r.by = s.by => r = s

-----------------------------------------------------------------------------
(***************************************************************************)
(* What is known stays known, and a job keeps what it is about.            *)
(***************************************************************************)
LEMMA KnownNow ==
  ASSUME NEW now \in Task, now.version >= 1
  PROVE  Known(now, now)
  BY DEF Known, Task

LEMMA KnownStays ==
  ASSUME NEW old \in Task, NEW new, Moves(old, new), NEW t, Known(t, old)
  PROVE  Known(t, new)
  BY DEF Known, Moves, Task

LEMMA FitsStays ==
  ASSUME NEW old \in Task, NEW new, Moves(old, new)
  PROVE  /\ \A j : JobFits(j, old) => JobFits(j, new)
         /\ \A j, b : BaseFits(j, b, old) => BaseFits(j, b, new)
         /\ \A at, j : AtFits(at, j, old) => AtFits(at, j, new)
         /\ \A r, j : RequestFits(r, j, old) => RequestFits(r, j, new)
  <1>1. \A t : Known(t, old) => Known(t, new)
    BY KnownStays
  <1>2. \A j : JobFits(j, old) => JobFits(j, new)
    BY <1>1 DEF JobFits
  <1>3. \A j, b : BaseFits(j, b, old) => BaseFits(j, b, new)
    BY <1>1 DEF BaseFits
  <1>4. \A at, j : AtFits(at, j, old) => AtFits(at, j, new)
    BY <1>1, <1>3 DEF AtFits
  <1>5. \A r, j : RequestFits(r, j, old) => RequestFits(r, j, new)
    BY <1>3 DEF RequestFits
  <1> QED  BY <1>2, <1>3, <1>4, <1>5

\* A job at another base and attempt.
With(j, b, n) ==
    [kind |-> j.kind, field |-> j.field, text |-> j.text, pinned |-> j.pinned,
     seen |-> j.seen, base |-> b, tries |-> n]

LEMMA WithFits ==
  ASSUME NEW now, NEW j, JobFits(j, now), NEW b \in Task \union {None}, NEW n \in {1, 2}
  PROVE  /\ JobFits(With(j, b, n), now)
         /\ \A c : BaseFits(With(j, b, n), c, now) <=> BaseFits(j, c, now)
         /\ \A r : RequestFits(r, With(j, b, n), now) <=> RequestFits(r, j, now)
  <1>1. With(j, b, n) \in JobRecord
    BY DEF JobFits, JobRecord, With
  <1>2. /\ With(j, b, n).kind = j.kind /\ With(j, b, n).field = j.field
        /\ With(j, b, n).text = j.text /\ With(j, b, n).pinned = j.pinned
        /\ With(j, b, n).seen = j.seen
    BY DEF With
  <1>3. \A c : BaseFits(With(j, b, n), c, now) <=> BaseFits(j, c, now)
    BY <1>2 DEF BaseFits
  <1>4. \A u, c : EditRequest(u, With(j, b, n), c) = EditRequest(u, j, c)
    BY <1>2 DEF EditRequest
  <1>5. \A r : RequestFits(r, With(j, b, n), now) <=> RequestFits(r, j, now)
    BY <1>2, <1>3, <1>4 DEF RequestFits
  <1>6. JobFits(With(j, b, n), now)
    BY <1>1, <1>2 DEF JobFits
  <1> QED  BY <1>3, <1>5, <1>6

\* Of the updates only u moves on.
Others(u) ==
    /\ DOMAIN job' = Update
    /\ \A w \in Update \ {u} :
        job'[w] = job[w] /\ pc'[w] = pc[w] /\ outcome'[w] = outcome[w] /\ commits'[w] = commits[w]

\* The update u moves on, and may leave a request of its own behind.
LEMMA UpdateMoves ==
  ASSUME EditInv, NEW u \in Update, pc[u] # "done",
         Moves(task, task'), Typed', ChatFits', Others(u), UpdateFits(u)',
         \A r \in late' \ late : r.by = u /\ LateFits(r)', \A r, s \in late' \ late : r = s
  PROVE  EditInv'
  <1>1. task \in Task
    BY DEF EditInv, Typed
  <1>2. ASSUME NEW w \in Update PROVE UpdateFits(w)'
    <2>1. CASE w = u
      BY <2>1
    <2>2. CASE w # u
      <3>1. /\ job'[w] = job[w] /\ pc'[w] = pc[w]
            /\ outcome'[w] = outcome[w] /\ commits'[w] = commits[w]
        BY <2>2 DEF Others
      <3>2. UpdateFits(w)
        BY DEF EditInv
      <3> QED  BY <1>1, <3>1, <3>2, FitsStays DEF UpdateFits
    <2> QED  BY <2>1, <2>2
  <1>3. ASSUME NEW r \in late PROVE r.by \in Update /\ r.by # u /\ LateFits(r)'
    <2>1. LateFits(r) /\ r.by # u
      BY DEF EditInv, LateFits
    <2>2. /\ job'[r.by] = job[r.by] /\ pc'[r.by] = pc[r.by]
          /\ outcome'[r.by] = outcome[r.by] /\ commits'[r.by] = commits[r.by]
      BY <2>1 DEF Others, LateFits
    <2>3. RequestFits(r, job[r.by], task')
      BY <1>1, <2>1, FitsStays DEF LateFits
    <2> QED  BY <2>1, <2>2, <2>3 DEF LateFits
  <1>4. \A r \in late' : LateFits(r)'
    BY <1>3
  <1>5. \A r, s \in late' : r.by = s.by => r = s
    BY <1>3 DEF EditInv
  <1> QED  BY <1>2, <1>4, <1>5 DEF EditInv

\* Nothing happens to the updates, while the task or the chat may change.
LEMMA WorldMoves ==
  ASSUME EditInv, Moves(task, task'), Typed', ChatFits', late' \subseteq late,
         UNCHANGED <<pc, job, outcome, commits>>
  PROVE  EditInv'
  <1>1. task \in Task
    BY DEF EditInv, Typed
  <1>2. ASSUME NEW w \in Update PROVE UpdateFits(w)'
    <2>1. UpdateFits(w)
      BY DEF EditInv
    <2> QED  BY <1>1, <2>1, FitsStays DEF UpdateFits
  <1>3. ASSUME NEW r \in late PROVE LateFits(r)'
    <2>1. LateFits(r)
      BY DEF EditInv
    <2>2. RequestFits(r, job[r.by], task')
      BY <1>1, <2>1, FitsStays DEF LateFits
    <2> QED  BY <2>1, <2>2 DEF LateFits
  <1> QED  BY <1>2, <1>3 DEF EditInv

\* A chat nothing is put into.
LEMMA ChatStays ==
  ASSUME EditInv, Moves(task, task'), shown' \subseteq shown, UNCHANGED <<prompts, conflicts, confirms>>
  PROVE  ChatFits'
  <1>1. task \in Task
    BY DEF EditInv, Typed
  <1>2. \A p \in DOMAIN prompts : Known(prompts[p].seen, task')
    BY <1>1, KnownStays DEF EditInv, ChatFits
  <1> QED  BY <1>2 DEF EditInv, ChatFits

LEMMA InitFits == Init => EditInv
  <1> SUFFICES ASSUME Init PROVE EditInv
    OBVIOUS
  <1>1. Typed
    BY DEF Init, Typed, Task
  <1>2. ChatFits
    BY DEF Init, ChatFits
  <1>3. NoJob \in JobRecord
    BY DEF NoJob, JobRecord, Kind
  <1>4. \A u \in Update : UpdateFits(u)
    BY <1>3 DEF Init, UpdateFits, NoJob, JobFits, AtFits, Told, Editing
  <1> QED  BY <1>1, <1>2, <1>4 DEF Init, EditInv

-----------------------------------------------------------------------------
(***************************************************************************)
(* The user acts.                                                          *)
(***************************************************************************)
LEMMA BeginFits ==
  ASSUME EditInv, NEW u \in Update, NEW at \in {"fetch", "delete", "add"}, NEW j, Begin(u, at, j),
         JobFits(j, task), AtFits(at, j, task), shown' \subseteq shown,
         UNCHANGED <<prompts, conflicts, confirms>>
  PROVE  EditInv'
  <1>1. /\ pc[u] = "new" /\ pc' = [pc EXCEPT ![u] = at] /\ job' = [job EXCEPT ![u] = j]
        /\ UNCHANGED <<task, alive, captured, late, outcome, commits>>
    BY DEF Begin
  <1>2. Typed /\ UpdateFits(u)
    BY DEF EditInv
  <1>3. Typed'
    BY <1>1, <1>2 DEF Typed
  <1>4. Moves(task, task')
    BY <1>1 DEF Moves
  <1>5. Others(u)
    BY <1>1, <1>2 DEF Others, Typed
  <1>6. UpdateFits(u)'
    BY <1>1, <1>2 DEF UpdateFits, Typed, Told
  <1>7. ChatFits'
    BY <1>4, ChatStays
  <1> QED  BY <1>1, <1>3, <1>4, <1>5, <1>6, <1>7, UpdateMoves

LEMMA ActFits ==
  ASSUME EditInv, NEW u \in Update,
         \/ SetField(u) \/ Done(u) \/ PromptField(u) \/ Capture(u) \/ HandleReply(u)
         \/ ConfirmDelete(u) \/ DoDelete(u) \/ ResolveConflict(u)
  PROVE  EditInv'
  <1>1. Typed /\ ChatFits
    BY DEF EditInv
  <1> USE DEF Job, JobFits, JobRecord, Kind, Editing, AtFits, Field
  <1>2. CASE SetField(u)
    <2>1. PICK f \in Field, v \in Value : Begin(u, "fetch", Job("pick", f, v, 0, None))
      BY <1>2, BotAssumption DEF SetField
    <2>2. JobFits(Job("pick", f, v, 0, None), task)
      OBVIOUS
    <2> QED  BY <1>2, <2>1, <2>2, BeginFits DEF SetField, chat
  <1>10. CASE Done(u)
    <2>1. Begin(u, "fetch", Job("done", Status, Finished, 0, None))
      BY <1>10 DEF Done
    <2>2. JobFits(Job("done", Status, Finished, 0, None), task)
      BY BotAssumption
    <2> QED  BY <1>10, <2>1, <2>2, BeginFits DEF Done, chat
  <1>3. CASE PromptField(u)
    <2>1. PICK f \in TextField : Begin(u, "fetch", Job("prompt", f, None, 0, None))
      BY <1>3 DEF PromptField
    <2>2. JobFits(Job("prompt", f, None, 0, None), task)
      OBVIOUS
    <2> QED  BY <1>3, <2>1, <2>2, BeginFits DEF PromptField, chat
  <1>4. JobFits(CaptureJob, task) /\ CaptureJob.kind = "capture"
    BY DEF CaptureJob
  <1>5. CASE Capture(u)
    BY <1>4, <1>5, BeginFits DEF Capture, chat
  <1>6. CASE HandleReply(u)
    <2>1. PICK p \in shown, v \in Value :
            \/ /\ p \in DOMAIN prompts
               /\ Begin(u, "fetch", ReplyJob(prompts[p], v))
               /\ shown' \in {shown, shown \ {p}}
               /\ UNCHANGED <<prompts, conflicts, confirms>>
            \/ /\ p \notin DOMAIN prompts
               /\ Begin(u, "add", CaptureJob)
               /\ UNCHANGED chat
      BY <1>6 DEF HandleReply
    <2>2. CASE /\ p \in DOMAIN prompts
               /\ Begin(u, "fetch", ReplyJob(prompts[p], v))
               /\ shown' \in {shown, shown \ {p}}
               /\ UNCHANGED <<prompts, conflicts, confirms>>
      <3>1. prompts[p].field \in TextField /\ Known(prompts[p].seen, task)
        BY <1>1, <2>2 DEF ChatFits
      <3>2. prompts[p].seen \in Task /\ prompts[p].seen.version \in Nat
        BY <3>1 DEF Known, Task
      <3>3. JobFits(ReplyJob(prompts[p], v), task)
        BY <3>1, <3>2 DEF ReplyJob
      <3>4. ReplyJob(prompts[p], v).kind = "reply"
        BY DEF ReplyJob
      <3> QED  BY <2>2, <3>3, <3>4, BeginFits
    <2>3. CASE /\ p \notin DOMAIN prompts
               /\ Begin(u, "add", CaptureJob)
               /\ UNCHANGED chat
      BY <1>4, <2>3, BeginFits DEF chat
    <2> QED  BY <2>1, <2>2, <2>3
  <1>7. CASE ConfirmDelete(u)
    <2>1. JobFits(Job("confirm", None, None, 0, None), task)
      OBVIOUS
    <2> QED  BY <1>7, <2>1, BeginFits DEF ConfirmDelete, chat
  <1>8. CASE DoDelete(u)
    <2>1. JobFits(Job("delete", None, None, 0, None), task)
      OBVIOUS
    <2> QED  BY <1>8, <2>1, BeginFits DEF DoDelete, chat
  <1>9. CASE ResolveConflict(u)
    <2>1. PICK c \in conflicts :
            Begin(u, "fetch", Job("overwrite", c.field, c.text, 0, c.seen))
      BY <1>9 DEF ResolveConflict
    <2>2. JobFits(Job("overwrite", c.field, c.text, 0, c.seen), task)
      BY <1>1 DEF ChatFits
    <2> QED  BY <1>9, <2>1, <2>2, BeginFits DEF ResolveConflict, chat
  <1> QED  BY <1>2, <1>3, <1>5, <1>6, <1>7, <1>8, <1>9, <1>10

-----------------------------------------------------------------------------
(***************************************************************************)
(* How a goroutine ends, or goes on after an error.                        *)
(***************************************************************************)
\* What a call of u may do to the server.
ServerMoves(u) ==
    /\ Moves(task, task')
    /\ alive' \in BOOLEAN
    /\ captured' \subseteq Update
    /\ commits' \in [Update -> Nat]
    /\ \A w \in Update \ {u} : commits'[w] = commits[w]
    /\ commits'[u] \in {0, 1}

\* The only request it may leave behind is its own.
OwnLate(u) ==
    /\ \A r \in late' \ late : r.by = u /\ RequestFits(r, job[u], task) /\ commits'[u] = 0
    /\ \A r, s \in late' \ late : r = s

LEMMA ServerRests ==
  ASSUME EditInv, NEW u \in Update, pc[u] # "done", UNCHANGED <<task, alive, captured, commits>>
  PROVE  ServerMoves(u) /\ commits'[u] = IF pc[u] \in {"card", "list"} THEN 1 ELSE 0
  BY DEF EditInv, Typed, UpdateFits, Told, ServerMoves, Moves

LEMMA FinishEffect ==
  ASSUME EditInv, NEW u \in Update, NEW told, Finish(u, told)
  PROVE  /\ pc' = [pc EXCEPT ![u] = "done"]
         /\ outcome' = [outcome EXCEPT ![u] = told]
         /\ DOMAIN job' = Update
         /\ \A w \in Update \ {u} : job'[w] = job[w]
         /\ job'[u] = With(job[u], None, 1)
  <1>1. job[u] \in JobRecord /\ DOMAIN job = Update
    BY DEF EditInv, Typed, UpdateFits, JobFits
  <1>2. job' = [job EXCEPT ![u].base = None, ![u].tries = 1]
    BY DEF Finish
  <1>3. job'[u] = With(job[u], None, 1)
    BY <1>1, <1>2 DEF JobRecord, With
  <1> QED  BY <1>1, <1>2, <1>3 DEF Finish

LEMMA FinishFits ==
  ASSUME EditInv, NEW u \in Update, pc[u] # "done",
         NEW told \in {"saved", "failed", "gone", "conflict", "offered", "shown"},
         Finish(u, told), ServerMoves(u), ChatFits', OwnLate(u),
         told = "saved" => commits'[u] = 1 /\ late' \subseteq late,
         told \in {"conflict", "offered"} => commits'[u] = 0 /\ late' \subseteq late
  PROVE  EditInv'
  <1>1. Typed /\ UpdateFits(u)
    BY DEF EditInv
  <1>2. /\ pc' = [pc EXCEPT ![u] = "done"] /\ outcome' = [outcome EXCEPT ![u] = told]
        /\ DOMAIN job' = Update /\ \A w \in Update \ {u} : job'[w] = job[w]
        /\ job'[u] = With(job[u], None, 1)
    BY FinishEffect
  <1>3. Typed'
    BY <1>1, <1>2 DEF Typed, ServerMoves, Moves, Task
  <1>4. Others(u)
    BY <1>1, <1>2 DEF Others, Typed, ServerMoves
  <1>5. pc'[u] = "done" /\ outcome'[u] = told
    BY <1>1, <1>2 DEF Typed
  <1>6. JobFits(job'[u], task')
    BY <1>1, <1>2, WithFits, FitsStays DEF UpdateFits, Typed, ServerMoves
  <1>7. UpdateFits(u)'
    BY <1>5, <1>6 DEF UpdateFits, AtFits, Told, ServerMoves
  <1>8. ASSUME NEW r \in late' \ late PROVE r.by = u /\ LateFits(r)'
    <2>1. r.by = u /\ RequestFits(r, job[u], task) /\ commits'[u] = 0
      BY DEF OwnLate
    <2>2. RequestFits(r, job[u], task')
      BY <1>1, <2>1, FitsStays DEF Typed, ServerMoves
    <2>3. JobFits(job[u], task')
      BY <1>1, FitsStays DEF UpdateFits, Typed, ServerMoves
    <2>4. RequestFits(r, job'[u], task')
      BY <1>2, <2>2, <2>3, WithFits
    <2> QED  BY <1>5, <2>1, <2>4 DEF LateFits
  <1>9. \A r, s \in late' \ late : r = s
    BY DEF OwnLate
  <1> QED  BY <1>3, <1>4, <1>7, <1>8, <1>9, UpdateMoves DEF ServerMoves

LEMMA ErrorFits ==
  ASSUME EditInv, NEW u \in Update, pc[u] \in {"fetch", "update", "delete", "add"},
         NEW code \in {"failed", "gone", "conflict"}, AfterError(u, code),
         ServerMoves(u), ChatFits', OwnLate(u),
         code = "conflict" => job[u].kind \in Editing,
         code # "failed" => commits'[u] = 0 /\ late' \subseteq late
  PROVE  EditInv'
  <1>1. Typed /\ UpdateFits(u) /\ pc[u] # "done"
    BY DEF EditInv
  <1>2. CASE Finish(u, code)
    BY <1>1, <1>2, FinishFits
  <1>3. CASE /\ Retries(u, code)
             /\ pc' = [pc EXCEPT ![u] = "fetch"]
             /\ job' = [job EXCEPT ![u].base = None, ![u].tries = 2]
             /\ UNCHANGED outcome
    <2>1. code = "conflict"
      BY <1>3 DEF Retries
    <2>2. job[u] \in JobRecord
      BY <1>1 DEF UpdateFits, JobFits
    <2>3. job'[u] = With(job[u], None, 2)
      BY <1>1, <1>3, <2>2 DEF JobRecord, With, Typed
    <2>4. pc'[u] = "fetch" /\ outcome'[u] = "none"
      BY <1>1, <1>3 DEF Typed, UpdateFits, Told
    <2>5. Typed'
      BY <1>1, <1>3 DEF Typed, ServerMoves, Moves, Task
    <2>6. Others(u)
      BY <1>1, <1>3 DEF Others, Typed, ServerMoves
    <2>7. JobFits(job'[u], task')
      BY <1>1, <2>3, WithFits, FitsStays DEF UpdateFits, Typed, ServerMoves
    <2>8. job'[u].kind \in Editing
      BY <2>1, <2>3 DEF With
    <2>9. UpdateFits(u)'
      BY <2>1, <2>4, <2>7, <2>8 DEF UpdateFits, AtFits, Told
    <2> QED  BY <1>1, <2>1, <2>5, <2>6, <2>9, UpdateMoves DEF ServerMoves
  <1>4. CASE /\ IsConflict(u, code)
             /\ pc' = [pc EXCEPT ![u] = "conflict"]
             /\ UNCHANGED <<job, outcome>>
    <2>1. code = "conflict" /\ job[u].kind = "reply"
      BY <1>4 DEF IsConflict
    <2>2. pc'[u] = "conflict" /\ outcome'[u] = "none" /\ job'[u] = job[u]
      BY <1>1, <1>4 DEF Typed, UpdateFits, Told
    <2>3. Typed'
      BY <1>1, <1>4 DEF Typed, ServerMoves, Moves, Task
    <2>4. Others(u)
      BY <1>1, <1>4 DEF Others, Typed, ServerMoves
    <2>5. JobFits(job'[u], task')
      BY <1>1, <2>2, FitsStays DEF UpdateFits, Typed, ServerMoves
    <2>6. UpdateFits(u)'
      BY <2>1, <2>2, <2>5 DEF UpdateFits, AtFits, Told
    <2> QED  BY <1>1, <2>1, <2>3, <2>4, <2>6, UpdateMoves DEF ServerMoves
  <1> QED  BY <1>2, <1>3, <1>4 DEF AfterError

\* The card or the list is still to be fetched, but the change is made.
LEMMA SuccessFits ==
  ASSUME EditInv, NEW u \in Update, pc[u] \in {"update", "delete", "add"}, AfterSuccess(u),
         ServerMoves(u), ChatFits', OwnLate(u), commits'[u] = 1, late' \subseteq late
  PROVE  EditInv'
  <1>1. Typed /\ UpdateFits(u) /\ pc[u] # "done"
    BY DEF EditInv
  <1>2. CASE Finish(u, "saved")
    BY <1>1, <1>2, FinishFits
  <1>3. CASE /\ pc' = [pc EXCEPT ![u] = IF job[u].kind \in {"done", "delete"} THEN "list" ELSE "card"]
             /\ job' = [job EXCEPT ![u].base = None, ![u].tries = 1]
             /\ UNCHANGED outcome
    <2>1. job[u] \in JobRecord
      BY <1>1 DEF UpdateFits, JobFits
    <2>2. job'[u] = With(job[u], None, 1)
      BY <1>1, <1>3, <2>1 DEF JobRecord, With, Typed
    <2>3. pc'[u] \in {"card", "list"} /\ outcome'[u] = "none"
      BY <1>1, <1>3 DEF Typed, UpdateFits, Told
    <2>4. Typed'
      BY <1>1, <1>3 DEF Typed, ServerMoves, Moves, Task
    <2>5. Others(u)
      BY <1>1, <1>3 DEF Others, Typed, ServerMoves
    <2>6. JobFits(job'[u], task')
      BY <1>1, <2>2, WithFits, FitsStays DEF UpdateFits, Typed, ServerMoves
    <2>7. UpdateFits(u)'
      BY <2>3, <2>6 DEF UpdateFits, AtFits, Told
    <2> QED  BY <1>1, <2>4, <2>5, <2>7, UpdateMoves DEF ServerMoves
  <1> QED  BY <1>2, <1>3 DEF AfterSuccess

-----------------------------------------------------------------------------
(***************************************************************************)
(* The server carries a request out.                                       *)
(***************************************************************************)
\* An edit that is saved changes its own field of the task, and a reply only
\* the task its prompt showed.
EditKeeps(u) ==
    job[u].kind \in Editing /\ commits'[u] # commits[u] =>
        /\ task'.kids = task.kids
        /\ task'.content = [task.content EXCEPT ![job[u].field] = job[u].text]
        /\ job[u].kind = "reply" => task = job[u].seen

\* At the version the server has, the base of a request is the task itself.
LEMMA RequestIsCurrent ==
  ASSUME NEW j, NEW b, NEW now, NEW u, JobFits(j, now), BaseFits(j, b, now),
         EditRequest(u, j, b).version = now.version
  PROVE  b = now /\ (j.kind = "reply" => j.seen = now)
  <1>1. EditRequest(u, j, b).version = IF j.pinned # 0 THEN j.pinned ELSE b.version
    BY DEF EditRequest
  <1>2. CASE j.kind = "reply"
    <2>1. /\ j.pinned = j.seen.version /\ j.seen \in Task /\ j.seen.version \in 1..now.version
          /\ j.seen.version = now.version => j.seen = now
          /\ b \in Task /\ b.version \in 1..now.version
          /\ b.version = now.version => b = now
          /\ j.seen.version <= b.version
      BY <1>2 DEF JobFits, BaseFits, Known
    <2>2. j.seen.version \in Nat /\ b.version \in Nat
      BY <2>1 DEF Task
    <2>3. j.seen.version = now.version
      BY <1>1, <2>1, <2>2
    <2> QED  BY <2>1, <2>2, <2>3
  <1>3. CASE j.kind # "reply"
    BY <1>1, <1>3 DEF JobFits, BaseFits, Known
  <1> QED  BY <1>2, <1>3

LEMMA ServeFits ==
  ASSUME EditInv, NEW r, r.by \in Update, RequestFits(r, job[r.by], task), commits[r.by] = 0,
         Serve(r)
  PROVE  /\ ServerMoves(r.by) /\ EditKeeps(r.by)
         /\ commits'[r.by] = IF Verdict(r) = "saved" THEN 1 ELSE 0
         /\ \A w \in Update \ {r.by} : EditKeeps(w)
  <1> DEFINE u == r.by
  <1>1. Typed /\ JobFits(job[u], task)
    BY DEF EditInv, UpdateFits
  <1>2. CASE Verdict(r) # "saved"
    <2>1. UNCHANGED <<task, alive, captured, commits>>
      BY <1>2 DEF Serve
    <2> QED  BY <1>1, <1>2, <2>1 DEF ServerMoves, Moves, EditKeeps, Typed
  <1>3. CASE Verdict(r) = "saved"
    <2>1. /\ commits' = [commits EXCEPT ![u] = @ + 1]
          /\ task' = IF r.op = "update"
                     THEN [version |-> task.version + 1, content |-> r.content, kids |-> r.kids]
                     ELSE task
          /\ alive' = (alive /\ r.op # "delete")
          /\ captured' = IF r.op = "add" THEN captured \union {u} ELSE captured
      BY <1>3 DEF Serve
    <2>2. /\ commits' \in [Update -> Nat] /\ commits'[u] = 1
          /\ \A w \in Update \ {u} : commits'[w] = commits[w]
      BY <1>1, <2>1 DEF Typed
    <2>3. alive' \in BOOLEAN /\ captured' \subseteq Update
      BY <1>1, <2>1 DEF Typed
    <2>4. CASE job[u].kind \notin Editing
      <3>1. r.op # "update"
        BY <2>4 DEF RequestFits, OtherRequest
      <3> QED  BY <1>3, <2>1, <2>2, <2>3, <2>4, <3>1 DEF ServerMoves, Moves, EditKeeps
    <2>5. CASE job[u].kind \in Editing
      <3>1. PICK b \in Task : BaseFits(job[u], b, task) /\ r = EditRequest(u, job[u], b)
        BY <2>5 DEF RequestFits, Editing
      <3>2. /\ r.op = "update" /\ r.kids = b.kids
            /\ r.content = [b.content EXCEPT ![job[u].field] = job[u].text]
        BY <3>1 DEF EditRequest
      <3>3. r.version = task.version
        BY <1>3, <3>2 DEF Verdict
      <3>4. b = task /\ (job[u].kind = "reply" => job[u].seen = task)
        BY <1>1, <3>1, <3>3, RequestIsCurrent
      <3>5. job[u].field \in Field /\ job[u].text \in Value
        BY <1>1, <2>5 DEF JobFits
      <3>6. r.content \in [Field -> Value] /\ r.kids \in SUBSET Child
        BY <1>1, <3>2, <3>4, <3>5 DEF Typed, Task
      <3>7. /\ task' = [version |-> task.version + 1, content |-> r.content, kids |-> r.kids]
            /\ task.version \in Nat
        BY <1>1, <2>1, <3>2 DEF Typed, Task
      <3>8. Moves(task, task')
        BY <3>6, <3>7 DEF Moves, Task
      <3>9. EditKeeps(u)
        BY <3>2, <3>4, <3>7 DEF EditKeeps
      <3> QED  BY <1>3, <2>2, <2>3, <3>8, <3>9 DEF ServerMoves, EditKeeps
    <2> QED  BY <2>4, <2>5
  <1> QED  BY <1>2, <1>3

\* The request a goroutine makes is of its job.
LEMMA CallMakesRequest ==
  ASSUME EditInv, NEW u \in Update, pc[u] \in {"update", "delete", "add"}
  PROVE  /\ Request(u).by = u /\ RequestFits(Request(u), job[u], task)
         /\ pc[u] = "update" => job[u].kind \in Editing
         /\ Verdict(Request(u)) \in {"saved", "gone", "conflict"}
         /\ Verdict(Request(u)) = "conflict" => job[u].kind \in Editing
  <1>1. UpdateFits(u)
    BY DEF EditInv
  <1>2. CASE pc[u] = "update"
    <2>1. job[u].kind \in Editing /\ BaseFits(job[u], job[u].base, task)
      BY <1>1, <1>2 DEF UpdateFits, AtFits
    <2>2. Request(u) = EditRequest(u, job[u], job[u].base)
      BY <1>2 DEF Request, UpdateRequest, EditRequest
    <2>3. Request(u).by = u
      BY <2>2 DEF EditRequest
    <2>4. RequestFits(Request(u), job[u], task)
      BY <2>1, <2>2, <2>3 DEF RequestFits, BaseFits, Known
    <2> QED  BY <2>1, <2>3, <2>4 DEF Verdict
  <1>3. CASE pc[u] = "delete"
    <2>1. job[u].kind = "delete" /\ Request(u) = OtherRequest(u, "delete")
      BY <1>1, <1>3 DEF UpdateFits, AtFits, Request
    <2> QED  BY <1>3, <2>1 DEF OtherRequest, RequestFits, Verdict
  <1>4. CASE pc[u] = "add"
    <2>1. job[u].kind = "capture" /\ Request(u) = OtherRequest(u, "add")
      BY <1>1, <1>4 DEF UpdateFits, AtFits, Request
    <2> QED  BY <1>4, <2>1 DEF OtherRequest, RequestFits, Verdict
  <1> QED  BY <1>2, <1>3, <1>4

LEMMA CallFits ==
  ASSUME EditInv, NEW u \in Update, Call(u)
  PROVE  EditInv' /\ \A w \in Update : EditKeeps(w)
  <1>1. pc[u] \in {"update", "delete", "add"} /\ UNCHANGED chat
    BY DEF Call
  <1>2. /\ Request(u).by = u /\ RequestFits(Request(u), job[u], task)
        /\ Verdict(Request(u)) \in {"saved", "gone", "conflict"}
        /\ Verdict(Request(u)) = "conflict" => job[u].kind \in Editing
    BY <1>1, CallMakesRequest
  <1>3. commits[u] = 0 /\ pc[u] # "done"
    BY <1>1 DEF EditInv, UpdateFits, Told
  <1>4. \A r \in late : r.by # u
    BY <1>3 DEF EditInv, LateFits
  <1>5. ASSUME Serve(Request(u)), UNCHANGED late
        PROVE  /\ ServerMoves(u) /\ OwnLate(u) /\ ChatFits' /\ \A w \in Update : EditKeeps(w)
               /\ commits'[u] = IF Verdict(Request(u)) = "saved" THEN 1 ELSE 0
    <2>1. /\ ServerMoves(u) /\ EditKeeps(u) /\ \A w \in Update \ {u} : EditKeeps(w)
          /\ commits'[u] = IF Verdict(Request(u)) = "saved" THEN 1 ELSE 0
      BY <1>2, <1>3, <1>5, ServeFits
    <2>2. ChatFits'
      BY <1>1, <2>1, ChatStays DEF ServerMoves, chat
    <2>3. OwnLate(u)
      BY <1>5 DEF OwnLate
    <2> QED  BY <2>1, <2>2, <2>3
  <1>6. CASE /\ Serve(Request(u))
             /\ IF Verdict(Request(u)) = "saved"
                THEN AfterSuccess(u)
                ELSE AfterError(u, Verdict(Request(u)))
             /\ UNCHANGED late
    <2>1. CASE Verdict(Request(u)) = "saved"
      <3>1. EditInv'
        BY <1>1, <1>5, <1>6, <2>1, SuccessFits
      <3> QED  BY <1>5, <1>6, <3>1
    <2>2. CASE Verdict(Request(u)) # "saved"
      <3>1. EditInv'
        BY <1>1, <1>2, <1>5, <1>6, <2>2, ErrorFits
      <3> QED  BY <1>5, <1>6, <3>1
    <2> QED  BY <2>1, <2>2
  <1>7. CASE Serve(Request(u)) /\ AfterError(u, "failed") /\ UNCHANGED late
    <2>1. EditInv'
      BY <1>1, <1>5, <1>7, ErrorFits
    <2> QED  BY <1>5, <1>7, <2>1
  <1>8. CASE /\ late' \in {late, late \union {Request(u)}}
             /\ AfterError(u, "failed")
             /\ UNCHANGED <<task, alive, captured, commits>>
    <2>1. ServerMoves(u) /\ commits'[u] = 0
      BY <1>3, <1>8, ServerRests
    <2>2. OwnLate(u)
      BY <1>2, <1>8, <2>1 DEF OwnLate
    <2>3. ChatFits'
      BY <1>1, <2>1, ChatStays DEF ServerMoves, chat
    <2>4. EditInv'
      BY <1>1, <1>8, <2>1, <2>2, <2>3, ErrorFits
    <2> QED  BY <1>8, <2>4 DEF EditKeeps
  <1> QED  BY <1>6, <1>7, <1>8 DEF Call

-----------------------------------------------------------------------------
(***************************************************************************)
(* The other steps.                                                        *)
(***************************************************************************)
LEMMA FetchFits == ASSUME EditInv, NEW u \in Update, Fetch(u) PROVE EditInv'
  <1>1. pc[u] = "fetch" /\ UNCHANGED <<task, alive, captured, late, shown, prompts, conflicts, commits>>
    BY DEF Fetch
  <1>2. Typed /\ ChatFits /\ UpdateFits(u)
    BY DEF EditInv
  <1>3. ServerMoves(u) /\ commits'[u] = 0 /\ OwnLate(u)
    BY <1>1, ServerRests DEF OwnLate
  <1>4. UNCHANGED confirms => ChatFits'
    BY <1>1, <1>2 DEF ChatFits
  <1>5. CASE UNCHANGED confirms /\ AfterError(u, "failed")
    BY <1>1, <1>3, <1>4, <1>5, ErrorFits
  <1>6. CASE UNCHANGED confirms /\ \E told \in {"failed", "gone"} : Finish(u, told)
    BY <1>1, <1>3, <1>4, <1>6, FinishFits
  <1>7. CASE confirms' = confirms \union {u} /\ Finish(u, "shown")
    <2>1. ChatFits'
      BY <1>1, <1>2, <1>7 DEF ChatFits, Typed
    <2> QED  BY <1>1, <1>3, <1>7, <2>1, FinishFits
  <1>8. CASE /\ job[u].kind # "confirm"
             /\ pc' = [pc EXCEPT ![u] = IF IsEdit(u) THEN "update" ELSE "prompt"]
             /\ job' = [job EXCEPT ![u].base = task]
             /\ UNCHANGED <<confirms, outcome>>
    <2>1. job[u] \in JobRecord /\ Known(task, task)
      BY <1>2, KnownNow DEF UpdateFits, JobFits, Typed
    <2>2. job'[u] = With(job[u], task, job[u].tries)
      BY <1>2, <1>8, <2>1 DEF JobRecord, With, Typed
    <2>3. JobFits(job'[u], task)
      BY <1>2, <2>1, <2>2, WithFits DEF JobRecord, UpdateFits, Typed
    <2>4. pc'[u] = (IF IsEdit(u) THEN "update" ELSE "prompt") /\ outcome'[u] = "none"
      BY <1>1, <1>2, <1>8 DEF Typed, UpdateFits, Told
    <2>5. job[u].kind = "reply" => job[u].seen.version <= task.version
      BY <1>2 DEF UpdateFits, JobFits, Known, Typed, Task
    <2>6. AtFits(pc'[u], job'[u], task)
      <3>1. job[u].kind \in Editing \union {"prompt"}
        BY <1>1, <1>2, <1>8 DEF UpdateFits, AtFits
      <3>2. job'[u].kind = job[u].kind /\ job'[u].seen = job[u].seen /\ job'[u].base = task
        BY <2>2 DEF With
      <3> QED  BY <2>1, <2>4, <2>5, <3>1, <3>2 DEF AtFits, BaseFits, IsEdit, Editing
    <2>7. UpdateFits(u)'
      BY <1>1, <1>3, <2>3, <2>4, <2>6 DEF UpdateFits, Told
    <2>8. Typed'
      BY <1>1, <1>2, <1>8 DEF Typed
    <2>9. Others(u)
      BY <1>1, <1>2, <1>8 DEF Others, Typed
    <2> QED  BY <1>1, <1>3, <1>4, <1>8, <2>7, <2>8, <2>9, UpdateMoves DEF ServerMoves
  <1> QED  BY <1>5, <1>6, <1>7, <1>8 DEF Fetch

\* The last fetch after a change that was carried out.
LEMMA ShowFits == ASSUME EditInv, NEW u \in Update, OpenCard(u) \/ ShowList(u) PROVE EditInv'
  <1>1. pc[u] \in {"card", "list"}
        /\ UNCHANGED <<server, late, shown, prompts, conflicts, confirms, commits>>
    BY DEF OpenCard, ShowList
  <1>2. ChatFits /\ UNCHANGED <<task, alive, captured>>
    BY <1>1 DEF EditInv, server
  <1>3. ServerMoves(u) /\ commits'[u] = 1 /\ OwnLate(u)
    BY <1>1, <1>2, ServerRests DEF OwnLate
  <1>4. ChatFits'
    BY <1>1, <1>2 DEF ChatFits
  <1>5. PICK told \in {"failed", "gone", "saved"} : Finish(u, told)
    BY DEF OpenCard, ShowList
  <1> QED  BY <1>1, <1>3, <1>4, <1>5, FinishFits

LEMMA ShowConflictFits == ASSUME EditInv, NEW u \in Update, showConflict(u) PROVE EditInv'
  <1>1. pc[u] = "conflict" /\ UNCHANGED <<server, late, shown, prompts, confirms, commits>>
    BY DEF showConflict
  <1>2. Typed /\ ChatFits /\ UpdateFits(u) /\ UNCHANGED <<task, alive, captured>>
    BY <1>1 DEF EditInv, server
  <1>3. ServerMoves(u) /\ commits'[u] = 0 /\ OwnLate(u)
    BY <1>1, <1>2, ServerRests DEF OwnLate
  <1>4. CASE UNCHANGED conflicts /\ \E told \in {"failed", "gone"} : Finish(u, told)
    <2>1. ChatFits'
      BY <1>1, <1>2, <1>4 DEF ChatFits
    <2> QED  BY <1>1, <1>3, <1>4, <2>1, FinishFits
  <1>5. CASE /\ conflicts' = conflicts \union
                    {[field |-> job[u].field, text |-> job[u].text, seen |-> task]}
             /\ Finish(u, "offered")
    <2>1. job[u].field \in TextField /\ job[u].text \in Value
      BY <1>1, <1>2 DEF UpdateFits, AtFits, JobFits
    <2>2. ChatFits'
      BY <1>1, <1>2, <1>5, <2>1 DEF ChatFits, Typed
    <2> QED  BY <1>1, <1>3, <1>5, <2>2, FinishFits
  <1> QED  BY <1>4, <1>5 DEF showConflict

LEMMA SendPromptFits == ASSUME EditInv, NEW u \in Update, SendPrompt(u) PROVE EditInv'
  <1>1. pc[u] = "prompt" /\ UNCHANGED <<server, late, prompts, conflicts, confirms, commits>>
    BY DEF SendPrompt
  <1>2. Typed /\ ChatFits /\ UpdateFits(u) /\ UNCHANGED <<task, alive, captured>>
    BY <1>1 DEF EditInv, server
  <1>3. ServerMoves(u) /\ commits'[u] = 0 /\ OwnLate(u)
    BY <1>1, <1>2, ServerRests DEF OwnLate
  <1>4. CASE Finish(u, "failed") /\ UNCHANGED shown
    <2>1. ChatFits'
      BY <1>1, <1>2, <1>4 DEF ChatFits
    <2> QED  BY <1>1, <1>3, <1>4, <2>1, FinishFits
  <1>5. CASE /\ shown' = shown \union {u}
             /\ pc' = [pc EXCEPT ![u] = "register"]
             /\ UNCHANGED <<job, outcome>>
    <2>1. ChatFits'
      BY <1>1, <1>2, <1>5 DEF ChatFits
    <2>2. Typed' /\ Others(u)
      BY <1>1, <1>2, <1>5 DEF Typed, Others
    <2>3. UpdateFits(u)'
      BY <1>1, <1>2, <1>5 DEF UpdateFits, AtFits, Told, Typed
    <2> QED  BY <1>1, <1>3, <2>1, <2>2, <2>3, UpdateMoves DEF ServerMoves
  <1> QED  BY <1>4, <1>5 DEF SendPrompt

LEMMA PutPromptFits == ASSUME EditInv, NEW u \in Update, PutPrompt(u) PROVE EditInv'
  <1>1. /\ pc[u] = "register" /\ UNCHANGED <<server, late, shown, conflicts, confirms, commits>>
        /\ prompts' = [p \in DOMAIN prompts \union {u} |->
                        IF p = u THEN [field |-> job[u].field, seen |-> job[u].base] ELSE prompts[p]]
        /\ Finish(u, "shown")
    BY DEF PutPrompt
  <1>2. Typed /\ ChatFits /\ UpdateFits(u) /\ UNCHANGED <<task, alive, captured>>
    BY <1>1 DEF EditInv, server
  <1>3. ServerMoves(u) /\ commits'[u] = 0 /\ OwnLate(u)
    BY <1>1, <1>2, ServerRests DEF OwnLate
  <1>4. job[u].field \in TextField /\ Known(job[u].base, task)
    BY <1>1, <1>2 DEF UpdateFits, AtFits, JobFits
  <1>5. ChatFits'
    BY <1>1, <1>2, <1>4 DEF ChatFits
  <1> QED  BY <1>1, <1>3, <1>5, FinishFits

\* A request that was given up on arrives: nothing waits for it any more.
LEMMA LateArrives == ASSUME EditInv, Late PROVE EditInv' /\ \A w \in Update : EditKeeps(w)
  <1>1. PICK r \in late : Serve(r) /\ late' = late \ {r}
    BY DEF Late
  <1>2. UNCHANGED <<shown, prompts, conflicts, confirms, pc, job, outcome>>
    BY DEF Late
  <1>3. LateFits(r) /\ \A s \in late' : s \in late /\ s.by # r.by
    BY <1>1 DEF EditInv
  <1>4. /\ ServerMoves(r.by) /\ EditKeeps(r.by) /\ \A w \in Update \ {r.by} : EditKeeps(w)
    BY <1>1, <1>3, ServeFits DEF LateFits
  <1>5. Typed
    BY DEF EditInv
  <1>6. ChatFits'
    BY <1>2, <1>4, ChatStays DEF ServerMoves
  <1>7. Typed'
    BY <1>2, <1>4, <1>5 DEF Typed, ServerMoves, Moves, Task
  <1>8. ASSUME NEW w \in Update PROVE UpdateFits(w)'
    <2>1. UpdateFits(w)
      BY DEF EditInv
    <2>2. JobFits(job[w], task') /\ AtFits(pc[w], job[w], task')
      BY <1>4, <1>5, <2>1, FitsStays DEF UpdateFits, ServerMoves, Typed
    <2>3. Told(pc[w], outcome[w], commits'[w])
      <3>1. CASE w = r.by
        BY <1>3, <1>4, <3>1 DEF LateFits, ServerMoves, Told
      <3>2. CASE w # r.by
        BY <1>4, <2>1, <3>2 DEF ServerMoves, UpdateFits
      <3> QED  BY <3>1, <3>2
    <2> QED  BY <1>2, <2>2, <2>3 DEF UpdateFits
  <1>9. ASSUME NEW s \in late' PROVE LateFits(s)'
    <2>1. LateFits(s) /\ s.by # r.by
      BY <1>3 DEF EditInv
    <2>2. RequestFits(s, job[s.by], task')
      BY <1>4, <1>5, <2>1, FitsStays DEF LateFits, ServerMoves, Typed
    <2>3. commits'[s.by] = commits[s.by]
      BY <1>4, <2>1 DEF ServerMoves, LateFits
    <2> QED  BY <1>2, <2>1, <2>2, <2>3 DEF LateFits
  <1>10. \A s, t \in late' : s.by = t.by => s = t
    BY <1>3 DEF EditInv
  <1> QED  BY <1>4, <1>6, <1>7, <1>8, <1>9, <1>10 DEF EditInv

LEMMA ElsewhereFits == ASSUME EditInv, Elsewhere PROVE EditInv'
  <1>1. /\ UNCHANGED <<captured, late, shown, prompts, conflicts, confirms, pc, job, outcome, commits>>
        /\ Typed
    BY DEF Elsewhere, EditInv
  <1>2. Moves(task, task') /\ alive' \in BOOLEAN
    <2>1. CASE \E f \in Field, v \in Value :
                 /\ task' = [task EXCEPT !.version = @ + 1, !.content[f] = v]
                 /\ UNCHANGED alive
      <3>1. PICK f \in Field, v \in Value :
              task' = [task EXCEPT !.version = @ + 1, !.content[f] = v] /\ UNCHANGED alive
        BY <2>1
      <3>2. task' = [version |-> task.version + 1, content |-> [task.content EXCEPT ![f] = v],
                     kids |-> task.kids]
        BY <1>1, <3>1 DEF Typed, Task
      <3> QED  BY <1>1, <3>1, <3>2 DEF Typed, Task, Moves
    <2>2. CASE \E c \in Child :
                 /\ task' = [task EXCEPT !.version = @ + 1,
                                         !.kids = IF c \in @ THEN @ \ {c} ELSE @ \union {c}]
                 /\ UNCHANGED alive
      <3>1. PICK c \in Child :
              /\ task' = [task EXCEPT !.version = @ + 1,
                                      !.kids = IF c \in @ THEN @ \ {c} ELSE @ \union {c}]
              /\ UNCHANGED alive
        BY <2>2
      <3> DEFINE kids == IF c \in task.kids THEN task.kids \ {c} ELSE task.kids \union {c}
      <3>2. task' = [version |-> task.version + 1, content |-> task.content, kids |-> kids]
        BY <1>1, <3>1 DEF Typed, Task
      <3>3. kids \in SUBSET Child
        BY <1>1 DEF Typed, Task
      <3> HIDE DEF kids
      <3> QED  BY <1>1, <3>1, <3>2, <3>3 DEF Typed, Task, Moves
    <2>3. CASE alive' = FALSE /\ UNCHANGED task
      BY <2>3 DEF Moves
    <2> QED  BY <2>1, <2>2, <2>3 DEF Elsewhere
  <1>3. Typed'
    BY <1>1, <1>2 DEF Typed, Moves, Task
  <1>4. ChatFits'
    BY <1>1, <1>2, ChatStays
  <1> QED  BY <1>1, <1>2, <1>3, <1>4, WorldMoves

LEMMA EvictFits == ASSUME EditInv, Evict PROVE EditInv'
  <1>1. /\ UNCHANGED <<task, alive, captured, late, shown, pc, job, outcome, commits>>
        /\ Typed /\ ChatFits
    BY DEF Evict, EditInv
  <1>2. Typed' /\ Moves(task, task')
    BY <1>1 DEF Typed, Moves
  <1>3. ChatFits'
    <2>1. CASE \E p \in DOMAIN prompts :
                 prompts' = Restrict(prompts, DOMAIN prompts \ {p}) /\ UNCHANGED <<conflicts, confirms>>
      BY <1>1, <2>1 DEF ChatFits, Restrict
    <2>2. CASE \E c \in conflicts : conflicts' = conflicts \ {c} /\ UNCHANGED <<prompts, confirms>>
      BY <1>1, <2>2 DEF ChatFits
    <2>3. CASE \E c \in confirms : confirms' = confirms \ {c} /\ UNCHANGED <<prompts, conflicts>>
      BY <1>1, <2>3 DEF ChatFits
    <2> QED  BY <2>1, <2>2, <2>3 DEF Evict
  <1> QED  BY <1>1, <1>2, <1>3, WorldMoves

\* Of the calls that were being made some may still arrive.
LEMMA RestartFits == ASSUME EditInv, Restart PROVE EditInv'
  <1> DEFINE calling == {u \in Update : pc[u] \in {"update", "delete", "add"}}
  <1> DEFINE idle == {u \in Update : pc[u] \in {"new", "done"}}
  <1>1. PICK sent \in SUBSET calling : late' = late \union {Request(u) : u \in sent}
    BY DEF Restart
  <1>2. /\ prompts' = [u \in {} |-> None] /\ conflicts' = {} /\ confirms' = {}
        /\ pc' = [u \in Update |-> IF u \in idle THEN pc[u] ELSE "done"]
        /\ job' = [u \in Update |-> [job[u] EXCEPT !.base = None, !.tries = 1]]
        /\ outcome' = [u \in Update |-> IF u \in idle THEN outcome[u] ELSE "silence"]
        /\ UNCHANGED <<task, alive, captured, shown, commits>>
    BY DEF Restart
  <1>3. Typed /\ ChatFits
    BY DEF EditInv
  <1>4. Typed' /\ ChatFits'
    BY <1>2, <1>3 DEF Typed, ChatFits
  <1>5. ASSUME NEW u \in Update
        PROVE  /\ JobFits(job'[u], task)
               /\ \A r : RequestFits(r, job'[u], task) <=> RequestFits(r, job[u], task)
    <2>1. JobFits(job[u], task) /\ job[u] \in JobRecord
      BY DEF EditInv, UpdateFits, JobFits
    <2>2. job'[u] = With(job[u], None, 1)
      BY <1>2, <2>1 DEF JobRecord, With
    <2> QED  BY <2>1, <2>2, WithFits
  <1>6. ASSUME NEW u \in Update PROVE UpdateFits(u)'
    <2>1. UpdateFits(u)
      BY DEF EditInv
    <2>2. CASE u \in idle
      <3>1. pc'[u] = pc[u] /\ outcome'[u] = outcome[u] /\ commits'[u] = commits[u]
        BY <1>2, <2>2
      <3>2. pc[u] \in {"new", "done"}
        BY <2>2
      <3> QED  BY <1>2, <1>5, <2>1, <3>1, <3>2 DEF UpdateFits, AtFits
    <2>3. CASE u \notin idle
      <3>1. pc'[u] = "done" /\ outcome'[u] = "silence" /\ commits'[u] = commits[u]
        BY <1>2, <2>3
      <3> QED  BY <1>2, <1>5, <2>1, <3>1 DEF UpdateFits, AtFits, Told
    <2> QED  BY <2>2, <2>3
  <1>7. ASSUME NEW r \in late PROVE LateFits(r)' /\ r.by \notin sent
    <2>1. LateFits(r)
      BY DEF EditInv
    <2>2. r.by \in idle /\ r.by \notin calling
      BY <2>1 DEF LateFits
    <2>3. pc'[r.by] = pc[r.by] /\ outcome'[r.by] = outcome[r.by] /\ commits'[r.by] = commits[r.by]
      BY <1>2, <2>2
    <2>4. RequestFits(r, job'[r.by], task)
      BY <1>5, <2>1 DEF LateFits
    <2> QED  BY <1>1, <1>2, <2>1, <2>2, <2>3, <2>4 DEF LateFits
  <1>8. ASSUME NEW u \in sent, NEW r, r = Request(u) PROVE LateFits(r)' /\ r.by = u
    <2>1. u \in Update /\ pc[u] \in {"update", "delete", "add"} /\ u \notin idle
      BY <1>1
    <2>2. r.by = u /\ RequestFits(r, job[u], task)
      BY <1>8, <2>1, CallMakesRequest
    <2>3. RequestFits(r, job'[u], task)
      BY <1>5, <2>1, <2>2
    <2>4. pc'[u] = "done" /\ outcome'[u] = "silence" /\ commits'[u] = 0
      BY <1>2, <2>1 DEF EditInv, UpdateFits, Told
    <2> QED  BY <1>2, <2>1, <2>2, <2>3, <2>4 DEF LateFits
  <1>9. \A r \in late' : LateFits(r)'
    BY <1>1, <1>7, <1>8
  <1>10. \A r, s \in late' : r.by = s.by => r = s
    BY <1>1, <1>7, <1>8 DEF EditInv
  <1> QED  BY <1>4, <1>6, <1>9, <1>10 DEF EditInv

-----------------------------------------------------------------------------
(***************************************************************************)
(* Every step, and what follows.                                           *)
(***************************************************************************)
\* Only a call, made or late, changes the server for an update.
LEMMA StepFits ==
  ASSUME EditInv, [Next]_vars
  PROVE  EditInv' /\ \A w \in Update : EditKeeps(w)
  <1>1. CASE \E u \in Update : Call(u)
    BY <1>1, CallFits
  <1>2. CASE Late
    BY <1>2, LateArrives
  <1>3. CASE \/ \E u \in Update :
                 \/ SetField(u) \/ Done(u) \/ PromptField(u) \/ Capture(u) \/ HandleReply(u)
                 \/ ConfirmDelete(u) \/ DoDelete(u) \/ ResolveConflict(u)
                 \/ Fetch(u) \/ OpenCard(u) \/ ShowList(u) \/ showConflict(u) \/ SendPrompt(u) \/ PutPrompt(u)
             \/ Elsewhere \/ Evict \/ Restart
    <2>1. UNCHANGED commits
      BY <1>3 DEF SetField, Done, PromptField, Capture, HandleReply, ConfirmDelete, DoDelete,
                  ResolveConflict, Begin, Fetch, OpenCard, ShowList, showConflict, SendPrompt,
                  PutPrompt, Elsewhere, Evict, Restart
    <2>2. EditInv'
      BY <1>3, ActFits, FetchFits, ShowFits, ShowConflictFits, SendPromptFits, PutPromptFits,
         ElsewhereFits, EvictFits, RestartFits
    <2> QED  BY <2>1, <2>2 DEF EditKeeps
  <1>4. CASE UNCHANGED vars
    <2>1. /\ UNCHANGED <<task, alive, captured, late, shown, prompts, conflicts, confirms>>
          /\ UNCHANGED <<pc, job, outcome, commits>>
      BY <1>4 DEF vars
    <2>2. Typed' /\ Moves(task, task')
      BY <2>1 DEF EditInv, Typed, Moves
    <2>3. ChatFits'
      BY <2>1, <2>2, ChatStays
    <2> QED  BY <2>1, <2>2, <2>3, WorldMoves DEF EditKeeps
  <1> QED  BY <1>1, <1>2, <1>3, <1>4 DEF Next, Handle

LEMMA EditInvAlways == Spec => []EditInv
  <1> QED  BY InitFits, StepFits, PTL DEF Spec

\* The types of BotEdit: whatever record the registry still has, and whatever
\* a handler is told, is one the next handler can use.
THEOREM BotEditTypeOK == Spec => []TypeOK
  <1>1. EditInv => TypeOK
    BY DEF EditInv, Typed, ChatFits, Known, TypeOK
  <1> QED  BY <1>1, EditInvAlways, PTL

\* One tap or message changes the server at most once, with any number of
\* updates, however their calls fail, arrive late or are tried again, and
\* whenever the bot restarts.
THEOREM EveryUpdateAppliedOnce == Spec => []AppliedOnce
  <1>1. EditInv => AppliedOnce
    BY DEF EditInv, UpdateFits, Told, AppliedOnce
  <1> QED  BY <1>1, EditInvAlways, PTL

\* A task reported gone is gone: a deletion is final, and the bot says so only
\* after a fetch or an answer that showed it.
Gone == \A u \in Update : outcome[u] = "gone" => ~alive

LEMMA GoneStays == EditInv /\ Gone /\ [Next]_vars => Gone'
  <1> SUFFICES ASSUME EditInv, Gone, [Next]_vars PROVE Gone'
    OBVIOUS
  <1>1. DOMAIN outcome = Update /\ alive \in BOOLEAN
    BY DEF EditInv, Typed
  \* What one update is told, the task being as it is after the step.
  <1>2. ASSUME NEW u \in Update, NEW told, Finish(u, told), told = "gone" => ~alive', alive' => alive
        PROVE  Gone'
    BY <1>1, <1>2 DEF Finish, Gone
  <1>3. ASSUME NEW u \in Update, NEW code, AfterError(u, code), code = "gone" => ~alive', alive' => alive
        PROVE  Gone'
    <2>1. CASE Finish(u, code)
      BY <1>2, <1>3, <2>1
    <2>2. CASE UNCHANGED outcome
      BY <1>3, <2>2 DEF Gone
    <2> QED  BY <1>3, <2>1, <2>2 DEF AfterError
  <1>4. ASSUME NEW u \in Update, Fetch(u) PROVE Gone'
    <2>1. alive' = alive
      BY <1>4 DEF Fetch
    <2>2. CASE AfterError(u, "failed")
      BY <1>3, <2>1, <2>2
    <2>3. CASE Finish(u, "failed") \/ Finish(u, "shown")
      BY <1>2, <2>1, <2>3
    <2>4. CASE ~alive /\ Finish(u, "gone")
      BY <1>2, <2>1, <2>4
    <2>5. CASE UNCHANGED outcome
      BY <2>1, <2>5 DEF Gone
    <2> QED  BY <1>4, <2>2, <2>3, <2>4, <2>5 DEF Fetch
  <1>5. ASSUME NEW r, Serve(r) PROVE (alive' => alive) /\ (Verdict(r) = "gone" => ~alive')
    BY <1>1, <1>5 DEF Serve, Verdict
  <1>6. ASSUME NEW u \in Update, Call(u) PROVE Gone'
    <2>1. CASE Serve(Request(u))
      <3>1. (alive' => alive) /\ (Verdict(Request(u)) = "gone" => ~alive')
        BY <1>5, <2>1
      <3>2. CASE AfterSuccess(u)
        BY <1>2, <3>1, <3>2 DEF AfterSuccess, Gone
      <3>3. CASE AfterError(u, Verdict(Request(u))) \/ AfterError(u, "failed")
        BY <1>3, <3>1, <3>3
      <3> QED  BY <1>3, <1>6, <2>1, <3>1, <3>2, <3>3 DEF Call
    <2>2. CASE AfterError(u, "failed") /\ UNCHANGED alive
      BY <1>3, <2>2
    <2> QED  BY <1>6, <2>1, <2>2 DEF Call
  <1>7. ASSUME NEW u \in Update, OpenCard(u) \/ ShowList(u) \/ showConflict(u) PROVE Gone'
    <2>1. alive' = alive
      BY <1>7 DEF OpenCard, ShowList, showConflict, server
    <2>2. PICK told \in {"failed", "saved", "offered", "gone"} :
            Finish(u, told) /\ (told = "gone" => ~alive)
      BY <1>7 DEF OpenCard, ShowList, showConflict
    <2> QED  BY <1>2, <2>1, <2>2
  <1>8. ASSUME NEW u \in Update, SendPrompt(u) \/ PutPrompt(u) PROVE Gone'
    <2>1. alive' = alive
      BY <1>8 DEF SendPrompt, PutPrompt, server
    <2>2. Finish(u, "failed") \/ Finish(u, "shown") \/ UNCHANGED outcome
      BY <1>8 DEF SendPrompt, PutPrompt
    <2> QED  BY <1>2, <2>1, <2>2 DEF Gone
  <1>9. CASE \/ \E u \in Update :
                 \/ SetField(u) \/ Done(u) \/ PromptField(u) \/ Capture(u) \/ HandleReply(u)
                 \/ ConfirmDelete(u) \/ DoDelete(u) \/ ResolveConflict(u)
             \/ Evict \/ UNCHANGED vars
    <2>1. UNCHANGED <<alive, outcome>>
      BY <1>9 DEF SetField, Done, PromptField, Capture, HandleReply, ConfirmDelete, DoDelete,
                  ResolveConflict, Begin, Evict, vars
    <2> QED  BY <2>1 DEF Gone
  <1>10. CASE Late
    <2>1. PICK r \in late : Serve(r) /\ UNCHANGED outcome
      BY <1>10 DEF Late
    <2> QED  BY <1>5, <2>1 DEF Gone
  <1>11. CASE Elsewhere
    <2>1. UNCHANGED outcome /\ alive
      BY <1>11 DEF Elsewhere
    <2> QED  BY <2>1 DEF Gone
  <1>12. CASE Restart
    <2>1. alive' = alive /\ \A u \in Update : outcome'[u] \in {outcome[u], "silence"}
      BY <1>12 DEF Restart
    <2> QED  BY <2>1 DEF Gone
  <1> QED  BY <1>4, <1>6, <1>7, <1>8, <1>9, <1>10, <1>11, <1>12 DEF Next, Handle

\* "Saved" was carried out, and what was refused or only offered was not, nor
\* will a request still on its way make it so; a task reported gone is gone,
\* also when the change had been made before it was found to be.
THEOREM TheUserIsToldTheTruth == Spec => []Honest
  <1>1. EditInv /\ Gone => Honest
    BY DEF EditInv, UpdateFits, Told, Gone, Honest
  <1>2. Init => Gone
    BY DEF Init, Gone
  <1>3. Spec => []Gone
    BY <1>2, GoneStays, EditInvAlways, PTL DEF Spec
  <1> QED  BY <1>1, <1>3, EditInvAlways, PTL

\* Although the whole content is sent back, a saved edit changes its own field
\* of the task as the server has it at that moment.
THEOREM EditsKeepOtherFields == Spec => OwnFieldOnly
  <1>1. EditInv /\ [Next]_vars =>
            [\A u \in Update : Commits(u) =>
                /\ task'.kids = task.kids
                /\ task'.content = [task.content EXCEPT ![job[u].field] = job[u].text]]_vars
    BY StepFits DEF EditKeeps, Commits, Editing
  <1> QED  BY <1>1, EditInvAlways, PTL DEF Spec, OwnFieldOnly

\* A reply is saved on no task but the one its prompt was sent for, unchanged
\* since, however long it was in coming.
THEOREM RepliesClobberNothing == Spec => NoClobber
  <1>1. EditInv /\ [Next]_vars =>
            [\A u \in Update : Commits(u) /\ job[u].kind = "reply" => task = job[u].seen]_vars
    BY StepFits DEF EditKeeps, Commits, Editing
  <1> QED  BY <1>1, EditInvAlways, PTL DEF Spec, NoClobber
=============================================================================
