------------------------------- MODULE BotEdit -------------------------------
(***************************************************************************)
(* The Telegram bot's edits (client/bot/handlers.go) of one task that      *)
(* other clients change at the same time. Every Telegram update (a tap on  *)
(* a button, a reply to a prompt, a message) is handled by a goroutine of  *)
(* its own, which reads the task, then asks the server for a change; its   *)
(* HTTP call may fail, may be carried out although the answer is lost, or  *)
(* may be carried out after the client's timeout.                          *)
(*                                                                         *)
(* The server is the one VersionedForest promises: each request is one     *)
(* step. Cards and pickers only show things and are always at hand; the    *)
(* messages whose buttons carry data (an outstanding prompt, a conflict, a *)
(* confirmation) are state. Their records may leave the Registry at any    *)
(* time, as its capacity decides, and all do when the bot restarts.        *)
(***************************************************************************)
EXTENDS Naturals, FiniteSets, Functions

CONSTANTS
    Update,     \* the Telegram updates the user causes
    TextField,  \* fields edited through a prompt: title, description, tags
    PickField,  \* fields edited through a picker: status, priority, due
    Value,      \* what a field may hold
    Status,     \* the field the Done button sets,
    Finished,   \* to this value
    Tags,       \* the text field that a button clears,
    NoTags,     \* to this value
    Child,      \* tasks that other clients may put under this one
    MaxVersion, \* bound: other clients edit while the version is below
    None

ASSUME BotAssumption ==
    /\ TextField \intersect PickField = {}
    /\ Status \in PickField /\ Tags \in TextField
    /\ {Finished, NoTags} \subseteq Value
    /\ MaxVersion \in Nat
    /\ None \notin Update

Field == TextField \union PickField

Task == [version: Nat, content: [Field -> Value], kids: SUBSET Child]

VARIABLES
    \* the server
    task,       \* the task: its version, fields and children
    alive,      \* it has not been deleted
    captured,   \* the updates whose text became a task of its own
    late,       \* requests their sender gave up on that may still be carried out
    \* the chat, and what the Registry knows of it
    shown,      \* prompts the user can reply to, each named by its update
    prompts,    \* their records: the field and the task as it was
    conflicts,  \* conflict messages: the field, the typed value and the task shown
    confirms,   \* confirmations of a deletion, each named by its update
    \* the goroutines
    pc,
    job,
    outcome,    \* what the bot told the user at the end
    commits     \* history: how often the server carried out a request of each

server == <<task, alive, captured>>
chat == <<shown, prompts, conflicts, confirms>>
vars == <<task, alive, captured, late, shown, prompts, conflicts, confirms,
          pc, job, outcome, commits>>

\* seen is the task as the user last saw it before this update, base the task
\* as the goroutine fetched it.
NoJob == [kind |-> "none", field |-> None, text |-> None, pinned |-> 0,
          seen |-> None, base |-> None, tries |-> 1]

Job(kind, field, text, pinned, seen) ==
    [kind |-> kind, field |-> field, text |-> text, pinned |-> pinned,
     seen |-> seen, base |-> None, tries |-> 1]

Init ==
    /\ task \in [version: {1}, content: [Field -> Value], kids: {{}}]
    /\ alive = TRUE
    /\ captured = {}
    /\ late = {}
    /\ shown = {}
    /\ prompts = [u \in {} |-> None]
    /\ conflicts = {}
    /\ confirms = {}
    /\ pc = [u \in Update |-> "new"]
    /\ job = [u \in Update |-> NoJob]
    /\ outcome = [u \in Update |-> "none"]
    /\ commits = [u \in Update |-> 0]

-----------------------------------------------------------------------------
(***************************************************************************)
(* The user acts, and a goroutine begins.                                  *)
(***************************************************************************)
Begin(u, at, j) ==
    /\ pc[u] = "new"
    /\ pc' = [pc EXCEPT ![u] = at]
    /\ job' = [job EXCEPT ![u] = j]
    /\ UNCHANGED <<task, alive, captured, late, outcome, commits>>

\* One value for one field, or no tags at all.
SetField(u) ==
    /\ \/ \E f \in PickField, v \in Value : Begin(u, "fetch", Job("pick", f, v, 0, None))
       \/ Begin(u, "fetch", Job("pick", Tags, NoTags, 0, None))
    /\ UNCHANGED chat

Done(u) ==
    /\ Begin(u, "fetch", Job("done", Status, Finished, 0, None))
    /\ UNCHANGED chat

\* Mutant: the field asked for is not looked up in promptCopy.
PromptAnyField(u) ==
    /\ \E f \in Field : Begin(u, "fetch", Job("prompt", f, None, 0, None))
    /\ UNCHANGED chat

PromptField(u) ==
    /\ \E f \in TextField : Begin(u, "fetch", Job("prompt", f, None, 0, None))
    /\ UNCHANGED chat

\* Which text becomes the title of the new task makes no difference here.
CaptureJob == Job("capture", None, None, 0, None)

Capture(u) ==
    /\ Begin(u, "add", CaptureJob)
    /\ UNCHANGED chat

\* Mutant: the version is taken when the reply is handled.
ReplyUnpinned(p, v) == Job("reply", p.field, v, 0, p.seen)

\* The version was pinned when the prompt was sent.
ReplyJob(p, v) == Job("reply", p.field, v, p.seen.version, p.seen)

\* A reply whose prompt has no record becomes a task. The prompt message is
\* deleted if Telegram lets it; its record stays.
HandleReply(u) ==
    \E p \in shown, v \in Value :
        \/ /\ p \in DOMAIN prompts
           /\ Begin(u, "fetch", ReplyJob(prompts[p], v))
           /\ shown' \in {shown, shown \ {p}}
           /\ UNCHANGED <<prompts, conflicts, confirms>>
        \/ /\ p \notin DOMAIN prompts
           /\ Begin(u, "add", CaptureJob)
           /\ UNCHANGED chat

ConfirmDelete(u) ==
    /\ Begin(u, "fetch", Job("confirm", None, None, 0, None))
    /\ UNCHANGED chat

DoDelete(u) ==
    /\ confirms # {}
    /\ Begin(u, "delete", Job("delete", None, None, 0, None))
    /\ UNCHANGED chat

\* The Overwrite button. (Keep theirs only opens the card.)
ResolveConflict(u) ==
    /\ \E c \in conflicts : Begin(u, "fetch", Job("overwrite", c.field, c.text, 0, c.seen))
    /\ UNCHANGED chat

-----------------------------------------------------------------------------
(***************************************************************************)
(* The goroutine.                                                          *)
(***************************************************************************)
Finish(u, told) ==
    /\ pc' = [pc EXCEPT ![u] = "done"]
    /\ outcome' = [outcome EXCEPT ![u] = told]
    /\ job' = [job EXCEPT ![u].base = None, ![u].tries = 1]

\* Mutant: a call that failed is tried again too.
RetriesLost(u, code) ==
    job[u].pinned = 0 /\ job[u].tries = 1 /\ code \in {"conflict", "failed"}

\* Mutant: there is no end to the attempts.
RetriesForever(u, code) == job[u].pinned = 0 /\ code \in {"conflict", "failed"}

\* A conflict is tried once more, with nothing pinned.
Retries(u, code) == job[u].pinned = 0 /\ job[u].tries = 1 /\ code = "conflict"

\* Mutant: HandleReply does not ask what kind of error it has.
IsAnyError(u, code) == job[u].kind = "reply" /\ code \in {"conflict", "failed"}

\* HandleReply shows a conflict as a choice.
IsConflict(u, code) == job[u].kind = "reply" /\ code = "conflict"

\* What follows an attempt of applyEdit that ended with an error: a second one,
\* the conflict message for a reply, or the error itself.
AfterError(u, code) ==
    \/ /\ Retries(u, code)
       /\ pc' = [pc EXCEPT ![u] = "fetch"]
       /\ job' = [job EXCEPT ![u].base = None, ![u].tries = 2]
       /\ UNCHANGED outcome
    \/ /\ IsConflict(u, code)
       /\ pc' = [pc EXCEPT ![u] = "conflict"]
       /\ UNCHANGED <<job, outcome>>
    \/ /\ ~Retries(u, code)
       /\ ~IsConflict(u, code)
       /\ Finish(u, code)

\* What follows a change that was carried out. A capture is answered with the
\* task the server returned; the others fetch once more, for the card of the
\* task or for the list the user came from.
AfterSuccess(u) ==
    \/ /\ job[u].kind = "capture"
       /\ Finish(u, "saved")
    \/ /\ job[u].kind # "capture"
       /\ pc' = [pc EXCEPT ![u] = IF job[u].kind \in {"done", "delete"} THEN "list" ELSE "card"]
       /\ job' = [job EXCEPT ![u].base = None, ![u].tries = 1]
       /\ UNCHANGED outcome

Editing == {"pick", "done", "reply", "overwrite"}

IsEdit(u) == job[u].kind \in Editing

\* api.Get, at the start of every attempt and before a prompt or confirmation.
Fetch(u) ==
    /\ pc[u] = "fetch"
    /\ \/ /\ IF IsEdit(u) THEN AfterError(u, "failed") ELSE Finish(u, "failed")
          /\ UNCHANGED confirms
       \/ /\ ~alive
          /\ Finish(u, "gone")
          /\ UNCHANGED confirms
       \/ /\ alive
          /\ \/ /\ job[u].kind = "confirm"
                /\ confirms' = confirms \union {u}
                /\ Finish(u, "shown")
             \/ /\ job[u].kind # "confirm"
                /\ pc' = [pc EXCEPT ![u] = IF IsEdit(u) THEN "update" ELSE "prompt"]
                /\ job' = [job EXCEPT ![u].base = task]
                /\ UNCHANGED <<confirms, outcome>>
    /\ UNCHANGED <<task, alive, captured, late, shown, prompts, conflicts, commits>>

\* Mutant: the request carries the version the server will find.
BlindRequest(u) ==
    [by |-> u, op |-> "update", field |-> job[u].field,
     content |-> [job[u].base.content EXCEPT ![job[u].field] = job[u].text],
     kids |-> job[u].base.kids, version |-> task.version]

\* The whole content goes back, with one field patched.
UpdateRequest(u) ==
    [by |-> u, op |-> "update", field |-> job[u].field,
     content |-> [job[u].base.content EXCEPT ![job[u].field] = job[u].text],
     kids |-> job[u].base.kids,
     version |-> IF job[u].pinned # 0 THEN job[u].pinned ELSE job[u].base.version]

OtherRequest(u, op) ==
    [by |-> u, op |-> op, field |-> None, content |-> None, kids |-> {}, version |-> 0]

Request(u) ==
    CASE pc[u] = "update" -> UpdateRequest(u)
      [] pc[u] = "delete" -> OtherRequest(u, "delete")
      [] pc[u] = "add" -> OtherRequest(u, "add")

\* The status the server gives a request.
Verdict(r) ==
    CASE r.op = "add" -> "saved"
      [] r.op # "add" /\ ~alive -> "gone"
      [] r.op = "update" /\ alive /\ r.version # task.version -> "conflict"
      [] OTHER -> "saved"

\* The server carries a request out, or refuses it.
Serve(r) ==
    IF Verdict(r) = "saved"
    THEN /\ commits' = [commits EXCEPT ![r.by] = @ + 1]
         /\ task' = IF r.op = "update"
                    THEN [version |-> task.version + 1, content |-> r.content, kids |-> r.kids]
                    ELSE task
         /\ alive' = (alive /\ r.op # "delete")
         /\ captured' = IF r.op = "add" THEN captured \union {r.by} ELSE captured
    ELSE UNCHANGED <<task, alive, captured, commits>>

\* One HTTP call that changes something, up to its answer or its timeout. A
\* request the server saw may be answered or not; one it did not see yet may
\* be lost, or overtaken by the timeout.
Call(u) ==
    /\ pc[u] \in {"update", "delete", "add"}
    /\ \/ /\ Serve(Request(u))
          /\ IF Verdict(Request(u)) = "saved"
             THEN AfterSuccess(u)
             ELSE AfterError(u, Verdict(Request(u)))
          /\ UNCHANGED late
       \/ /\ Serve(Request(u))
          /\ AfterError(u, "failed")
          /\ UNCHANGED late
       \/ /\ late' \in {late, late \union {Request(u)}}
          /\ AfterError(u, "failed")
          /\ UNCHANGED <<task, alive, captured, commits>>
    /\ UNCHANGED chat

\* afterMutation's second fetch: the card as it is now, whatever happened to the
\* task since the change was made.
OpenCard(u) ==
    /\ pc[u] = "card"
    /\ \/ Finish(u, "failed")
       \/ ~alive /\ Finish(u, "gone")
       \/ alive /\ Finish(u, "saved")
    /\ UNCHANGED <<server, late, shown, prompts, conflicts, confirms, commits>>

\* Done and DoDelete go back to the list instead.
ShowList(u) ==
    /\ pc[u] = "list"
    /\ Finish(u, "failed") \/ Finish(u, "saved")
    /\ UNCHANGED <<server, late, shown, prompts, conflicts, confirms, commits>>

\* showConflict: both values, and the typed one in the Overwrite button.
showConflict(u) ==
    /\ pc[u] = "conflict"
    /\ \/ Finish(u, "failed") /\ UNCHANGED conflicts
       \/ ~alive /\ Finish(u, "gone") /\ UNCHANGED conflicts
       \/ /\ alive
          /\ conflicts' = conflicts \union
                {[field |-> job[u].field, text |-> job[u].text, seen |-> task]}
          /\ Finish(u, "offered")
    /\ UNCHANGED <<server, late, shown, prompts, confirms, commits>>

\* Telegram shows the prompt, or refuses it.
SendPrompt(u) ==
    /\ pc[u] = "prompt"
    /\ \/ /\ Finish(u, "failed")
          /\ UNCHANGED shown
       \/ /\ shown' = shown \union {u}
          /\ pc' = [pc EXCEPT ![u] = "register"]
          /\ UNCHANGED <<job, outcome>>
    /\ UNCHANGED <<server, late, prompts, conflicts, confirms, commits>>

\* Only now is a reply to it recognised.
PutPrompt(u) ==
    /\ pc[u] = "register"
    /\ prompts' = [p \in DOMAIN prompts \union {u} |->
                    IF p = u THEN [field |-> job[u].field, seen |-> job[u].base] ELSE prompts[p]]
    /\ Finish(u, "shown")
    /\ UNCHANGED <<server, late, shown, conflicts, confirms, commits>>

-----------------------------------------------------------------------------
(***************************************************************************)
(* The world around it.                                                    *)
(***************************************************************************)
\* A request nobody waits for any more arrives.
Late ==
    \E r \in late :
        /\ Serve(r)
        /\ late' = late \ {r}
        /\ UNCHANGED <<shown, prompts, conflicts, confirms, pc, job, outcome>>

\* Another client changes a field, the children, or deletes the task.
Elsewhere ==
    /\ alive
    /\ task.version < MaxVersion
    /\ \/ \E f \in Field, v \in Value :
            /\ task.content[f] # v
            /\ task' = [task EXCEPT !.version = @ + 1, !.content[f] = v]
            /\ UNCHANGED alive
       \/ \E c \in Child :
            /\ task' = [task EXCEPT !.version = @ + 1,
                                    !.kids = IF c \in @ THEN @ \ {c} ELSE @ \union {c}]
            /\ UNCHANGED alive
       \/ alive' = FALSE /\ UNCHANGED task
    /\ UNCHANGED <<captured, late, shown, prompts, conflicts, confirms, pc, job, outcome, commits>>

\* The Registry evicts a record.
Evict ==
    /\ \/ \E p \in DOMAIN prompts :
            prompts' = Restrict(prompts, DOMAIN prompts \ {p}) /\ UNCHANGED <<conflicts, confirms>>
       \/ \E c \in conflicts : conflicts' = conflicts \ {c} /\ UNCHANGED <<prompts, confirms>>
       \/ \E c \in confirms : confirms' = confirms \ {c} /\ UNCHANGED <<prompts, conflicts>>
    /\ UNCHANGED <<task, alive, captured, late, shown, pc, job, outcome, commits>>

\* The bot restarts: its goroutines and its Registry are gone. A call that was
\* on its way may still arrive.
Restart ==
    LET calling == {u \in Update : pc[u] \in {"update", "delete", "add"}}
        idle == {u \in Update : pc[u] \in {"new", "done"}} IN
    /\ \E sent \in SUBSET calling : late' = late \union {Request(u) : u \in sent}
    /\ prompts' = [u \in {} |-> None]
    /\ conflicts' = {}
    /\ confirms' = {}
    /\ pc' = [u \in Update |-> IF u \in idle THEN pc[u] ELSE "done"]
    /\ job' = [u \in Update |-> [job[u] EXCEPT !.base = None, !.tries = 1]]
    /\ outcome' = [u \in Update |-> IF u \in idle THEN outcome[u] ELSE "silence"]
    /\ UNCHANGED <<task, alive, captured, shown, commits>>

Handle(u) ==
    \/ Fetch(u) \/ Call(u) \/ OpenCard(u) \/ ShowList(u)
    \/ showConflict(u) \/ SendPrompt(u) \/ PutPrompt(u)

Next ==
    \/ \E u \in Update :
        \/ SetField(u) \/ Done(u) \/ PromptField(u) \/ Capture(u) \/ HandleReply(u)
        \/ ConfirmDelete(u) \/ DoDelete(u) \/ ResolveConflict(u)
        \/ Handle(u)
    \/ Late \/ Elsewhere \/ Evict \/ Restart

Spec == Init /\ [][Next]_vars

\* A goroutine runs on: its client gives every call fifteen seconds.
FairSpec == Spec /\ \A u \in Update : WF_vars(Handle(u))

-----------------------------------------------------------------------------
(***************************************************************************)
(* Properties.                                                             *)
(***************************************************************************)
TypeOK ==
    /\ task \in Task
    /\ alive \in BOOLEAN
    /\ captured \subseteq Update
    /\ shown \subseteq Update /\ confirms \subseteq Update /\ DOMAIN prompts \subseteq Update
    /\ \A p \in DOMAIN prompts : prompts[p].field \in TextField /\ prompts[p].seen \in Task
    /\ \A c \in conflicts : c.field \in TextField /\ c.text \in Value /\ c.seen \in Task
    /\ pc \in [Update -> {"new", "fetch", "update", "delete", "add", "card", "list",
                          "conflict", "prompt", "register", "done"}]
    /\ outcome \in [Update -> {"none", "saved", "failed", "gone", "conflict", "offered",
                               "shown", "silence"}]
    /\ commits \in [Update -> Nat]

\* One tap or message changes the server once at most, however its calls fail,
\* arrive late or are tried again.
AppliedOnce == \A u \in Update : commits[u] <= 1

\* What the user is told is true: "saved" (the card, the list or the new task is
\* shown) only if the change was carried out, once; a conflict or an offered
\* choice only if nothing was; and a task reported gone is gone, whether it was
\* found so before the change or when its card was fetched after it. "failed"
\* promises nothing: an answer may be lost, and so may the second fetch.
Honest ==
    \A u \in Update :
        /\ outcome[u] = "saved" => commits[u] = 1
        /\ outcome[u] \in {"conflict", "offered"} => commits[u] = 0
        /\ outcome[u] = "gone" => ~alive

Commits(u) == commits'[u] # commits[u] /\ job[u].kind \in Editing

\* Content is replaced wholesale, and yet an edit changes its own field alone:
\* whatever other clients did to the others, and to the children, stays.
OwnFieldOnly ==
    [][\A u \in Update : Commits(u) =>
        /\ task'.kids = task.kids
        /\ task'.content = [task.content EXCEPT ![job[u].field] = job[u].text]]_vars

\* "a free-text edit cannot silently clobber a change made elsewhere": a reply
\* is only saved on the very task its prompt was sent for.
NoClobber ==
    [][\A u \in Update : Commits(u) /\ job[u].kind = "reply" => task = job[u].seen]_vars

\* Every update is dealt with in the end, whatever fails.
Finishes == \A u \in Update : pc[u] # "new" ~> pc[u] = "done"

-----------------------------------------------------------------------------
(***************************************************************************)
(* What comments say, and the code does not do.                            *)
(***************************************************************************)
\* The comment on Action.ExpectedVersion: the 409-resolution kinds pin a version
\* too, so that the text written over a conflict replaces what was shown.
OverwritesWhatWasShown ==
    [][\A u \in Update : Commits(u) /\ job[u].kind = "overwrite" =>
        task.content[job[u].field] = job[u].seen.content[job[u].field]]_vars
=============================================================================
