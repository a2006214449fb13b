------------------------------- MODULE BotChat -------------------------------
(***************************************************************************)
(* The bot's chat: the screens it shows (client/bot/render.go), the taps,  *)
(* commands, messages and replies that arrive, and how main.go's dispatch  *)
(* and HandleCallback (client/bot/handlers.go) route each one to the next  *)
(* screen. Every update is handled by a goroutine of its own, which talks  *)
(* to the server and then edits the tapped message or sends a new one;     *)
(* meanwhile other updates are handled, and other clients change tasks.    *)
(*                                                                         *)
(* A screen's buttons are the whole of what the bot remembers: each has    *)
(* its task and the listing to go back to. What an edit does to a task is  *)
(* in BotEdit, which tasks a listing has in BotReader; here a task exists  *)
(* or not. Messages without buttons that replace no screen are left out.   *)
(***************************************************************************)
EXTENDS Naturals, FiniteSets, Functions

CONSTANTS
    Id,         \* tasks
    Needle,     \* what /find may look for
    Null,       \* no task, no message, no listing; the needle of /list
    Message,    \* ids of the bot's messages
    Goroutine,
    User,       \* Telegram users
    Configured, \* those in the users map
    MaxPage,    \* bound: the last page a listing may have
    MaxUpdates  \* bound: updates handled

ASSUME ChatAssumption ==
    /\ Null \notin Id \union Needle \union Message
    /\ Configured \subseteq User
    /\ MaxPage \in Nat /\ MaxUpdates \in Nat

VARIABLES
    exists, \* the tasks the server has
    used,   \* those it has had
    msgs,   \* the screen each message shows now
    pc,     \* where each goroutine is
    job,    \* what it works on
    out,    \* the screen it is about to deliver
    did,    \* history: the last change the server made for the bot
    left    \* updates that may still arrive

vars == <<exists, used, msgs, pc, job, out, did, left>>

-----------------------------------------------------------------------------
(***************************************************************************)
(* Screens and their buttons.                                              *)
(***************************************************************************)
\* The listing a card was opened from, if any.
Origin(hasList, page, query) == [hasList |-> hasList, page |-> page, query |-> query]

NoOrigin == Origin(FALSE, 0, Null)

act(o, kind, task) ==
    [kind |-> kind, task |-> task, page |-> o.page, query |-> o.query, hasList |-> o.hasList]

\* Mutant: the needle is not carried along.
originOfPage(a) == Origin(a.hasList, a.page, Null)

originOf(a) == Origin(a.hasList, a.page, a.query)

\* came is history: the listing this screen was reached from, if any.
Screen(kind, task, origin, came) ==
    [kind |-> kind, task |-> task, origin |-> origin, rows |-> {}, more |-> FALSE, came |-> came]

Blank == Screen("blank", Null, NoOrigin, NoOrigin)

\* msgTaskGone, "Nothing open.": text alone.
Text == Screen("text", Null, NoOrigin, NoOrigin)

\* Page index of a listing, with or without one after it. Every number on it
\* opens a task and names this very page.
RenderPage(query, index, rows, more) ==
    [kind |-> "list", task |-> Null, origin |-> Origin(TRUE, index, query),
     rows |-> rows, more |-> more, came |-> Origin(TRUE, index, query)]

CardKeyboard(s) ==
    {act(s.origin, kind, s.task) :
        kind \in {"done", "pick", "promptField", "clearTags", "confirmDelete"}
                 \union IF s.origin.hasList THEN {"back"} ELSE {}}

pickerKeyboard(s) == {act(s.origin, kind, s.task) : kind \in {"set", "openTask"}}

DeleteConfirmKeyboard(s) == {act(s.origin, kind, s.task) : kind \in {"doDelete", "openTask"}}

PageKeyboard(s) ==
    {act(s.origin, "openTask", i) : i \in s.rows}
    \union {act(Origin(FALSE, p, s.origin.query), "page", Null) :
               p \in {s.origin.page + 1 : x \in {TRUE} \intersect {s.more}}
                     \union {s.origin.page - 1 : x \in {TRUE} \intersect {s.origin.page > 0}}}

Keyboard(s) ==
    CASE s.kind = "list"     -> PageKeyboard(s)
      [] s.kind = "card"     -> CardKeyboard(s)
      [] s.kind = "picker"   -> pickerKeyboard(s)
      [] s.kind = "confirm"  -> DeleteConfirmKeyboard(s)
      [] s.kind = "conflict" -> {act(s.origin, kind, s.task) : kind \in {"overwrite", "keepTheirs"}}
      [] OTHER               -> {}

-----------------------------------------------------------------------------
(***************************************************************************)
(* Updates arrive.                                                         *)
(***************************************************************************)
\* seen is the screen the user acted on, msg the message to edit (or Null: the
\* answer is a new message), call and then what HandleCallback does.
Job(chat, msg, seen, action, call, then) ==
    [chat |-> chat, msg |-> msg, seen |-> seen, action |-> action, call |-> call, then |-> then]

NoJob == Job(<<Null, Null>>, Null, Blank, act(NoOrigin, "none", Null), "none", "none")

NoMessage == [screen |-> Blank, chat |-> <<Null, Null>>]

Init ==
    /\ exists \in SUBSET Id
    /\ used = exists
    /\ msgs = [m \in Message |-> NoMessage]
    /\ pc = [g \in Goroutine |-> "idle"]
    /\ job = [g \in Goroutine |-> NoJob]
    /\ out = [g \in Goroutine |-> Blank]
    /\ did = [op |-> "none", task |-> Null, seen |-> Blank]
    /\ left = MaxUpdates

\* Mutant: who is asked, and not where.
AuthorizeUser(user, chatType) == user \in Configured

Authorize(user, chatType) == chatType = "private" /\ user \in Configured

\* An update from a user in a chat begins its goroutine; others are dropped.
Begin(g, chat, msg, seen, action, call, then) ==
    /\ pc[g] = "idle"
    /\ left > 0
    /\ Authorize(chat[1], chat[2])
    /\ left' = left - 1
    /\ pc' = [pc EXCEPT ![g] = IF call = "none" THEN "fetch" ELSE "call"]
    /\ job' = [job EXCEPT ![g] = Job(chat, msg, seen, action, call, then)]
    /\ UNCHANGED <<exists, used, out, did>>

Chats == User \X {"private", "group"}

\* /list and /find. (/help, a /find of nothing and a blank message get a text.)
Command(g) ==
    /\ \E chat \in Chats, query \in Needle \union {Null} :
        Begin(g, chat, Null, Blank, act(Origin(FALSE, 0, query), "page", Null), "none", "list")
    /\ UNCHANGED msgs

\* Anything else that is typed becomes a task, if it has a title.
Capture(g) ==
    /\ \E chat \in Chats :
        Begin(g, chat, Null, Blank, act(NoOrigin, "capture", Null), "add", "card")
    /\ UNCHANGED msgs

\* A reply to one of the bot's messages: an edit when the Registry still knows a
\* prompt under that message, which is then deleted if Telegram lets it be, or
\* else one more task.
HandleReply(g) ==
    \E m \in Message :
        LET s == msgs[m].screen IN
        \/ /\ s.kind = "prompt"
           /\ Begin(g, msgs[m].chat, Null, s, act(s.origin, "reply", s.task), "edit", "card")
           /\ msgs' \in {msgs, [msgs EXCEPT ![m] = NoMessage]}
        \/ /\ s.kind # "blank"
           /\ Begin(g, msgs[m].chat, Null, Blank, act(NoOrigin, "capture", Null), "add", "card")
           /\ UNCHANGED msgs

\* What each button calls the server for, and the screen that follows.
Route(kind) ==
    CASE kind \in {"page", "back"}         -> <<"none", "list">>
      [] kind \in {"openTask", "keepTheirs"}     -> <<"none", "card">>
      [] kind = "pick"                     -> <<"none", "picker">>
      [] kind \in {"set", "clearTags", "overwrite"} -> <<"edit", "card">>
      [] kind = "done"                     -> <<"edit", "list">>
      [] kind = "promptField"              -> <<"none", "prompt">>
      [] kind = "confirmDelete"            -> <<"none", "confirm">>
      [] kind = "doDelete"                 -> <<"delete", "list">>

\* A tap on a button whose token the Registry still knows. A token it does not
\* know is answered with "expired", which changes nothing, as does the page counter.
HandleCallback(g) ==
    /\ \E m \in Message :
        \E a \in Keyboard(msgs[m].screen) :
            LET route == Route(a.kind) IN
            Begin(g, msgs[m].chat, IF a.kind = "promptField" THEN Null ELSE m,
                  msgs[m].screen, a, route[1], route[2])
    /\ UNCHANGED msgs

-----------------------------------------------------------------------------
(***************************************************************************)
(* The goroutine.                                                          *)
(***************************************************************************)
\* Mutant: of a screen about one task, the task is the one on the message now.
taskShown(g) ==
    LET m == job[g].msg IN
    IF m = Null \/ job[g].seen.kind = "list" THEN job[g].action.task
    ELSE msgs[m].screen.task

\* The task a goroutine works on: the one in the action.
taskOf(g) == job[g].action.task

Finish(g) ==
    /\ pc' = [pc EXCEPT ![g] = "idle"]
    /\ job' = [job EXCEPT ![g] = NoJob]
    /\ out' = [out EXCEPT ![g] = Blank]

Show(g, screen) ==
    /\ pc' = [pc EXCEPT ![g] = "deliver"]
    /\ out' = [out EXCEPT ![g] = screen]
    /\ UNCHANGED job

\* The text that the task is gone replaces the screen, or is sent.
Gone(g) == IF job[g].msg = Null THEN Finish(g) ELSE Show(g, Text)

Did(op, task, g) == did' = [op |-> op, task |-> task, seen |-> job[g].seen]

\* applyEdit, Delete or Add at the server. A failure of any kind ends with a text.
Call(g) ==
    /\ pc[g] = "call"
    /\ \/ /\ Finish(g)
          /\ UNCHANGED <<exists, used, did>>
       \/ /\ job[g].call \in {"edit", "delete"}
          /\ taskOf(g) \notin exists
          /\ Gone(g)
          /\ UNCHANGED <<exists, used, did>>
       \/ /\ job[g].call = "edit"
          /\ taskOf(g) \in exists
          /\ Did("edit", taskOf(g), g)
          /\ pc' = [pc EXCEPT ![g] = "fetch"]
          /\ UNCHANGED <<exists, used, job, out>>
       \/ /\ job[g].action.kind = "reply"
          /\ taskOf(g) \in exists
          /\ pc' = [pc EXCEPT ![g] = "fetch"]
          /\ job' = [job EXCEPT ![g] = Job(@.chat, @.msg, @.seen, @.action, @.call, "conflict")]
          /\ UNCHANGED <<exists, used, out, did>>
       \/ /\ job[g].call = "delete"
          /\ taskOf(g) \in exists
          /\ exists' = exists \ {taskOf(g)}
          /\ Did("delete", taskOf(g), g)
          /\ pc' = [pc EXCEPT ![g] = "fetch"]
          /\ UNCHANGED <<used, job, out>>
       \/ /\ job[g].call = "add"
          /\ \E i \in Id \ used :
                /\ exists' = exists \union {i}
                /\ used' = used \union {i}
                /\ Show(g, Screen("card", i, NoOrigin, NoOrigin))
          /\ UNCHANGED did
    /\ UNCHANGED <<msgs, left>>

\* A recorded page may be past the last one by now: Paginate clamps it. Here a
\* page may have any task that exists, or say that nothing is open or matches;
\* which it has, BotReader says.
ShowList(g) ==
    LET a == job[g].action IN
    \/ Show(g, Text)
    \/ exists # {} /\ \E index \in 0..a.page, more \in BOOLEAN :
            /\ more => index < MaxPage
            /\ Show(g, RenderPage(a.query, index, exists, more))

\* The task's card, with the keyboard of the screen that follows.
OpenCard(g) ==
    \/ /\ taskOf(g) \in exists
       /\ Show(g, Screen(job[g].then, taskOf(g), originOf(job[g].action), job[g].seen.came))
    \/ taskOf(g) \notin exists /\ Gone(g)

\* The tasks are fetched again for every screen.
Fetch(g) ==
    /\ pc[g] = "fetch"
    /\ \/ Finish(g)
       \/ job[g].then = "list" /\ ShowList(g)
       \/ job[g].then # "list" /\ OpenCard(g)
    /\ UNCHANGED <<exists, used, msgs, did, left>>

\* deliver: edit the message, whatever it shows by now, or send a new one. Telegram
\* may refuse either.
deliver(g) ==
    /\ pc[g] = "deliver"
    /\ \/ UNCHANGED msgs
       \/ \E m \in IF job[g].msg # Null THEN {job[g].msg}
                   ELSE {n \in Message : msgs[n].screen = Blank} :
              msgs' = [msgs EXCEPT ![m] = [screen |-> out[g], chat |-> job[g].chat]]
    /\ Finish(g)
    /\ UNCHANGED <<exists, used, did, left>>

\* Another client deletes a task.
Elsewhere ==
    /\ \E i \in exists : exists' = exists \ {i}
    /\ UNCHANGED <<used, msgs, pc, job, out, did, left>>

\* The bot dies: its goroutines are gone, and no button or prompt resolves.
Restart ==
    /\ msgs' = [m \in Message |->
                  IF msgs[m].screen = Blank THEN NoMessage
                  ELSE [screen |-> Text, chat |-> msgs[m].chat]]
    /\ pc' = [g \in Goroutine |-> "idle"]
    /\ job' = [g \in Goroutine |-> NoJob]
    /\ out' = [g \in Goroutine |-> Blank]
    /\ UNCHANGED <<exists, used, did, left>>

Next ==
    \/ \E g \in Goroutine :
        \/ Command(g) \/ Capture(g) \/ HandleReply(g) \/ HandleCallback(g)
        \/ Call(g) \/ Fetch(g) \/ deliver(g)
    \/ Elsewhere \/ Restart

Spec == Init /\ [][Next]_vars

-----------------------------------------------------------------------------
(***************************************************************************)
(* Properties.                                                             *)
(***************************************************************************)
\* The comments on Origin, Action.Query and Action.HasList: through pickers, prompts, replies,
\* conflicts and confirmations a card keeps the way back to the page and the
\* needle it was opened from, and one that no listing led to has none.
BackIsTrue ==
    \A m \in Message :
        LET s == msgs[m].screen IN
        s.task # Null => s.origin = s.came

\* The comments on Action and DeleteConfirmText: a tap or a reply changes the task its screen
\* was about when the user acted, also on an old message or one that shows
\* another screen by now; and nothing is deleted that the user was not asked about.
TapsHitTheirTask ==
    /\ did.op # "none" => did.task = did.seen.task
    /\ did.op = "delete" => did.seen.kind = "confirm"

\* The comment on Authorize: tasks are shown to configured users only, and in no group.
NoDisclosure ==
    \A m \in Message :
        msgs[m].screen # Blank => msgs[m].chat \in Configured \X {"private"}
=============================================================================
