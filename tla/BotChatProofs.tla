---------------------------- MODULE BotChatProofs ----------------------------
(***************************************************************************)
(* BotChat's three properties, for any tasks, messages, goroutines and     *)
(* users. The invariant says of every screen, shown or about to be, and of *)
(* every job what the next screen or the next change takes over from it.   *)
(***************************************************************************)
EXTENDS BotChat, TLAPS

Chat == Configured \X {"private"}

Thens == {"list", "card", "picker", "confirm", "prompt", "conflict"}

\* What a screen must be for its buttons to be right.
ScreenFits(s) ==
    /\ s.origin = Origin(s.origin.hasList, s.origin.page, s.origin.query)
    /\ s.kind \in {"blank", "text", "list"} => s.task = Null
    /\ s.kind \notin {"blank", "text"} => s.origin = s.came

MessageFits(message) ==
    /\ ScreenFits(message.screen)
    /\ message.screen # Blank => message.chat \in Chat

\* What an action on a screen, with its call and what follows, must be.
WorkFits(seen, action, call, then) ==
    /\ then \in Thens
    /\ then # "list" /\ call # "add" => originOf(action) = seen.came
    /\ call \in {"edit", "delete"} => action.task = seen.task
    /\ call = "delete" => seen.kind = "confirm"
    /\ action.kind = "reply" => then # "list" /\ call = "edit"

JobFits(j, at) ==
    /\ at # "idle" => j.chat \in Chat /\ WorkFits(j.seen, j.action, j.call, j.then)
    /\ at = "fetch" => j.call # "add"

Domains ==
    /\ DOMAIN msgs = Message
    /\ DOMAIN pc = Goroutine
    /\ DOMAIN job = Goroutine
    /\ DOMAIN out = Goroutine

ChatInv ==
    /\ Domains
    /\ \A m \in Message : MessageFits(msgs[m])
    /\ \A g \in Goroutine : JobFits(job[g], pc[g]) /\ ScreenFits(out[g])
    /\ TapsHitTheirTask

\* Text and the empty screen fit.
LEMMA TextFits == ScreenFits(Blank) /\ ScreenFits(Text) /\ Blank.kind = "blank"
  BY DEF ScreenFits, Blank, Text, Screen, NoOrigin, Origin

\* The buttons of a screen that fits: each takes the screen's task and its
\* origin, unless it leads to another page or is a number in a listing.
LEMMA TapFits ==
  ASSUME NEW s, ScreenFits(s), NEW a \in Keyboard(s)
  PROVE  /\ s.kind \notin {"blank", "text"}
         /\ WorkFits(s, a, Route(a.kind)[1], Route(a.kind)[2])
         /\ Route(a.kind)[1] # "add"
  <1>1. CASE s.kind = "list"
    <2>1. \/ a.kind = "openTask" /\ originOf(a) = s.origin
          \/ a.kind = "page"
      BY <1>1 DEF Keyboard, PageKeyboard, act, originOf, Origin, ScreenFits
    <2>2. a.kind = "openTask" => Route(a.kind) = <<"none", "card">>
      BY DEF Route
    <2>3. a.kind = "page" => Route(a.kind) = <<"none", "list">>
      BY DEF Route
    <2> QED  BY <1>1, <2>1, <2>2, <2>3 DEF WorkFits, Thens, ScreenFits
  <1>2. CASE s.kind \in {"card", "picker", "confirm", "conflict"}
    <2>1. /\ originOf(a) = s.came
          /\ a.task = s.task
          /\ a.kind \in {"done", "pick", "promptField", "clearTags", "confirmDelete", "back",
                         "set", "openTask", "doDelete", "overwrite", "keepTheirs"}
          /\ a.kind = "doDelete" => s.kind = "confirm"
      BY <1>2 DEF Keyboard, CardKeyboard, pickerKeyboard, DeleteConfirmKeyboard, act, originOf,
                  Origin, ScreenFits
    <2>2. a.kind \in {"openTask", "keepTheirs"} => Route(a.kind) = <<"none", "card">>
      BY DEF Route
    <2>3. a.kind \in {"set", "clearTags", "overwrite"} => Route(a.kind) = <<"edit", "card">>
      BY DEF Route
    <2>4. /\ a.kind = "done" => Route(a.kind) = <<"edit", "list">>
          /\ a.kind = "back" => Route(a.kind) = <<"none", "list">>
          /\ a.kind = "pick" => Route(a.kind) = <<"none", "picker">>
          /\ a.kind = "promptField" => Route(a.kind) = <<"none", "prompt">>
          /\ a.kind = "confirmDelete" => Route(a.kind) = <<"none", "confirm">>
          /\ a.kind = "doDelete" => Route(a.kind) = <<"delete", "list">>
      BY DEF Route
    <2> QED  BY <1>2, <2>1, <2>2, <2>3, <2>4 DEF WorkFits, Thens
  <1> QED  BY <1>1, <1>2 DEF Keyboard

\* An update that begins a goroutine with a job that fits.
LEMMA BeginFits ==
  ASSUME ChatInv, NEW g \in Goroutine, NEW chat, NEW msg, NEW seen, NEW action, NEW call, NEW then,
         Begin(g, chat, msg, seen, action, call, then), WorkFits(seen, action, call, then),
         chat \in Chats \/ chat \in Chat,
         DOMAIN msgs' = Message, \A m \in Message : MessageFits(msgs'[m])
  PROVE  ChatInv'
  <1>1. chat \in Chat
    BY DEF Begin, Authorize, Chats, Chat
  <1>2. /\ pc' = [pc EXCEPT ![g] = IF call = "none" THEN "fetch" ELSE "call"]
        /\ job' = [job EXCEPT ![g] = Job(chat, msg, seen, action, call, then)]
        /\ out' = out /\ did' = did
    BY DEF Begin
  <1>3. JobFits(Job(chat, msg, seen, action, call, then),
                IF call = "none" THEN "fetch" ELSE "call")
    BY <1>1 DEF JobFits, Job
  <1> QED  BY <1>2, <1>3 DEF ChatInv, Domains, TapsHitTheirTask

\* A goroutine that ends or has a screen to deliver.
LEMMA GoroutineFits ==
  ASSUME ChatInv, NEW g \in Goroutine, NEW screen, ScreenFits(screen),
         Finish(g) \/ Show(g, screen), pc[g] # "idle",
         DOMAIN msgs' = Message, \A m \in Message : MessageFits(msgs'[m]), TapsHitTheirTask'
  PROVE  ChatInv'
  <1>1. CASE Finish(g)
    <2>1. JobFits(NoJob, "idle")
      BY DEF JobFits
    <2> QED  BY <1>1, <2>1, TextFits DEF Finish, ChatInv, Domains
  <1>2. CASE Show(g, screen)
    <2>1. JobFits(job[g], "deliver")
      BY DEF ChatInv, JobFits
    <2> QED  BY <1>2, <2>1 DEF Show, ChatInv, Domains
  <1> QED  BY <1>1, <1>2

-----------------------------------------------------------------------------
LEMMA ChatInvInit == Init => ChatInv
  <1> SUFFICES ASSUME Init PROVE ChatInv
    OBVIOUS
  <1>1. MessageFits(NoMessage) /\ JobFits(NoJob, "idle")
    BY TextFits DEF MessageFits, NoMessage, JobFits
  <1> QED  BY <1>1, TextFits DEF Init, ChatInv, Domains, TapsHitTheirTask

LEMMA ChatInvStep == ChatInv /\ [Next]_vars => ChatInv'
  <1> SUFFICES ASSUME ChatInv, [Next]_vars PROVE ChatInv'
    OBVIOUS
  <1>0. ASSUME UNCHANGED msgs
        PROVE  DOMAIN msgs' = Message /\ \A m \in Message : MessageFits(msgs'[m])
    BY <1>0 DEF ChatInv, Domains
  <1>1. ASSUME NEW g \in Goroutine, Command(g) PROVE ChatInv'
    <2>1. PICK chat \in Chats, query \in Needle \union {Null} :
             Begin(g, chat, Null, Blank, act(Origin(FALSE, 0, query), "page", Null), "none", "list")
      BY <1>1 DEF Command
    <2>2. WorkFits(Blank, act(Origin(FALSE, 0, query), "page", Null), "none", "list")
      BY DEF WorkFits, Thens, act
    <2>3. UNCHANGED msgs
      BY <1>1 DEF Command
    <2> QED  BY <1>0, <2>1, <2>2, <2>3, BeginFits
  <1>2. ASSUME NEW g \in Goroutine, Capture(g) PROVE ChatInv'
    <2>1. PICK chat \in Chats :
             Begin(g, chat, Null, Blank, act(NoOrigin, "capture", Null), "add", "card")
      BY <1>2 DEF Capture
    <2>2. WorkFits(Blank, act(NoOrigin, "capture", Null), "add", "card")
      BY DEF WorkFits, Thens, act
    <2>3. UNCHANGED msgs
      BY <1>2 DEF Capture
    <2> QED  BY <1>0, <2>1, <2>2, <2>3, BeginFits
  <1>3. ASSUME NEW g \in Goroutine, HandleReply(g) PROVE ChatInv'
    <2> PICK m \in Message :
          \/ /\ msgs[m].screen.kind = "prompt"
             /\ Begin(g, msgs[m].chat, Null, msgs[m].screen,
                      act(msgs[m].screen.origin, "reply", msgs[m].screen.task), "edit", "card")
             /\ msgs' \in {msgs, [msgs EXCEPT ![m] = NoMessage]}
          \/ /\ msgs[m].screen.kind # "blank"
             /\ Begin(g, msgs[m].chat, Null, Blank, act(NoOrigin, "capture", Null), "add", "card")
             /\ UNCHANGED msgs
      BY <1>3 DEF HandleReply
    <2> DEFINE s == msgs[m].screen
    <2>1. MessageFits(msgs[m])
      BY DEF ChatInv
    <2>2. s.kind # "blank" => msgs[m].chat \in Chat
      BY <2>1, TextFits DEF MessageFits
    <2>3. CASE /\ s.kind = "prompt"
               /\ Begin(g, msgs[m].chat, Null, s, act(s.origin, "reply", s.task), "edit", "card")
               /\ msgs' \in {msgs, [msgs EXCEPT ![m] = NoMessage]}
      <3>1. WorkFits(s, act(s.origin, "reply", s.task), "edit", "card")
        BY <2>1, <2>3 DEF WorkFits, Thens, act, originOf, Origin, MessageFits, ScreenFits
      <3>2. MessageFits(NoMessage)
        BY TextFits DEF MessageFits, NoMessage
      <3>3. DOMAIN msgs' = Message /\ \A n \in Message : MessageFits(msgs'[n])
        BY <2>3, <3>2 DEF ChatInv, Domains
      <3> QED  BY <2>2, <2>3, <3>1, <3>3, BeginFits
    <2>4. CASE /\ s.kind # "blank"
               /\ Begin(g, msgs[m].chat, Null, Blank, act(NoOrigin, "capture", Null), "add", "card")
               /\ UNCHANGED msgs
      <3>1. WorkFits(Blank, act(NoOrigin, "capture", Null), "add", "card")
        BY DEF WorkFits, Thens, act
      <3> QED  BY <1>0, <2>2, <2>4, <3>1, BeginFits
    <2> QED  BY <2>3, <2>4
  <1>4. ASSUME NEW g \in Goroutine, HandleCallback(g) PROVE ChatInv'
    <2> PICK m \in Message : \E a \in Keyboard(msgs[m].screen) :
             Begin(g, msgs[m].chat, IF a.kind = "promptField" THEN Null ELSE m,
                   msgs[m].screen, a, Route(a.kind)[1], Route(a.kind)[2])
      BY <1>4 DEF HandleCallback
    <2>1. PICK a \in Keyboard(msgs[m].screen) :
             Begin(g, msgs[m].chat, IF a.kind = "promptField" THEN Null ELSE m,
                   msgs[m].screen, a, Route(a.kind)[1], Route(a.kind)[2])
      OBVIOUS
    <2>2. MessageFits(msgs[m])
      BY DEF ChatInv
    <2>3. /\ WorkFits(msgs[m].screen, a, Route(a.kind)[1], Route(a.kind)[2])
          /\ msgs[m].chat \in Chat
      BY <2>2, TapFits, TextFits DEF MessageFits
    <2>4. UNCHANGED msgs
      BY <1>4 DEF HandleCallback
    <2> QED  BY <1>0, <2>1, <2>3, <2>4, BeginFits
  <1>5. ASSUME NEW g \in Goroutine, Call(g) PROVE ChatInv'
    <2>1. UNCHANGED msgs /\ pc[g] = "call" /\ JobFits(job[g], pc[g])
      BY <1>5 DEF Call, ChatInv
    <2>2. WorkFits(job[g].seen, job[g].action, job[g].call, job[g].then)
      BY <2>1 DEF JobFits
    <2>3. CASE Finish(g) /\ UNCHANGED did
      BY <1>0, <2>1, <2>3, TextFits, GoroutineFits DEF TapsHitTheirTask, ChatInv
    <2>4. CASE Gone(g) /\ UNCHANGED did
      BY <1>0, <2>1, <2>4, TextFits, GoroutineFits DEF TapsHitTheirTask, ChatInv, Gone
    <2>5. CASE /\ pc' = [pc EXCEPT ![g] = "fetch"] /\ UNCHANGED <<job, out>>
               /\ \/ job[g].call = "edit" /\ Did("edit", taskOf(g), g)
                  \/ job[g].call = "delete" /\ Did("delete", taskOf(g), g)
      <3>1. TapsHitTheirTask'
        BY <2>2, <2>5 DEF Did, taskOf, WorkFits, TapsHitTheirTask
      <3>2. JobFits(job[g], "fetch")
        BY <2>1, <2>5 DEF JobFits
      <3> QED  BY <2>1, <2>5, <3>1, <3>2 DEF ChatInv, Domains
    <2>6. CASE /\ job[g].action.kind = "reply"
               /\ pc' = [pc EXCEPT ![g] = "fetch"]
               /\ job' = [job EXCEPT ![g] = Job(job[g].chat, job[g].msg, job[g].seen, job[g].action,
                                                job[g].call, "conflict")]
               /\ UNCHANGED <<out, did>>
      <3>1. JobFits(Job(job[g].chat, job[g].msg, job[g].seen, job[g].action, job[g].call,
                        "conflict"), "fetch")
        BY <2>1, <2>2, <2>6 DEF JobFits, Job, WorkFits, Thens
      <3> QED  BY <2>1, <2>6, <3>1 DEF ChatInv, Domains, TapsHitTheirTask
    <2>7. ASSUME NEW i \in Id, Show(g, Screen("card", i, NoOrigin, NoOrigin)), UNCHANGED did
          PROVE  ChatInv'
      <3>1. ScreenFits(Screen("card", i, NoOrigin, NoOrigin))
        BY DEF ScreenFits, Screen, NoOrigin, Origin
      <3> QED  BY <1>0, <2>1, <2>7, <3>1, GoroutineFits DEF TapsHitTheirTask, ChatInv
    <2> QED  BY <1>5, <2>3, <2>4, <2>5, <2>6, <2>7 DEF Call
  <1>6. ASSUME NEW g \in Goroutine, Fetch(g) PROVE ChatInv'
    <2>1. UNCHANGED <<msgs, did>> /\ pc[g] = "fetch" /\ JobFits(job[g], pc[g])
      BY <1>6 DEF Fetch, ChatInv
    <2>2. WorkFits(job[g].seen, job[g].action, job[g].call, job[g].then) /\ job[g].call # "add"
      BY <2>1 DEF JobFits
    <2>3. TapsHitTheirTask'
      BY <2>1 DEF TapsHitTheirTask, ChatInv
    <2>4. ASSUME NEW screen, ScreenFits(screen), Finish(g) \/ Show(g, screen) PROVE ChatInv'
      BY <1>0, <2>1, <2>3, <2>4, GoroutineFits
    <2>5. CASE Finish(g)
      BY <2>4, <2>5, TextFits
    <2>6. CASE ShowList(g)
      <3>1. ASSUME NEW index, NEW more PROVE
              ScreenFits(RenderPage(job[g].action.query, index, exists, more))
        BY DEF ScreenFits, RenderPage, Origin
      <3> QED  BY <2>4, <2>6, <3>1, TextFits DEF ShowList
    <2>7. CASE job[g].then # "list" /\ OpenCard(g)
      <3>1. ScreenFits(Screen(job[g].then, taskOf(g), originOf(job[g].action), job[g].seen.came))
        BY <2>2, <2>7 DEF ScreenFits, Screen, originOf, Origin, WorkFits, Thens
      <3> QED  BY <2>4, <2>7, <3>1, TextFits DEF OpenCard, Gone
    <2> QED  BY <1>6, <2>5, <2>6, <2>7 DEF Fetch
  <1>7. ASSUME NEW g \in Goroutine, deliver(g) PROVE ChatInv'
    <2>1. pc[g] = "deliver" /\ JobFits(job[g], pc[g]) /\ ScreenFits(out[g]) /\ UNCHANGED did
      BY <1>7 DEF deliver, ChatInv
    <2>2. MessageFits([screen |-> out[g], chat |-> job[g].chat])
      BY <2>1 DEF MessageFits, JobFits
    <2>3. DOMAIN msgs' = Message /\ \A m \in Message : MessageFits(msgs'[m])
      BY <1>7, <2>2 DEF deliver, ChatInv, Domains
    <2> QED  BY <1>7, <2>1, <2>3, TextFits, GoroutineFits DEF deliver, TapsHitTheirTask, ChatInv
  <1>8. CASE Elsewhere
    BY <1>8 DEF Elsewhere, ChatInv, Domains, TapsHitTheirTask
  <1>9. CASE Restart
    <2>1. ASSUME NEW m \in Message
          PROVE  /\ MessageFits(NoMessage)
                 /\ msgs[m].screen # Blank =>
                        MessageFits([screen |-> Text, chat |-> msgs[m].chat])
      BY TextFits DEF MessageFits, NoMessage, ChatInv
    <2>2. JobFits(NoJob, "idle")
      BY DEF JobFits
    <2> QED  BY <1>9, <2>1, <2>2, TextFits DEF Restart, ChatInv, Domains, TapsHitTheirTask
  <1>10. CASE UNCHANGED vars
    BY <1>10 DEF vars, ChatInv, Domains, TapsHitTheirTask
  <1> QED  BY <1>1, <1>2, <1>3, <1>4, <1>5, <1>6, <1>7, <1>8, <1>9, <1>10 DEF Next

THEOREM ChatInvAlways == Spec => []ChatInv
  BY ChatInvInit, ChatInvStep, PTL DEF Spec

\* No chain of cards, pickers, prompts, conflicts and confirmations, however long and
\* however interleaved, loses the listing it began in or invents one.
THEOREM BackAlwaysLeadsBack == Spec => []BackIsTrue
  <1>1. ChatInv => BackIsTrue
    BY DEF ChatInv, MessageFits, ScreenFits, BackIsTrue
  <1> QED  BY <1>1, ChatInvAlways, PTL

\* Every change the bot makes is of the task the tapped screen was about.
THEOREM TapsAlwaysHitTheirTask == Spec => []TapsHitTheirTask
  <1>1. ChatInv => TapsHitTheirTask
    BY DEF ChatInv
  <1> QED  BY <1>1, ChatInvAlways, PTL

\* Whoever writes to the bot and wherever, only configured users see a task.
THEOREM NothingIsDisclosed == Spec => []NoDisclosure
  <1>1. ChatInv => NoDisclosure
    BY DEF ChatInv, MessageFits, NoDisclosure, Chat
  <1> QED  BY <1>1, ChatInvAlways, PTL
=============================================================================
