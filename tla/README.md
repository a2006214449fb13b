# seshat: a verification project

seshat keeps one person's tasks. A Go server stores a forest of tasks in one
JSON file; a Telegram bot (Go), a terminal UI (Zig) and a command line (Zig)
read and change it over HTTP. This directory holds TLA+ models of the parts
that decide whether tasks survive, who may see them and what is shown of them, TLC
configurations that check them on small instances, and proofs about the server, the
bot and the terminal UI that the TLA+ proof system checks for every instance.

## 1. The system

| Part | Code | State it keeps | Operations |
|---|---|---|---|
| Task contract | `internal/task`, `schema/SCHEMA.md`, `server/task.go` | none | what a task, a content and a forest are |
| Store | `server/store.go` | `Store.state`, `Store.parent`, one mutex, one JSON file | `NewStore`/`loadState`, `Add`, `Update`, `Delete`, `Snapshot`, `saveState` |
| Validation | `server/validate.go` | colours and a call stack while it runs | `validateState`, `validateContent` |
| HTTP handlers | `server/handlers.go` | the rate limiter's bucket | add, update, delete, list; body limit, authentication, rate limit, ETag |
| Start-up | `server/main.go` | none after it | `validateConfig`, `resolveRateLimit`, `main` |
| Registry | `client/bot/actions.go` | a list and two maps behind a mutex | `Put`, `PutPrompt`, `Get`, `GetByPrompt` |
| Bot handlers | `client/bot/handlers.go`, `seshat.go`, `main.go` | nothing but the registry; the chat is state too | taps, replies, captures, confirmations, conflict choices |
| Bot views | `client/bot/view.go`, `render.go` | none | ranking, pages, due dates; screens and their buttons |
| Bot start-up | `client/bot/main.go`, `config.go` | the allowlist | `dispatch`, `senderID`, sending and editing |
| TUI model | `tui/model.zig`, `editors.zig` | tasks, cursor, mode, filter, the request in flight | `update(event)` returns a command |
| TUI shell | `tui/app.zig` | an event queue, a request worker, external editors | `execute`, `runRequest`, `runEditor`, `run` |
| Ledger and views | `tui/ledger.zig`, `core/view.zig`, `core/filterspec.zig` | folds | rows, order, short handles, filters |
| Command line | `main.zig`, `core/*.zig` | none | one request per call |

How they meet. Every client sends the server whole requests: add a leaf, replace
the content of tasks at a version it names, delete a task, list everything. The
server answers with a state version, the tasks it changed, or a 409 that holds the
tasks as they are. A client never holds a lock; it reads, lets a person think
for minutes, and writes with the version it saw. Inside the server, requests
run in goroutines of their own and meet at the store's mutex; inside the bot
every Telegram update is a goroutine; inside the terminal UI one worker thread
carries requests out while the event loop goes on handling keys.

What is hard here, and what makes each part correct:

- **Store.** Many handlers, a save that can fail half way, and a process that can die
  between write, rename, commit and response. Correct: memory and file agree, a
  mutation is whole or absent, what a client was told stays told after a restart,
  and what is served is always a forest with the parent index as its inverse.
- **Validation.** It is the only thing between a client's child lists and a cycle; Go
  walks its maps in random order. Correct: it accepts forests, all of them and nothing
  else, whatever the order.
- **Server.** A chain of checks whose order matters, in front of the store. Correct:
  a stranger reaches neither the store nor the bucket the owner needs, an empty
  secret never lets anyone in, and a 304 is true.
- **Registry.** Three structures must evict together. Correct: they agree, and
  what has been used least recently goes first.
- **Bot edits.** Read, wait, write, retry once, with calls whose answer is lost
  and records that vanish. Correct: one tap changes one field once, the user is told
  the truth of a change although its card is fetched anew after it, and a reply written
  minutes later is saved only on the task its prompt was sent for.
- **Bot views and chat.** The server sends its tasks in another order each time, and the
  bot keeps nothing but the buttons on its messages, which may be minutes old when they are
  tapped and may be edited by another goroutine at that moment. Correct: turning
  pages shows every task once, a page keeps the limits the code sets it, a picked date is the local
  day, Back goes back, a tap changes the task it was about, and no one else sees it.
- **Terminal UI.** One request at a time, typed text that must survive every
  failure, answers that arrive in a mode the person has left.

Each of these is listed, line by line, under `hazards` in `PROJECT.json`, with the
properties that would catch it going wrong.

## 2. Modules

| Module | Models | Lines of code |
|---|---|---|
| `TaskForest` | contents, wire requests, forests, the candidate each mutation builds, as pure operators | `server/store.go`, `validate.go`, `task.go` |
| `VersionedForest` | the abstract store: one atomic step per mutation, a state version, replies | the contract `store.go` and `SCHEMA.md` state |
| `TaskStore` | the store with handlers, lock, file, crash and restart | `server/store.go`, `handlers.go` |
| `TaskStoreProofs` | the proofs about the three above | |
| `TaskServer`, `TaskServerProofs` | the whole server: configuration, chain, ETag, and `TaskStore` behind it; its proofs | `server/main.go`, `handlers.go` |
| `ValidateState`, `ValidateStateProofs` | `validateState` as it runs: both loops, the recursion, every map order; its proofs | `server/validate.go` |
| `LeastRecentlyUsed` | the abstract registry: the names used last, and what each was given for | the contract of `actions.go` |
| `Registry`, `RegistryProofs` | the list, both maps and eviction; its proofs | `client/bot/actions.go` |
| `BotEdit`, `BotEditProofs` | every bot handler that changes something, against other clients; its proofs | `client/bot/handlers.go`, `seshat.go` |
| `BotView` | the bot's trees, order, pages and due dates, as pure operators | `client/bot/view.go`, `render.go` |
| `BotReader`, `BotReaderProofs` | a user turning the pages of a listing while time passes and tasks change | `handlers.go`: `ShowList`; `render.go` |
| `BotChat`, `BotChatProofs` | screens, buttons, updates and the goroutines that answer them | `render.go`, `handlers.go`, `main.go` |
| `Tui`, `TuiProofs` | the terminal UI's modes, keys, results and the one request in flight, with its worker, queue and external editor, against other clients; its proofs | `tui/model.zig`, `tui/app.zig`, `api/client.zig` |
| `MC...` | small instances for TLC | |

### TaskForest, TaskStore and VersionedForest

A task is `[content, meta]`. Of a content, `status` and `kids` (the child ids) are
kept apart and everything else (line, description, priority, due, tags) is one
value `body`, good or bad: the server stores it and never looks at it, except in
`validateContent`. The position of an `Add` is any integer or absent, as `*int` is: a
negative one is the front of the list, one past its end is the end, and `AddsWhereAsked` says so
of every list. Times are members of a small set, because the code copies and
compares nothing but the pair of `updated` and `completed_at` it has just set;
the clock is not monotonic.

`TaskStore` has one action per operation of the store. Before a handler holds the
mutex it reads only its own request, and from there to the save it writes
nothing shared, so arrival, validation and candidate are one step; the three
points where a failure or a crash matters are steps of their own:

| Action | Code |
|---|---|
| `load` | `NewStore`, `loadState`, `rebuildIndex`; a missing file is created |
| `Add`, `Update`, `Delete` | the handler, the method up to `saveState`, with every early return and its status |
| `SaveFails` | any error of `saveState`: the deferred unlock runs, memory is untouched |
| `saveState` | the rename; the candidate is on disk |
| `Commit` | `st.state = next`, `rebuildIndex`, unlock |
| `Respond` | the response is written |
| `Snapshot` | the read lock; a reader is shut out while a writer holds the lock |
| `Crash` | the process dies; the file stays |

`VersionedForest` has the same requests without lock, file or memory. A mutation
there is a single step that changes the tasks, the state version and a reply.
The refinement mapping takes **the file** as the abstract state and the rename as the
step: a crash after the rename keeps the mutation although no one was answered,
a crash before it loses it, and both are what the abstract store allows.
`KeepsPromise` is that refinement.

### TaskServer

`TaskServer` EXTENDS `TaskStore` and puts the rest of the server around it: every step is a
step of the store with what the chain does beside it, or a step of the chain alone, so
that `ServerSpec` implements the store's specification (`ServerIsStore`, proved).

| Action | Code |
|---|---|
| `main` | `validateConfig`, then `load`; a new bucket is full |
| `Arrive` | `auth`, then `rateLimit`: a request is refused with 403 or 429, or let in |
| `decodeErr` | 413 for a body past `maxBodyBytes`, 400 for one that is no JSON |
| `NotFound` | the mux's 404 for a path without a route, behind the chain: it spends a token |
| `handleGet` | `Snapshot`; 304 when `If-None-Match` is the version served |
| `handleAdd`, `handleUpdate`, `handleDelete` | the store's action, for a request that came through the chain |
| `writeJSON` | the answer leaves |
| `Refill` | the limiter's bucket, a library's, gets a token |

`copy` is what a client has kept of an answer, with the version that names it; `spent`
counts, up to a full bucket, the authentic requests since the bucket was last full.

### ValidateState

The third loop of `validateState` is a depth-first search. The model keeps what the Go
code keeps: `parentOf`, the colour of each task, and the stack of recursive calls with
the position in each child list. Where Go ranges over a map the model takes any key
that is left. Inputs are all task maps of three ids with child lists of up to two
ids. Its results are compared with `IsForest` of `TaskForest`, the definition the
store's proofs use, so the operator `validateState` there stands for this code by
proof (`AcceptsExactlyForests`) and not by decree.

### Registry and LeastRecentlyUsed

`container/list` is a sequence of elements, the maps are functions from tokens and
prompt ids to elements. `Put`, `PutPrompt`, `Get` and `GetByPrompt` each run
under the mutex and are one step. The abstract module keeps a sequence of
names and what each was given for; `IsLeastRecentlyUsed` says the list with its two maps behaves like it,
evicting the name that was used longest ago.

### BotEdit

One task on the server, other clients that edit it, give it children or delete it,
and goroutines that follow `handlers.go`: fetch, patch, update, a second attempt
after a 409 when nothing is pinned, the conflict message for a reply, prompts that
are on the screen before they are registered. A change that was carried out is not the end:
but for a capture, which shows the task the server returned, the handler fetches once more, for the card (`OpenCard`,
from `afterMutation` and `HandleReply`) or for the list the user came from (`ShowList`, from
`Done` and `DoDelete`), and this fetch may fail or find the task gone. So a person may be told of a
failure, or that the task is gone, after a change that was made; `Honest` says what each
`outcome` is worth. An `outcome` is what the bot sends; whether Telegram delivers it is left out,
but for prompts and conflict messages, which the rest of the conversation needs. An HTTP call may be answered, carried out
without an answer, lost, or carried out after the caller gave up. Records may be evicted
at any time and all are lost in a restart. The server is the abstract store of
`VersionedForest`, cut to one task: each request is one step.

### BotView and BotReader

`BotView` is `view.go` as operators: `ListGroups` selects the roots with something open
under them, ranks them with `LessRoots` and expands each in the order of its child
lists; `pageBreaks` and `Paginate` cut the groups into pages. The recursion of `expand`
is a function of the number of calls made (`walking`), of which there is one for each link
and one for the root; the loops of `pageBreaks` and `Paginate` are functions of the groups
taken so far (`placing`, `filling`). A title is the set of needles it contains. The tasks a
response holds are taken to be what the server accepts (`IsForest`); a cycle would not
disturb the walk. `BotReader` gives them a state: the tasks on the server, the clock and
the page shown last. Each page is a new request whose tasks come in any of the orders
in `Orders`, as the server ranges over a map. `tour` collects what has been read from the
first page on, for as long as neither the tasks nor the clock change; `WholeListing`
compares it at the last page with what the listing is of (`Listed`), which is defined
without any of the code's ranking or paging.

`DueIsThatDay` relates two conversions of the code: the instant `DueFromKeyword`
computes from *today*, *tomorrow*, *+3d* or *+1w* is the last second of that local
day, and `FormatDue` shows it as what was picked. In the last second of a day it does not
(a due date one day away reads *today*), which the property leaves out; no text in the
repository says otherwise.

### BotChat

| Variable | Code |
|---|---|
| `msgs` | the screen each of the bot's messages shows now, with the actions of its buttons |
| `job`, `pc`, `out` | a goroutine of `dispatch`: the action it resolved, and the screen it will deliver |
| `exists` | which tasks the server has |

A screen is a kind (listing, card, picker, confirmation, prompt, conflict, text), a task and
an `Origin`; a listing with nothing to show, which any listing may turn out to be, is a text; `Keyboard` gives the actions of its buttons. `HandleCallback` takes any of
them, on any message, at any time; `Call` and `Fetch` talk to the server and
`deliver` edits the message, whatever it shows by then. `came` and `did` are history: the
listing a screen was reached from, whatever `Origin` it carries, and the last change with
the screen the user acted on.

### Tui

| Variable | Code |
|---|---|
| `tasks`, `cursor`, `filtering` | `Model.tasks`, `cursor_id`, `filtering` |
| `mode` | `Mode`, with the `Editing` of the editor that is open |
| `in_flight` | `InFlight`, with the editor a commit has taken out of the mode |
| `wire` | the requests of `app.zig` at their workers, and the result a worker holds |
| `queue` | results the loop has not taken yet |
| `server`, `used` | what the server holds, and every id it gave |

Each result is an action (`TasksLoaded`, `CommitOk`, `CreateOk`, `DeleteOk`, `Conflict`,
`Failed`, `editorReturned`: one branch of `sharedEvent` or `editingMode` with the merge and
the `recompute` at its end), and so is each key that does something (`Refresh`,
`cycleStatus`, `openEditor`, `commitEdit`, `submitAdd`, `Escape`, ...). A key that
`refuseIfBusy` drops changes nothing and is no step. The server's side is one step
per request; its answer may be lost, so a commit that was carried out can be reported
as failed. A worker posts its result when it likes.

Of the seven fields there is one for each kind of editor: a line (title), a picker
(status, which also stands for the priority), `$EDITOR` (description). Text is known by
what it was typed for, `<<task, field>>`, so a value in the wrong place shows. A new task has no id
before the server answers, so its title is one of two: the request and the slot carry the one
that was sent, while the prompt, which stays open and takes keys, may hold another, or be
gone, by the time of the answer. `create_ok` frees the prompt whatever it holds. The answer names
the title that was saved; of a stored task the title is only `Old`. So what was typed over the
title after Enter goes with the prompt when the create succeeds, saved nowhere: `TextIsSafe` names
this as its one exception (`TypedOver`). And when the create fails, the prompt need no longer
hold the title that was sent, as the comments on `submitAdd` and `request_failed` have
it: a key in between may have changed it, or Escape have closed the prompt.
`Rows` stands for the ledger: after `recompute` the cursor is on any task that may have a
row, on none if a filter is on. This allows more than `buildRows` and
`nearestTaskRow` do, so what holds here does not rest on them.

Keys come through the same queue as results. The model lets a key be handled at any time,
whatever results wait: such a key was queued first. For the results of `$EDITOR`, which
runs inside the loop, that means a key read before `$EDITOR` got the terminal, or in the
instant between its two results. `TypeAhead` allows these keys. The passing run is without
them: results of `$EDITOR` name neither their task nor their request, and with
such keys `SlotIsRequest` fails, which `tui_typeahead` shows.

## 3. Runs

| Run | Question | Bounds |
|---|---|---|
| `store_structure` | do memory, file, index, lock and replies stay in step through races, failed saves and crashes, and is it all the abstract store? | 3 ids, 2 handlers, single updates with child lists of up to 2 ids and pairs of updates with lists of up to 1, positions -1, 0, 1, 3 and none, requests taken below `state_version` 4 |
| `server` | what does the chain let through, is a 304 true, does `completed_at` follow the status, is the lock always given back? | 2 ids without children, 2 statuses, 2 handlers, 1 credential beside the absent one, a rate that is refused and the default one with a bucket of 2, requests taken below `state_version` 2 |
| `validate_state` | does the search accept exactly the forests, and return? | every task map over 3 ids with lists of up to 2 |
| `registry` | do list and maps agree and evict together? | capacity 3, 4 elements, 5 tokens, 2 prompts |
| `bot_edits` | is a tap applied once, truly reported, and harmless to others? | 3 updates, 2 values, 1 other child, other clients edit once; 1 523 216 states |
| `bot_liveness` | is every update dealt with? | 2 updates; 89 716 states |
| `bot_overwrite` | a comment the code does not keep | 3 updates, other clients edit twice; its search takes only behaviours in which every call is answered in time and no text becomes a task (`Answered`) |
| `bot_view` | does turning the pages show every task once, within the limits, and is a date the day picked? | 5 tasks in 12 forests, pages of 2 roots and 3 rows, 3 matches of a search, 3 orders, 3 instants around an edge of a day, 5 offsets |
| `bot_chat` | does Back go back, does a tap hit its task, who sees it? | 5 updates, 2 goroutines, 2 messages, 2 tasks, pages 0 and 1, a configured user and a stranger |
| `tui` | is there one request at a time, nothing on the screen the server has not accepted, and no typed text lost or misplaced? | 2 ids, 2 titles for a new task, an edit begins at versions below 2, other clients edit the title; 2 091 432 states |
| `tui_created`, `tui_typeahead` | two comments the code does not keep | as `tui` |

Why these are enough. Three ids make a cycle of length three, two containers of one
child, and a deletion in the middle of a chain. Two handlers make every race of a
writer with a writer and with a reader, because the mutex lets no third in.
Requests below `state_version` four let a task be added, moved, edited and deleted around a
crash; behind the chain, below two, a task is added with one status
and given the other. A bucket of
two is the smallest a server has. That is little, and the proofs of section 4 make up for
it: what these runs check of the store, the chain, the registry, the edits and the terminal UI
holds for every instance, liveness apart.
Capacity three with four elements is the first size where a record in the middle of the
list can be touched, evicted and replaced. Three updates are a prompt, its reply and
the choice after its conflict, the longest chain one edit has. Two titles are the one sent and the one typed over it. Positions from
-1 to past the end meet both ends of the clamp. Two tasks are a task and a
neighbour the cursor can drift to; with versions up to two an edit meets the edit of
another client, comes back as a conflict, and is sent again. A page of two roots and three rows is the smallest where each
limit binds first somewhere, and four rows make a tree too large for it; five tasks
fill three pages. Two goroutines on two messages are a tap, and another that changes
the message under it; five updates are a listing, a card, a prompt, a reply and the way back,
or a tap too many. The bounds limit when
requests are *taken* or others *act*; nothing in flight is cut off.
`CHECK_DEADLOCK FALSE` is set where the system may stop: when its bound on requests is
reached, when the search has returned, when all updates are handled, when the user has
quit.

Symmetry is used where ids, handlers, values, tokens and updates are interchangeable
and never in a run with a liveness property.

Fairness. `server` assumes that a handler that has begun takes its next step
(goroutines are scheduled, file operations return), and nothing about requests arriving
or saves succeeding. `bot_liveness` assumes the same of a goroutine of the bot, whose
HTTP client has a timeout of fifteen seconds. `validate_state` assumes the function runs
on. No fairness is assumed of users, other clients, crashes or restarts.

Three runs end with a violation, and `findings` in `PROJECT.json` quotes the lines:

- `bot_overwrite`: the *Overwrite* button applies against whatever version it
  fetches, so a third value nobody was shown can be replaced, while the comment on
  `Action.ExpectedVersion` says the conflict kinds pin a version.
- `tui_created`: `create_ok` moves the cursor to the new task and opens its priority;
  if the active filter hides the task, `recompute` takes the cursor to a neighbour, and it
  is the neighbour whose priority is offered. The comment says this is what keeps a new
  task from vanishing.
- `tui_typeahead`: when `$EDITOR` cannot be run, its failure is handled as that of the
  request in flight. A key typed ahead may have sent one, whose slot is then emptied, and the
  next key sends a second. The comment on `failEvent` relies on there being only one.

## 4. Proofs

`TaskStoreProofs` proves, for any set of ids, handlers, requests, statuses and initial
files, what `store_structure` checks on small ones. The
assumptions are the named ASSUMEs of `TaskForest` and `TaskStore`: constants have
their types, `Terminal` is a part of `Status`, `Null` is no id and no handler, and the
files of a first start are well typed. They say nothing about those files being
forests: `load` refuses the ones that are not.

| Theorem | Says |
|---|---|
| `TypeCorrect` | `TypeOK` |
| `DiskAndMemoryAgree` | `NoDivergence` |
| `MutationsAreSerial` | `OneWriter` |
| `AlwaysAForest` | `ServedForest` |
| `IndexFollows` | `IndexIsInverse` |
| `CanRestart` | `RestartSafe` |
| `AcknowledgedStays` | `AckedIsDurable` |
| `AddAndDeleteAreSafe` | `OnlyUpdateBreaksForest`: `Add` and `Delete` cannot be refused with a 422 |
| `AddPutsWhereAsked` | `AddsWhereAsked`: an `Add` puts the task where it was asked to, for every list and every integer |
| `StampsAreRight` | `CompletionStamped`, when the initial files are stamped |
| `StoreKeepsPromise` | `Spec => KeepsPromise`, the refinement of `VersionedForest` |

None of these invariants is inductive alone. `NoDivergence` needs to know who holds
the lock and that the candidate of the holder is well formed; `IndexIsInverse` after
a commit needs the candidate to be a forest; and `OnlyUpdateBreaksForest` for
`Delete` needs the index to be the inverse of the lists, because `Delete` trusts it to
find the container. `IInv` is their conjunction with `FileOK` (what a server wrote
is loadable), `MemoryOK` (what is served is a forest of used ids and the index is
its inverse), `LockOK` (the lock is held exactly while a handler saves), `CandidateOK`
(the candidate is the successor of memory and itself loadable) and `RepliesOK`.
There is one lemma per action. What a mutation does to a forest is proved first, in the
part of the module that is away from the state machine: `AddKeepsForest`,
`DeleteKeepsForest` and the lemmas about `insertAt`, removal and the index. `AddKeepsForest` is of
every integer position, `InsertPosition` being its clamp to the list.

A forest is defined there by a property of *sets* of tasks (no non-empty set in which
every member has its container inside the set), not by paths. It says the same for finite
forests, needs no recursion, and lets the proof of `DeleteKeepsForest` argue
about the one container that changed.

`ValidateStateProofs` closes the gap between the store, which takes the verdict to be
`IsForest`, and the loops that compute it, for every task map and every order.

| Theorem | Says |
|---|---|
| `AcceptsExactlyForests` | `AcceptsForests`: what is accepted is a forest, and a forest is accepted |
| `ReportedErrorsAreReal` | `ErrorIsReal` |
| `GrayIsTheStack` | `StackIsPath`: the tasks coloured *in stack* are the calls in progress; no run checks it, the others rest on it |
| `ValidateStateTypeOK` | `TypeOK` |

Its invariant says of the first loop that the lists walked so far are good, and of the
search that the tasks that are done contain only tasks that are done and no cycle among
them (`DoneInv`). A task becomes done when all its children are; it was in the stack until
then, so it is the child of nothing done and closes no cycle. A child found in the stack is
one: the calls from its own to the last are the tasks of the cycle (`CycleFound`).

`TaskServerProofs` rests on the store's proofs: `ServerIsStore` maps every step of the server to a step
of the store, so the store's invariant holds behind the chain.

| Theorem | Says |
|---|---|
| `ServerIsStore` | the server, its fairness aside, implements the store's specification |
| `OnlyTheOwnerEnters` | `OnlyTheOwner`, for any configuration: the invariant adds that a server that is up has a valid one |
| `OnlyOwnTrafficLocksOut` | `LockedOutByOwnTraffic`: tokens and `spent` together are never less than the bucket |
| `EtagsAreTrue` | `EtagNamesOneState`: a copy is either what the file holds or of an earlier version, and no version comes twice |
| `ServerTypes` | `ServerTypeOK` |

`BotReaderProofs` proves what the reader sees, for every forest the server may send, every
limit of a page, instant, offset and order of a response.

| Theorem | Says |
|---|---|
| `LessRootsIsTotal` | of two roots exactly one comes first: what the comment on `LessRoots` calls load-bearing |
| `ListingIs` | a screen is the same whatever order the response came in: the stable sort never falls back on it |
| `TreesAreWhole` | `expand` returns the root and every task below it, and no other |
| `PageAlwaysFits` | `PageFits` |
| `ListingsAreWhole` | `WholeListing` |
| `DueDatesAreThatDay`, `DueAlwaysReadsBack` | `DueReadsBack`, for every instant and offset, from lemmas about division |

The recursion and the loops behind the listings are handled without an induction theorem that takes an
operator: every set of naturals has a least element (`Least`), so a set that holds `a`
and is closed under going on holds all of `a..b` (`Induct`), and a loop whose
steps stay in a set has a function that runs it (`Loop`). The argument has four parts.
Pages: after each group, every page `pageBreaks` has closed fits and the one at hand counts what
`Paginate` will put on it (`PlacedWell`). Trees: `expand` appends each task after its parent
and none twice (`Visited`), and as long as it is not done each call is of another link
(`Underway`), so it is done in the calls there are. Order: a total order on a finite set gives
every element its own rank (`Ranks`), so `RankRoots` depends on the tasks alone. Reading:
two trees with different roots have nothing in common (`TreesApart`), so each group adds its tasks
to the account of those shown and those cut (`Accounts`), and each page continues the account of
the ones before it. `WholeListing` speaks of the last page only; the inductive invariant,
`Touring`, says of every page that what was read accounts for the groups up to
its last. `Readable`, below it, says that the tasks are a forest and the screen a page that fits.

`BotChatProofs` proves all three properties of the chat for any number of tasks,
messages, goroutines, users and updates (`BackAlwaysLeadsBack`, `TapsAlwaysHitTheirTask`,
`NothingIsDisclosed`). `ChatInv` says of every screen, shown or waiting to be, that its
origin is where it came from, and of every job that its action fits the screen the user acted
on; `TapFits` shows it of every button of a screen that fits.

`RegistryProofs` proves the registry for any capacity and any number of tokens, prompts,
actions and addresses.

| Theorem | Says |
|---|---|
| `ListAndMapsAgree` | `IndexesAgree` |
| `RegistryKeepsPromise` | `Spec => IsLeastRecentlyUsed`, the refinement of `LeastRecentlyUsed` |
| `RegistryTypes` | `TypeOK` |

`IndexesAgree` is not inductive: `insert` takes the keys of an evicted record out of both
maps without looking whose they are. `RegInv` adds that every record has exactly one key, that
no element is in the list twice, and that tokens in a map have been minted, so that a
new one is in none. For the refinement the list is read through the keys (`NamesOf`):
names go where their elements go (`NamesPushed`, `NamesRemoved`, `NamesTruncated`), so that
pushing, moving and evicting elements is what the abstract module does to names.

`BotEditProofs` proves every safety property of the edits, for any number of updates, fields,
values and children, and whatever other clients do.

| Theorem | Says |
|---|---|
| `EveryUpdateAppliedOnce` | `AppliedOnce` |
| `TheUserIsToldTheTruth` | `Honest`: *saved* only if the change was carried out, once; a conflict or a choice only if it was not; *gone* only if the task is |
| `EditsKeepOtherFields` | `OwnFieldOnly` |
| `RepliesClobberNothing` | `NoClobber` |
| `BotEditTypeOK` | `TypeOK` |

All five follow from `EditInv`. Whatever the bot holds of the task (what a prompt was sent
for, the base of an update, a request that is carried out late) is the task as it was
at some version: of the present version it *is* the task, of an earlier one the server refuses it
(`Known`). And for each update there is at most one request the server may still carry out;
once it has, no other follows. The retry after a 409 keeps this, because
a 409 says that the first request was not carried out. While a goroutine fetches the card or the list, its change
has been carried out exactly once, so that what it sends then is true whatever others do.

`TuiProofs` is in two parts. The first holds with keys typed ahead and without.

| Theorem | Says |
|---|---|
| `NothingUnaccepted` | `NoOptimism` |
| `CommitsChangeOneField` | `CommitsOneField` |
| `TuiTypes` | `TypeOK` |

Its invariant, `DataInv`, is about copies: each one, on the screen, in an editor, in a request
or a result, is never ahead of the server and at its version the same (`Seen`), and each
request is such a copy with one field replaced (`JobFits`).

The second part assumes `~TypeAhead`: with a key typed ahead of an editor's result the
slot may be emptied under a request, as `tui_typeahead` shows, and what follows fails with it.

| Theorem | Says |
|---|---|
| `SlotTellsTheTruth` | `SlotIsRequest` |
| `TextStaysWhereTyped` | `TextLandsWhereTyped` |
| `ScreenNeverGoesBack` | `NoGoingBack` |
| `TypedTextIsSafe` | `TextIsSafe`, with its exception |

Its invariant, `LoopInv`, says that one thing is under way at a time: nothing (`Quiet`), a
request at its worker (`AtWorker`), its result in the queue (`Posted`), or the results of an
`$EDITOR` that has just come back, and then no request (`EditorBack`). With it, a result meets the
mode and the slot it was asked from (`ModesAgree`), texts are those of the task and field
they were typed for (`Proper`), and a result is no older than the screen it meets (`Fresh`).

What stays with TLC: liveness (`LockReleased`, `Returns`, `Finishes`), since the prover
does not reason about fairness and ENABLED. Every other property that a passing run checks
is also a theorem.

## 5. Not modelled

- The library's rate limiter beyond a bucket that empties and fills, and the timeouts of
  `net/http`.
- Power loss: `saveState` syncs the file and not the directory. The model's crash is
  the death of the process; the hazard is listed.
- Telegram's redelivery of an update after the bot dies; the hazard is listed.
- The bot's wording, glyphs and escaping, the file its configuration is read from, and the
  warnings about file modes. The comment on `subtreeHasOpen` (view.go:185-188) and the first
  rule of `LessRoots` meet in one place: a closed root with something open below it is
  listed, but after every open root, however urgent what is below it.
- In the terminal UI: folds, pane, scrolling, the ranking strategy and the status line,
  which no request depends on; what filter expressions mean; the handover of the terminal
  to `$EDITOR`, its temporary file, and a terminal that cannot be taken back; memory
  ownership of editors, which the model shows only as text that is not lost.
- A request of the terminal UI that the server carries out after the client has been told
  it failed: its HTTP client has no timeout, so the worker reports when the connection ends.
- What `q` does while a commit is in flight: the model has it, and nothing in the repository says
  what should become of the text.
- Telegram's own limit of 4096 units for a message: `PageFits` is about the five roots and
  twenty-five rows the code sets itself.
- The terminal UI's rendering and the command line.

## 6. Plan

1. The ledger's rows (every task once), folds and short handles, against a reference
   definition.
2. Power loss, once the repository says what it promises.
