------------------------------- MODULE BotView -------------------------------
(***************************************************************************)
(* What the bot shows of the tasks it fetched (client/bot/view.go, and the *)
(* due dates of render.go): which trees are listed, in which order, on     *)
(* which page, and what a due date picked in the local time means. All of  *)
(* it is pure; the state it is used in is in BotReader and BotChat.        *)
(*                                                                         *)
(* The server sends a forest, so the visited sets of the walks never cut   *)
(* one short; they are kept because the code keeps them.                   *)
(***************************************************************************)
EXTENDS Integers, FiniteSetsExt, SequencesExt

CONSTANTS
    Id,              \* task ids: numbers, because they are compared
    Needle,          \* what a /find may look for
    Null,            \* no due date, no parent; the needle of a /list
    maxRootsPerPage,
    maxRowsPerPage,
    findCeiling

ASSUME ViewAssumption ==
    /\ Id \subseteq Nat
    /\ maxRootsPerPage \in Nat \ {0}
    /\ maxRowsPerPage \in Nat \ {0}
    /\ findCeiling \in Nat \ {0}
    /\ Null \notin Id \union Needle \union Int

day == 86400
week == 7 * day

\* title stands for the needles the title contains, closed for a terminal status.
Task == [title: SUBSET Needle, closed: BOOLEAN, priority: {"none", "low", "medium", "high"},
         due: Int \union {Null}, created: Int, kids: Seq(Id)]

\* What the server keeps (TaskForest): no task is a child of two.
IsForest(tasks) ==
    /\ DOMAIN tasks \subseteq Id /\ IsFiniteSet(DOMAIN tasks)
    /\ \A i \in DOMAIN tasks : tasks[i] \in Task
    /\ \A p, q \in DOMAIN tasks :
           p # q => Range(tasks[p].kids) \intersect Range(tasks[q].kids) = {}

-----------------------------------------------------------------------------
(***************************************************************************)
(* The index and the walks over it.                                        *)
(***************************************************************************)
IsOpen(t) == ~t.closed

IsRoot(tasks, id) == \A p \in DOMAIN tasks : id \notin Range(tasks[p].kids)

Row == [task: Id, depth: Nat]

\* One call of the recursion of expand: out is what it has appended, ahead the
\* calls that are still to come.
visit(tasks, walk) ==
    LET here == Head(walk.ahead)
        seen == {row.task : row \in Range(walk.out)}
        kids == tasks[here.task].kids
        under == [k \in DOMAIN kids |-> [task |-> kids[k], depth |-> here.depth + 1]]
    IN  IF walk.ahead = <<>> THEN walk
        ELSE IF here.task \in seen \/ here.task \notin DOMAIN tasks
        THEN [out |-> walk.out, ahead |-> Tail(walk.ahead)]
        ELSE [out |-> Append(walk.out, here), ahead |-> under \o Tail(walk.ahead)]

\* Every entry of a child list is called for once at most, when its parent is
\* appended.
calls(tasks) == 1 + Cardinality(UNION {{p} \X DOMAIN tasks[p].kids : p \in DOMAIN tasks})

walking(tasks, id) ==
    LET after[n \in 0..calls(tasks)] ==
            IF n = 0 THEN [out |-> <<>>, ahead |-> <<[task |-> id, depth |-> 0]>>]
            ELSE visit(tasks, after[n - 1])
    IN  after

\* The tree under a task in the order of its child lists, as indented rows.
expand(tasks, id) == walking(tasks, id)[calls(tasks)].out

Tree(tasks, id) == {row.task : row \in Range(expand(tasks, id))}

subtreeHasOpen(tasks, id) == \E i \in Tree(tasks, id) : IsOpen(tasks[i])

-----------------------------------------------------------------------------
(***************************************************************************)
(* The order of the roots.                                                 *)
(***************************************************************************)
priorityWeight == [none |-> 0, low |-> 1, medium |-> 3, high |-> 5]

dueFactor(t, now) ==
    IF t.due = Null THEN 0
    ELSE LET delta == t.due - now IN
         CASE delta < 0        -> 8
           [] delta \in 0..day -> 6
           [] delta > day /\ delta <= 3 * day     -> 4
           [] delta > 3 * day /\ delta <= 7 * day -> 2
           [] OTHER            -> 0

ageFactor(t, now) ==
    IF now <= t.created THEN 0
    ELSE LET weeks == (now - t.created) \div week IN IF weeks > 4 THEN 4 ELSE weeks

Urgency(t, now) ==
    IF t.closed THEN 0 ELSE priorityWeight[t.priority] + dueFactor(t, now) + ageFactor(t, now)

SubtreeMaxUrgency(tasks, id, now) == Max({Urgency(tasks[i], now) : i \in Tree(tasks, id)})

\* Mutant: the last tiebreak is left out.
LessRootsButId(tasks, a, b, now) ==
    LET ua == SubtreeMaxUrgency(tasks, a, now)
        ub == SubtreeMaxUrgency(tasks, b, now)
    IN  IF tasks[a].closed # tasks[b].closed THEN tasks[b].closed
        ELSE IF ua # ub THEN ua > ub
        ELSE tasks[a].created < tasks[b].created

LessRoots(tasks, a, b, now) ==
    LET ua == SubtreeMaxUrgency(tasks, a, now)
        ub == SubtreeMaxUrgency(tasks, b, now)
    IN  IF tasks[a].closed # tasks[b].closed THEN tasks[b].closed
        ELSE IF ua # ub THEN ua > ub
        ELSE IF tasks[a].created # tasks[b].created THEN tasks[a].created < tasks[b].created
        ELSE a < b

\* order is the sequence the response lists the tasks in, chosen the positions of
\* those to rank. A stable sort: what is not before another stays in the order it
\* came in.
RankRoots(tasks, order, chosen, now) ==
    LET less == {p \in chosen \X chosen : LessRoots(tasks, order[p[1]], order[p[2]], now)}
        ahead == [k \in chosen |->
                     {j \in chosen : <<j, k>> \in less \/ (<<k, j>> \notin less /\ j < k)}]
    IN  [n \in 1..Cardinality(chosen) |->
            order[CHOOSE k \in chosen : Cardinality(ahead[k]) = n - 1]]

ListGroups(tasks, order, now) ==
    LET roots == {k \in DOMAIN order : /\ order[k] \in DOMAIN tasks
                                       /\ IsRoot(tasks, order[k])
                                       /\ subtreeHasOpen(tasks, order[k])}
        ranked == RankRoots(tasks, order, roots, now)
    IN  [n \in DOMAIN ranked |-> expand(tasks, ranked[n])]

\* The best findCeiling matches, each a group of its own.
FindGroups(tasks, order, needle, now) ==
    LET matches == {k \in DOMAIN order : /\ order[k] \in DOMAIN tasks
                                         /\ IsOpen(tasks[order[k]])
                                         /\ needle \in tasks[order[k]].title}
        ranked == RankRoots(tasks, order, matches, now)
        kept == IF Len(ranked) > findCeiling THEN findCeiling ELSE Len(ranked)
    IN  [groups |-> [n \in 1..kept |-> <<[task |-> ranked[n], depth |-> 0]>>],
         overflow |-> Len(ranked) - kept]

-----------------------------------------------------------------------------
(***************************************************************************)
(* Pages.                                                                  *)
(***************************************************************************)
\* Mutant: the group after an oversized one may share its page.
placeGroupLoose(acc, i, len) ==
    LET fits == acc.roots < maxRootsPerPage /\ acc.rows + len <= maxRowsPerPage + 1
        turn == i > 1 /\ ~fits
    IN  [breaks |-> IF turn THEN Append(acc.breaks, i) ELSE acc.breaks,
         roots |-> 1 + IF turn THEN 0 ELSE acc.roots,
         rows |-> len + IF turn THEN 0 ELSE acc.rows]

\* Puts the i-th group on the page at hand or on the next one. A group larger
\* than a page has one for itself, which it leaves full.
placeGroup(acc, i, len) ==
    LET oversized == len > maxRowsPerPage
        fits == acc.roots < maxRootsPerPage /\ acc.rows + len <= maxRowsPerPage
        turn == i > 1 /\ (~fits \/ oversized)
    IN  [breaks |-> IF turn THEN Append(acc.breaks, i) ELSE acc.breaks,
         roots |-> IF oversized THEN maxRootsPerPage
                   ELSE 1 + IF turn THEN 0 ELSE acc.roots,
         rows |-> IF oversized THEN maxRowsPerPage
                  ELSE len + IF turn THEN 0 ELSE acc.rows]

placing(groups) ==
    LET after[i \in 0..Len(groups)] ==
            IF i = 0 THEN [breaks |-> <<1>>, roots |-> 0, rows |-> 0]
            ELSE placeGroup(after[i - 1], i, Len(groups[i]))
    IN  after

\* The group each page starts with.
pageBreaks(groups) ==
    IF groups = <<>> THEN <<>> ELSE placing(groups)[Len(groups)].breaks

NoPage == [rows |-> <<>>, index |-> 0, count |-> 0, overflow |-> 0]

clampPage(page, count) == IF page < 0 THEN 0 ELSE IF page >= count THEN count - 1 ELSE page

\* Adds a group to a page, cut to the room there is.
addGroup(acc, g) ==
    LET room == maxRowsPerPage - Len(acc.rows) IN
    IF Len(g) > room
    THEN [rows |-> acc.rows \o SubSeq(g, 1, room),
          overflow |-> acc.overflow + Len(g) - room]
    ELSE [rows |-> acc.rows \o g, overflow |-> acc.overflow]

\* The page that begins with the group start, after each group.
filling(groups, start) ==
    LET after[i \in start - 1..Len(groups)] ==
            IF i = start - 1 THEN [rows |-> <<>>, overflow |-> 0]
            ELSE addGroup(after[i - 1], groups[i])
    IN  after

Paginate(groups, page) ==
    LET breaks == pageBreaks(groups)
        index == clampPage(page, Len(breaks))
        end == IF index + 1 < Len(breaks) THEN breaks[index + 2] - 1 ELSE Len(groups)
        filled == filling(groups, breaks[index + 1])[end]
    IN  IF groups = <<>> THEN NoPage
        ELSE [rows |-> filled.rows, index |-> index, count |-> Len(breaks),
              overflow |-> filled.overflow]

-----------------------------------------------------------------------------
(***************************************************************************)
(* Due dates. Offsets are minutes east of UTC, as parseUTCOffset bounds    *)
(* them.                                                                   *)
(***************************************************************************)
Offsets == -840..840

Keywords == {"today", "tomorrow", "+3d", "+1w"}

addDays(kw) ==
    CASE kw = "today" -> 0
      [] kw = "tomorrow" -> 1
      [] kw = "+3d" -> 3
      [] kw = "+1w" -> 7

\* Go's division of integers drops the fraction.
Quo(a, b) == IF a < 0 THEN -((-a) \div b) ELSE a \div b

\* Mutant: the day is found by Go's division alone.
truncDiv(a, b) == Quo(a, b)

floorDiv(a, b) == IF a # Quo(a, b) * b /\ a < 0 THEN Quo(a, b) - 1 ELSE Quo(a, b)

\* The end of the local day, in UTC. "clear" is no due date, anything else an error.
DueFromKeyword(kw, now, offset) ==
    floorDiv(now + offset * 60, day) * day + addDays(kw) * day + 86399 - offset * 60

\* A date is the number of its day; 0 in a label that names none.
FormatDate(unix, offset) == (unix + offset * 60) \div day

Label(kind, n) == [kind |-> kind, n |-> n]

FormatDue(due, now, offset) ==
    LET delta == due - now IN
    IF delta < 0 THEN Label("overdue", 0)
    ELSE IF delta <= day THEN Label("today", 0)
    ELSE IF delta <= 2 * day THEN Label("tomorrow", 0)
    ELSE IF delta <= 7 * day THEN Label("days", delta \div day)
    ELSE Label("date", FormatDate(due, offset))

\* What the user expects to read of the date just picked.
Promised(kw, now, offset) ==
    CASE kw = "today" -> Label("today", 0)
      [] kw = "tomorrow" -> Label("tomorrow", 0)
      [] kw = "+3d" -> Label("days", 3)
      [] kw = "+1w" -> Label("date", FormatDate(now, offset) + 7)

\* Whatever the offset and the hour, a due date picked on the local day n ends
\* with the local day n, n + 1, n + 3 or n + 7, and is shown as what was picked. Not
\* in the last second of a day, when "tomorrow" reads "today".
DueIsThatDay(now, offset) ==
    \A kw \in Keywords :
        LET due == DueFromKeyword(kw, now, offset) IN
        /\ FormatDate(due, offset) = FormatDate(now, offset) + addDays(kw)
        /\ FormatDate(due + 1, offset) = FormatDate(due, offset) + 1
        /\ FormatDate(now + 1, offset) = FormatDate(now, offset) =>
               FormatDue(due, now, offset) = Promised(kw, now, offset)
=============================================================================
