------------------------------ MODULE BotReader ------------------------------
(***************************************************************************)
(* A user pages through a listing of the bot (ShowList, RenderPage and the *)
(* arrows under it) while time passes and other clients change tasks. The  *)
(* server lists the tasks of each response in another order                *)
(* (server/handlers.go ranges over a map), and nothing is kept between two *)
(* pages but the page number and the needle in the buttons.                *)
(***************************************************************************)
EXTENDS BotView

CONSTANTS
    Orders,       \* orders in which a response may list the tasks
    Instants,     \* of the wall clock
    InitialTasks, \* forests to begin with
    OffsetsUsed   \* the utc_offset of a bot

ASSUME ReaderAssumption ==
    /\ Orders \subseteq Seq(Id) /\ \A order \in Orders : Range(order) = Id /\ IsInjective(order)
    /\ Instants \subseteq Int
    /\ \A forest \in InitialTasks : IsForest(forest)
    /\ OffsetsUsed \subseteq Offsets

VARIABLES
    tasks,  \* what the server has
    now,
    screen, \* the page shown last
    tour    \* history: what was read since the first page, if nothing changed

vars == <<tasks, now, screen, tour>>

NoScreen == [query |-> Null, page |-> NoPage, more |-> 0]

Broken == [whole |-> FALSE, ids |-> {}, rows |-> 0, lost |-> 0]

Init ==
    /\ tasks \in InitialTasks
    /\ now \in Instants
    /\ screen = NoScreen
    /\ tour = Broken

\* The screen ShowList renders.
Listing(query, page, order) ==
    LET found == FindGroups(tasks, order, query, now)
    IN  IF query = Null
        THEN [query |-> Null, page |-> Paginate(ListGroups(tasks, order, now), page), more |-> 0]
        ELSE [query |-> query, page |-> Paginate(found.groups, page), more |-> found.overflow]

RowIds(s) == {row.task : row \in Range(s.page.rows)}

\* Adds a screen to what was read.
Read(t, s) ==
    [whole |-> TRUE, ids |-> t.ids \union RowIds(s), rows |-> t.rows + Len(s.page.rows),
     lost |-> t.lost + s.page.overflow]

\* /list, or /find with something to look for: the first page.
Command ==
    /\ \E query \in Needle \union {Null}, order \in Orders : screen' = Listing(query, 0, order)
    /\ tour' = Read(Broken, screen')
    /\ UNCHANGED <<tasks, now>>

\* The arrow to the next page.
Forward ==
    /\ screen.page.index < screen.page.count - 1
    /\ \E order \in Orders :
           screen' = Listing(screen.query, screen.page.index + 1, order)
    /\ tour' = IF tour.whole THEN Read(tour, screen') ELSE Broken
    /\ UNCHANGED <<tasks, now>>

\* The arrow to the page before.
Backward ==
    /\ screen.page.index > 0
    /\ \E order \in Orders :
           screen' = Listing(screen.query, screen.page.index - 1, order)
    /\ tour' = Broken
    /\ UNCHANGED <<tasks, now>>

\* Another client closes or opens a task. (One that deletes or moves a task
\* leaves a forest that InitialTasks may have as well.)
Elsewhere ==
    /\ \E i \in DOMAIN tasks : tasks' = [tasks EXCEPT ![i].closed = ~@]
    /\ tour' = Broken
    /\ UNCHANGED <<now, screen>>

Tick ==
    /\ now' \in {t \in Instants : t > now}
    /\ tour' = Broken
    /\ UNCHANGED <<tasks, screen>>

Next == Command \/ Forward \/ Backward \/ Elsewhere \/ Tick

Spec == Init /\ [][Next]_vars

-----------------------------------------------------------------------------
(***************************************************************************)
(* Properties.                                                             *)
(***************************************************************************)
\* What a listing is of: for /list every tree with something open in it, whole,
\* for /find every open task whose title matches.
ForestOf(i) == {j \in DOMAIN tasks : i \in Tree(tasks, j)}

Listed(query) ==
    IF query = Null
    THEN {i \in DOMAIN tasks :
             \E root \in ForestOf(i) : IsRoot(tasks, root) /\ \E j \in Tree(tasks, root) : IsOpen(tasks[j])}
    ELSE {i \in DOMAIN tasks : IsOpen(tasks[i]) /\ query \in tasks[i].title}

\* The comments on LessRoots, subtreeHasOpen and Page: whoever reads a listing to its last page
\* meets each task of it once, whatever order each response came in, and
\* is told how many were left out.
WholeListing ==
    tour.whole /\ screen.page.index + 1 >= screen.page.count =>
        /\ tour.rows = Cardinality(tour.ids)
        /\ tour.ids \subseteq Listed(screen.query)
        /\ Cardinality(Listed(screen.query) \ tour.ids) = tour.lost + screen.more

\* The comments on maxRootsPerPage, Group and Paginate: a page keeps to both limits, so that
\* Telegram takes it; it begins with a root, is cut only when it is all one
\* tree, and is never the empty page past the end.
PageFits ==
    LET rows == screen.page.rows
        roots == {k \in DOMAIN rows : rows[k].depth = 0}
    IN  /\ Len(rows) <= maxRowsPerPage
        /\ Cardinality(roots) <= maxRootsPerPage
        /\ rows # <<>> => 1 \in roots
        /\ screen.page.overflow > 0 => roots = {1}
        /\ screen.page.count > 0 => rows # <<>> /\ screen.page.index < screen.page.count

\* The comment on DueFromKeyword: the bot and the command line agree on the day.
DueReadsBack == \A offset \in OffsetsUsed : DueIsThatDay(now, offset)
=============================================================================
