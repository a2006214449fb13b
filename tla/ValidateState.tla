---------------------------- MODULE ValidateState ----------------------------
(***************************************************************************)
(* validateState (server/validate.go) step by step: one pass over every    *)
(* child list, then a depth-first search that colours the tasks. Go walks  *)
(* a map in any order, so each outer loop takes any task it has left; the  *)
(* recursion of visit is a stack of frames. TaskStore takes its verdict to *)
(* be IsForest: here is why it is.                                         *)
(***************************************************************************)
EXTENDS TaskForest, FiniteSets

CONSTANT Inputs     \* the task maps validateState may be handed

ASSUME InputsAssumption == \A tasks \in Inputs : IsTaskMap(tasks)

VARIABLES
    tasks,      \* s.Tasks
    phase,      \* "lists", "search" or "done"
    left,       \* what the outer loop of the phase has still to take
    task,       \* lists: the task whose list is walked, or Null
    next,       \* lists: the position in that list
    intra,      \* lists: its children so far
    seen,       \* lists: the children of every list so far
    stack,      \* search: the calls of visit, each a task and a position
    color,      \* search: the colour of every task
    verdict     \* the InvariantError, or "ok"

vars == <<tasks, phase, left, task, next, intra, seen, stack, color, verdict>>

Frame == [id: Id, next: Nat]
Errors == {"duplicate_in_list", "dangling_child", "single_container", "cycle"}

Kids(id) == tasks[id].content.kids

Init ==
    /\ tasks \in Inputs
    /\ phase = "lists"
    /\ left = DOMAIN tasks
    /\ task = Null
    /\ next = 1
    /\ intra = {}
    /\ seen = {}
    /\ stack = <<>>
    /\ color = [i \in DOMAIN tasks |-> "unvisited"]
    /\ verdict = "none"

\* return, with an error or with nil.
Return(v) ==
    /\ phase' = "done"
    /\ verdict' = v
    /\ UNCHANGED <<tasks, left, task, next, intra, seen, stack, color>>

-----------------------------------------------------------------------------
(***************************************************************************)
(* The pass over the child lists.                                          *)
(***************************************************************************)
TakeList ==
    /\ phase = "lists"
    /\ task = Null
    /\ \E i \in left :
        /\ task' = i
        /\ left' = left \ {i}
    /\ next' = 1
    /\ intra' = {}
    /\ UNCHANGED <<tasks, phase, seen, stack, color, verdict>>

\* Mutant: a child of two containers goes unnoticed.
CheckChildOnce ==
    /\ phase = "lists"
    /\ task # Null
    /\ next <= Len(Kids(task))
    /\ LET c == Kids(task)[next] IN
        \/ c \in intra /\ Return("duplicate_in_list")
        \/ c \notin intra /\ c \notin DOMAIN tasks /\ Return("dangling_child")
        \/ /\ c \notin intra
           /\ c \in DOMAIN tasks
           /\ next' = next + 1
           /\ intra' = intra \union {c}
           /\ seen' = seen \union {c}
           /\ UNCHANGED <<tasks, phase, left, task, stack, color, verdict>>

CheckChild ==
    /\ phase = "lists"
    /\ task # Null
    /\ next <= Len(Kids(task))
    /\ LET c == Kids(task)[next] IN
        \/ c \in intra /\ Return("duplicate_in_list")
        \/ c \notin intra /\ c \notin DOMAIN tasks /\ Return("dangling_child")
        \/ c \notin intra /\ c \in DOMAIN tasks /\ c \in seen /\ Return("single_container")
        \/ /\ c \notin intra \union seen
           /\ c \in DOMAIN tasks
           /\ next' = next + 1
           /\ intra' = intra \union {c}
           /\ seen' = seen \union {c}
           /\ UNCHANGED <<tasks, phase, left, task, stack, color, verdict>>

EndList ==
    /\ phase = "lists"
    /\ task # Null
    /\ next > Len(Kids(task))
    /\ task' = Null
    /\ UNCHANGED <<tasks, phase, left, next, intra, seen, stack, color, verdict>>

EndLists ==
    /\ phase = "lists"
    /\ task = Null
    /\ left = {}
    /\ phase' = "search"
    /\ left' = DOMAIN tasks
    /\ UNCHANGED <<tasks, task, next, intra, seen, stack, color, verdict>>

-----------------------------------------------------------------------------
(***************************************************************************)
(* The search for a cycle.                                                 *)
(***************************************************************************)
Call(id) == [id |-> id, next |-> 1]

\* The outer loop: visit a task nothing has visited yet.
TakeRoot ==
    /\ phase = "search"
    /\ stack = <<>>
    /\ \E i \in left :
        /\ left' = left \ {i}
        /\ \/ /\ color[i] = "unvisited"
              /\ stack' = <<Call(i)>>
              /\ color' = [color EXCEPT ![i] = "in_stack"]
           \/ /\ color[i] # "unvisited"
              /\ UNCHANGED <<stack, color>>
    /\ UNCHANGED <<tasks, phase, task, next, intra, seen, verdict>>

Top == stack[Len(stack)]
Below == SubSeq(stack, 1, Len(stack) - 1)

VisitChild ==
    /\ phase = "search"
    /\ stack # <<>>
    /\ Top.next <= Len(Kids(Top.id))
    /\ LET c == Kids(Top.id)[Top.next]
           rest == Append(Below, [Top EXCEPT !.next = @ + 1])
       IN  \/ /\ color[c] = "in_stack"
              /\ Return("cycle")
           \/ /\ color[c] = "unvisited"
              /\ stack' = Append(rest, Call(c))
              /\ color' = [color EXCEPT ![c] = "in_stack"]
              /\ UNCHANGED <<tasks, phase, left, task, next, intra, seen, verdict>>
           \/ /\ color[c] = "done"
              /\ stack' = rest
              /\ UNCHANGED <<tasks, phase, left, task, next, intra, seen, color, verdict>>

\* Mutant: a task keeps the colour of a call in progress.
EndVisitGray ==
    /\ phase = "search"
    /\ stack # <<>>
    /\ Top.next > Len(Kids(Top.id))
    /\ stack' = Below
    /\ UNCHANGED <<tasks, phase, left, task, next, intra, seen, color, verdict>>

\* Mutant: the call never returns.
EndVisitStays ==
    /\ phase = "search"
    /\ stack # <<>>
    /\ Top.next > Len(Kids(Top.id))
    /\ color' = [color EXCEPT ![Top.id] = "done"]
    /\ UNCHANGED <<tasks, phase, left, task, next, intra, seen, stack, verdict>>

EndVisit ==
    /\ phase = "search"
    /\ stack # <<>>
    /\ Top.next > Len(Kids(Top.id))
    /\ color' = [color EXCEPT ![Top.id] = "done"]
    /\ stack' = Below
    /\ UNCHANGED <<tasks, phase, left, task, next, intra, seen, verdict>>

EndSearch ==
    /\ phase = "search"
    /\ stack = <<>>
    /\ left = {}
    /\ Return("ok")

Next ==
    \/ TakeList \/ CheckChild \/ EndList \/ EndLists
    \/ TakeRoot \/ VisitChild \/ EndVisit \/ EndSearch

Spec == Init /\ [][Next]_vars

\* The function runs until it returns.
FairSpec == Spec /\ WF_vars(Next)

-----------------------------------------------------------------------------
(***************************************************************************)
(* Properties.                                                             *)
(***************************************************************************)
TypeOK ==
    /\ IsTaskMap(tasks)
    /\ phase \in {"lists", "search", "done"}
    /\ left \subseteq DOMAIN tasks
    /\ task \in DOMAIN tasks \union {Null}
    /\ next \in Nat
    /\ intra \subseteq DOMAIN tasks /\ seen \subseteq DOMAIN tasks
    /\ stack \in Seq(Frame) /\ Range([k \in DOMAIN stack |-> stack[k].id]) \subseteq DOMAIN tasks
    /\ color \in [DOMAIN tasks -> {"unvisited", "in_stack", "done"}]
    /\ verdict \in Errors \union {"none", "ok"}

\* A task map is accepted exactly when it is a forest, whatever order the map
\* is walked in.
AcceptsForests == phase = "done" => (verdict = "ok" <=> IsForest(tasks))

\* Of several things wrong any one may be reported, but what is reported is
\* wrong: the details of a 422 name an invariant that is broken.
ErrorIsReal ==
    /\ verdict = "duplicate_in_list" => ~NoDuplicateInList(tasks)
    /\ verdict = "dangling_child" => ~NoDanglingChild(tasks)
    /\ verdict = "single_container" => ~SingleContainer(tasks)
    /\ verdict = "cycle" => ~NoCycle(tasks)

\* The tasks coloured as in the stack are the calls in progress, each one the
\* child the call below it is at: so a child of that colour closes a cycle.
StackIsPath ==
    /\ {stack[k].id : k \in DOMAIN stack} = {i \in DOMAIN tasks : color[i] = "in_stack"}
    /\ \A k \in 2..Len(stack) :
        stack[k - 1].next > 1 /\ stack[k].id = Kids(stack[k - 1].id)[stack[k - 1].next - 1]

\* The search returns: no list of tasks makes it run forever.
Returns == <>(phase = "done")
=============================================================================
