------------------------- MODULE ValidateStateProofs -------------------------
(***************************************************************************)
(* validateState is right: for every task map, and in whatever order its   *)
(* loops walk it, what it reports is broken, and it accepts nothing but a  *)
(* forest. So the verdict validateState of TaskForest, which the theorems  *)
(* of the store rest on, is the one the code computes.                     *)
(*                                                                         *)
(* While the lists are walked, those walked so far are good. During the    *)
(* search the tasks that are done contain only tasks that are done, and no *)
(* cycle: a task becomes done last of all its children, so it can be the   *)
(* child of none of them.                                                  *)
(***************************************************************************)
EXTENDS ValidateState, SequenceTheorems, TLAPS

-----------------------------------------------------------------------------
(***************************************************************************)
(* The invariant.                                                          *)
(***************************************************************************)
Walked == {p \in DOMAIN tasks : p \notin left /\ p # task}

Children(p) == ChildIds(tasks, p)

\* The pass over the lists: the lists walked are good, and so is the part of
\* the one being walked.
ListsInv ==
    /\ task \notin left
    /\ \A p \in Walked : IsInjective(Kids(p)) /\ Children(p) \subseteq seen
    /\ \A p, q \in Walked : p # q => Children(p) \intersect Children(q) = {}
    /\ \A c \in seen : (\E p \in Walked : c \in Children(p)) \/ (task # Null /\ c \in intra)
    /\ task # Null =>
        /\ next \in 1..(Len(Kids(task)) + 1)
        /\ intra = {Kids(task)[k] : k \in 1..(next - 1)}
        /\ \A j, k \in 1..(next - 1) : Kids(task)[j] = Kids(task)[k] => j = k
        /\ \A p \in Walked : Children(p) \intersect intra = {}
        /\ intra \subseteq seen

ListsAreGood ==
    /\ NoDuplicateInList(tasks)
    /\ NoDanglingChild(tasks)
    /\ SingleContainer(tasks)

\* The stack: its calls are of different tasks, the ones in the stack, and each
\* but the first is of the child the one below is at.
StackInv ==
    /\ \A i \in DOMAIN tasks :
        color[i] = "in_stack" <=> \E k \in 1..Len(stack) : stack[k].id = i
    /\ \A j, k \in 1..Len(stack) : stack[j].id = stack[k].id => j = k
    /\ \A k \in 1..Len(stack) :
        /\ stack[k].id \in DOMAIN tasks
        /\ stack[k].next \in 1..(Len(Kids(stack[k].id)) + 1)
    /\ \A k \in 2..Len(stack) :
        stack[k - 1].next > 1 /\ stack[k].id = Kids(stack[k - 1].id)[stack[k - 1].next - 1]

Done == {i \in DOMAIN tasks : color[i] = "done"}

\* What is done is closed downwards and has no cycle; a call has done with the
\* children before the one it is at.
DoneInv ==
    /\ \A i \in Done : Children(i) \subseteq Done
    /\ \A S \in SUBSET Done : (\A x \in S : \E p \in S : x \in Children(p)) => S = {}
    /\ \A k \in 1..Len(stack) : \A j \in 1..(stack[k].next - 1) :
        Kids(stack[k].id)[j] \in Done \/ (k < Len(stack) /\ j = stack[k].next - 1)

VerdictInv ==
    /\ verdict = "none" <=> phase # "done"
    /\ verdict = "ok" => IsForest(tasks)
    /\ ErrorIsReal

SearchInv ==
    /\ phase = "lists" => ListsInv /\ stack = <<>>
    /\ phase = "search" =>
        /\ ListsAreGood
        /\ \A i \in DOMAIN tasks \ left : color[i] # "unvisited"
    /\ StackInv
    /\ DoneInv
    /\ VerdictInv

Inv == TypeOK /\ SearchInv

-----------------------------------------------------------------------------
(***************************************************************************)
(* Task maps and stacks.                                                   *)
(***************************************************************************)
LEMMA KidsType ==
  ASSUME IsTaskMap(tasks), NEW p \in DOMAIN tasks
  PROVE  /\ Kids(p) \in Seq(Id)
         /\ Children(p) = {Kids(p)[k] : k \in 1..Len(Kids(p))}
  <1>1. Kids(p) \in Seq(Id)
    BY DEF IsTaskMap, Task, Content, Kids
  <1>2. DOMAIN Kids(p) = 1..Len(Kids(p))
    BY <1>1
  <1> QED  BY <1>1, <1>2 DEF Children, ChildIds, Range, Kids

LEMMA InitInv == Init => Inv
  <1> SUFFICES ASSUME Init PROVE Inv
    OBVIOUS
  <1>1. IsTaskMap(tasks)
    BY InputsAssumption DEF Init
  <1>2. Null \notin DOMAIN tasks
    BY <1>1, ValueAssumption DEF IsTaskMap
  <1>3. TypeOK
    <2>1. <<>> \in Seq(Frame) /\ DOMAIN <<>> = {}
      OBVIOUS
    <2> QED  BY <1>1, <2>1 DEF Init, TypeOK, Range
  <1>4. Walked = {} /\ Done = {} /\ Len(stack) = 0
    BY DEF Init, Walked, Done
  <1>5. ListsInv
    BY <1>2, <1>4 DEF Init, ListsInv
  <1>6. StackInv /\ DoneInv
    BY <1>4 DEF Init, StackInv, DoneInv
  <1>7. VerdictInv
    BY DEF Init, VerdictInv, ErrorIsReal
  <1> QED  BY <1>3, <1>5, <1>6, <1>7 DEF Init, Inv, SearchInv

-----------------------------------------------------------------------------
(***************************************************************************)
(* The pass over the lists.                                                *)
(***************************************************************************)
\* The verdict is the last thing the function does: nothing else changes.
LEMMA ReturnInv ==
  ASSUME Inv, NEW v \in Errors \union {"ok"}, Return(v), phase # "done",
         v = "ok" => IsForest(tasks),
         v = "duplicate_in_list" => ~NoDuplicateInList(tasks),
         v = "dangling_child" => ~NoDanglingChild(tasks),
         v = "single_container" => ~SingleContainer(tasks),
         v = "cycle" => ~NoCycle(tasks)
  PROVE  Inv'
  <1>1. /\ UNCHANGED <<tasks, left, task, next, intra, seen, stack, color>>
        /\ phase' = "done" /\ verdict' = v
    BY DEF Return
  <1>2. TypeOK'
    BY <1>1 DEF Inv, TypeOK
  <1>3. StackInv'
    BY <1>1 DEF Inv, SearchInv, StackInv, Kids
  <1>4. DoneInv'
    BY <1>1 DEF Inv, SearchInv, DoneInv, Done, Kids, Children
  <1>5. VerdictInv'
    BY <1>1 DEF Errors, VerdictInv, ErrorIsReal
  <1> QED  BY <1>1, <1>2, <1>3, <1>4, <1>5 DEF Inv, SearchInv

\* In the pass over the lists nothing is on the stack, nor does a colour change.
LEMMA ListsFrame ==
  ASSUME Inv, TypeOK', UNCHANGED <<tasks, stack, color, verdict>>, phase = "lists",
         \/ phase' = "lists" /\ ListsInv'
         \/ phase' = "search" /\ ListsAreGood /\ left' = DOMAIN tasks
  PROVE  Inv'
  <1>1. StackInv'
    BY DEF Inv, SearchInv, StackInv, Kids
  <1>2. DoneInv'
    BY DEF Inv, SearchInv, DoneInv, Done, Kids, Children
  <1>3. VerdictInv'
    BY DEF Inv, SearchInv, VerdictInv, ErrorIsReal
  <1>4. ListsAreGood => ListsAreGood'
    BY DEF ListsAreGood
  <1> QED  BY <1>1, <1>2, <1>3, <1>4 DEF Inv, SearchInv

LEMMA TakeListInv == Inv /\ TakeList => Inv'
  <1> SUFFICES ASSUME Inv, TakeList PROVE Inv'
    OBVIOUS
  <1>1. PICK i \in left : task' = i /\ left' = left \ {i}
    BY DEF TakeList
  <1>2. /\ phase = "lists" /\ task = Null /\ next' = 1 /\ intra' = {}
        /\ UNCHANGED <<tasks, phase, seen, stack, color, verdict>>
    BY DEF TakeList
  <1>3. TypeOK /\ ListsInv
    BY <1>2 DEF Inv, SearchInv
  <1>4. TypeOK'
    BY <1>1, <1>2, <1>3 DEF TypeOK
  <1>5. Null \notin DOMAIN tasks /\ i \in DOMAIN tasks
    BY <1>1, <1>3, ValueAssumption DEF TypeOK, IsTaskMap
  <1>6. Walked' = Walked
    BY <1>1, <1>2, <1>5 DEF Walked
  <1>7. Kids(i) \in Seq(Id)
    BY <1>3, <1>5, KidsType DEF TypeOK
  <1>8. ListsInv'
    <2>1. task' \notin left'
      BY <1>1
    <2>2. next' \in 1..(Len(Kids(task)') + 1)
      BY <1>1, <1>2, <1>7 DEF Kids
    <2>3. \A c \in seen : \E p \in Walked : c \in Children(p)
      BY <1>2, <1>3 DEF ListsInv
    <2> QED  BY <1>1, <1>2, <1>3, <1>6, <2>1, <2>2, <2>3 DEF ListsInv, Kids, Children
  <1> QED  BY <1>2, <1>4, <1>8, ListsFrame

LEMMA CheckChildInv == Inv /\ CheckChild => Inv'
  <1> SUFFICES ASSUME Inv, CheckChild PROVE Inv'
    OBVIOUS
  <1> DEFINE c == Kids(task)[next]
  <1>1. phase = "lists" /\ task # Null /\ next <= Len(Kids(task))
    BY DEF CheckChild
  <1>2. TypeOK /\ ListsInv
    BY <1>1 DEF Inv, SearchInv
  <1>3. task \in DOMAIN tasks
    BY <1>1, <1>2 DEF TypeOK
  <1>4. Kids(task) \in Seq(Id) /\ Children(task) = {Kids(task)[k] : k \in 1..Len(Kids(task))}
    BY <1>2, <1>3, KidsType DEF TypeOK
  <1>5. next \in 1..Len(Kids(task)) /\ intra = {Kids(task)[k] : k \in 1..(next - 1)}
    BY <1>1, <1>2, <1>4 DEF ListsInv
  <1>6. c \in Children(task)
    BY <1>4, <1>5
  <1>7. CASE c \in intra /\ Return("duplicate_in_list")
    <2>1. PICK k \in 1..(next - 1) : Kids(task)[k] = c
      BY <1>5, <1>7
    <2>2. k \in 1..Len(Kids(task)) /\ k # next
      BY <1>5, <2>1
    <2>3. ~IsInjective(Kids(task))
      BY <1>4, <1>5, <2>1, <2>2 DEF IsInjective
    <2>4. ~NoDuplicateInList(tasks)
      BY <1>3, <2>3 DEF NoDuplicateInList, Kids
    <2> QED  BY <1>1, <1>7, <2>4, ReturnInv DEF Errors
  <1>8. CASE c \notin DOMAIN tasks /\ Return("dangling_child")
    <2>1. ~NoDanglingChild(tasks)
      BY <1>3, <1>6, <1>8 DEF NoDanglingChild, Children
    <2> QED  BY <1>1, <1>8, <2>1, ReturnInv DEF Errors
  <1>9. CASE c \notin intra /\ c \in seen /\ Return("single_container")
    <2>1. PICK p \in Walked : c \in Children(p)
      BY <1>2, <1>9 DEF ListsInv
    <2>2. p \in DOMAIN tasks /\ p # task
      BY DEF Walked
    <2>3. ~SingleContainer(tasks)
      BY <1>3, <1>6, <2>1, <2>2 DEF SingleContainer, Children
    <2> QED  BY <1>1, <1>9, <2>3, ReturnInv DEF Errors
  <1>10. CASE /\ c \notin intra \union seen
              /\ c \in DOMAIN tasks
              /\ next' = next + 1
              /\ intra' = intra \union {c}
              /\ seen' = seen \union {c}
              /\ UNCHANGED <<tasks, phase, left, task, stack, color, verdict>>
    <2>1. TypeOK'
      BY <1>2, <1>10 DEF TypeOK
    <2>2. Walked' = Walked
      BY <1>10 DEF Walked
    <2>3. /\ next' \in 1..(Len(Kids(task)) + 1)
          /\ next' - 1 = next
          /\ 1..next = (1..(next - 1)) \union {next}
      BY <1>4, <1>5, <1>10
    <2>4. intra' = {Kids(task)[k] : k \in 1..(next' - 1)}
      BY <1>5, <1>10, <2>3
    <2>5. \A j, k \in 1..(next' - 1) : Kids(task)[j] = Kids(task)[k] => j = k
      BY <1>2, <1>1, <1>5, <1>10, <2>3 DEF ListsInv
    <2>6. \A p \in Walked : c \notin Children(p)
      BY <1>2, <1>10 DEF ListsInv
    <2>7. ListsInv'
      BY <1>1, <1>2, <1>10, <2>2, <2>3, <2>4, <2>5, <2>6 DEF ListsInv, Kids, Children
    <2> QED  BY <1>1, <1>10, <2>1, <2>7, ListsFrame
  <1> QED  BY <1>7, <1>8, <1>9, <1>10 DEF CheckChild

LEMMA EndListInv == Inv /\ EndList => Inv'
  <1> SUFFICES ASSUME Inv, EndList PROVE Inv'
    OBVIOUS
  <1>1. /\ phase = "lists" /\ task # Null /\ next > Len(Kids(task)) /\ task' = Null
        /\ UNCHANGED <<tasks, phase, left, next, intra, seen, stack, color, verdict>>
    BY DEF EndList
  <1>2. TypeOK /\ ListsInv
    BY <1>1 DEF Inv, SearchInv
  <1>3. TypeOK'
    BY <1>1, <1>2 DEF TypeOK
  <1>4. task \in DOMAIN tasks /\ Null \notin DOMAIN tasks
    BY <1>1, <1>2, ValueAssumption DEF TypeOK, IsTaskMap
  <1>5. Kids(task) \in Seq(Id) /\ Children(task) = {Kids(task)[k] : k \in 1..Len(Kids(task))}
    BY <1>2, <1>4, KidsType DEF TypeOK
  <1>6. Walked' = Walked \union {task}
    BY <1>1, <1>2, <1>4 DEF Walked, ListsInv
  <1>7. next - 1 = Len(Kids(task))
    BY <1>1, <1>2, <1>5 DEF ListsInv
  <1>8. Children(task) = intra /\ IsInjective(Kids(task))
    BY <1>1, <1>2, <1>5, <1>7 DEF ListsInv, IsInjective
  <1>9. ListsInv'
    <2>1. task' \notin left'
      BY <1>1, <1>2, <1>4 DEF TypeOK
    <2>2. \A p \in Walked' : IsInjective(Kids(p)') /\ Children(p)' \subseteq seen'
      BY <1>1, <1>2, <1>6, <1>8 DEF ListsInv, Kids, Children
    <2>3. \A p, q \in Walked' : p # q => Children(p)' \intersect Children(q)' = {}
      BY <1>1, <1>2, <1>6, <1>8 DEF ListsInv, Children
    <2>4. \A c \in seen' : \E p \in Walked' : c \in Children(p)'
      BY <1>1, <1>2, <1>6, <1>8 DEF ListsInv, Children
    <2> QED  BY <1>1, <2>1, <2>2, <2>3, <2>4 DEF ListsInv
  <1> QED  BY <1>1, <1>3, <1>9, ListsFrame

LEMMA EndListsInv == Inv /\ EndLists => Inv'
  <1> SUFFICES ASSUME Inv, EndLists PROVE Inv'
    OBVIOUS
  <1>1. /\ phase = "lists" /\ task = Null /\ left = {} /\ phase' = "search"
        /\ left' = DOMAIN tasks
        /\ UNCHANGED <<tasks, task, next, intra, seen, stack, color, verdict>>
    BY DEF EndLists
  <1>2. TypeOK /\ ListsInv
    BY <1>1 DEF Inv, SearchInv
  <1>3. TypeOK'
    BY <1>1, <1>2 DEF TypeOK
  <1>4. Walked = DOMAIN tasks
    BY <1>1, <1>2, ValueAssumption DEF TypeOK, IsTaskMap, Walked
  <1>5. ListsAreGood
    BY <1>2, <1>4
       DEF ListsInv, ListsAreGood, NoDuplicateInList, NoDanglingChild, SingleContainer, Kids,
           Children, TypeOK
  <1> QED  BY <1>1, <1>3, <1>5, ListsFrame

-----------------------------------------------------------------------------
(***************************************************************************)
(* The search.                                                             *)
(***************************************************************************)
\* The stack once its last call has gone on to its next child.
Advanced == Append(Below, [Top EXCEPT !.next = @ + 1])

LEMMA StackShape ==
  ASSUME stack \in Seq(Frame), stack # <<>>
  PROVE  /\ Len(stack) \in Nat \ {0}
         /\ Top = stack[Len(stack)] /\ Top \in Frame
         /\ Below \in Seq(Frame) /\ Len(Below) = Len(stack) - 1
         /\ \A k \in 1..(Len(stack) - 1) : Below[k] = stack[k]
         /\ Advanced \in Seq(Frame) /\ Len(Advanced) = Len(stack)
         /\ \A k \in 1..(Len(stack) - 1) : Advanced[k] = stack[k]
         /\ Advanced[Len(stack)] = [id |-> Top.id, next |-> Top.next + 1]
  <1>1. Len(stack) \in Nat \ {0}
    OBVIOUS
  <1>2. Top = stack[Len(stack)] /\ Top \in Frame
    BY <1>1 DEF Top
  <1>3. /\ Below \in Seq(Frame) /\ Len(Below) = Len(stack) - 1
        /\ \A k \in 1..(Len(stack) - 1) : Below[k] = stack[k]
    <2>1. \A k \in 1..(Len(stack) - 1) : stack[k] \in Frame
      BY <1>1
    <2> DEFINE n == Len(stack) - 1
    <2>2. n \in Nat
      BY <1>1
    <2>3. /\ SubSeq(stack, 1, n) \in Seq(Frame)
          /\ Len(SubSeq(stack, 1, n)) = IF 1 <= n THEN n - 1 + 1 ELSE 0
          /\ \A i \in 1..(n - 1 + 1) : SubSeq(stack, 1, n)[i] = stack[1 + i - 1]
      <3> HIDE DEF n
      <3>1. 1 \in Int /\ n \in Int /\ \A i \in 1..n : stack[i] \in Frame
        BY <2>1, <2>2 DEF n
      <3> QED  BY <3>1, SubSeqProperties
    <2>4. Below = SubSeq(stack, 1, n)
      BY DEF Below
    <2>5. Below \in Seq(Frame) /\ Len(Below) = n /\ \A k \in 1..n : Below[k] = stack[k]
      <3> HIDE DEF n
      <3>1. \A k \in 1..n : k \in 1..(n - 1 + 1) /\ 1 + k - 1 = k
        BY <2>2
      <3>2. (IF 1 <= n THEN n - 1 + 1 ELSE 0) = n
        BY <2>2
      <3> QED  BY <2>3, <2>4, <3>1, <3>2
    <2> QED  BY <2>5
  <1> DEFINE top == [Top EXCEPT !.next = @ + 1]
  <1>4. top = [id |-> Top.id, next |-> Top.next + 1] /\ top \in Frame
    BY <1>2 DEF Frame
  <1>5. /\ Append(Below, top) \in Seq(Frame)
        /\ Len(Append(Below, top)) = Len(stack)
        /\ \A k \in 1..(Len(stack) - 1) : Append(Below, top)[k] = stack[k]
        /\ Append(Below, top)[Len(stack)] = top
    <2> HIDE DEF top
    <2> QED  BY <1>1, <1>3, <1>4
  <1> QED  BY <1>1, <1>2, <1>3, <1>4, <1>5 DEF Advanced

\* A step of the search that does not return.
LEMMA SearchFrame ==
  ASSUME Inv, phase = "search", UNCHANGED <<tasks, phase, task, next, intra, seen, verdict>>,
         left' \subseteq left, stack' \in Seq(Frame),
         color' \in [DOMAIN tasks -> {"unvisited", "in_stack", "done"}],
         \A i \in DOMAIN tasks \ left' : color'[i] # "unvisited",
         StackInv', DoneInv'
  PROVE  Inv'
  <1>1. DOMAIN stack' = 1..Len(stack')
    OBVIOUS
  <1>2. Range([k \in DOMAIN stack' |-> stack'[k].id]) \subseteq DOMAIN tasks
    BY <1>1 DEF StackInv, Range
  <1>3. TypeOK'
    BY <1>2 DEF Inv, TypeOK
  <1>4. VerdictInv'
    BY DEF Inv, SearchInv, VerdictInv, ErrorIsReal
  <1>5. ListsAreGood'
    BY DEF Inv, SearchInv, ListsAreGood
  <1> QED  BY <1>3, <1>4, <1>5 DEF Inv, SearchInv

LEMMA TakeRootInv == Inv /\ TakeRoot => Inv'
  <1> SUFFICES ASSUME Inv, TakeRoot PROVE Inv'
    OBVIOUS
  <1>1. PICK i \in left :
          /\ left' = left \ {i}
          /\ \/ /\ color[i] = "unvisited"
                /\ stack' = <<Call(i)>>
                /\ color' = [color EXCEPT ![i] = "in_stack"]
             \/ /\ color[i] # "unvisited"
                /\ UNCHANGED <<stack, color>>
    BY DEF TakeRoot
  <1>2. /\ phase = "search" /\ stack = <<>>
        /\ UNCHANGED <<tasks, phase, task, next, intra, seen, verdict>>
    BY DEF TakeRoot
  <1>3. /\ TypeOK /\ StackInv /\ DoneInv
        /\ \A j \in DOMAIN tasks \ left : color[j] # "unvisited"
    BY <1>2 DEF Inv, SearchInv
  <1>4. i \in DOMAIN tasks /\ i \in Id
    BY <1>3 DEF TypeOK, IsTaskMap
  <1>5. CASE color[i] # "unvisited" /\ UNCHANGED <<stack, color>>
    <2>1. stack' \in Seq(Frame) /\ color' \in [DOMAIN tasks -> {"unvisited", "in_stack", "done"}]
      BY <1>3, <1>5 DEF TypeOK
    <2>2. StackInv' /\ DoneInv'
      BY <1>2, <1>3, <1>5 DEF StackInv, DoneInv, Done, Kids, Children
    <2>3. \A j \in DOMAIN tasks \ left' : color'[j] # "unvisited"
      BY <1>1, <1>3, <1>5
    <2> QED  BY <1>1, <1>2, <2>1, <2>2, <2>3, SearchFrame
  <1>6. CASE /\ color[i] = "unvisited"
             /\ stack' = <<Call(i)>>
             /\ color' = [color EXCEPT ![i] = "in_stack"]
    <2>1. /\ color' \in [DOMAIN tasks -> {"unvisited", "in_stack", "done"}]
          /\ color'[i] = "in_stack"
          /\ \A j \in DOMAIN tasks : j # i => color'[j] = color[j]
      BY <1>3, <1>4, <1>6 DEF TypeOK
    <2>2. /\ stack' \in Seq(Frame) /\ Len(stack') = 1
          /\ stack'[1] = [id |-> i, next |-> 1]
      BY <1>4, <1>6 DEF Call, Frame
    <2>3. \A j \in DOMAIN tasks : color[j] # "in_stack"
      BY <1>2, <1>3 DEF StackInv
    <2>4. Kids(i) \in Seq(Id)
      BY <1>3, <1>4, KidsType DEF TypeOK
    <2>5. StackInv'
      BY <1>2, <1>4, <2>1, <2>2, <2>3, <2>4 DEF StackInv, Kids
    <2>6. Done' = Done
      BY <1>2, <1>4, <1>6, <2>1 DEF Done
    <2>7. DoneInv'
      BY <1>2, <1>3, <2>2, <2>6 DEF DoneInv, Kids, Children
    <2>8. \A j \in DOMAIN tasks \ left' : color'[j] # "unvisited"
      BY <1>1, <1>3, <2>1
    <2> QED  BY <1>1, <1>2, <2>1, <2>2, <2>5, <2>7, <2>8, SearchFrame
  <1> QED  BY <1>1, <1>5, <1>6

\* The child the last call is at.
LEMMA TopChild ==
  ASSUME Inv, phase = "search", stack # <<>>, Top.next <= Len(Kids(Top.id))
  PROVE  /\ Top.id \in DOMAIN tasks
         /\ Top.next \in 1..Len(Kids(Top.id))
         /\ Kids(Top.id)[Top.next] \in Children(Top.id)
         /\ Kids(Top.id)[Top.next] \in DOMAIN tasks
  <1>1. TypeOK /\ StackInv /\ ListsAreGood
    BY DEF Inv, SearchInv
  <1>2. Len(stack) \in 1..Len(stack) /\ Top = stack[Len(stack)]
    BY <1>1, StackShape DEF TypeOK
  <1>3. Top.id \in DOMAIN tasks /\ Top.next \in 1..(Len(Kids(Top.id)) + 1)
    BY <1>1, <1>2 DEF StackInv
  <1>4. Kids(Top.id) \in Seq(Id)
        /\ Children(Top.id) = {Kids(Top.id)[k] : k \in 1..Len(Kids(Top.id))}
    BY <1>1, <1>3, KidsType DEF TypeOK
  <1>5. Top.next \in 1..Len(Kids(Top.id))
    BY <1>3, <1>4
  <1>6. Kids(Top.id)[Top.next] \in Children(Top.id)
    BY <1>4, <1>5
  <1> QED  BY <1>1, <1>3, <1>5, <1>6 DEF ListsAreGood, NoDanglingChild, Children

\* A child in the stack: the calls from its own to the last one are a cycle.
LEMMA CycleFound ==
  ASSUME Inv, phase = "search", stack # <<>>, Top.next <= Len(Kids(Top.id)),
         color[Kids(Top.id)[Top.next]] = "in_stack"
  PROVE  ~NoCycle(tasks)
  <1> DEFINE c == Kids(Top.id)[Top.next]
  <1> DEFINE m == Len(stack)
  <1>1. TypeOK /\ StackInv
    BY DEF Inv, SearchInv
  <1>2. m \in Nat \ {0} /\ Top = stack[m]
    BY <1>1, StackShape DEF TypeOK
  <1>3. c \in DOMAIN tasks /\ c \in Children(Top.id)
    BY TopChild
  <1>4. PICK n \in 1..m : stack[n].id = c
    BY <1>1, <1>3 DEF StackInv
  <1> DEFINE S == {stack[k].id : k \in n..m}
  <1>5. S \subseteq DOMAIN tasks /\ c \in S /\ Top.id \in S
    <2>1. n..m \subseteq 1..m /\ n \in n..m /\ m \in n..m
      BY <1>2, <1>4
    <2>2. \A k \in 1..m : stack[k].id \in DOMAIN tasks
      BY <1>1 DEF StackInv
    <2> QED  BY <1>2, <1>4, <2>1, <2>2
  <1>6. ASSUME NEW x \in S PROVE \E p \in S : x \in Children(p)
    <2>1. PICK k \in n..m : x = stack[k].id
      OBVIOUS
    <2>2. CASE k = n
      BY <1>3, <1>4, <1>5, <2>1, <2>2
    <2>3. CASE k # n
      <3>1. k \in 2..m /\ k - 1 \in n..m /\ k - 1 \in 1..m
        BY <1>2, <2>3
      <3> DEFINE p == stack[k - 1]
      <3>2. /\ p.id \in DOMAIN tasks /\ p.next \in 1..(Len(Kids(p.id)) + 1)
            /\ p.next > 1 /\ x = Kids(p.id)[p.next - 1]
        BY <1>1, <2>1, <3>1 DEF StackInv
      <3>3. /\ Kids(p.id) \in Seq(Id)
            /\ Children(p.id) = {Kids(p.id)[j] : j \in 1..Len(Kids(p.id))}
        BY <1>1, <3>2, KidsType DEF TypeOK
      <3>4. p.next - 1 \in 1..Len(Kids(p.id))
        BY <3>2, <3>3
      <3>5. x \in Children(p.id)
        <4> HIDE DEF p
        <4> QED  BY <3>2, <3>3, <3>4
      <3> QED  BY <3>1, <3>5
    <2> QED  BY <2>2, <2>3
  <1> QED  BY <1>5, <1>6 DEF NoCycle, Children

LEMMA VisitChildInv == Inv /\ VisitChild => Inv'
  <1> SUFFICES ASSUME Inv, VisitChild PROVE Inv'
    OBVIOUS
  <1> DEFINE c == Kids(Top.id)[Top.next]
  <1> DEFINE m == Len(stack)
  <1>1. phase = "search" /\ stack # <<>> /\ Top.next <= Len(Kids(Top.id))
    BY DEF VisitChild
  <1>2. /\ TypeOK /\ StackInv /\ DoneInv
        /\ \A j \in DOMAIN tasks \ left : color[j] # "unvisited"
    BY <1>1 DEF Inv, SearchInv
  <1>3. /\ m \in Nat \ {0} /\ Top = stack[m] /\ Top \in Frame
        /\ Advanced \in Seq(Frame) /\ Len(Advanced) = m
        /\ \A k \in 1..(m - 1) : Advanced[k] = stack[k]
        /\ Advanced[m] = [id |-> Top.id, next |-> Top.next + 1]
    BY <1>1, <1>2, StackShape DEF TypeOK
  <1>4. /\ Top.id \in DOMAIN tasks /\ Top.next \in 1..Len(Kids(Top.id))
        /\ c \in DOMAIN tasks
    BY <1>1, TopChild
  <1>5. Kids(Top.id) \in Seq(Id) /\ c \in Id
    BY <1>2, <1>4, KidsType DEF TypeOK, IsTaskMap
  <1>6. \A k \in 1..m : Advanced[k].id = stack[k].id
    BY <1>3
  <1>7. CASE color[c] = "in_stack" /\ Return("cycle")
    <2>1. ~NoCycle(tasks)
      BY <1>1, <1>7, CycleFound
    <2> QED  BY <1>1, <1>7, <2>1, ReturnInv DEF Errors
  <1>8. CASE /\ color[c] = "done"
             /\ stack' = Advanced
             /\ UNCHANGED <<tasks, phase, left, task, next, intra, seen, color, verdict>>
    <2>1. StackInv'
      <3>1. \A i \in DOMAIN tasks :
              color[i] = "in_stack" <=> \E k \in 1..m : Advanced[k].id = i
        <4> SUFFICES ASSUME NEW i \in DOMAIN tasks
                     PROVE  color[i] = "in_stack" <=> \E k \in 1..m : Advanced[k].id = i
          OBVIOUS
        <4>1. color[i] = "in_stack" <=> \E k \in 1..m : stack[k].id = i
          BY <1>2 DEF StackInv
        <4> QED  BY <1>6, <4>1
      <3>2. \A j, k \in 1..m : Advanced[j].id = Advanced[k].id => j = k
        BY <1>2, <1>6 DEF StackInv
      <3>3. ASSUME NEW k \in 1..m
            PROVE  /\ Advanced[k].id \in DOMAIN tasks
                   /\ Advanced[k].next \in 1..(Len(Kids(Advanced[k].id)) + 1)
        <4>1. CASE k = m
          BY <1>3, <1>4, <1>5, <4>1
        <4>2. CASE k # m
          <5>1. Advanced[k] = stack[k]
            BY <1>3, <4>2
          <5> QED  BY <1>2, <5>1 DEF StackInv
        <4> QED  BY <4>1, <4>2
      <3>4. ASSUME NEW k \in 2..m
            PROVE  /\ Advanced[k - 1].next > 1
                   /\ Advanced[k].id = Kids(Advanced[k - 1].id)[Advanced[k - 1].next - 1]
        <4>1. Advanced[k - 1] = stack[k - 1] /\ Advanced[k].id = stack[k].id
          BY <1>3, <1>6
        <4> QED  BY <1>2, <4>1 DEF StackInv
      <3>5. Len(stack') = m /\ UNCHANGED <<tasks, color>> /\ stack' = Advanced
        BY <1>3, <1>8
      <3>6. \A i : Kids(i)' = Kids(i)
        BY <3>5 DEF Kids
      <3> QED  BY <3>1, <3>2, <3>3, <3>4, <3>5, <3>6 DEF StackInv
    <2>2. Done' = Done /\ c \in Done
      BY <1>4, <1>8 DEF Done
    <2>3. ASSUME NEW k \in 1..m, NEW j \in 1..(Advanced[k].next - 1)
          PROVE  Kids(Advanced[k].id)[j] \in Done \/ (k < m /\ j = Advanced[k].next - 1)
      <3>1. CASE k # m
        <4>1. Advanced[k] = stack[k]
          BY <1>3, <3>1
        <4> QED  BY <1>2, <4>1 DEF DoneInv
      <3>2. CASE k = m
        <4>1. Advanced[k] = [id |-> Top.id, next |-> Top.next + 1]
          BY <1>3, <3>2
        <4>2. j = Top.next \/ j \in 1..(Top.next - 1)
          BY <1>4, <4>1
        <4>3. \A i \in 1..(Top.next - 1) : Kids(Top.id)[i] \in Done
          BY <1>2, <1>3 DEF DoneInv
        <4> QED  BY <2>2, <4>1, <4>2, <4>3
      <3> QED  BY <3>1, <3>2
    <2>4. DoneInv'
      <3>1. Len(stack') = m /\ UNCHANGED tasks /\ stack' = Advanced
        BY <1>3, <1>8
      <3>2. \A i : Kids(i)' = Kids(i) /\ Children(i)' = Children(i)
        BY <3>1 DEF Kids, Children
      <3>3. /\ \A i \in Done : Children(i) \subseteq Done
            /\ \A S \in SUBSET Done : (\A x \in S : \E p \in S : x \in Children(p)) => S = {}
        BY <1>2 DEF DoneInv
      <3> QED  BY <2>2, <2>3, <3>1, <3>2, <3>3 DEF DoneInv
    <2> QED  BY <1>1, <1>2, <1>3, <1>8, <2>1, <2>4, SearchFrame DEF TypeOK
  <1>9. CASE /\ color[c] = "unvisited"
             /\ stack' = Append(Advanced, Call(c))
             /\ color' = [color EXCEPT ![c] = "in_stack"]
             /\ UNCHANGED <<tasks, phase, left, task, next, intra, seen, verdict>>
    <2>1. /\ color' \in [DOMAIN tasks -> {"unvisited", "in_stack", "done"}]
          /\ color'[c] = "in_stack"
          /\ \A j \in DOMAIN tasks : j # c => color'[j] = color[j]
      BY <1>2, <1>4, <1>9 DEF TypeOK
    <2>2. Call(c) = [id |-> c, next |-> 1] /\ Call(c) \in Frame
      BY <1>5 DEF Call, Frame
    <2>3. /\ stack' \in Seq(Frame) /\ Len(stack') = m + 1
          /\ \A k \in 1..m : stack'[k] = Advanced[k]
          /\ stack'[m + 1] = [id |-> c, next |-> 1]
      BY <1>3, <1>9, <2>2
    <2>4. \A k \in 1..m : stack[k].id # c
      BY <1>2, <1>4, <1>9 DEF StackInv
    <2>5. Kids(c) \in Seq(Id)
      BY <1>2, <1>4, KidsType DEF TypeOK
    <2>6. StackInv'
      <3>1. \A i \in DOMAIN tasks :
              color'[i] = "in_stack" <=> \E k \in 1..(m + 1) : stack'[k].id = i
        <4> SUFFICES ASSUME NEW i \in DOMAIN tasks
                     PROVE  color'[i] = "in_stack" <=> \E k \in 1..(m + 1) : stack'[k].id = i
          OBVIOUS
        <4>1. CASE i = c
          BY <1>3, <2>1, <2>3, <4>1
        <4>2. CASE i # c
          <5>1. color[i] = "in_stack" <=> \E k \in 1..m : stack[k].id = i
            BY <1>2 DEF StackInv
          <5>2. (\E k \in 1..(m + 1) : stack'[k].id = i) <=> \E k \in 1..m : stack[k].id = i
            <6>1. \A k \in 1..m : k \in 1..(m + 1) /\ stack'[k].id = stack[k].id
              BY <1>3, <1>6, <2>3
            <6>2. \A k \in 1..(m + 1) : k \in 1..m \/ k = m + 1
              BY <1>3
            <6>3. stack'[m + 1].id # i
              BY <2>3, <4>2
            <6> QED  BY <6>1, <6>2, <6>3
          <5> QED  BY <2>1, <4>2, <5>1, <5>2
        <4> QED  BY <4>1, <4>2
      <3>2. \A j, k \in 1..(m + 1) : stack'[j].id = stack'[k].id => j = k
        <4>1. \A j, k \in 1..m : stack[j].id = stack[k].id => j = k
          BY <1>2 DEF StackInv
        <4>2. \A k \in 1..m : stack'[k].id = stack[k].id
          BY <1>6, <2>3
        <4>3. stack'[m + 1].id = c
          BY <2>3
        <4> QED  BY <1>3, <2>4, <4>1, <4>2, <4>3
      <3>3. ASSUME NEW k \in 1..(m + 1)
            PROVE  /\ stack'[k].id \in DOMAIN tasks
                   /\ stack'[k].next \in 1..(Len(Kids(stack'[k].id)) + 1)
        <4>1. CASE k = m + 1
          BY <1>4, <2>3, <2>5, <4>1
        <4>2. CASE k = m
          BY <1>3, <1>4, <1>5, <2>3, <4>2
        <4>3. CASE k \in 1..(m - 1)
          <5>1. stack'[k] = stack[k] /\ k \in 1..m
            BY <1>3, <2>3, <4>3
          <5> QED  BY <1>2, <5>1 DEF StackInv
        <4> QED  BY <1>3, <4>1, <4>2, <4>3
      <3>4. \A k \in 2..(m + 1) :
              /\ stack'[k - 1].next > 1
              /\ stack'[k].id = Kids(stack'[k - 1].id)[stack'[k - 1].next - 1]
        <4>1. \A k \in 2..m : k - 1 \in 1..(m - 1) /\ stack'[k].id = stack[k].id
          BY <1>3, <1>6, <2>3
        <4>2. \A k \in 1..(m - 1) : stack'[k] = stack[k]
          BY <1>3, <2>3
        <4>3. stack'[m] = [id |-> Top.id, next |-> Top.next + 1]
          BY <1>3, <2>3
        <4>4. \A k \in 2..m :
                stack[k - 1].next > 1 /\ stack[k].id = Kids(stack[k - 1].id)[stack[k - 1].next - 1]
          BY <1>2 DEF StackInv
        <4>5. /\ stack'[m].next > 1 /\ stack'[m].next - 1 = Top.next
              /\ stack'[m + 1].id = Kids(stack'[m].id)[stack'[m].next - 1]
          BY <1>4, <1>5, <2>3, <4>3
        <4> QED  BY <1>3, <4>1, <4>2, <4>4, <4>5
      <3>5. Len(stack') = m + 1 /\ UNCHANGED tasks
        BY <1>9, <2>3
      <3>6. \A i : Kids(i)' = Kids(i)
        BY <3>5 DEF Kids
      <3> QED  BY <3>1, <3>2, <3>3, <3>4, <3>5, <3>6 DEF StackInv
    <2>7. Done' = Done
      BY <1>4, <1>9, <2>1 DEF Done
    <2>8. ASSUME NEW k \in 1..(m + 1), NEW j \in 1..(stack'[k].next - 1)
          PROVE  Kids(stack'[k].id)[j] \in Done \/ (k < m + 1 /\ j = stack'[k].next - 1)
      <3>1. CASE k \in 1..(m - 1)
        <4>1. stack'[k] = stack[k] /\ k \in 1..m
          BY <1>3, <2>3, <3>1
        <4> QED  BY <1>2, <1>3, <4>1 DEF DoneInv
      <3>2. CASE k = m
        <4>1. stack'[k] = [id |-> Top.id, next |-> Top.next + 1]
          BY <1>3, <2>3, <3>2
        <4>2. j = Top.next \/ j \in 1..(Top.next - 1)
          BY <1>4, <4>1
        <4>3. \A i \in 1..(Top.next - 1) : Kids(Top.id)[i] \in Done
          BY <1>2, <1>3 DEF DoneInv
        <4> QED  BY <1>3, <1>4, <3>2, <4>1, <4>2, <4>3
      <3>3. CASE k = m + 1
        BY <2>3, <3>3
      <3> QED  BY <1>3, <3>1, <3>2, <3>3
    <2>9. DoneInv'
      <3>1. Len(stack') = m + 1 /\ UNCHANGED tasks
        BY <1>9, <2>3
      <3>2. \A i : Kids(i)' = Kids(i) /\ Children(i)' = Children(i)
        BY <3>1 DEF Kids, Children
      <3>3. /\ \A i \in Done : Children(i) \subseteq Done
            /\ \A S \in SUBSET Done : (\A x \in S : \E p \in S : x \in Children(p)) => S = {}
        BY <1>2 DEF DoneInv
      <3> QED  BY <2>7, <2>8, <3>1, <3>2, <3>3 DEF DoneInv
    <2>10. \A j \in DOMAIN tasks \ left' : color'[j] # "unvisited"
      BY <1>2, <1>9, <2>1
    <2> QED  BY <1>1, <1>9, <2>1, <2>3, <2>6, <2>9, <2>10, SearchFrame
  <1> QED  BY <1>7, <1>8, <1>9 DEF VisitChild, Advanced

\* The task of the last call is the child of nothing that is done, itself
\* included, so with it what is done has still no cycle.
LEMMA EndVisitInv == Inv /\ EndVisit => Inv'
  <1> SUFFICES ASSUME Inv, EndVisit PROVE Inv'
    OBVIOUS
  <1> DEFINE t == Top.id
  <1> DEFINE m == Len(stack)
  <1>1. /\ phase = "search" /\ stack # <<>> /\ Top.next > Len(Kids(t))
        /\ color' = [color EXCEPT ![t] = "done"] /\ stack' = Below
        /\ UNCHANGED <<tasks, phase, left, task, next, intra, seen, verdict>>
    BY DEF EndVisit
  <1>2. /\ TypeOK /\ StackInv /\ DoneInv
        /\ \A j \in DOMAIN tasks \ left : color[j] # "unvisited"
    BY <1>1 DEF Inv, SearchInv
  <1>3. /\ m \in Nat \ {0} /\ Top = stack[m]
        /\ stack' \in Seq(Frame) /\ Len(stack') = m - 1
        /\ \A k \in 1..(m - 1) : stack'[k] = stack[k]
    BY <1>1, <1>2, StackShape DEF TypeOK
  <1>4. m \in 1..m /\ t \in DOMAIN tasks /\ Top.next \in 1..(Len(Kids(t)) + 1)
        /\ color[t] = "in_stack"
    BY <1>2, <1>3 DEF StackInv
  <1>5. Kids(t) \in Seq(Id) /\ Children(t) = {Kids(t)[k] : k \in 1..Len(Kids(t))}
    BY <1>2, <1>4, KidsType DEF TypeOK
  <1>6. Children(t) \subseteq Done /\ t \notin Done
    <2>1. Top.next - 1 = Len(Kids(t))
      BY <1>1, <1>4, <1>5
    <2>2. \A j \in 1..(Top.next - 1) : Kids(t)[j] \in Done
      BY <1>2, <1>3, <1>4 DEF DoneInv
    <2> QED  BY <1>4, <1>5, <2>1, <2>2 DEF Done
  <1>7. /\ color' \in [DOMAIN tasks -> {"unvisited", "in_stack", "done"}]
        /\ color'[t] = "done"
        /\ \A j \in DOMAIN tasks : j # t => color'[j] = color[j]
    BY <1>1, <1>2, <1>4 DEF TypeOK
  <1>8. Done' = Done \union {t}
    BY <1>1, <1>4, <1>7 DEF Done
  <1>9. \A i : Kids(i)' = Kids(i) /\ Children(i)' = Children(i)
    BY <1>1 DEF Kids, Children
  <1>10. \A k \in 1..(m - 1) : stack[k].id # t /\ k \in 1..m
    BY <1>2, <1>3, <1>4 DEF StackInv
  <1>11. StackInv'
    <2>1. \A i \in DOMAIN tasks :
            color'[i] = "in_stack" <=> \E k \in 1..(m - 1) : stack'[k].id = i
      <3> SUFFICES ASSUME NEW i \in DOMAIN tasks
                   PROVE  color'[i] = "in_stack" <=> \E k \in 1..(m - 1) : stack'[k].id = i
        OBVIOUS
      <3>1. color[i] = "in_stack" <=> \E k \in 1..m : stack[k].id = i
        BY <1>2 DEF StackInv
      <3>2. CASE i = t
        BY <1>3, <1>7, <1>10, <3>2
      <3>3. CASE i # t
        <4>1. \A k \in 1..m : stack[k].id = i => k \in 1..(m - 1)
          BY <1>3, <3>3
        <4> QED  BY <1>3, <1>7, <1>10, <3>1, <3>3, <4>1
      <3> QED  BY <3>2, <3>3
    <2>2. \A j, k \in 1..(m - 1) : stack'[j].id = stack'[k].id => j = k
      BY <1>2, <1>3, <1>10 DEF StackInv
    <2>3. ASSUME NEW k \in 1..(m - 1)
          PROVE  /\ stack'[k].id \in DOMAIN tasks
                 /\ stack'[k].next \in 1..(Len(Kids(stack'[k].id)) + 1)
      <3>1. stack'[k] = stack[k] /\ k \in 1..m
        BY <1>3, <1>10
      <3> QED  BY <1>2, <3>1 DEF StackInv
    <2>4. ASSUME NEW k \in 2..(m - 1)
          PROVE  /\ stack'[k - 1].next > 1
                 /\ stack'[k].id = Kids(stack'[k - 1].id)[stack'[k - 1].next - 1]
      <3>1. stack'[k] = stack[k] /\ stack'[k - 1] = stack[k - 1] /\ k \in 2..m
        BY <1>3
      <3> QED  BY <1>2, <3>1 DEF StackInv
    <2>5. Len(stack') = m - 1 /\ UNCHANGED tasks
      BY <1>1, <1>3
    <2> QED  BY <1>9, <2>1, <2>2, <2>3, <2>4, <2>5 DEF StackInv
  <1>12. DoneInv'
    <2>1. \A i \in Done' : Children(i) \subseteq Done'
      BY <1>2, <1>6, <1>8 DEF DoneInv
    <2>2. ASSUME NEW S \in SUBSET Done', \A x \in S : \E p \in S : x \in Children(p)
          PROVE  S = {}
      <3>1. t \notin S
        BY <1>2, <1>6, <1>8, <2>2 DEF DoneInv
      <3>2. S \in SUBSET Done
        BY <1>8, <3>1
      <3> QED  BY <1>2, <2>2, <3>2 DEF DoneInv
    <2>3. ASSUME NEW k \in 1..(m - 1), NEW j \in 1..(stack'[k].next - 1)
          PROVE  Kids(stack'[k].id)[j] \in Done' \/ (k < m - 1 /\ j = stack'[k].next - 1)
      <3>1. stack'[k] = stack[k] /\ k \in 1..m
        BY <1>3, <1>10
      <3>2. Kids(stack[k].id)[j] \in Done \/ j = stack[k].next - 1
        BY <1>2, <3>1 DEF DoneInv
      <3>3. CASE k = m - 1 /\ j = stack[k].next - 1
        <4>1. m \in 2..m /\ m - 1 = k
          BY <1>3, <3>3
        <4>2. stack[m].id = Kids(stack[k].id)[stack[k].next - 1]
          BY <1>2, <4>1 DEF StackInv
        <4> QED  BY <1>3, <1>8, <3>1, <3>3, <4>2
      <3> QED  BY <1>3, <1>8, <3>1, <3>2, <3>3
    <2>4. Len(stack') = m - 1
      BY <1>3
    <2> QED  BY <1>9, <2>1, <2>2, <2>3, <2>4 DEF DoneInv
  <1>13. \A j \in DOMAIN tasks \ left' : color'[j] # "unvisited"
    BY <1>1, <1>2, <1>7
  <1> QED  BY <1>1, <1>3, <1>7, <1>11, <1>12, <1>13, SearchFrame

LEMMA EndSearchInv == Inv /\ EndSearch => Inv'
  <1> SUFFICES ASSUME Inv, EndSearch PROVE Inv'
    OBVIOUS
  <1>1. phase = "search" /\ stack = <<>> /\ left = {} /\ Return("ok")
    BY DEF EndSearch
  <1>2. /\ TypeOK /\ StackInv /\ DoneInv /\ ListsAreGood
        /\ \A j \in DOMAIN tasks \ left : color[j] # "unvisited"
    BY <1>1 DEF Inv, SearchInv
  <1>3. \A j \in DOMAIN tasks : color[j] # "in_stack"
    BY <1>1, <1>2 DEF StackInv
  <1>4. Done = DOMAIN tasks
    BY <1>1, <1>2, <1>3 DEF TypeOK, Done
  <1>5. IsForest(tasks)
    <2>1. NoCycle(tasks)
      BY <1>2, <1>4 DEF DoneInv, NoCycle, Children
    <2> QED  BY <1>2, <2>1 DEF ListsAreGood, IsForest
  <1> QED  BY <1>1, <1>5, ReturnInv DEF Errors

-----------------------------------------------------------------------------
(***************************************************************************)
(* Every step, and what follows.                                           *)
(***************************************************************************)
LEMMA StepInv == Inv /\ [Next]_vars => Inv'
  <1>1. Inv /\ UNCHANGED vars => Inv'
    <2> SUFFICES ASSUME Inv, UNCHANGED vars PROVE Inv'
      OBVIOUS
    <2>1. TypeOK'
      BY DEF vars, Inv, TypeOK
    <2>2. Walked' = Walked /\ Done' = Done
      BY DEF vars, Walked, Done
    <2>3. phase = "lists" => ListsInv'
      BY <2>2 DEF vars, Inv, SearchInv, ListsInv, Children, Kids
    <2>4. StackInv'
      BY DEF vars, Inv, SearchInv, StackInv, Kids
    <2>5. DoneInv'
      BY <2>2 DEF vars, Inv, SearchInv, DoneInv, Children, Kids
    <2>6. VerdictInv' /\ (ListsAreGood => ListsAreGood')
      BY DEF vars, Inv, SearchInv, VerdictInv, ErrorIsReal, ListsAreGood
    <2> QED  BY <2>1, <2>3, <2>4, <2>5, <2>6 DEF vars, Inv, SearchInv
  <1> QED  BY <1>1, TakeListInv, CheckChildInv, EndListInv, EndListsInv, TakeRootInv,
              VisitChildInv, EndVisitInv, EndSearchInv DEF Next

LEMMA InvAlways == Spec => []Inv
  <1> QED  BY InitInv, StepInv, PTL DEF Spec

\* validateState never indexes a list outside it, nor colours a task that does
\* not exist, whatever map it is handed.
THEOREM ValidateStateTypeOK == Spec => []TypeOK
  <1>1. Inv => TypeOK
    BY DEF Inv
  <1> QED  BY <1>1, InvAlways, PTL

\* The tasks coloured as in the stack are the calls in progress, and each call
\* is of the child the one below it is at: the colour is a sound test of a
\* cycle.
THEOREM GrayIsTheStack == Spec => []StackIsPath
  <1>1. Inv => StackIsPath
    <2> SUFFICES ASSUME Inv PROVE StackIsPath
      OBVIOUS
    <2>1. StackInv /\ DOMAIN stack = 1..Len(stack)
      BY DEF Inv, SearchInv, TypeOK
    <2>2. {stack[k].id : k \in DOMAIN stack} = {i \in DOMAIN tasks : color[i] = "in_stack"}
      <3>1. \A k \in 1..Len(stack) : stack[k].id \in DOMAIN tasks
        BY <2>1 DEF StackInv
      <3>2. \A i \in DOMAIN tasks :
              color[i] = "in_stack" <=> \E k \in 1..Len(stack) : stack[k].id = i
        BY <2>1 DEF StackInv
      <3> QED  BY <2>1, <3>1, <3>2
    <2> QED  BY <2>1, <2>2 DEF StackInv, StackIsPath
  <1> QED  BY <1>1, InvAlways, PTL

\* Whatever validateState reports is wrong with the tasks.
THEOREM ReportedErrorsAreReal == Spec => []ErrorIsReal
  <1>1. Inv => ErrorIsReal
    BY DEF Inv, SearchInv, VerdictInv
  <1> QED  BY <1>1, InvAlways, PTL

\* When validateState returns it has accepted the tasks exactly when they are a
\* forest: its lists and its search compute IsForest, which is what the store
\* takes the verdict to be.
THEOREM AcceptsExactlyForests == Spec => []AcceptsForests
  <1>1. Inv => AcceptsForests
    BY DEF Inv, SearchInv, VerdictInv, ErrorIsReal, TypeOK, Errors, AcceptsForests, IsForest
  <1> QED  BY <1>1, InvAlways, PTL
=============================================================================
