--------------------------- MODULE TaskStoreProofs ---------------------------
(***************************************************************************)
(* Proofs about TaskStore for any number of handlers, any ids and requests *)
(* and any files found at the first start: its type invariant, the safety  *)
(* invariants its runs check, and that it implements VersionedForest.      *)
(*                                                                         *)
(* None of those invariants is inductive alone. What carries them is IInv: *)
(* the handler that holds the lock has a candidate that is a legal         *)
(* mutation of memory, and file and memory agree but for that handler's    *)
(* rename.                                                                 *)
(*                                                                         *)
(* The first part is about the operators of TaskForest alone, for every    *)
(* set of ids and every forest: the lists insertAt and removeString build, *)
(* the index rebuildIndex builds, and that the candidates of Add and       *)
(* Delete are forests whenever they start from one.                        *)
(***************************************************************************)
EXTENDS TaskStore, SequenceTheorems, TLAPS

(***************************************************************************)
(* Child lists.                                                            *)
(***************************************************************************)
\* A function on 1..n is a sequence.
LEMMA FunctionIsSeq ==
    ASSUME NEW S, NEW n \in Nat, NEW f \in [1..n -> S]
    PROVE  f \in Seq(S) /\ Len(f) = n
  BY SeqDef, Z3

\* insertAt (store.go) adds v to the elements of the list, and makes no
\* duplicate of an element that was not there.
LEMMA InsertAtProperties ==
    ASSUME NEW S, NEW s \in Seq(S), NEW i \in 0..Len(s), NEW v \in S
    PROVE  /\ insertAt(s, i, v) \in Seq(S)
           /\ Range(insertAt(s, i, v)) = Range(s) \union {v}
           /\ IsInjective(s) /\ v \notin Range(s) => IsInjective(insertAt(s, i, v))
<1> DEFINE n == Len(s)
           t == insertAt(s, i, v)
<1>0. /\ n \in Nat /\ i \in Nat /\ i <= n
      /\ DOMAIN s = 1..n
      /\ \A j \in 1..n : s[j] \in S
  BY LenProperties, ElementOfSeq
<1>1. /\ t \in [1..(n + 1) -> S]
      /\ DOMAIN t = 1..(n + 1)
      /\ \A j \in 1..i : t[j] = s[j]
      /\ t[i + 1] = v
      /\ \A j \in (i + 2)..(n + 1) : t[j] = s[j - 1]
  BY <1>0 DEF insertAt
<1>2. t \in Seq(S)
  BY <1>0, <1>1, FunctionIsSeq
<1>3. Range(t) = Range(s) \union {v}
  <2>1. ASSUME NEW j \in 1..(n + 1)
        PROVE  t[j] \in Range(s) \union {v}
    <3>1. CASE j <= i
      BY <1>0, <1>1, <3>1 DEF Range
    <3>2. CASE j = i + 1
      BY <1>1, <3>2
    <3>3. CASE j > i + 1
      <4>1. j \in (i + 2)..(n + 1) /\ j - 1 \in 1..n
        BY <1>0, <3>3
      <4>2. QED  BY <1>0, <1>1, <4>1 DEF Range
    <3>4. QED  BY <1>0, <3>1, <3>2, <3>3
  <2>2. ASSUME NEW j \in 1..n
        PROVE  s[j] \in Range(t)
    <3>1. CASE j <= i
      <4>1. j \in 1..(n + 1) /\ t[j] = s[j]
        BY <1>0, <1>1, <3>1
      <4>2. QED  BY <1>1, <4>1 DEF Range
    <3>2. CASE j > i
      <4>1. j + 1 \in 1..(n + 1) /\ t[j + 1] = s[j]
        BY <1>0, <1>1, <3>2
      <4>2. QED  BY <1>1, <4>1 DEF Range
    <3>3. QED  BY <1>0, <3>1, <3>2
  <2>3. v \in Range(t)
    BY <1>0, <1>1 DEF Range
  <2> HIDE DEF t
  <2>4. QED  BY <1>0, <1>1, <2>1, <2>2, <2>3 DEF Range
<1>4. ASSUME IsInjective(s), v \notin Range(s)
      PROVE  IsInjective(t)
  <2> DEFINE old(j) == IF j <= i THEN j ELSE j - 1
  <2>1. ASSUME NEW j \in 1..(n + 1), j # i + 1
        PROVE  old(j) \in 1..n /\ t[j] = s[old(j)] /\ t[j] # v
    <3>1. old(j) \in 1..n
      BY <1>0, <2>1
    <3>2. t[j] = s[old(j)]
      BY <1>0, <1>1, <2>1
    <3>3. QED  BY <1>0, <1>4, <3>1, <3>2 DEF Range
  <2>2. ASSUME NEW j \in 1..(n + 1), NEW k \in 1..(n + 1), t[j] = t[k]
        PROVE  j = k
    <3>1. CASE j = i + 1 \/ k = i + 1
      BY <1>1, <2>1, <2>2, <3>1
    <3>2. CASE j # i + 1 /\ k # i + 1
      <4>1. old(j) \in 1..n /\ old(k) \in 1..n /\ s[old(j)] = s[old(k)]
        BY <2>1, <2>2, <3>2
      <4>2. old(j) = old(k)
        BY <1>0, <1>4, <4>1 DEF IsInjective
      <4>3. QED  BY <1>0, <3>2, <4>2
    <3>3. QED  BY <3>1, <3>2
  <2> HIDE DEF t
  <2>3. QED  BY <1>1, <2>2 DEF IsInjective
<1>5. QED  BY <1>2, <1>3, <1>4

\* removeString (store.go), on a list with no duplicates, takes v out and
\* nothing else.
LEMMA RemoveStringProperties ==
    ASSUME NEW S, NEW s \in Seq(S), NEW v, IsInjective(s)
    PROVE  /\ removeString(s, v) \in Seq(S)
           /\ Range(removeString(s, v)) = Range(s) \ {v}
           /\ IsInjective(removeString(s, v))
<1>1. CASE v \notin Range(s)
  BY <1>1 DEF removeString
<1>2. CASE v \in Range(s)
  <2> DEFINE n == Len(s)
             gap == CHOOSE k \in DOMAIN s : s[k] = v
             t == removeString(s, v)
             old(j) == IF j < gap THEN j ELSE j + 1
  <2>0. /\ n \in Nat
        /\ DOMAIN s = 1..n
        /\ \A j \in 1..n : s[j] \in S
    BY LenProperties, ElementOfSeq
  <2>1. gap \in 1..n /\ s[gap] = v
    BY <1>2, <2>0 DEF Range
  <2>2. t = [j \in 1..(n - 1) |-> IF j < gap THEN s[j] ELSE s[j + 1]]
    BY <1>2 DEF removeString
  <2> HIDE DEF t, gap
  <2>3. n - 1 \in Nat /\ gap \in Nat
    BY <2>0, <2>1
  <2>4. ASSUME NEW j \in 1..(n - 1)
        PROVE  old(j) \in 1..n /\ old(j) # gap /\ t[j] = s[old(j)]
    BY <2>0, <2>1, <2>2, <2>3
  <2>5. DOMAIN t = 1..(n - 1)
    BY <2>2
  <2>6. t \in Seq(S)
    <3>1. t \in [1..(n - 1) -> S]
      BY <2>0, <2>2, <2>4
    <3>2. QED  BY <2>3, <3>1, FunctionIsSeq
  <2>7. Range(t) = Range(s) \ {v}
    <3>1. ASSUME NEW j \in 1..(n - 1)
          PROVE  t[j] \in Range(s) \ {v}
      <4>1. t[j] # v
        BY <2>0, <2>1, <2>4 DEF IsInjective
      <4>2. QED  BY <2>0, <2>4, <4>1 DEF Range
    <3>2. ASSUME NEW k \in 1..n, s[k] # v
          PROVE  s[k] \in Range(t)
      <4>1. k # gap
        BY <2>1, <3>2
      <4>2. CASE k < gap
        <5>1. k \in 1..(n - 1) /\ old(k) = k
          BY <2>0, <2>1, <4>2
        <5>2. QED  BY <2>4, <2>5, <5>1 DEF Range
      <4>3. CASE k > gap
        <5>1. k - 1 \in 1..(n - 1) /\ old(k - 1) = k
          BY <2>0, <2>1, <2>3, <4>3
        <5>2. QED  BY <2>4, <2>5, <5>1 DEF Range
      <4>4. QED  BY <2>0, <2>1, <4>1, <4>2, <4>3
    <3>3. QED  BY <2>0, <2>5, <3>1, <3>2 DEF Range
  <2>8. IsInjective(t)
    <3>1. ASSUME NEW j \in 1..(n - 1), NEW k \in 1..(n - 1), t[j] = t[k]
          PROVE  j = k
      <4>1. old(j) = old(k)
        BY <2>0, <2>4, <3>1 DEF IsInjective
      <4>2. QED  BY <2>3, <4>1
    <3>2. QED  BY <2>5, <3>1 DEF IsInjective
  <2>9. QED  BY <2>6, <2>7, <2>8 DEF t
<1>3. QED  BY <1>1, <1>2

-----------------------------------------------------------------------------
(***************************************************************************)
(* Types of the pieces.                                                    *)
(***************************************************************************)
LEMMA TaskType ==
    ASSUME NEW tasks, IsTaskMap(tasks), NEW i \in DOMAIN tasks
    PROVE  /\ i \in Id
           /\ tasks[i] \in Task
           /\ tasks[i].content \in Content
           /\ tasks[i].content.kids \in Seq(Id)
           /\ tasks[i].meta \in Meta
           /\ tasks[i].meta.version \in Nat
  BY DEF IsTaskMap, Task, Content, Meta

\* applyCompletion touches completed_at alone.
LEMMA CompletionType ==
    ASSUME NEW meta \in Meta, NEW old, NEW next, NEW now \in Time
    PROVE  LET m == applyCompletion(meta, old, next, now)
           IN  /\ m \in Meta
               /\ m.created = meta.created
               /\ m.version = meta.version
               /\ (old \in Terminal) = (next \in Terminal) => m.completed = meta.completed
<1> DEFINE m == applyCompletion(meta, old, next, now)
<1>1. CASE old \notin Terminal /\ next \in Terminal
  <2>1. m = [meta EXCEPT !.completed = now]
    BY <1>1 DEF applyCompletion
  <2>2. QED  BY <1>1, <2>1 DEF Meta
<1>2. CASE old \in Terminal /\ next \notin Terminal
  <2>1. m = [meta EXCEPT !.completed = Null]
    BY <1>2 DEF applyCompletion
  <2>2. QED  BY <1>2, <2>1 DEF Meta
<1>3. CASE (old \in Terminal) = (next \in Terminal)
  <2>1. m = meta
    BY <1>3 DEF applyCompletion
  <2>2. QED  BY <2>1
<1>4. QED  BY <1>1, <1>2, <1>3

\* Touching the version or the completion stamp of a task keeps it a task.
LEMMA TouchType ==
    ASSUME NEW meta \in Meta, NEW now \in Time
    PROVE  /\ Touch(meta, now) \in Meta
           /\ Touch(meta, now).version = meta.version + 1
           /\ Touch(meta, now).created = meta.created
           /\ Touch(meta, now).completed = meta.completed
  BY DEF Touch, Meta

\* A valid wire content is a content.
LEMMA ValidContent ==
    ASSUME NEW c \in WireContent, validateContent(c)
    PROVE  c \in Content
  BY DEF WireContent, Content, validateContent

\* clamp: an insertion position lies between the ends of the list.
LEMMA InsertPositionRange ==
    ASSUME NEW position \in Int \union {Null}, NEW n \in Nat
    PROVE  InsertPosition(position, n) \in 0..n
  BY ValueAssumption DEF InsertPosition, clamp

\* insertAt at the clamped position: the elements at places up to the position
\* asked for stay where they are, and the others move up by one.
LEMMA InsertAtPlaces ==
    ASSUME NEW S, NEW s \in Seq(S), NEW position \in Int \union {Null}, NEW v \in S
    PROVE  Placed(s, insertAt(s, InsertPosition(position, Len(s)), v), v, position)
<1> DEFINE n == Len(s)
           i == InsertPosition(position, n)
           t == insertAt(s, i, v)
<1>1. n \in Nat /\ DOMAIN s = 1..n
  BY LenProperties
<1>2. i \in 0..n
  BY <1>1, InsertPositionRange
<1>3. \A k \in 1..n : (position = Null \/ k <= position) <=> k <= i
  <2>1. CASE position = Null
    BY <1>1, <2>1 DEF InsertPosition
  <2>2. CASE position \in Int
    BY <1>1, <2>2, ValueAssumption DEF InsertPosition, clamp
  <2>3. QED  BY <2>1, <2>2
<1> HIDE DEF i
<1>4. /\ t \in Seq(S)
      /\ Range(t) = Range(s) \union {v}
  BY <1>2, InsertAtProperties
<1>5. /\ DOMAIN t = 1..(n + 1)
      /\ \A k \in 1..i : t[k] = s[k]
      /\ \A k \in (i + 1)..n : t[k + 1] = s[k]
  BY <1>1, <1>2 DEF insertAt
<1> HIDE DEF t
<1>6. Len(t) = n + 1
  <2>1. Len(t) \in Nat /\ DOMAIN t = 1..Len(t)
    BY <1>4, LenProperties
  <2>2. QED  BY <1>1, <1>5, <2>1
<1>7. \A k \in DOMAIN s :
        IF position = Null \/ k <= position THEN t[k] = s[k] ELSE t[k + 1] = s[k]
  BY <1>1, <1>2, <1>3, <1>5
<1>8. v \in Range(t)
  BY <1>4
<1>9. Placed(s, t, v, position)
  BY <1>6, <1>7, <1>8 DEF Placed
<1>10. QED  BY <1>9 DEF t, i

\* What a write does to a task whose child list alone it changes.
SameButKids(old, new) ==
    /\ new \in Task
    /\ new.content.status = old.content.status
    /\ new.meta.version = old.meta.version + 1
    /\ new.meta.created = old.meta.created
    /\ new.meta.completed = old.meta.completed
    /\ IsInjective(new.content.kids)

-----------------------------------------------------------------------------
(***************************************************************************)
(* The candidate of Add.                                                   *)
(***************************************************************************)
\* Replacing the child list of a task and touching its meta.
LEMMA NewKids ==
    ASSUME NEW t \in Task, NEW kids \in Seq(Id), NEW now \in Time, NEW new,
           new = [content |-> [t.content EXCEPT !.kids = kids], meta |-> Touch(t.meta, now)]
    PROVE  /\ new \in Task
           /\ new.content.kids = kids
           /\ new.content.status = t.content.status
           /\ new.meta.version = t.meta.version + 1
           /\ new.meta.created = t.meta.created
           /\ new.meta.completed = t.meta.completed
<1> DEFINE content == [t.content EXCEPT !.kids = kids]
           meta == Touch(t.meta, now)
<1>1. t.content \in Content /\ t.meta \in Meta
  BY DEF Task
<1>2. content \in Content /\ content.kids = kids /\ content.status = t.content.status
  BY <1>1 DEF Content
<1>3. /\ meta \in Meta
      /\ meta.version = t.meta.version + 1
      /\ meta.created = t.meta.created
      /\ meta.completed = t.meta.completed
  BY <1>1, TouchType
<1> HIDE DEF content, meta
<1>4. new.content = content /\ new.meta = meta /\ new \in Task
  BY <1>2, <1>3 DEF Task, content, meta
<1>5. QED  BY <1>2, <1>3, <1>4

\* A task that gains a child keeps everything else and moves on by a version.
LEMMA AdoptChildType ==
    ASSUME NEW t \in Task, NEW id \in Id, NEW position \in Int \union {Null}, NEW now \in Time
    PROVE  LET new == AdoptChild(t, id, position, now)
           IN  /\ new \in Task
               /\ new.content.kids =
                    insertAt(t.content.kids, InsertPosition(position, Len(t.content.kids)), id)
               /\ new.content.status = t.content.status
               /\ new.meta.version = t.meta.version + 1
               /\ new.meta.created = t.meta.created
               /\ new.meta.completed = t.meta.completed
<1> DEFINE old == t.content.kids
           i == InsertPosition(position, Len(old))
           kids == insertAt(old, i, id)
<1>1. old \in Seq(Id)
  BY DEF Task, Content
<1>2. i \in 0..Len(old)
  BY <1>1, LenProperties, InsertPositionRange
<1>3. kids \in Seq(Id)
  <2> HIDE DEF i
  <2>1. QED  BY <1>1, <1>2, InsertAtProperties
<1>4. AdoptChild(t, id, position, now)
        = [content |-> [t.content EXCEPT !.kids = kids], meta |-> Touch(t.meta, now)]
  BY DEF AdoptChild
<1> HIDE DEF kids
<1>5. QED  BY <1>3, <1>4, NewKids DEF kids

\* The children of every task after insertAt put one more under its parent.
LEMMA AdoptChildIds ==
    ASSUME NEW t \in Task, NEW id \in Id, NEW position \in Int \union {Null}, NEW now \in Time,
           IsInjective(t.content.kids), id \notin Range(t.content.kids)
    PROVE  LET new == AdoptChild(t, id, position, now)
           IN  /\ IsInjective(new.content.kids)
               /\ Range(new.content.kids) = Range(t.content.kids) \union {id}
<1> DEFINE old == t.content.kids
           i == InsertPosition(position, Len(old))
<1>1. old \in Seq(Id)
  BY DEF Task, Content
<1>2. i \in 0..Len(old)
  BY <1>1, LenProperties, InsertPositionRange
<1>3. AdoptChild(t, id, position, now).content.kids = insertAt(old, i, id)
  BY AdoptChildType
<1> HIDE DEF i
<1>4. IsInjective(insertAt(old, i, id)) /\ Range(insertAt(old, i, id)) = Range(old) \union {id}
  BY <1>1, <1>2, InsertAtProperties
<1>5. QED  BY <1>3, <1>4

LEMMA AdoptChildSame ==
    ASSUME NEW t \in Task, NEW id \in Id, NEW position \in Int \union {Null}, NEW now \in Time,
           IsInjective(t.content.kids), id \notin Range(t.content.kids)
    PROVE  SameButKids(t, AdoptChild(t, id, position, now))
<1> DEFINE new == AdoptChild(t, id, position, now)
<1>1. /\ new \in Task
      /\ new.content.status = t.content.status
      /\ new.meta.version = t.meta.version + 1
      /\ new.meta.created = t.meta.created
      /\ new.meta.completed = t.meta.completed
  BY AdoptChildType
<1>2. IsInjective(new.content.kids)
  BY AdoptChildIds
<1> HIDE DEF new
<1>3. SameButKids(t, new)
  BY <1>1, <1>2 DEF SameButKids
<1>4. QED  BY <1>3 DEF new

\* A task that loses a child likewise.
LEMMA DisownChildType ==
    ASSUME NEW t \in Task, NEW id, NEW now \in Time, IsInjective(t.content.kids)
    PROVE  LET new == DisownChild(t, id, now)
           IN  /\ new \in Task
               /\ new.content.kids = removeString(t.content.kids, id)
               /\ new.content.status = t.content.status
               /\ new.meta.version = t.meta.version + 1
               /\ new.meta.created = t.meta.created
               /\ new.meta.completed = t.meta.completed
<1> DEFINE kids == removeString(t.content.kids, id)
<1>1. t.content.kids \in Seq(Id)
  BY DEF Task, Content
<1>2. kids \in Seq(Id)
  BY <1>1, RemoveStringProperties
<1>3. DisownChild(t, id, now)
        = [content |-> [t.content EXCEPT !.kids = kids], meta |-> Touch(t.meta, now)]
  BY DEF DisownChild
<1> HIDE DEF kids
<1>4. QED  BY <1>2, <1>3, NewKids DEF kids

\* The children of every task after removeString took one out of its parent.
LEMMA DisownChildIds ==
    ASSUME NEW t \in Task, NEW id, NEW now \in Time, IsInjective(t.content.kids)
    PROVE  LET new == DisownChild(t, id, now)
           IN  /\ IsInjective(new.content.kids)
               /\ Range(new.content.kids) = Range(t.content.kids) \ {id}
<1>1. t.content.kids \in Seq(Id)
  BY DEF Task, Content
<1>2. DisownChild(t, id, now).content.kids = removeString(t.content.kids, id)
  BY DisownChildType
<1>3. QED  BY <1>1, <1>2, RemoveStringProperties

\* A task Add makes is at version 1, has no children, and is complete exactly
\* when it is born with a terminal status.
LEMMA NewTaskProperties ==
    ASSUME NEW content \in Content, NEW now \in Time
    PROVE  LET new == NewTask(content, now)
           IN  /\ new \in Task
               /\ new.content.status = content.status
               /\ new.content.kids = <<>>
               /\ new.meta.version = 1
               /\ Stamped(new)
<1> DEFINE m == [created |-> now, updated |-> now, completed |-> Null, version |-> 1]
           m2 == applyCompletion(m, Open, content.status, now)
           c == [content EXCEPT !.kids = <<>>]
<1>1. m \in Meta /\ m.version = 1 /\ m.completed = Null
  BY DEF Meta
<1>2. m2 \in Meta /\ m2.version = m.version
  <2> HIDE DEF m
  <2>1. QED  BY <1>1, CompletionType
<1>3. m2.completed # Null <=> content.status \in Terminal
  <2> HIDE DEF m
  <2>1. CASE content.status \in Terminal
    <3>1. m2 = [m EXCEPT !.completed = now]
      BY <2>1, ValueAssumption DEF applyCompletion
    <3> HIDE DEF m2
    <3>2. m2.completed = now
      BY <1>1, <3>1 DEF Meta
    <3>3. QED  BY <2>1, <3>2, ValueAssumption
  <2>2. CASE content.status \notin Terminal
    <3>1. m2 = m
      BY <2>2, ValueAssumption DEF applyCompletion
    <3>2. QED  BY <1>1, <2>2, <3>1
  <2>3. QED  BY <2>1, <2>2
<1>4. NewTask(content, now) = [content |-> c, meta |-> m2]
  BY DEF NewTask
<1>5. c \in Content /\ c.kids = <<>> /\ c.status = content.status
  <2>1. <<>> \in Seq(Id)
    BY EmptySeq
  <2>2. QED  BY <2>1 DEF Content
<1> HIDE DEF c, m2, m
<1>6. QED  BY <1>1, <1>2, <1>3, <1>4, <1>5 DEF Task, Stamped

\* The map c is tasks with the leaf id added to the children of p.
AddOutcome(tasks, id, p, c) ==
    /\ IsTaskMap(c)
    /\ DOMAIN c = DOMAIN tasks \union {id}
    /\ c[id].content.kids = <<>> /\ c[id].meta.version = 1 /\ Stamped(c[id])
    /\ \A q \in DOMAIN tasks \ {p} : c[q] = tasks[q]
    /\ p \in DOMAIN tasks =>
         /\ SameButKids(tasks[p], c[p])
         /\ ChildIds(c, p) = ChildIds(tasks, p) \union {id}

\* What Add changes: the new task, and the child list of its container.
LEMMA AddEffect ==
    ASSUME NEW tasks, IsTaskMap(tasks), NoDuplicateInList(tasks), NoDanglingChild(tasks),
           NEW id \in Id \ DOMAIN tasks, NEW req \in AddRequest,
           validateContent(req.content), NEW now \in Time
    PROVE  AddOutcome(tasks, id, req.parent, AddCandidate(tasks, id, req, now))
<1> DEFINE c == AddCandidate(tasks, id, req, now)
<1>1. DOMAIN c = DOMAIN tasks \union {id}
      /\ c[id] = NewTask(req.content, now)
      /\ \A p \in DOMAIN tasks \ {req.parent} : c[p] = tasks[p]
  BY DEF AddCandidate
<1>2. req.content \in Content /\ req.position \in Int \union {Null}
  BY ValidContent DEF AddRequest
<1>3. /\ c[id] \in Task
      /\ c[id].content.kids = <<>> /\ c[id].meta.version = 1 /\ Stamped(c[id])
  <2> HIDE DEF c
  <2>1. QED  BY <1>1, <1>2, NewTaskProperties
<1>4. ASSUME req.parent \in DOMAIN tasks
      PROVE  /\ SameButKids(tasks[req.parent], c[req.parent])
             /\ ChildIds(c, req.parent) = ChildIds(tasks, req.parent) \union {id}
  <2> DEFINE t == tasks[req.parent]
             at == req.position
             new == AdoptChild(t, id, at, now)
  <2>1. c[req.parent] = new
    BY <1>4 DEF AddCandidate
  <2>2. t \in Task /\ id \in Id /\ at \in Int \union {Null} /\ now \in Time
    BY <1>2, <1>4, TaskType
  <2>3. IsInjective(t.content.kids) /\ id \notin Range(t.content.kids)
    BY <1>4 DEF NoDuplicateInList, NoDanglingChild, ChildIds
  <2> HIDE DEF c, t, at
  <2>4. IsInjective(new.content.kids)
        /\ Range(new.content.kids) = Range(t.content.kids) \union {id}
    BY <2>2, <2>3, AdoptChildIds
  <2>5. SameButKids(t, new)
    BY <2>2, <2>3, AdoptChildSame
  <2> HIDE DEF new
  <2>6. QED  BY <2>1, <2>4, <2>5 DEF ChildIds, t
<1>5. IsTaskMap(c)
  <2>1. \A p \in DOMAIN c : c[p] \in Task
    BY <1>1, <1>3, <1>4, TaskType DEF SameButKids
  <2>2. DOMAIN c \subseteq Id
    BY <1>1 DEF IsTaskMap
  <2>3. c = [p \in DOMAIN c |-> c[p]]
    BY DEF AddCandidate
  <2> HIDE DEF c
  <2>4. QED  BY <2>1, <2>2, <2>3 DEF IsTaskMap
<1> HIDE DEF c
<1>6. AddOutcome(tasks, id, req.parent, c)
  BY <1>1, <1>3, <1>4, <1>5 DEF AddOutcome
<1>7. QED  BY <1>6 DEF c

\* Adding a leaf to a forest, as a root or under any task and at any int as a
\* position, leaves a forest: the 422 of validateState is out of reach of Add.
THEOREM AddKeepsForest ==
    ASSUME NEW tasks, IsTaskMap(tasks), IsForest(tasks),
           NEW id \in Id \ DOMAIN tasks, NEW req \in AddRequest,
           validateContent(req.content), NEW now \in Time
    PROVE  IsForest(AddCandidate(tasks, id, req, now))
<1> DEFINE c == AddCandidate(tasks, id, req, now)
<1>1. \A p \in DOMAIN tasks : IsInjective(tasks[p].content.kids)
                              /\ ChildIds(tasks, p) \subseteq DOMAIN tasks
                              /\ id \notin ChildIds(tasks, p)
  BY DEF IsForest, NoDuplicateInList, NoDanglingChild
<1>2. /\ DOMAIN c = DOMAIN tasks \union {id}
      /\ c[id].content.kids = <<>>
      /\ \A p \in DOMAIN tasks \ {req.parent} : c[p] = tasks[p]
      /\ req.parent \in DOMAIN tasks =>
            /\ IsInjective(c[req.parent].content.kids)
            /\ ChildIds(c, req.parent) = ChildIds(tasks, req.parent) \union {id}
  <2>1. NoDuplicateInList(tasks) /\ NoDanglingChild(tasks)
    BY DEF IsForest
  <2>2. AddOutcome(tasks, id, req.parent, c)
    BY <2>1, AddEffect
  <2> HIDE DEF c
  <2>3. QED  BY <2>2 DEF AddOutcome, SameButKids
<1> HIDE DEF c
<1>3. ChildIds(c, id) = {}
  BY <1>2 DEF ChildIds, Range
<1>4. \A p \in DOMAIN tasks :
        ChildIds(c, p) = IF p = req.parent THEN ChildIds(tasks, p) \union {id}
                                           ELSE ChildIds(tasks, p)
  BY <1>2 DEF ChildIds
<1>5. NoDuplicateInList(c)
  <2>1. IsInjective(c[id].content.kids)
    BY <1>2 DEF IsInjective
  <2>2. QED  BY <1>1, <1>2, <2>1 DEF NoDuplicateInList
<1>6. NoDanglingChild(c)
  BY <1>1, <1>2, <1>3, <1>4 DEF NoDanglingChild
<1>7. SingleContainer(c)
  <2>1. SingleContainer(tasks)
    BY DEF IsForest
  <2>2. QED  BY <1>1, <1>2, <1>3, <1>4, <2>1 DEF SingleContainer
<1>8. NoCycle(c)
  <2>1. SUFFICES ASSUME NEW S \in SUBSET DOMAIN c,
                        \A x \in S : \E p \in S : x \in ChildIds(c, p)
                 PROVE  S = {}
    BY DEF NoCycle
  <2>2. \A x \in S \ {id} : \E p \in S \ {id} : x \in ChildIds(tasks, p)
    BY <1>2, <1>3, <1>4, <2>1
  <2>3. S \ {id} = {}
    <3>1. S \ {id} \in SUBSET DOMAIN tasks
      BY <1>2
    <3>2. NoCycle(tasks)
      BY DEF IsForest
    <3>3. QED  BY <2>2, <3>1, <3>2 DEF NoCycle
  <2>4. QED  BY <1>3, <2>1, <2>3
<1>9. QED  BY <1>5, <1>6, <1>7, <1>8 DEF IsForest, c

-----------------------------------------------------------------------------
(***************************************************************************)
(* The candidate of Delete, and the index it relies on.                    *)
(***************************************************************************)
\* The index is the inverse of the child lists.
LEMMA RebuildIndexInverse ==
    ASSUME NEW tasks, IsTaskMap(tasks)
    PROVE  /\ IsInverse(rebuildIndex(tasks), tasks)
           /\ DOMAIN rebuildIndex(tasks) \subseteq Id
           /\ rebuildIndex(tasks) \in [DOMAIN rebuildIndex(tasks) -> Id]
<1> DEFINE kids == UNION {ChildIds(tasks, p) : p \in DOMAIN tasks}
           idx == rebuildIndex(tasks)
<1>1. DOMAIN idx = kids
  BY DEF rebuildIndex
<1>2. ASSUME NEW c \in kids
      PROVE  idx[c] \in DOMAIN tasks /\ c \in ChildIds(tasks, idx[c])
  <2>1. \E p \in DOMAIN tasks : c \in ChildIds(tasks, p)
    OBVIOUS
  <2>2. idx[c] = CHOOSE p \in DOMAIN tasks : c \in ChildIds(tasks, p)
    BY DEF rebuildIndex
  <2>3. QED  BY <2>1, <2>2
<1>3. kids \subseteq Id
  <2>1. ASSUME NEW p \in DOMAIN tasks
        PROVE  ChildIds(tasks, p) \subseteq Id
    <3>1. tasks[p].content.kids \in Seq(Id)
      BY TaskType
    <3>2. QED  BY <3>1, RangeOfSeq DEF ChildIds
  <2>2. QED  BY <2>1
<1>4. idx \in [kids -> Id]
  <2>1. \A c \in kids : idx[c] \in Id
    BY <1>2 DEF IsTaskMap
  <2>2. idx = [c \in kids |-> idx[c]]
    BY DEF rebuildIndex
  <2> HIDE DEF idx, kids
  <2>3. QED  BY <2>1, <2>2
<1>5. QED  BY <1>1, <1>2, <1>3, <1>4 DEF IsInverse

\* The map c is tasks without id, in its domain and in its child lists.
DeleteOutcome(tasks, id, c) ==
    /\ IsTaskMap(c)
    /\ DOMAIN c = DOMAIN tasks \ {id}
    /\ \A p \in DOMAIN c :
         \/ c[p] = tasks[p] /\ id \notin ChildIds(tasks, p)
         \/ SameButKids(tasks[p], c[p])
    /\ \A p \in DOMAIN c : ChildIds(c, p) = ChildIds(tasks, p) \ {id}

\* What Delete changes: the task is gone, and so is its place in the child list
\* of the container the index names.
LEMMA DeleteEffect ==
    ASSUME NEW tasks, IsTaskMap(tasks), NoDuplicateInList(tasks), SingleContainer(tasks),
           NEW index, IsInverse(index, tasks), NEW id \in DOMAIN tasks, NEW now \in Time
    PROVE  DeleteOutcome(tasks, id, DeleteCandidate(tasks, index, id, now))
<1> DEFINE c == DeleteCandidate(tasks, index, id, now)
<1>1. DOMAIN c = DOMAIN tasks \ {id}
  BY DEF DeleteCandidate
<1>2. ASSUME NEW p \in DOMAIN tasks \ {id}
      PROVE  /\ c[p] \in Task
             /\ \/ c[p] = tasks[p] /\ id \notin ChildIds(tasks, p)
                \/ SameButKids(tasks[p], c[p])
             /\ ChildIds(c, p) = ChildIds(tasks, p) \ {id}
  <2> DEFINE t == tasks[p]
             new == DisownChild(t, id, now)
  <2>1. t \in Task /\ IsInjective(t.content.kids)
    BY TaskType DEF NoDuplicateInList
  <2>2. CASE id \in DOMAIN index /\ index[id] = p
    <3>1. c[p] = new
      BY <2>2 DEF DeleteCandidate
    <3> HIDE DEF t
    <3>2. IsInjective(new.content.kids)
          /\ Range(new.content.kids) = Range(t.content.kids) \ {id}
      BY <2>1, DisownChildIds
    <3>3. SameButKids(t, new)
      BY <2>1, <3>2, DisownChildType DEF SameButKids
    <3> HIDE DEF c, new
    <3>4. QED  BY <3>1, <3>2, <3>3 DEF ChildIds, SameButKids, t
  <2>3. CASE ~(id \in DOMAIN index /\ index[id] = p)
    <3>1. c[p] = tasks[p]
      BY <2>3 DEF DeleteCandidate
    <3>2. id \notin ChildIds(tasks, p)
      <4>1. SUFFICES ASSUME id \in ChildIds(tasks, p)
                     PROVE  FALSE
        OBVIOUS
      <4>2. id \in DOMAIN index
        BY <4>1 DEF IsInverse
      <4>3. index[id] \in DOMAIN tasks /\ id \in ChildIds(tasks, index[id])
        BY <4>2 DEF IsInverse
      <4>4. index[id] = p
        BY <4>1, <4>3 DEF SingleContainer
      <4>5. QED  BY <2>3, <4>2, <4>4
    <3>3. ChildIds(c, p) = ChildIds(tasks, p)
      BY <3>1 DEF ChildIds
    <3>4. QED  BY <2>1, <3>1, <3>2, <3>3
  <2>4. QED  BY <2>2, <2>3
<1>3. IsTaskMap(c)
  <2>1. c = [p \in DOMAIN c |-> c[p]]
    BY DEF DeleteCandidate
  <2>2. DOMAIN c \subseteq Id
    BY <1>1 DEF IsTaskMap
  <2> HIDE DEF c
  <2>3. QED  BY <1>1, <1>2, <2>1, <2>2 DEF IsTaskMap
<1> HIDE DEF c
<1>4. DeleteOutcome(tasks, id, c)
  BY <1>1, <1>2, <1>3 DEF DeleteOutcome
<1>5. QED  BY <1>4 DEF c

\* Deleting a task leaves a forest (its children become roots), provided the
\* index is the inverse of the child lists: the 422 of validateState is out of
\* reach of Delete.
THEOREM DeleteKeepsForest ==
    ASSUME NEW tasks, IsTaskMap(tasks), IsForest(tasks),
           NEW index, IsInverse(index, tasks), NEW id \in DOMAIN tasks, NEW now \in Time
    PROVE  IsForest(DeleteCandidate(tasks, index, id, now))
<1> DEFINE c == DeleteCandidate(tasks, index, id, now)
<1>1. /\ DOMAIN c = DOMAIN tasks \ {id}
      /\ \A p \in DOMAIN c : c[p] = tasks[p] \/ SameButKids(tasks[p], c[p])
      /\ \A p \in DOMAIN c : ChildIds(c, p) = ChildIds(tasks, p) \ {id}
  <2>1. NoDuplicateInList(tasks) /\ SingleContainer(tasks)
    BY DEF IsForest
  <2>2. DeleteOutcome(tasks, id, c)
    BY <2>1, DeleteEffect
  <2> HIDE DEF c
  <2>3. QED  BY <2>2 DEF DeleteOutcome
<1> HIDE DEF c
<1>2. NoDuplicateInList(c)
  BY <1>1 DEF IsForest, NoDuplicateInList, SameButKids
<1>3. NoDanglingChild(c)
  BY <1>1 DEF IsForest, NoDanglingChild
<1>4. SingleContainer(c)
  <2>1. SingleContainer(tasks)
    BY DEF IsForest
  <2>2. QED  BY <1>1, <2>1 DEF SingleContainer
<1>5. NoCycle(c)
  <2>1. SUFFICES ASSUME NEW S \in SUBSET DOMAIN c,
                        \A x \in S : \E p \in S : x \in ChildIds(c, p)
                 PROVE  S = {}
    BY DEF NoCycle
  <2>2. S \in SUBSET DOMAIN tasks /\ \A x \in S : \E p \in S : x \in ChildIds(tasks, p)
    BY <1>1, <2>1
  <2>3. QED  BY <2>2 DEF IsForest, NoCycle
<1>6. QED  BY <1>2, <1>3, <1>4, <1>5 DEF IsForest, c
-----------------------------------------------------------------------------
(***************************************************************************)
(* The candidate of Update.                                                *)
(***************************************************************************)
\* What a write does to a task whose content it replaces.
Rewritten(old, new) ==
    /\ new \in Task
    /\ new.meta.version = old.meta.version + 1
    /\ new.meta.created = old.meta.created
    /\ (old.content.status \in Terminal) = (new.content.status \in Terminal)
         => new.meta.completed = old.meta.completed
    /\ Stamped(old) => Stamped(new)

\* applyCompletion keeps completed_at set exactly on the tasks that are over.
LEMMA CompletionStamp ==
    ASSUME NEW meta \in Meta, NEW old, NEW next, NEW now \in Time,
           meta.completed # Null <=> old \in Terminal
    PROVE  applyCompletion(meta, old, next, now).completed # Null <=> next \in Terminal
<1> DEFINE m == applyCompletion(meta, old, next, now)
<1>1. CASE old \notin Terminal /\ next \in Terminal
  <2>1. m = [meta EXCEPT !.completed = now]
    BY <1>1 DEF applyCompletion
  <2>2. m.completed = now
    BY <2>1 DEF Meta
  <2>3. QED  BY <1>1, <2>2, ValueAssumption
<1>2. CASE old \in Terminal /\ next \notin Terminal
  <2>1. m = [meta EXCEPT !.completed = Null]
    BY <1>2 DEF applyCompletion
  <2>2. m.completed = Null
    BY <2>1 DEF Meta
  <2>3. QED  BY <1>2, <2>2
<1>3. CASE (old \in Terminal) = (next \in Terminal)
  <2>1. m = meta
    BY <1>3 DEF applyCompletion
  <2>2. QED  BY <1>3, <2>1
<1>4. QED  BY <1>1, <1>2, <1>3

\* What an accepted batch does to each task: the ones it names carry the content
\* asked for and one more version, the others are as they were.
LEMMA RewriteEffect ==
    ASSUME NEW t \in Task, NEW content \in Content, NEW now \in Time
    PROVE  Rewritten(t, Rewrite(t, content, now))
<1> DEFINE m == applyCompletion(t.meta, t.content.status, content.status, now)
           new == Rewrite(t, content, now)
<1>1. t.meta \in Meta
  BY DEF Task
<1>2. /\ m \in Meta
      /\ m.created = t.meta.created
      /\ m.version = t.meta.version
      /\ (t.content.status \in Terminal) = (content.status \in Terminal)
           => m.completed = t.meta.completed
  BY <1>1, CompletionType
<1>3. Stamped(t) => (m.completed # Null <=> content.status \in Terminal)
  BY <1>1, CompletionStamp DEF Stamped
<1> HIDE DEF m
<1>4. /\ Touch(m, now) \in Meta
      /\ Touch(m, now).version = m.version + 1
      /\ Touch(m, now).created = m.created
      /\ Touch(m, now).completed = m.completed
  BY <1>2, TouchType
<1>5. new = [content |-> content, meta |-> Touch(m, now)]
  BY DEF Rewrite, m
<1>6. new.content = content /\ new.meta = Touch(m, now)
  BY <1>5
<1>7. new \in Task
  BY <1>4, <1>5 DEF Task
<1> HIDE DEF new
<1>8. Rewritten(t, new)
  BY <1>2, <1>3, <1>4, <1>6, <1>7 DEF Rewritten, Stamped
<1>9. QED  BY <1>8 DEF new

\* The map c is tasks with the tasks ids rewritten.
UpdateOutcome(tasks, ids, c) ==
    /\ IsTaskMap(c)
    /\ DOMAIN c = DOMAIN tasks
    /\ \A i \in DOMAIN tasks :
         IF i \in ids THEN Rewritten(tasks[i], c[i]) ELSE c[i] = tasks[i]

\* What Update changes: the tasks its operations name, each by one version,
\* whatever children the new contents list.
LEMMA UpdateEffect ==
    ASSUME NEW tasks, IsTaskMap(tasks), NEW ops \in Seq(UpdateOp),
           \A k \in DOMAIN ops : validateContent(ops[k].content), NEW now \in Time
    PROVE  UpdateOutcome(tasks, {ops[k].id : k \in DOMAIN ops}, UpdateCandidate(tasks, ops, now))
<1> DEFINE c == UpdateCandidate(tasks, ops, now)
           ids == {ops[k].id : k \in DOMAIN ops}
<1>1. DOMAIN c = DOMAIN tasks /\ c = [i \in DOMAIN c |-> c[i]]
  BY DEF UpdateCandidate
<1>2. \A k \in DOMAIN ops : ops[k].content \in Content
  <2>1. \A k \in DOMAIN ops : ops[k] \in UpdateOp
    BY ElementOfSeq, LenProperties
  <2>2. QED  BY <2>1, ValidContent DEF UpdateOp
<1>3. ASSUME NEW i \in DOMAIN tasks
      PROVE  /\ i \in ids => Rewritten(tasks[i], c[i])
             /\ i \notin ids => c[i] = tasks[i]
             /\ c[i] \in Task
  <2>1. tasks[i] \in Task
    BY TaskType
  <2>2. CASE i \in ids
    <3> DEFINE k == CHOOSE k \in DOMAIN ops : ops[k].id = i
    <3>1. k \in DOMAIN ops
      BY <2>2
    <3>2. c[i] = Rewrite(tasks[i], ops[k].content, now)
      BY <2>2 DEF UpdateCandidate
    <3> HIDE DEF k, c
    <3>3. Rewritten(tasks[i], Rewrite(tasks[i], ops[k].content, now))
      BY <1>2, <2>1, <3>1, RewriteEffect
    <3>4. QED  BY <2>2, <3>2, <3>3 DEF Rewritten
  <2>3. CASE i \notin ids
    <3>1. c[i] = tasks[i]
      BY <2>3 DEF UpdateCandidate
    <3>2. QED  BY <2>1, <2>3, <3>1
  <2>4. QED  BY <2>2, <2>3
<1> HIDE DEF c, ids
<1>4. IsTaskMap(c)
  <2>1. DOMAIN c \subseteq Id
    BY <1>1 DEF IsTaskMap
  <2>2. QED  BY <1>1, <1>3, <2>1 DEF IsTaskMap
<1>5. UpdateOutcome(tasks, ids, c)
  BY <1>1, <1>3, <1>4 DEF UpdateOutcome
<1>6. QED  BY <1>5 DEF c, ids

-----------------------------------------------------------------------------
(***************************************************************************)
(* The inductive invariant.                                                *)
(***************************************************************************)
\* The file: what a client was told of is on it, the ids on it are used, and it
\* loads unless it never did.
FileOK ==
    /\ ~exists => disk = EmptyState
    /\ acked <= disk.sv
    /\ DOMAIN disk.tasks \subseteq used
    /\ RestartSafe

\* Memory: a forest with its index, in a format a restart accepts.
MemoryOK ==
    up => /\ mem.fmt \in 1..CurrentFmt
          /\ IsForest(mem.tasks)
          /\ IsInverse(parent, mem.tasks)

\* The lock is held exactly from the validation of a candidate to its commit.
LockOK ==
    /\ lock # Null => up /\ pc[lock] \in {"saving", "renamed"}
    /\ \A h \in Handler : pc[h] \in {"saving", "renamed"} => lock = h
    /\ ~up => \A h \in Handler : pc[h] = "idle"

\* The candidate is the successor of memory, and what its handler will report.
CandidateOK ==
    lock # Null =>
        /\ cand.fmt = mem.fmt
        /\ cand.sv = mem.sv + 1
        /\ IsForest(cand.tasks)
        /\ (DOMAIN cand.tasks \ DOMAIN mem.tasks) \intersect used = {} \/ pc[lock] = "renamed"
        /\ reply[lock].code = "ok"
        /\ reply[lock].sv = cand.sv
        /\ reply[lock].op \in {"add", "update", "delete"}
        /\ VF!Mutation(reply[lock].op, reply[lock].ids, mem.tasks, cand.tasks)

\* Answers: complete, about what is on disk, and 0 for what was refused.
RepliesOK ==
    \A h \in Handler :
        /\ pc[h] # "idle" => reply[h] \in Replies
        /\ pc[h] = "replying" =>
             /\ reply[h].sv <= disk.sv
             /\ reply[h].code # "ok" => reply[h].sv = 0

IInv ==
    /\ TypeOK
    /\ NoDivergence
    /\ FileOK
    /\ MemoryOK
    /\ LockOK
    /\ CandidateOK
    /\ RepliesOK
    /\ OnlyUpdateBreaksForest

-----------------------------------------------------------------------------
(***************************************************************************)
(* Each mutation of the code is one the promise allows.                    *)
(***************************************************************************)
\* NewStore's empty state is a forest and its index is empty.
LEMMA EmptyForest ==
    /\ IsState(EmptyState)
    /\ IsForest(NoTasks)
    /\ DOMAIN NoTasks = {}
    /\ NoTasks \in [{} -> Id]
<1>1. DOMAIN NoTasks = {} /\ NoTasks \in [{} -> Id] /\ NoTasks \in [{} -> Task]
  BY DEF NoTasks
<1>2. IsForest(NoTasks)
  BY <1>1 DEF IsForest, NoDuplicateInList, NoDanglingChild, SingleContainer, NoCycle
<1>3. IsState(EmptyState)
  BY <1>1, StoreAssumption DEF IsState, EmptyState, IsTaskMap
<1>4. QED  BY <1>1, <1>2, <1>3

\* The promise speaks of the same forests.
LEMMA SameForest ==
    ASSUME NEW tasks
    PROVE  /\ VF!IsForest(tasks) <=> IsForest(tasks)
           /\ VF!IsTaskMap(tasks) <=> IsTaskMap(tasks)
           /\ \A p : VF!ChildIds(tasks, p) = ChildIds(tasks, p)
<1>1. \A p : VF!ChildIds(tasks, p) = ChildIds(tasks, p)
  BY DEF VF!ChildIds, ChildIds, VF!Range, Range
<1>2. VF!NoCycle(tasks) <=> NoCycle(tasks)
  BY <1>1 DEF VF!NoCycle, NoCycle
<1>3. VF!IsForest(tasks) <=> IsForest(tasks)
  BY <1>1, <1>2 DEF VF!IsForest, IsForest, VF!NoDuplicateInList, NoDuplicateInList,
         VF!IsInjective, IsInjective,
         VF!NoDanglingChild, NoDanglingChild, VF!SingleContainer, SingleContainer
<1>4. VF!IsTaskMap(tasks) <=> IsTaskMap(tasks)
  BY DEF VF!IsTaskMap, IsTaskMap, VF!Task, Task, VF!Content, Content, VF!Meta, Meta
<1>5. QED  BY <1>1, <1>3, <1>4

\* Add changes one task at most, its container, which gains the new child.
LEMMA AddIsMutation ==
    ASSUME NEW tasks, IsTaskMap(tasks), NEW id \in Id \ DOMAIN tasks, NEW p, NEW c,
           AddOutcome(tasks, id, p, c), IsForest(c)
    PROVE  VF!Mutation("add", {id}, tasks, c)
<1>1. ASSUME NEW i \in DOMAIN tasks
      PROVE  \/ c[i] = tasks[i]
             \/ /\ SameButKids(tasks[i], c[i])
                /\ ChildIds(c, i) = ChildIds(tasks, i) \union {id}
  BY <1>1 DEF AddOutcome
<1>2. \A i \in DOMAIN tasks \intersect DOMAIN c : VF!Advances(tasks[i], c[i])
  BY <1>1 DEF VF!Advances, SameButKids
<1>3. \A i \in DOMAIN c \ DOMAIN tasks : VF!Fresh(c[i])
  BY DEF AddOutcome, VF!Fresh
<1>4. DOMAIN c = DOMAIN tasks \union {id}
  BY DEF AddOutcome
<1>5. \A i \in VF!Changed(tasks, c) : ChildIds(c, i) = ChildIds(tasks, i) \union {id}
  BY <1>1 DEF VF!Changed
<1>6. QED  BY <1>2, <1>3, <1>4, <1>5, SameForest DEF VF!Mutation

\* Delete changes one task at most, the container, which loses the child.
LEMMA DeleteIsMutation ==
    ASSUME NEW tasks, IsTaskMap(tasks), NEW id \in DOMAIN tasks, NEW c,
           DeleteOutcome(tasks, id, c), IsForest(c)
    PROVE  VF!Mutation("delete", {id}, tasks, c)
<1>1. DOMAIN c = DOMAIN tasks \ {id}
  BY DEF DeleteOutcome
<1>2. \A i \in DOMAIN tasks \intersect DOMAIN c : VF!Advances(tasks[i], c[i])
  BY <1>1 DEF DeleteOutcome, VF!Advances, SameButKids
<1>3. \A i \in VF!Changed(tasks, c) : ChildIds(c, i) = ChildIds(tasks, i) \ {id}
  BY <1>1 DEF DeleteOutcome, VF!Changed
<1>4. QED  BY <1>1, <1>2, <1>3, SameForest DEF VF!Mutation

\* Update changes exactly the tasks its operations name.
LEMMA UpdateIsMutation ==
    ASSUME NEW tasks, IsTaskMap(tasks), NEW ids \in SUBSET DOMAIN tasks, NEW c,
           UpdateOutcome(tasks, ids, c), IsForest(c)
    PROVE  VF!Mutation("update", ids, tasks, c)
<1>1. DOMAIN c = DOMAIN tasks
  BY DEF UpdateOutcome
<1>2. ASSUME NEW i \in DOMAIN tasks
      PROVE  /\ VF!Advances(tasks[i], c[i])
             /\ i \in ids <=> c[i] # tasks[i]
  <2>1. tasks[i].meta.version \in Nat
    BY TaskType
  <2>2. CASE i \in ids
    <3>1. Rewritten(tasks[i], c[i])
      BY <2>2 DEF UpdateOutcome
    <3>2. c[i].meta.version # tasks[i].meta.version
      BY <2>1, <3>1 DEF Rewritten
    <3>3. QED  BY <2>2, <3>1, <3>2 DEF Rewritten, VF!Advances
  <2>3. CASE i \notin ids
    BY <2>3 DEF UpdateOutcome, VF!Advances
  <2>4. QED  BY <2>2, <2>3
<1>3. VF!Changed(tasks, c) = ids
  BY <1>1, <1>2 DEF VF!Changed
<1>4. QED  BY <1>1, <1>2, <1>3, SameForest DEF VF!Mutation

-----------------------------------------------------------------------------
(***************************************************************************)
(* IInv holds at the start, and every step keeps it.                       *)
(***************************************************************************)
\* What the file holds is checked only when it is loaded: the first start may
\* find any state.
LEMMA InitInv == Init => IInv
<1> SUFFICES ASSUME Init
             PROVE  IInv
  OBVIOUS
<1>1. IsState(disk) /\ IsState(mem) /\ IsState(cand)
  BY EmptyForest, StoreAssumption DEF Init
<1>2. TypeOK
  BY <1>1, EmptyForest DEF TypeOK, Init, IsState, IsTaskMap
<1>3. NoDivergence /\ MemoryOK /\ LockOK /\ CandidateOK /\ RepliesOK /\ OnlyUpdateBreaksForest
  BY DEF Init, NoDivergence, MemoryOK, LockOK, CandidateOK, RepliesOK, OnlyUpdateBreaksForest,
         NoReply
<1>4. FileOK
  <2>1. Loadable(EmptyState)
    BY EmptyForest, StoreAssumption DEF Loadable, Adopt, EmptyState, validateState
  <2>2. RestartSafe
    BY <2>1 DEF Init, RestartSafe
  <2>3. 0 <= disk.sv
    BY <1>1 DEF IsState
  <2>4. QED  BY <2>2, <2>3 DEF Init, FileOK
<1>5. QED  BY <1>2, <1>3, <1>4 DEF IInv

\* A handler that has its answer without changing anything.
LEMMA AnswerStep ==
    ASSUME IInv, NEW h \in Handler, Ready(h), NEW op \in Operations, NEW code \in Codes,
           NEW sv \in Nat, NEW ids \in SUBSET Id, sv <= disk.sv,
           code # "ok" => sv = 0, code = "invariant" => op = "update",
           Answer(h, op, code, sv, ids)
    PROVE  IInv'
<1> DEFINE answer == [op |-> op, code |-> code, sv |-> sv, ids |-> ids]
<1>1. answer \in Replies
  BY DEF Replies
<1>2. /\ pc \in [Handler -> {"idle", "saving", "renamed", "replying"}]
      /\ reply \in [Handler -> Replies \union {NoReply}]
  BY DEF IInv, TypeOK
<1>3. /\ UNCHANGED <<exists, disk, up, mem, parent, lock, cand, used, acked>>
      /\ up /\ pc[h] = "idle" /\ pc'[h] = "replying" /\ reply'[h] = answer
      /\ \A g \in Handler \ {h} : pc'[g] = pc[g] /\ reply'[g] = reply[g]
  BY <1>2 DEF Answer, Ready
<1>4. TypeOK'
  <2>1. pc' \in [Handler -> {"idle", "saving", "renamed", "replying"}]
    BY <1>2 DEF Answer
  <2>2. reply' \in [Handler -> Replies \union {NoReply}]
    BY <1>1, <1>2 DEF Answer
  <2>3. QED  BY <1>3, <2>1, <2>2 DEF IInv, TypeOK, IsState
<1>5. NoDivergence'
  BY <1>3 DEF IInv, NoDivergence, Adopt
<1>6. FileOK' /\ MemoryOK'
  BY <1>3 DEF IInv, FileOK, RestartSafe, MemoryOK, EmptyState
<1>7. lock # Null => lock # h /\ lock \in Handler
  BY <1>3 DEF IInv, LockOK, TypeOK
<1>8. LockOK'
  BY <1>3, <1>7 DEF IInv, LockOK
<1>9. CandidateOK'
  BY <1>3, <1>7 DEF IInv, CandidateOK
<1>10. RepliesOK'
  <2>1. answer.sv = sv /\ answer.code = code
    OBVIOUS
  <2> HIDE DEF answer
  <2>2. QED  BY <1>1, <1>3, <2>1 DEF IInv, RepliesOK
<1>11. OnlyUpdateBreaksForest'
  <2>1. answer.op = op /\ answer.code = code
    OBVIOUS
  <2> HIDE DEF answer
  <2>2. QED  BY <1>3, <2>1 DEF IInv, OnlyUpdateBreaksForest
<1>12. QED  BY <1>4, <1>5, <1>6, <1>8, <1>9, <1>10, <1>11 DEF IInv

\* A handler that holds a valid candidate and keeps the lock for its save.
LEMMA ProposeStep ==
    ASSUME IInv, NEW h \in Handler, Ready(h), lock = Null,
           NEW op \in {"add", "update", "delete"}, NEW ids \in SUBSET Id,
           NEW tasks, IsTaskMap(tasks), (DOMAIN tasks \ DOMAIN mem.tasks) \intersect used = {},
           op # "update" => IsForest(tasks),
           IsForest(tasks) => VF!Mutation(op, ids, mem.tasks, tasks),
           Propose(h, op, ids, tasks)
    PROVE  IInv'
<1>1. CASE ~IsForest(tasks)
  <2>1. Answer(h, op, "invariant", 0, {})
    BY <1>1 DEF Propose, validateState
  <2>2. 0 <= disk.sv
    BY DEF IInv, TypeOK, IsState
  <2>3. op \in Operations /\ "invariant" \in Codes /\ op = "update" /\ {} \in SUBSET Id
    BY <1>1 DEF Operations, Codes
  <2>4. QED  BY <2>1, <2>2, <2>3, AnswerStep
<1>2. CASE IsForest(tasks)
  <2> DEFINE answer == [op |-> op, code |-> "ok", sv |-> mem.sv + 1, ids |-> ids]
             new == [fmt |-> mem.fmt, sv |-> mem.sv + 1, tasks |-> tasks]
  <2>1. /\ pc \in [Handler -> {"idle", "saving", "renamed", "replying"}]
        /\ reply \in [Handler -> Replies \union {NoReply}]
        /\ IsState(mem) /\ mem.fmt \in Nat /\ mem.sv \in Nat
    BY DEF IInv, TypeOK, IsState
  <2>2. answer \in Replies
    BY <2>1 DEF Replies, Operations, Codes
  <2>3. /\ UNCHANGED <<exists, disk, up, mem, parent, used, acked>>
        /\ up /\ pc[h] = "idle" /\ pc'[h] = "saving" /\ reply'[h] = answer
        /\ \A g \in Handler \ {h} : pc'[g] = pc[g] /\ reply'[g] = reply[g]
        /\ lock' = h /\ cand' = new
    BY <1>2, <2>1 DEF Propose, Ready, validateState
  <2>4. IsState(new) /\ new.tasks = tasks /\ new.sv = mem.sv + 1 /\ new.fmt = mem.fmt
    BY <2>1 DEF IsState
  <2>5. answer.op = op /\ answer.code = "ok" /\ answer.sv = mem.sv + 1 /\ answer.ids = ids
    OBVIOUS
  <2>6. TypeOK'
    <3>1. pc' \in [Handler -> {"idle", "saving", "renamed", "replying"}]
      BY <1>2, <2>1 DEF Propose, validateState
    <3>2. reply' \in [Handler -> Replies \union {NoReply}]
      BY <1>2, <2>1, <2>2 DEF Propose, validateState
    <3> HIDE DEF new
    <3>3. IsState(cand)'
      BY <2>3, <2>4 DEF IsState
    <3>4. QED  BY <2>3, <3>1, <3>2, <3>3 DEF IInv, TypeOK, IsState
  <2> HIDE DEF answer, new
  <2>7. \A g \in Handler : pc[g] \notin {"saving", "renamed"}
    BY StoreAssumption DEF IInv, LockOK
  <2>8. NoDivergence'
    BY <2>3, <2>7 DEF IInv, NoDivergence, Adopt
  <2>9. FileOK' /\ MemoryOK'
    BY <2>3 DEF IInv, FileOK, RestartSafe, MemoryOK, EmptyState
  <2>10. LockOK'
    BY <2>3, <2>7 DEF IInv, LockOK
  <2>11. CandidateOK'
    BY <1>2, <2>3, <2>4, <2>5 DEF CandidateOK
  <2>12. RepliesOK'
    BY <2>2, <2>3 DEF IInv, RepliesOK
  <2>13. OnlyUpdateBreaksForest'
    BY <2>3, <2>5 DEF IInv, OnlyUpdateBreaksForest
  <2>14. QED  BY <2>6, <2>8, <2>9, <2>10, <2>11, <2>12, <2>13 DEF IInv
<1>3. QED  BY <1>1, <1>2

\* While nobody holds the lock, memory is what the file holds.
LEMMA QuietMemory ==
    ASSUME IInv, up, lock = Null
    PROVE  /\ mem.sv = disk.sv /\ mem.tasks = disk.tasks
           /\ IsTaskMap(mem.tasks)
           /\ DOMAIN mem.tasks \subseteq used
<1>1. ~ \E h \in Handler : pc[h] = "renamed"
  BY StoreAssumption DEF IInv, LockOK
<1>2. Adopt(disk) = mem
  BY <1>1 DEF IInv, NoDivergence
<1>3. mem.sv = disk.sv /\ mem.tasks = disk.tasks
  BY <1>2 DEF Adopt
<1>4. QED  BY <1>3 DEF IInv, TypeOK, IsState, FileOK

\* A request that is refused before anything is built.
LEMMA RefusalStep ==
    ASSUME IInv, NEW h \in Handler, Ready(h), NEW op \in Operations, NEW code \in Codes,
           code \notin {"ok", "invariant"}, NEW ids \in SUBSET Id, Answer(h, op, code, 0, ids)
    PROVE  IInv'
<1>1. 0 <= disk.sv
  BY DEF IInv, TypeOK, IsState
<1>2. QED  BY <1>1, AnswerStep

\* An accepted Add keeps the inductive invariant.
LEMMA AddStep ==
    ASSUME IInv, NEW h \in Handler, Add(h)
    PROVE  IInv'
<1>1. Ready(h)
  BY DEF Add, Locked
<1>2. PICK req \in AddRequests :
        \/ Answer(h, "add", "bad_request", 0, {})
        \/ Answer(h, "add", "not_found", 0, {})
        \/ /\ Locked(h)
           /\ validateContent(req.content)
           /\ \E id \in Id \ used, now \in Time :
                  Propose(h, "add", {id}, AddCandidate(mem.tasks, id, req, now))
  BY DEF Add
<1>3. CASE Answer(h, "add", "bad_request", 0, {}) \/ Answer(h, "add", "not_found", 0, {})
  BY <1>1, <1>3, RefusalStep DEF Operations, Codes
<1>4. ASSUME Locked(h), validateContent(req.content), NEW id \in Id \ used, NEW now \in Time,
             Propose(h, "add", {id}, AddCandidate(mem.tasks, id, req, now))
      PROVE  IInv'
  <2> DEFINE tasks == mem.tasks
             c == AddCandidate(tasks, id, req, now)
  <2>1. lock = Null /\ up
    BY <1>4 DEF Locked, Ready
  <2>2. IsTaskMap(tasks) /\ IsForest(tasks) /\ id \in Id \ DOMAIN tasks
    BY <1>4, <2>1, QuietMemory DEF IInv, MemoryOK
  <2>3. req \in AddRequest
    BY StoreAssumption
  <2> HIDE DEF tasks
  <2>4. IsForest(c)
    BY <1>4, <2>2, <2>3, AddKeepsForest
  <2>5. AddOutcome(tasks, id, req.parent, c)
    <3>1. NoDuplicateInList(tasks) /\ NoDanglingChild(tasks)
      BY <2>2 DEF IsForest
    <3>2. QED  BY <1>4, <2>2, <2>3, <3>1, AddEffect
  <2> HIDE DEF c
  <2>6. IsTaskMap(c) /\ DOMAIN c = DOMAIN tasks \union {id}
    BY <2>5 DEF AddOutcome
  <2>7. VF!Mutation("add", {id}, tasks, c)
    BY <2>2, <2>4, <2>5, AddIsMutation
  <2>8. (DOMAIN c \ DOMAIN tasks) \intersect used = {}
    BY <1>4, <2>6
  <2>9. Propose(h, "add", {id}, c)
    BY <1>4 DEF c, tasks
  <2>10. QED
    <3>1. (DOMAIN c \ DOMAIN mem.tasks) \intersect used = {} /\ VF!Mutation("add", {id}, mem.tasks, c)
      BY <2>7, <2>8 DEF tasks
    <3>2. QED  BY <1>1, <2>1, <2>4, <2>6, <2>9, <3>1, ProposeStep
<1>5. QED  BY <1>2, <1>3, <1>4

\* An accepted Update keeps the inductive invariant.
LEMMA UpdateStep ==
    ASSUME IInv, NEW h \in Handler, Update(h)
    PROVE  IInv'
<1>1. Ready(h)
  BY DEF Update, Locked
<1>2. PICK ops \in UpdateBatches :
        \/ Answer(h, "update", "bad_request", 0, {})
        \/ /\ Locked(h)
           /\ WellFormed(ops)
           /\ \/ Answer(h, "update", "not_found", 0, {})
              \/ /\ AllExist(ops)
                 /\ Answer(h, "update", "conflict", 0,
                           {ops[k].id : k \in {k \in DOMAIN ops : ~Current(ops[k])}})
              \/ /\ AllExist(ops)
                 /\ \E now \in Time :
                        Propose(h, "update", {ops[k].id : k \in DOMAIN ops},
                                UpdateCandidate(mem.tasks, ops, now))
  BY DEF Update
<1>3. CASE Answer(h, "update", "bad_request", 0, {}) \/ Answer(h, "update", "not_found", 0, {})
  BY <1>1, <1>3, RefusalStep DEF Operations, Codes
<1> DEFINE stale == {ops[k].id : k \in {k \in DOMAIN ops : ~Current(ops[k])}}
           ids == {ops[k].id : k \in DOMAIN ops}
<1>4. ASSUME AllExist(ops), Locked(h)
      PROVE  ids \in SUBSET DOMAIN mem.tasks /\ ids \in SUBSET Id /\ stale \in SUBSET Id
  BY <1>4, QuietMemory DEF AllExist, Locked, Ready, IsTaskMap
<1>5. ASSUME AllExist(ops), Locked(h), Answer(h, "update", "conflict", 0, stale)
      PROVE  IInv'
  <2>1. stale \in SUBSET Id
    BY <1>4, <1>5
  <2> HIDE DEF stale
  <2>2. QED  BY <1>1, <1>5, <2>1, RefusalStep DEF Operations, Codes
<1>6. ASSUME AllExist(ops), Locked(h), WellFormed(ops), NEW now \in Time,
             Propose(h, "update", ids, UpdateCandidate(mem.tasks, ops, now))
      PROVE  IInv'
  <2> DEFINE tasks == mem.tasks
             c == UpdateCandidate(tasks, ops, now)
  <2>1. lock = Null /\ up
    BY <1>6 DEF Locked, Ready
  <2>2. IsTaskMap(tasks) /\ ids \in SUBSET DOMAIN tasks /\ ids \in SUBSET Id
    BY <1>4, <1>6, <2>1, QuietMemory
  <2>3. ops \in Seq(UpdateOp) /\ \A k \in DOMAIN ops : validateContent(ops[k].content)
    BY <1>6, StoreAssumption DEF WellFormed
  <2> HIDE DEF tasks
  <2>4. UpdateOutcome(tasks, ids, c)
    BY <2>2, <2>3, UpdateEffect
  <2> HIDE DEF c, ids
  <2>5. IsTaskMap(c) /\ DOMAIN c = DOMAIN tasks
    BY <2>4 DEF UpdateOutcome
  <2>6. IsForest(c) => VF!Mutation("update", ids, tasks, c)
    BY <2>2, <2>4, UpdateIsMutation
  <2>7. Propose(h, "update", ids, c)
    BY <1>6 DEF c, tasks
  <2>8. (DOMAIN c \ DOMAIN mem.tasks) \intersect used = {}
    BY <2>5 DEF tasks
  <2>9. IsForest(c) => VF!Mutation("update", ids, mem.tasks, c)
    BY <2>6 DEF tasks
  <2>10. QED  BY <1>1, <2>1, <2>2, <2>5, <2>7, <2>8, <2>9, ProposeStep
<1>7. QED  BY <1>2, <1>3, <1>5, <1>6

\* An accepted Delete keeps the inductive invariant.
LEMMA DeleteStep ==
    ASSUME IInv, NEW h \in Handler, Delete(h)
    PROVE  IInv'
<1>1. Locked(h) /\ Ready(h)
  BY DEF Delete, Locked
<1>2. PICK id \in Id :
        \/ Answer(h, "delete", "not_found", 0, {})
        \/ /\ id \in DOMAIN mem.tasks
           /\ \E now \in Time :
                  Propose(h, "delete", {id}, DeleteCandidate(mem.tasks, parent, id, now))
  BY DEF Delete
<1>3. CASE Answer(h, "delete", "not_found", 0, {})
  BY <1>1, <1>3, RefusalStep DEF Operations, Codes
<1>4. ASSUME id \in DOMAIN mem.tasks, NEW now \in Time,
             Propose(h, "delete", {id}, DeleteCandidate(mem.tasks, parent, id, now))
      PROVE  IInv'
  <2> DEFINE tasks == mem.tasks
             c == DeleteCandidate(tasks, parent, id, now)
  <2>1. lock = Null /\ up
    BY <1>1 DEF Locked, Ready
  <2>2. IsTaskMap(tasks) /\ IsForest(tasks) /\ IsInverse(parent, tasks) /\ id \in DOMAIN tasks
    BY <1>4, <2>1, QuietMemory DEF IInv, MemoryOK
  <2> HIDE DEF tasks
  <2>3. IsForest(c)
    BY <2>2, DeleteKeepsForest
  <2>4. DeleteOutcome(tasks, id, c)
    <3>1. NoDuplicateInList(tasks) /\ SingleContainer(tasks)
      BY <2>2 DEF IsForest
    <3>2. QED  BY <2>2, <3>1, DeleteEffect
  <2> HIDE DEF c
  <2>5. IsTaskMap(c) /\ DOMAIN c = DOMAIN tasks \ {id}
    BY <2>4 DEF DeleteOutcome
  <2>6. VF!Mutation("delete", {id}, tasks, c)
    BY <2>2, <2>3, <2>4, DeleteIsMutation
  <2>7. Propose(h, "delete", {id}, c)
    BY <1>4 DEF c, tasks
  <2>8. (DOMAIN c \ DOMAIN mem.tasks) \intersect used = {} /\ VF!Mutation("delete", {id}, mem.tasks, c)
    BY <2>5, <2>6 DEF tasks
  <2>9. QED  BY <1>1, <2>1, <2>3, <2>5, <2>7, <2>8, ProposeStep
<1>5. QED  BY <1>2, <1>3, <1>4

\* Reading keeps the inductive invariant.
LEMMA SnapshotStep ==
    ASSUME IInv, NEW h \in Handler, Snapshot(h)
    PROVE  IInv'
<1>1. Ready(h) /\ Answer(h, "get", "ok", mem.sv, {})
  BY DEF Snapshot
<1>2. mem.sv \in Nat /\ mem.sv <= disk.sv
  BY QuietMemory DEF Snapshot, Ready, IInv, TypeOK, IsState
<1>3. QED  BY <1>1, <1>2, AnswerStep DEF Operations, Codes

\* What IInv says of the handler that is saving.
LEMMA Saver ==
    ASSUME IInv, NEW h \in Handler, pc[h] \in {"saving", "renamed"}
    PROVE  /\ lock = h /\ lock # Null /\ up
           /\ \A g \in Handler \ {h} : pc[g] \notin {"saving", "renamed"}
           /\ exists /\ mem.fmt \in 1..CurrentFmt
           /\ cand.fmt = mem.fmt /\ cand.sv = mem.sv + 1 /\ IsForest(cand.tasks)
           /\ reply[h].code = "ok" /\ reply[h].sv = cand.sv
           /\ reply[h].op \in {"add", "update", "delete"}
           /\ VF!Mutation(reply[h].op, reply[h].ids, mem.tasks, cand.tasks)
           /\ reply[h] \in Replies
           /\ cand.sv \in Nat
<1>1. lock = h /\ lock # Null /\ up /\ \A g \in Handler \ {h} : pc[g] \notin {"saving", "renamed"}
  BY StoreAssumption DEF IInv, LockOK
<1>2. exists /\ mem.fmt \in 1..CurrentFmt
  BY <1>1 DEF IInv, NoDivergence, MemoryOK
<1>3. reply[h] \in Replies /\ cand.sv \in Nat
  BY DEF IInv, RepliesOK, TypeOK, IsState
<1>4. QED  BY <1>1, <1>2, <1>3 DEF IInv, CandidateOK

\* A save that fails keeps the inductive invariant: neither memory nor file moved.
LEMMA SaveFailsStep ==
    ASSUME IInv, NEW h \in Handler, SaveFails(h)
    PROVE  IInv'
<1> DEFINE answer == Failed(reply[h].op)
<1>1. pc[h] = "saving"
  BY DEF SaveFails
<1>2. /\ reply[h].op \in {"add", "update", "delete"}
      /\ \A g \in Handler \ {h} : pc[g] \notin {"saving", "renamed"}
  BY <1>1, Saver
<1>3. answer \in Replies /\ answer.code = "internal" /\ answer.sv = 0
  BY <1>2 DEF Failed, Replies, Codes, Operations
<1> HIDE DEF answer
<1>4. /\ pc \in [Handler -> {"idle", "saving", "renamed", "replying"}]
      /\ reply \in [Handler -> Replies \union {NoReply}]
      /\ disk.sv \in Nat
  BY DEF IInv, TypeOK, IsState
<1>5. /\ UNCHANGED <<exists, disk, up, mem, parent, used, acked>>
      /\ pc'[h] = "replying" /\ reply'[h] = answer
      /\ \A g \in Handler \ {h} : pc'[g] = pc[g] /\ reply'[g] = reply[g]
      /\ lock' = Null /\ cand' = EmptyState
  BY <1>4 DEF SaveFails, answer
<1>6. TypeOK'
  <2>1. pc' \in [Handler -> {"idle", "saving", "renamed", "replying"}]
    BY <1>4 DEF SaveFails
  <2>2. reply' \in [Handler -> Replies \union {NoReply}]
    BY <1>3, <1>4 DEF SaveFails, answer
  <2>3. IsState(cand)'
    BY <1>5, EmptyForest DEF IsState, EmptyState
  <2>4. QED  BY <1>5, <2>1, <2>2, <2>3 DEF IInv, TypeOK, IsState
<1>7. \A g \in Handler : pc'[g] \notin {"saving", "renamed"}
  BY <1>2, <1>5
<1>8. NoDivergence'
  BY <1>1, <1>2, <1>5, <1>7 DEF IInv, NoDivergence, Adopt
<1>9. FileOK' /\ MemoryOK'
  BY <1>5 DEF IInv, FileOK, RestartSafe, MemoryOK, EmptyState
<1>10. LockOK' /\ CandidateOK'
  <2>1. up
    BY <1>1, Saver
  <2>2. QED  BY <1>5, <1>7, <2>1 DEF LockOK, CandidateOK
<1>11. RepliesOK'
  BY <1>3, <1>4, <1>5 DEF IInv, RepliesOK
<1>12. OnlyUpdateBreaksForest'
  BY <1>3, <1>5 DEF IInv, OnlyUpdateBreaksForest
<1>13. QED  BY <1>6, <1>8, <1>9, <1>10, <1>11, <1>12 DEF IInv

\* From the rename on, a restart finds the candidate.
LEMMA SaveStep ==
    ASSUME IInv, NEW h \in Handler, saveState(h)
    PROVE  IInv'
<1>1. pc[h] = "saving"
  BY DEF saveState
<1>2. /\ lock = h /\ up
      /\ \A g \in Handler \ {h} : pc[g] \notin {"saving", "renamed"}
      /\ cand.fmt = mem.fmt /\ cand.sv = mem.sv + 1 /\ IsForest(cand.tasks)
      /\ mem.fmt \in 1..CurrentFmt
  BY <1>1, Saver
<1>3. /\ pc \in [Handler -> {"idle", "saving", "renamed", "replying"}]
      /\ disk.sv \in Nat
      /\ acked \in Nat
      /\ reply \in [Handler -> Replies \union {NoReply}]
      /\ IsState(cand) /\ DOMAIN cand.tasks \subseteq Id /\ used \in SUBSET Id
  BY DEF IInv, TypeOK, IsState, IsTaskMap
<1>4. /\ UNCHANGED <<up, mem, parent, lock, cand, reply, acked>>
      /\ pc'[h] = "renamed"
      /\ \A g \in Handler \ {h} : pc'[g] = pc[g]
      /\ exists' = TRUE /\ disk' = cand /\ used' = used \union DOMAIN cand.tasks
  BY <1>3 DEF saveState
<1>5. Adopt(disk) = mem /\ disk.sv = mem.sv
  <2>1. Adopt(disk) = mem
    BY <1>1, <1>2 DEF IInv, NoDivergence
  <2>2. QED  BY <2>1 DEF Adopt
<1>6. TypeOK'
  <2>1. pc' \in [Handler -> {"idle", "saving", "renamed", "replying"}]
    BY <1>3 DEF saveState
  <2>2. QED  BY <1>3, <1>4, <2>1 DEF IInv, TypeOK, IsState
<1>7. NoDivergence'
  BY <1>4 DEF NoDivergence
<1>8. Loadable(disk')
  BY <1>2, <1>4, StoreAssumption DEF Loadable, Adopt, validateState
<1>9. FileOK'
  <2>1. acked' <= disk'.sv
    BY <1>2, <1>3, <1>4, <1>5 DEF IInv, FileOK
  <2>2. QED  BY <1>4, <1>8, <2>1 DEF FileOK, RestartSafe, Loadable, Adopt
<1>10. MemoryOK'
  BY <1>4 DEF IInv, MemoryOK
<1>11. LockOK'
  BY <1>2, <1>4 DEF IInv, LockOK
<1>12. CandidateOK'
  BY <1>2, <1>4 DEF IInv, CandidateOK
<1>13. RepliesOK'
  <2>1. ASSUME NEW g \in Handler, pc'[g] = "replying"
        PROVE  reply'[g].sv <= disk'.sv
    <3>1. pc[g] = "replying" /\ g # h
      BY <1>4, <2>1
    <3>2. reply[g] \in Replies /\ reply[g].sv <= disk.sv
      BY <3>1 DEF IInv, RepliesOK
    <3>3. reply[g].sv \in Nat
      BY <3>2 DEF Replies
    <3>4. QED  BY <1>2, <1>3, <1>4, <1>5, <3>2, <3>3
  <2>2. QED  BY <1>1, <1>4, <2>1 DEF IInv, RepliesOK
<1>14. OnlyUpdateBreaksForest'
  BY <1>4 DEF IInv, OnlyUpdateBreaksForest
<1>15. QED  BY <1>6, <1>7, <1>9, <1>10, <1>11, <1>12, <1>13, <1>14 DEF IInv

\* Memory catches up with the file, and its index with memory.
LEMMA CommitStep ==
    ASSUME IInv, NEW h \in Handler, Commit(h)
    PROVE  IInv'
<1>1. pc[h] = "renamed"
  BY DEF Commit
<1>2. /\ up /\ exists
      /\ \A g \in Handler \ {h} : pc[g] \notin {"saving", "renamed"}
      /\ cand.fmt = mem.fmt /\ IsForest(cand.tasks) /\ mem.fmt \in 1..CurrentFmt
      /\ reply[h].code = "ok" /\ reply[h].sv = cand.sv /\ cand.sv \in Nat
      /\ reply[h] \in Replies
  BY <1>1, Saver
<1>3. disk = cand
  BY <1>1, <1>2 DEF IInv, NoDivergence
<1>4. /\ pc \in [Handler -> {"idle", "saving", "renamed", "replying"}]
      /\ IsState(cand) /\ IsTaskMap(cand.tasks)
  BY DEF IInv, TypeOK, IsState
<1>5. /\ UNCHANGED <<exists, disk, up, reply, used, acked>>
      /\ pc'[h] = "replying"
      /\ \A g \in Handler \ {h} : pc'[g] = pc[g]
      /\ mem' = cand /\ parent' = rebuildIndex(cand.tasks)
      /\ lock' = Null /\ cand' = EmptyState
  BY <1>4 DEF Commit
<1>6. /\ IsInverse(parent', cand.tasks)
      /\ DOMAIN parent' \subseteq Id /\ parent' \in [DOMAIN parent' -> Id]
  BY <1>4, <1>5, RebuildIndexInverse
<1>7. TypeOK'
  <2>1. pc' \in [Handler -> {"idle", "saving", "renamed", "replying"}]
    BY <1>4 DEF Commit
  <2>2. IsState(cand)'
    BY <1>5, EmptyForest DEF IsState, EmptyState
  <2>3. IsState(mem)'
    BY <1>4, <1>5 DEF IsState
  <2>4. QED  BY <1>5, <1>6, <2>1, <2>2, <2>3 DEF IInv, TypeOK, IsState
<1>8. \A g \in Handler : pc'[g] \notin {"saving", "renamed"}
  BY <1>2, <1>5
<1>9. NoDivergence'
  <2>1. Adopt(cand) = cand
    BY <1>2, <1>4 DEF Adopt, IsState
  <2>2. Adopt(disk)' = mem'
    BY <1>3, <1>5, <2>1 DEF Adopt
  <2>3. QED  BY <1>2, <1>5, <1>8, <2>2 DEF NoDivergence
<1>10. FileOK'
  BY <1>2, <1>5 DEF IInv, FileOK, RestartSafe
<1>11. MemoryOK'
  BY <1>2, <1>5, <1>6 DEF MemoryOK
<1>12. LockOK' /\ CandidateOK'
  BY <1>2, <1>5, <1>8 DEF LockOK, CandidateOK
<1>13. RepliesOK'
  BY <1>2, <1>3, <1>5 DEF IInv, RepliesOK
<1>14. OnlyUpdateBreaksForest'
  BY <1>5 DEF IInv, OnlyUpdateBreaksForest
<1>15. QED  BY <1>7, <1>9, <1>10, <1>11, <1>12, <1>13, <1>14 DEF IInv

\* Answering keeps the inductive invariant.
LEMMA RespondStep ==
    ASSUME IInv, NEW h \in Handler, Respond(h)
    PROVE  IInv'
<1>1. pc[h] = "replying" /\ reply[h] \in Replies /\ reply[h].sv <= disk.sv
  BY DEF Respond, IInv, RepliesOK
<1>2. /\ pc \in [Handler -> {"idle", "saving", "renamed", "replying"}]
      /\ reply \in [Handler -> Replies \union {NoReply}]
      /\ acked \in Nat /\ acked <= disk.sv /\ reply[h].sv \in Nat
  BY <1>1 DEF IInv, TypeOK, FileOK, Replies
<1>3. /\ UNCHANGED <<exists, disk, up, mem, parent, lock, cand, used>>
      /\ pc'[h] = "idle" /\ reply'[h] = NoReply
      /\ \A g \in Handler \ {h} : pc'[g] = pc[g] /\ reply'[g] = reply[g]
      /\ acked' \in Nat /\ acked' <= disk.sv
  BY <1>1, <1>2 DEF Respond
<1>4. TypeOK'
  <2>1. pc' \in [Handler -> {"idle", "saving", "renamed", "replying"}]
    BY <1>2 DEF Respond
  <2>2. reply' \in [Handler -> Replies \union {NoReply}]
    BY <1>2 DEF Respond
  <2>3. QED  BY <1>3, <2>1, <2>2 DEF IInv, TypeOK, IsState
<1>5. NoDivergence'
  BY <1>1, <1>3 DEF IInv, NoDivergence, Adopt
<1>6. FileOK' /\ MemoryOK'
  BY <1>3 DEF IInv, FileOK, RestartSafe, MemoryOK, EmptyState
<1>7. lock # Null => lock # h /\ lock \in Handler
  BY <1>1 DEF IInv, LockOK, TypeOK
<1>8. LockOK'
  BY <1>3, <1>7 DEF IInv, LockOK
<1>9. CandidateOK'
  BY <1>3, <1>7 DEF IInv, CandidateOK
<1>10. RepliesOK'
  BY <1>3 DEF IInv, RepliesOK
<1>11. OnlyUpdateBreaksForest'
  BY <1>3 DEF IInv, OnlyUpdateBreaksForest, NoReply
<1>12. QED  BY <1>4, <1>5, <1>6, <1>8, <1>9, <1>10, <1>11 DEF IInv

\* A start, from a file or from none, keeps the inductive invariant.
LEMMA LoadStep ==
    ASSUME IInv, load
    PROVE  IInv'
<1>1. ~up /\ UNCHANGED <<lock, cand, pc, reply, used, acked>>
  BY DEF load
<1>2. PICK state :
        /\ Serve(state)
        /\ \/ ~exists /\ exists' = TRUE /\ disk' = EmptyState /\ state = EmptyState
           \/ exists /\ Loadable(disk) /\ state = Adopt(disk) /\ UNCHANGED <<exists, disk>>
  BY DEF load
<1>3. up' = TRUE /\ mem' = state /\ parent' = rebuildIndex(state.tasks)
  BY <1>2 DEF Serve
<1>4. \A h \in Handler : pc[h] = "idle" /\ pc'[h] = "idle"
  BY <1>1 DEF IInv, LockOK
<1>5. lock = Null
  BY <1>1 DEF IInv, LockOK
<1>6. /\ IsState(disk') /\ disk'.sv = disk.sv /\ disk'.tasks = disk.tasks
      /\ exists'
      /\ Adopt(disk') = state
      /\ Loadable(disk')
  <2>1. CASE ~exists /\ exists' = TRUE /\ disk' = EmptyState /\ state = EmptyState
    <3>1. disk = EmptyState
      BY <2>1 DEF IInv, FileOK
    <3>2. Adopt(EmptyState) = EmptyState /\ Loadable(EmptyState)
      BY EmptyForest, StoreAssumption DEF Loadable, Adopt, EmptyState, validateState
    <3>3. QED  BY <2>1, <3>1, <3>2, EmptyForest
  <2>2. CASE exists /\ Loadable(disk) /\ state = Adopt(disk) /\ UNCHANGED <<exists, disk>>
    <3>1. IsState(disk)
      BY DEF IInv, TypeOK
    <3>2. QED  BY <2>2, <3>1
  <2>3. QED  BY <1>2, <2>1, <2>2
<1>7. /\ IsState(state) /\ state.fmt \in 1..CurrentFmt /\ IsForest(state.tasks)
      /\ IsTaskMap(state.tasks)
  BY <1>6, StoreAssumption DEF Adopt, IsState, Loadable, validateState
<1>8. /\ IsInverse(parent', state.tasks)
      /\ DOMAIN parent' \subseteq Id /\ parent' \in [DOMAIN parent' -> Id]
  BY <1>3, <1>7, RebuildIndexInverse
<1>9. TypeOK'
  <2>1. IsState(disk)' /\ IsState(mem)' /\ IsState(cand)'
    BY <1>1, <1>3, <1>6, <1>7 DEF IInv, TypeOK, IsState
  <2>2. QED  BY <1>1, <1>3, <1>6, <1>8, <2>1 DEF IInv, TypeOK
<1>10. NoDivergence'
  <2>1. Adopt(disk)' = mem'
    BY <1>3, <1>6 DEF Adopt
  <2>2. QED  BY <1>4, <1>6, <2>1 DEF NoDivergence
<1>11. FileOK'
  <2>1. RestartSafe'
    BY <1>6 DEF RestartSafe, Loadable, Adopt
  <2>2. QED  BY <1>1, <1>6, <2>1 DEF IInv, FileOK
<1>12. MemoryOK'
  BY <1>3, <1>7, <1>8 DEF MemoryOK
<1>13. LockOK' /\ CandidateOK' /\ RepliesOK' /\ OnlyUpdateBreaksForest'
  BY <1>1, <1>3, <1>4, <1>5 DEF IInv, LockOK, CandidateOK, RepliesOK, OnlyUpdateBreaksForest
<1>14. QED  BY <1>9, <1>10, <1>11, <1>12, <1>13 DEF IInv

\* A crash keeps the inductive invariant, whatever the process was doing.
LEMMA CrashStep ==
    ASSUME IInv, Crash
    PROVE  IInv'
<1>1. TypeOK'
  <2>1. IsState(EmptyState) /\ NoTasks \in [{} -> Id] /\ DOMAIN NoTasks = {}
    BY EmptyForest
  <2>2. IsState(disk)' /\ IsState(mem)' /\ IsState(cand)'
    BY <2>1 DEF Crash, IInv, TypeOK, IsState, EmptyState
  <2>3. QED  BY <2>1, <2>2 DEF Crash, IInv, TypeOK
<1>2. FileOK'
  <2>1. Loadable(disk)
    BY DEF Crash, IInv, FileOK, RestartSafe
  <2>2. QED  BY <2>1 DEF Crash, IInv, FileOK, RestartSafe, Loadable, Adopt, EmptyState
<1>3. NoDivergence' /\ MemoryOK' /\ LockOK' /\ CandidateOK' /\ RepliesOK'
      /\ OnlyUpdateBreaksForest'
  BY DEF Crash, NoDivergence, MemoryOK, LockOK, CandidateOK, RepliesOK,
         OnlyUpdateBreaksForest, NoReply
<1>4. QED  BY <1>1, <1>2, <1>3 DEF IInv

\* Standing still keeps the inductive invariant.
LEMMA StutterStep ==
    ASSUME IInv, UNCHANGED vars
    PROVE  IInv'
  BY DEF vars, IInv, TypeOK, IsState, NoDivergence, Adopt, FileOK, RestartSafe, MemoryOK,
         LockOK, CandidateOK, RepliesOK, OnlyUpdateBreaksForest, EmptyState

\* One case per action.
LEMMA NextInv == IInv /\ [Next]_vars => IInv'
<1> SUFFICES ASSUME IInv, [Next]_vars
             PROVE  IInv'
  OBVIOUS
<1>1. CASE load
  BY <1>1, LoadStep
<1>2. CASE Crash
  BY <1>2, CrashStep
<1>3. ASSUME NEW h \in Handler, Add(h)
      PROVE  IInv'
  BY <1>3, AddStep
<1>4. ASSUME NEW h \in Handler, Update(h)
      PROVE  IInv'
  BY <1>4, UpdateStep
<1>5. ASSUME NEW h \in Handler, Delete(h)
      PROVE  IInv'
  BY <1>5, DeleteStep
<1>6. ASSUME NEW h \in Handler, Snapshot(h)
      PROVE  IInv'
  BY <1>6, SnapshotStep
<1>7. ASSUME NEW h \in Handler, SaveFails(h)
      PROVE  IInv'
  BY <1>7, SaveFailsStep
<1>8. ASSUME NEW h \in Handler, saveState(h)
      PROVE  IInv'
  BY <1>8, SaveStep
<1>9. ASSUME NEW h \in Handler, Commit(h)
      PROVE  IInv'
  BY <1>9, CommitStep
<1>10. ASSUME NEW h \in Handler, Respond(h)
       PROVE  IInv'
  BY <1>10, RespondStep
<1>11. CASE UNCHANGED vars
  BY <1>11, StutterStep
<1>12. QED
  BY <1>1, <1>2, <1>3, <1>4, <1>5, <1>6, <1>7, <1>8, <1>9, <1>10, <1>11 DEF Next

\* IInv holds throughout.
THEOREM Inductive == Spec => []IInv
<1>1. Init => IInv
  BY InitInv
<1>2. IInv /\ [Next]_vars => IInv'
  BY NextInv
<1>3. QED  BY <1>1, <1>2, PTL DEF Spec

-----------------------------------------------------------------------------
(***************************************************************************)
(* The safety properties.                                                  *)
(***************************************************************************)
\* Every variable keeps its type, the candidate and the file included.
THEOREM TypeCorrect == Spec => []TypeOK
<1>1. IInv => TypeOK
  BY DEF IInv
<1>2. QED  BY <1>1, Inductive, PTL

\* saveState's promise of no memory/disk divergence.
THEOREM DiskAndMemoryAgree == Spec => []NoDivergence
<1>1. IInv => NoDivergence
  BY DEF IInv
<1>2. QED  BY <1>1, Inductive, PTL

\* Only the holder of st.mu has a candidate, and it succeeds what is served.
THEOREM MutationsAreSerial == Spec => []OneWriter
<1>1. IInv => OneWriter
  BY Saver DEF OneWriter
<1>2. QED  BY <1>1, Inductive, PTL

\* What the server serves is a forest, always.
THEOREM AlwaysAForest == Spec => []ServedForest
<1>1. IInv => ServedForest
  BY DEF IInv, MemoryOK, ServedForest
<1>2. QED  BY <1>1, Inductive, PTL

\* st.parent is the inverse of the child lists, always.
THEOREM IndexFollows == Spec => []IndexIsInverse
<1>1. IInv => IndexIsInverse
  BY DEF IInv, MemoryOK, IndexIsInverse
<1>2. QED  BY <1>1, Inductive, PTL

\* Every file the server wrote loads again.
THEOREM CanRestart == Spec => []RestartSafe
<1>1. IInv => RestartSafe
  BY DEF IInv, FileOK
<1>2. QED  BY <1>1, Inductive, PTL

\* No restart takes back a state_version a client was told.
THEOREM AcknowledgedStays == Spec => []AckedIsDurable
<1>1. IInv => AckedIsDurable
  BY DEF IInv, FileOK, RepliesOK, AckedIsDurable
<1>2. QED  BY <1>1, Inductive, PTL

\* An Add puts the new task where the client asked, for every list and every
\* int: the clamp leaves no position on which insertAt would miss the slice.
THEOREM AddPutsWhereAsked == Spec => []AddsWhereAsked
<1>1. IInv => AddsWhereAsked
  <2> SUFFICES ASSUME IInv, up, lock = Null, NEW req \in AddRequests, NEW id \in Id \ used,
                      NEW now \in Time, req.parent \in DOMAIN mem.tasks
               PROVE  Placed(mem.tasks[req.parent].content.kids,
                             AddCandidate(mem.tasks, id, req, now)[req.parent].content.kids,
                             id, req.position)
    BY DEF AddsWhereAsked
  <2> DEFINE p == req.parent
             t == mem.tasks[p]
             new == AdoptChild(t, id, req.position, now)
  <2>1. IsTaskMap(mem.tasks) /\ DOMAIN mem.tasks \subseteq used
    <3>1. \A h \in Handler : pc[h] # "renamed"
      BY StoreAssumption DEF IInv, LockOK
    <3>2. mem.tasks = disk.tasks
      BY <3>1 DEF IInv, NoDivergence, Adopt
    <3>3. QED  BY <3>2 DEF IInv, TypeOK, IsState, FileOK
  <2>2. req.position \in Int \union {Null}
    BY StoreAssumption DEF AddRequest
  <2>3. AddCandidate(mem.tasks, id, req, now)[p] = new
    BY <2>1 DEF AddCandidate
  <2>4. t \in Task
    BY <2>1, TaskType
  <2> HIDE DEF t
  <2>5. t.content.kids \in Seq(Id)
    BY <2>4 DEF Task, Content
  <2>6. new.content.kids
          = insertAt(t.content.kids, InsertPosition(req.position, Len(t.content.kids)), id)
    BY <2>2, <2>4, AdoptChildType
  <2> HIDE DEF new
  <2>7. Placed(t.content.kids, new.content.kids, id, req.position)
    BY <2>2, <2>5, <2>6, InsertAtPlaces
  <2>8. QED  BY <2>3, <2>7 DEF t
<1>2. QED  BY <1>1, Inductive, PTL

\* The 422 of a broken forest never answers an add or a delete.
THEOREM AddAndDeleteAreSafe == Spec => []OnlyUpdateBreaksForest
<1>1. IInv => OnlyUpdateBreaksForest
  BY DEF IInv
<1>2. QED  BY <1>1, Inductive, PTL

-----------------------------------------------------------------------------
(***************************************************************************)
(* The store implements VersionedForest.                                   *)
(***************************************************************************)
Pending == [h \in Handler |-> PendingReply(h)]

\* A handler whose answer appears, the others being where they were.
LEMMA AnswerAppears ==
    ASSUME NEW h \in Handler, pc[h] \in {"idle", "saving"}, pc'[h] \in {"renamed", "replying"},
           \A g \in Handler \ {h} : pc'[g] = pc[g] /\ reply'[g] = reply[g],
           reply'[h] \in Replies
    PROVE  /\ VF!Tell(h, reply'[h])
           /\ Pending'[h] = reply'[h]
<1>1. Pending[h] = NoReply /\ Pending'[h] = reply'[h]
  BY DEF Pending, PendingReply
<1>2. \A g \in Handler \ {h} : Pending'[g] = Pending[g]
  BY DEF Pending, PendingReply
<1>3. Pending' = [Pending EXCEPT ![h] = reply'[h]]
  <2>1. Pending = [g \in Handler |-> Pending[g]] /\ Pending' = [g \in Handler |-> Pending'[g]]
    BY DEF Pending
  <2> HIDE DEF Pending
  <2>2. QED  BY <1>1, <1>2, <2>1
<1>4. QED  BY <1>1, <1>3 DEF VF!Tell, Pending

\* Nothing the promise speaks of changes.
LEMMA NothingPromisedChanges ==
    ASSUME disk'.sv = disk.sv, disk'.tasks = disk.tasks, used' = used, acked' = acked,
           \A g \in Handler : PendingReply(g)' = PendingReply(g)
    PROVE  UNCHANGED VF!promised
<1>1. Pending' = Pending
  BY DEF Pending
<1>2. QED  BY <1>1 DEF VF!promised, Pending

\* Refusals and reads answer without changing the file.
LEMMA AnswerImplements ==
    ASSUME IInv, NEW h \in Handler, Ready(h), NEW op \in Operations, NEW code \in Codes,
           NEW sv \in Nat, NEW ids \in SUBSET Id,
           \/ code # "ok" /\ sv = 0
           \/ code = "ok" /\ op = "get" /\ sv = disk.sv,
           Answer(h, op, code, sv, ids)
    PROVE  VF!Step
<1> DEFINE answer == [op |-> op, code |-> code, sv |-> sv, ids |-> ids]
<1>1. answer \in Replies
  BY DEF Replies
<1>2. answer.op = op /\ answer.code = code /\ answer.sv = sv
  OBVIOUS
<1> HIDE DEF answer
<1>3. /\ UNCHANGED <<disk, used, acked>>
      /\ pc[h] = "idle" /\ pc'[h] = "replying" /\ reply'[h] = answer
      /\ \A g \in Handler \ {h} : pc'[g] = pc[g] /\ reply'[g] = reply[g]
  BY DEF Answer, Ready, IInv, TypeOK, answer
<1>4. VF!Tell(h, answer) /\ Pending'[h] = answer
  BY <1>1, <1>3, AnswerAppears
<1>5. VF!Refuse(h) \/ VF!Read(h)
  BY <1>2, <1>3, <1>4 DEF VF!Refuse, VF!Read, Pending
<1>6. QED  BY <1>5 DEF VF!Step

\* Validating a candidate is invisible to the clients.
LEMMA ProposeImplements ==
    ASSUME IInv, NEW h \in Handler, Ready(h), NEW op \in {"add", "update", "delete"},
           NEW ids \in SUBSET Id, NEW tasks, Propose(h, op, ids, tasks)
    PROVE  VF!Step \/ UNCHANGED VF!promised
<1>1. CASE Answer(h, op, "invariant", 0, {})
  BY <1>1, AnswerImplements DEF Operations, Codes
<1>2. CASE ~Answer(h, op, "invariant", 0, {})
  <2>1. /\ UNCHANGED <<disk, used, acked>>
        /\ pc[h] = "idle" /\ pc'[h] = "saving"
        /\ \A g \in Handler \ {h} : pc'[g] = pc[g] /\ reply'[g] = reply[g]
    BY <1>2 DEF Propose, Ready, IInv, TypeOK
  <2>2. \A g \in Handler : PendingReply(g)' = PendingReply(g)
    BY <2>1 DEF PendingReply
  <2>3. QED  BY <2>1, <2>2, NothingPromisedChanges
<1>3. QED  BY <1>1, <1>2

\* A request refused before anything is built.
LEMMA RefusalImplements ==
    ASSUME IInv, NEW h \in Handler, Ready(h), NEW op \in Operations, NEW code \in Codes,
           code # "ok", NEW ids \in SUBSET Id, Answer(h, op, code, 0, ids)
    PROVE  VF!Step
  BY AnswerImplements

\* Add refused or proposed is a step of the promise, or none.
LEMMA AddImplements ==
    ASSUME IInv, NEW h \in Handler, Add(h)
    PROVE  VF!Step \/ UNCHANGED VF!promised
<1>1. Ready(h)
  BY DEF Add, Locked
<1>2. CASE Answer(h, "add", "bad_request", 0, {}) \/ Answer(h, "add", "not_found", 0, {})
  BY <1>1, <1>2, RefusalImplements DEF Operations, Codes
<1>3. ASSUME NEW id \in Id, NEW tasks, Propose(h, "add", {id}, tasks)
      PROVE  VF!Step \/ UNCHANGED VF!promised
  BY <1>1, <1>3, ProposeImplements
<1>4. QED  BY <1>2, <1>3 DEF Add

\* Update refused or proposed is a step of the promise, or none.
LEMMA UpdateImplements ==
    ASSUME IInv, NEW h \in Handler, Update(h)
    PROVE  VF!Step \/ UNCHANGED VF!promised
<1>1. Ready(h)
  BY DEF Update, Locked
<1>2. CASE Answer(h, "update", "bad_request", 0, {}) \/ Answer(h, "update", "not_found", 0, {})
  BY <1>1, <1>2, RefusalImplements DEF Operations, Codes
<1>3. ASSUME NEW ops \in UpdateBatches, Locked(h), AllExist(ops)
      PROVE  {ops[k].id : k \in DOMAIN ops} \in SUBSET Id
  BY <1>3, QuietMemory DEF AllExist, Locked, Ready, IsTaskMap
<1>4. ASSUME NEW ops \in UpdateBatches, Locked(h), AllExist(ops),
             NEW ids, ids = {ops[k].id : k \in {k \in DOMAIN ops : ~Current(ops[k])}},
             Answer(h, "update", "conflict", 0, ids)
      PROVE  VF!Step
  <2>1. ids \in SUBSET Id
    BY <1>3, <1>4
  <2>2. QED  BY <1>1, <1>4, <2>1, RefusalImplements DEF Operations, Codes
<1>5. ASSUME NEW ops \in UpdateBatches, Locked(h), AllExist(ops), NEW tasks,
             NEW ids, ids = {ops[k].id : k \in DOMAIN ops}, Propose(h, "update", ids, tasks)
      PROVE  VF!Step \/ UNCHANGED VF!promised
  <2>1. ids \in SUBSET Id
    BY <1>3, <1>5
  <2>2. QED  BY <1>1, <1>5, <2>1, ProposeImplements
<1>6. QED  BY <1>2, <1>4, <1>5 DEF Update

\* Delete refused or proposed is a step of the promise, or none.
LEMMA DeleteImplements ==
    ASSUME IInv, NEW h \in Handler, Delete(h)
    PROVE  VF!Step \/ UNCHANGED VF!promised
<1>1. Ready(h)
  BY DEF Delete, Locked
<1>2. CASE Answer(h, "delete", "not_found", 0, {})
  BY <1>1, <1>2, RefusalImplements DEF Operations, Codes
<1>3. ASSUME NEW id \in Id, NEW tasks, Propose(h, "delete", {id}, tasks)
      PROVE  VF!Step \/ UNCHANGED VF!promised
  BY <1>1, <1>3, ProposeImplements
<1>4. QED  BY <1>2, <1>3 DEF Delete

\* A read tells the state_version of the file.
LEMMA SnapshotImplements ==
    ASSUME IInv, NEW h \in Handler, Snapshot(h)
    PROVE  VF!Step
<1>1. Ready(h) /\ Answer(h, "get", "ok", mem.sv, {}) /\ mem.sv = disk.sv /\ mem.sv \in Nat
  BY QuietMemory DEF Snapshot, Ready, IInv, TypeOK, IsState
<1>2. QED  BY <1>1, AnswerImplements DEF Operations, Codes

\* A save that fails is seen as a refusal: nothing changed.
LEMMA SaveFailsImplements ==
    ASSUME IInv, NEW h \in Handler, SaveFails(h)
    PROVE  VF!Step
<1> DEFINE answer == Failed(reply[h].op)
<1>1. pc[h] = "saving" /\ reply[h].op \in {"add", "update", "delete"}
  BY Saver DEF SaveFails
<1>2. answer \in Replies /\ answer.code = "internal" /\ answer.sv = 0
  BY <1>1 DEF Failed, Replies, Codes, Operations
<1> HIDE DEF answer
<1>3. /\ UNCHANGED <<disk, used, acked>>
      /\ pc'[h] = "replying" /\ reply'[h] = answer
      /\ \A g \in Handler \ {h} : pc'[g] = pc[g] /\ reply'[g] = reply[g]
  BY DEF SaveFails, IInv, TypeOK, answer
<1>4. VF!Tell(h, answer) /\ Pending'[h] = answer
  BY <1>1, <1>2, <1>3, AnswerAppears
<1>5. VF!Refuse(h)
  BY <1>2, <1>3, <1>4 DEF VF!Refuse, Pending
<1>6. QED  BY <1>5 DEF VF!Step

\* The rename is where a mutation takes effect.
LEMMA SaveImplements ==
    ASSUME IInv, NEW h \in Handler, saveState(h)
    PROVE  VF!Step
<1>1. pc[h] = "saving" /\ disk' = cand /\ used' = used \union DOMAIN cand.tasks
      /\ UNCHANGED <<reply, acked>>
  BY DEF saveState
<1>2. /\ lock = h /\ lock # Null /\ up
      /\ \A g \in Handler \ {h} : pc[g] \notin {"saving", "renamed"}
      /\ cand.sv = mem.sv + 1
      /\ reply[h].code = "ok" /\ reply[h].sv = cand.sv
      /\ reply[h].op \in {"add", "update", "delete"}
      /\ VF!Mutation(reply[h].op, reply[h].ids, mem.tasks, cand.tasks)
      /\ reply[h] \in Replies
  BY <1>1, Saver
<1>3. mem.sv = disk.sv /\ mem.tasks = disk.tasks
  <2>1. Adopt(disk) = mem
    BY <1>1, <1>2 DEF IInv, NoDivergence
  <2>2. QED  BY <2>1 DEF Adopt
<1>4. (DOMAIN cand.tasks \ DOMAIN mem.tasks) \intersect used = {}
  BY <1>1, <1>2 DEF IInv, CandidateOK
<1>5. pc'[h] = "renamed" /\ \A g \in Handler \ {h} : pc'[g] = pc[g]
  BY DEF saveState, IInv, TypeOK
<1>6. VF!Tell(h, reply'[h]) /\ Pending'[h] = reply'[h]
  BY <1>1, <1>2, <1>5, AnswerAppears
<1>7. VF!Mutate(h)
  <2>1. reply'[h] = reply[h]
    BY <1>1
  <2>2. \E answer \in {Pending'[h]} :
            /\ VF!Tell(h, answer)
            /\ answer.code = "ok"
            /\ answer.op \in {"add", "update", "delete"}
            /\ answer.sv = disk.sv + 1
            /\ VF!Mutation(answer.op, answer.ids, disk.tasks, disk'.tasks)
    BY <1>1, <1>2, <1>3, <1>6, <2>1
  <2>3. QED  BY <1>1, <1>2, <1>3, <1>4, <2>2 DEF VF!Mutate, Pending
<1>8. QED  BY <1>7 DEF VF!Step

\* Memory is behind the promise, so its change is none of it.
LEMMA CommitImplements ==
    ASSUME IInv, NEW h \in Handler, Commit(h)
    PROVE  UNCHANGED VF!promised
<1>1. /\ UNCHANGED <<disk, used, acked, reply>>
      /\ pc[h] = "renamed" /\ pc'[h] = "replying"
      /\ \A g \in Handler \ {h} : pc'[g] = pc[g]
  BY DEF Commit, IInv, TypeOK
<1>2. \A g \in Handler : PendingReply(g)' = PendingReply(g)
  BY <1>1 DEF PendingReply
<1>3. QED  BY <1>1, <1>2, NothingPromisedChanges

\* Answering a request is the promise's delivery of its reply.
LEMMA RespondImplements ==
    ASSUME IInv, NEW h \in Handler, Respond(h)
    PROVE  VF!Step
<1>1. /\ UNCHANGED <<disk, used>>
      /\ pc[h] = "replying" /\ pc'[h] = "idle"
      /\ \A g \in Handler \ {h} : pc'[g] = pc[g] /\ reply'[g] = reply[g]
      /\ acked' = IF reply[h].sv > acked THEN reply[h].sv ELSE acked
  BY DEF Respond, IInv, TypeOK
<1>2. reply[h] # NoReply
  BY <1>1 DEF IInv, RepliesOK, Replies, NoReply, Operations
<1>3. Pending[h] = reply[h] /\ Pending'[h] = NoReply
      /\ \A g \in Handler \ {h} : Pending'[g] = Pending[g]
  BY <1>1 DEF Pending, PendingReply
<1>4. Pending' = [Pending EXCEPT ![h] = NoReply]
  <2>1. Pending = [g \in Handler |-> Pending[g]] /\ Pending' = [g \in Handler |-> Pending'[g]]
    BY DEF Pending
  <2> HIDE DEF Pending
  <2>2. QED  BY <1>3, <2>1
<1>5. VF!Deliver(h)
  BY <1>1, <1>2, <1>3, <1>4 DEF VF!Deliver, Pending
<1>6. QED  BY <1>5 DEF VF!Step

\* A crash is a step of the promise that loses requests and no task.
LEMMA CrashImplements ==
    ASSUME IInv, Crash
    PROVE  VF!Step
<1>1. Pending' = [h \in Handler |-> NoReply]
  BY DEF Crash, Pending, PendingReply
<1>2. VF!LoseReplies
  BY <1>1 DEF Crash, VF!LoseReplies, Pending
<1>3. QED  BY <1>2 DEF VF!Step

\* A start changes nothing but the format version.
LEMMA LoadImplements ==
    ASSUME IInv, load
    PROVE  UNCHANGED VF!promised
<1>1. disk' = disk /\ UNCHANGED <<pc, reply, used, acked>>
  BY DEF load, IInv, FileOK
<1>2. \A g \in Handler : PendingReply(g)' = PendingReply(g)
  BY <1>1 DEF PendingReply
<1>3. QED  BY <1>1, <1>2, NothingPromisedChanges

\* The store keeps the promise of VersionedForest: whatever handlers, saves and
\* crashes do, clients see one forest that changes in whole mutations.
THEOREM StoreKeepsPromise == Spec => KeepsPromise
<1>1. Init => VF!Start
  <2> SUFFICES ASSUME Init
               PROVE  VF!Start
    OBVIOUS
  <2>1. disk.sv \in Nat /\ VF!IsTaskMap(disk.tasks)
    BY InitInv, SameForest DEF IInv, TypeOK, IsState
  <2>2. Pending = [h \in Handler |-> NoReply]
    BY DEF Init, Pending, PendingReply
  <2>3. QED  BY <2>1, <2>2 DEF Init, VF!Start, Pending
<1>2. IInv /\ [Next]_vars => [VF!Step]_VF!promised
  <2> SUFFICES ASSUME IInv, [Next]_vars
               PROVE  VF!Step \/ UNCHANGED VF!promised
    OBVIOUS
  <2>1. CASE load
    BY <2>1, LoadImplements
  <2>2. CASE Crash
    BY <2>2, CrashImplements
  <2>3. CASE \E h \in Handler : Add(h) \/ Update(h) \/ Delete(h) \/ Snapshot(h)
    BY <2>3, AddImplements, UpdateImplements, DeleteImplements, SnapshotImplements
  <2>4. CASE \E h \in Handler : SaveFails(h) \/ saveState(h) \/ Commit(h) \/ Respond(h)
    BY <2>4, SaveFailsImplements, SaveImplements, CommitImplements, RespondImplements
  <2>5. CASE UNCHANGED vars
    <3>1. \A g \in Handler : PendingReply(g)' = PendingReply(g)
      BY <2>5 DEF vars, PendingReply
    <3>2. QED  BY <2>5, <3>1, NothingPromisedChanges DEF vars
  <2>6. QED  BY <2>1, <2>2, <2>3, <2>4, <2>5 DEF Next
<1>3. QED  BY <1>1, <1>2, Inductive, PTL DEF Spec, KeepsPromise, VF!Promise

-----------------------------------------------------------------------------
(***************************************************************************)
(* completed_at. The server does not look at the stamps of the file it     *)
(* loads, so what it serves is stamped only if that first file was.        *)
(***************************************************************************)
AllStamped(tasks) == \A i \in DOMAIN tasks : Stamped(tasks[i])

FilesStamped == \A file \in InitialFiles : AllStamped(file.tasks)

StampInv == AllStamped(disk.tasks) /\ AllStamped(mem.tasks) /\ AllStamped(cand.tasks)

\* A new task is stamped, and an old one keeps its status and its stamp.
LEMMA AddStamps ==
    ASSUME NEW tasks, NEW id, NEW p, NEW c, AddOutcome(tasks, id, p, c), AllStamped(tasks)
    PROVE  AllStamped(c)
  BY DEF AddOutcome, AllStamped, SameButKids, Stamped

\* Delete leaves every completion stamp right.
LEMMA DeleteStamps ==
    ASSUME NEW tasks, NEW id, NEW c, DeleteOutcome(tasks, id, c), AllStamped(tasks)
    PROVE  AllStamped(c)
  BY DEF DeleteOutcome, AllStamped, SameButKids, Stamped

\* Update, through applyCompletion, leaves every completion stamp right.
LEMMA UpdateStamps ==
    ASSUME NEW tasks, NEW ids, NEW c, UpdateOutcome(tasks, ids, c), AllStamped(tasks)
    PROVE  AllStamped(c)
  BY DEF UpdateOutcome, AllStamped, Rewritten

\* Only a candidate brings new tasks.
LEMMA ProposeStamps ==
    ASSUME StampInv, NEW h, NEW op, NEW ids, NEW tasks, AllStamped(tasks),
           Propose(h, op, ids, tasks)
    PROVE  StampInv'
<1>1. disk' = disk /\ mem' = mem /\ (cand' = cand \/ cand'.tasks = tasks)
  BY DEF Propose, Answer
<1>2. QED  BY <1>1 DEF StampInv, AllStamped

\* Every step keeps the stamps of the candidate, of memory and of the file right.
LEMMA NextStamps == IInv /\ StampInv /\ [Next]_vars => StampInv'
<1> SUFFICES ASSUME IInv, StampInv, [Next]_vars
             PROVE  StampInv'
  OBVIOUS
<1>1. ASSUME NEW h, NEW op, NEW code, NEW sv, NEW ids, Answer(h, op, code, sv, ids)
      PROVE  StampInv'
  BY <1>1 DEF Answer, StampInv, AllStamped
<1>2. ASSUME NEW h \in Handler, Add(h)
      PROVE  StampInv'
  <2>1. ASSUME Locked(h), NEW req \in AddRequests, validateContent(req.content),
               NEW id \in Id \ used, NEW now \in Time
        PROVE  AllStamped(AddCandidate(mem.tasks, id, req, now))
    <3> DEFINE tasks == mem.tasks
    <3>1. /\ IsTaskMap(tasks) /\ NoDuplicateInList(tasks) /\ NoDanglingChild(tasks)
          /\ id \in Id \ DOMAIN tasks
          /\ AllStamped(tasks)
      BY <2>1, QuietMemory DEF IInv, MemoryOK, IsForest, Locked, Ready, StampInv
    <3>2. req \in AddRequest
      BY StoreAssumption
    <3> HIDE DEF tasks
    <3>3. AddOutcome(tasks, id, req.parent, AddCandidate(tasks, id, req, now))
      BY <2>1, <3>1, <3>2, AddEffect
    <3>4. AllStamped(AddCandidate(tasks, id, req, now))
      BY <3>1, <3>3, AddStamps
    <3>5. QED  BY <3>4 DEF tasks
  <2>2. QED  BY <1>1, <1>2, <2>1, ProposeStamps DEF Add
<1>3. ASSUME NEW h \in Handler, Update(h)
      PROVE  StampInv'
  <2>1. ASSUME Locked(h), NEW ops \in UpdateBatches, WellFormed(ops), NEW now \in Time
        PROVE  AllStamped(UpdateCandidate(mem.tasks, ops, now))
    <3> DEFINE tasks == mem.tasks
    <3>1. IsTaskMap(tasks) /\ AllStamped(tasks)
      BY <2>1, QuietMemory DEF Locked, Ready, StampInv
    <3>2. ops \in Seq(UpdateOp) /\ \A k \in DOMAIN ops : validateContent(ops[k].content)
      BY <2>1, StoreAssumption DEF WellFormed
    <3> HIDE DEF tasks
    <3>3. UpdateOutcome(tasks, {ops[k].id : k \in DOMAIN ops}, UpdateCandidate(tasks, ops, now))
      BY <3>1, <3>2, UpdateEffect
    <3>4. AllStamped(UpdateCandidate(tasks, ops, now))
      BY <3>1, <3>3, UpdateStamps
    <3>5. QED  BY <3>4 DEF tasks
  <2>2. QED  BY <1>1, <1>3, <2>1, ProposeStamps DEF Update
<1>4. ASSUME NEW h \in Handler, Delete(h)
      PROVE  StampInv'
  <2>1. ASSUME NEW id \in DOMAIN mem.tasks, NEW now \in Time
        PROVE  AllStamped(DeleteCandidate(mem.tasks, parent, id, now))
    <3> DEFINE tasks == mem.tasks
    <3>1. /\ IsTaskMap(tasks) /\ NoDuplicateInList(tasks) /\ SingleContainer(tasks)
          /\ IsInverse(parent, tasks)
          /\ AllStamped(tasks)
      BY <1>4, QuietMemory DEF Delete, Locked, Ready, IInv, MemoryOK, IsForest, StampInv
    <3>2. id \in DOMAIN tasks
      BY <2>1
    <3> HIDE DEF tasks
    <3>3. DeleteOutcome(tasks, id, DeleteCandidate(tasks, parent, id, now))
      BY <3>1, <3>2, DeleteEffect
    <3>4. AllStamped(DeleteCandidate(tasks, parent, id, now))
      BY <3>1, <3>3, DeleteStamps
    <3>5. QED  BY <3>4 DEF tasks
  <2>2. QED  BY <1>1, <1>4, <2>1, ProposeStamps DEF Delete
<1>5. AllStamped(EmptyState.tasks)
  BY EmptyForest DEF AllStamped, EmptyState
<1>6. CASE load
  <2>1. disk' = disk \/ disk' = EmptyState
    BY <1>6 DEF load
  <2>2. mem' = EmptyState \/ mem' = Adopt(disk)
    BY <1>6 DEF load, Serve
  <2>3. cand' = cand
    BY <1>6 DEF load
  <2>4. Adopt(disk).tasks = disk.tasks
    BY DEF Adopt
  <2>5. QED  BY <1>5, <2>1, <2>2, <2>3, <2>4 DEF StampInv, AllStamped
<1>7. CASE Crash
  BY <1>5, <1>7 DEF Crash, StampInv, AllStamped
<1>8. ASSUME NEW h \in Handler, SaveFails(h) \/ saveState(h) \/ Commit(h) \/ Respond(h)
      PROVE  StampInv'
  BY <1>5, <1>8 DEF SaveFails, saveState, Commit, Respond, StampInv, AllStamped
<1>9. ASSUME NEW h \in Handler, Snapshot(h)
      PROVE  StampInv'
  BY <1>1, <1>9 DEF Snapshot
<1>10. CASE UNCHANGED vars
  BY <1>10 DEF vars, StampInv, AllStamped
<1>11. QED
  BY <1>2, <1>3, <1>4, <1>6, <1>7, <1>8, <1>9, <1>10 DEF Next

\* completed_at is set exactly on the tasks that are over, provided it was on
\* the file the server first met.
THEOREM StampsAreRight ==
    ASSUME FilesStamped
    PROVE  Spec => []CompletionStamped
<1>1. Init => StampInv
  <2>1. AllStamped(EmptyState.tasks)
    BY EmptyForest DEF AllStamped, EmptyState
  <2>2. QED  BY <2>1 DEF Init, StampInv, FilesStamped
<1>2. IInv /\ StampInv /\ [Next]_vars => StampInv'
  BY NextStamps
<1>3. StampInv => CompletionStamped
  BY DEF StampInv, AllStamped, CompletionStamped
<1>4. QED  BY <1>1, <1>2, <1>3, Inductive, PTL DEF Spec
=============================================================================
