--------------------------- MODULE BotReaderProofs ---------------------------
(***************************************************************************)
(* What the bot shows, for every forest, clock, limit of a page and order  *)
(* of a response (the run of BotReader tries a few of each): picked dates  *)
(* read back, the order of the roots is total, a tree is expanded whole, a *)
(* page keeps to its limits, and a listing read to its end has every task  *)
(* once.                                                                   *)
(***************************************************************************)
EXTENDS BotReader, FiniteSetTheorems, FunctionTheorems, SequenceTheorems, NaturalsInduction, TLAPS

-----------------------------------------------------------------------------
(***************************************************************************)
(* Loops. The library's induction theorems take an operator; induction on  *)
(* a set of naturals needs none.                                           *)
(***************************************************************************)
\* Every set of naturals has a least element ...
LEMMA Least ==
    ASSUME NEW S \in SUBSET Nat, S # {}
    PROVE  \E m \in S : \A k \in S : m <= k
<1> DEFINE R == OpToRel(<, Nat)
<1>1. IsWellFoundedOn(R, Nat)
  BY NatLessThanWellFounded, Zenon
<1>2. \A i, j \in Nat : <<i, j>> \in R <=> i < j
  BY DEF OpToRel
<1> HIDE DEF R
<1>3. PICK m \in S : \A k \in S : ~ (<<k, m>> \in R)
  BY <1>1, WFMin
<1>4. \A k \in S : m <= k
  <2> TAKE k \in S
  <2>1. k \in Nat /\ m \in Nat
    BY <1>3
  <2>2. ~ (k < m)
    BY <1>2, <1>3, <2>1
  <2>3. QED  BY <2>1, <2>2
<1>5. QED  BY <1>4

\* ... so what holds of a and is handed on up to b holds from a to b.
LEMMA Induct ==
    ASSUME NEW a \in Int, NEW b \in Int, NEW S, a \in S, \A n \in a..b - 1 : n \in S => n + 1 \in S
    PROVE  a..b \subseteq S
<1> SUFFICES ASSUME NEW c \in a..b, c \notin S PROVE FALSE
  OBVIOUS
<1> DEFINE bad == {k \in Nat : a + k <= b /\ a + k \notin S}
<1>1. c - a \in bad /\ bad \subseteq Nat
  BY DEF bad
<1>2. PICK m \in bad : \A k \in bad : m <= k
  <2> HIDE DEF bad
  <2>1. QED  BY <1>1, Least
<1>3. m \in Nat /\ a + m <= b /\ a + m \notin S /\ m # 0
  BY <1>2
<1>4. m - 1 \in Nat /\ m - 1 \notin bad
  <2>1. m - 1 \in Nat
    BY <1>3
  <2>2. ~(m <= m - 1)
    BY <1>3
  <2> HIDE DEF bad
  <2>3. QED  BY <1>2, <2>1, <2>2
<1>5. a + (m - 1) \in S
  BY <1>3, <1>4
<1>6. (a + (m - 1)) + 1 = a + m /\ a + (m - 1) \in a..b - 1
  BY <1>3, <1>4
<1>7. QED  BY <1>3, <1>5, <1>6

\* A loop whose steps stay in a set runs to its end: the recursive function that
\* stands for it exists.
Steps(step, S, a, b) == \A i \in a + 1..b : \A x \in S : step[i][x] \in S

Run(g, step, S, s0, a, b) ==
    /\ g \in [a..b -> S]
    /\ g[a] = s0
    /\ \A i \in a + 1..b : g[i] = step[i][g[i - 1]]

\* ... as a function of the number of turns, by induction on it.
LEMMA Loop ==
    ASSUME NEW a \in Int, NEW b \in Int, a <= b, NEW S, NEW s0 \in S, NEW step,
           Steps(step, S, a, b)
    PROVE  \E g : Run(g, step, S, s0, a, b)
<1> DEFINE Runs(g, n) == Run(g, step, S, s0, a, n)
           reached == {n \in a..b : \E g : Runs(g, n)}
<1> USE DEF Steps, Run
<1>1. a \in reached
  <2>1. Runs([i \in a..a |-> s0], a)
    OBVIOUS
  <2> HIDE DEF Run, Runs
  <2>2. QED  BY <2>1
<1>2. ASSUME NEW n \in a..b - 1, n \in reached
      PROVE  n + 1 \in reached
  <2>1. PICK g : Runs(g, n)
    BY <1>2
  <2> DEFINE h == [i \in a..n + 1 |-> IF i = n + 1 THEN step[n + 1][g[n]] ELSE g[i]]
  <2>2. n + 1 \in a + 1..b /\ g[n] \in S
    BY <2>1
  <2>3. h \in [a..n + 1 -> S]
    BY <2>1, <2>2
  <2>4. ASSUME NEW i \in a + 1..n + 1
        PROVE  h[i] = step[i][h[i - 1]]
    <3>1. i - 1 \in a..n /\ h[i - 1] = g[i - 1]
      OBVIOUS
    <3>2. CASE i = n + 1
      BY <3>1, <3>2
    <3>3. CASE i # n + 1
      BY <2>1, <3>1, <3>3
    <3>4. QED  BY <3>2, <3>3
  <2>5. h[a] = s0
    BY <2>1
  <2>6. Runs(h, n + 1)
    BY <2>3, <2>4, <2>5
  <2> HIDE DEF Run, Runs, h
  <2>7. n + 1 \in a..b
    OBVIOUS
  <2>8. QED  BY <2>6, <2>7
<1>3. a..b \subseteq reached
  <2> HIDE DEF reached
  <2>1. QED  BY <1>1, <1>2, Induct
<1>4. QED  BY <1>3

-----------------------------------------------------------------------------
(***************************************************************************)
(* The order of the roots.                                                 *)
(***************************************************************************)
\* LessRoots is the strict total order its comment calls load-bearing, on the
\* ids of any tasks, whatever number the walk over a subtree ends with.
THEOREM LessRootsIsTotal ==
    ASSUME NEW forest, DOMAIN forest \subseteq Nat, NEW t \in Int,
           \A i \in DOMAIN forest :
               /\ forest[i].closed \in BOOLEAN
               /\ forest[i].created \in Int
               /\ SubtreeMaxUrgency(forest, i, t) \in Int
    PROVE  /\ \A a \in DOMAIN forest : ~LessRoots(forest, a, a, t)
           /\ \A a, b \in DOMAIN forest :
                  a # b => LessRoots(forest, a, b, t) \/ LessRoots(forest, b, a, t)
           /\ \A a, b, c \in DOMAIN forest :
                  LessRoots(forest, a, b, t) /\ LessRoots(forest, b, c, t)
                      => LessRoots(forest, a, c, t)
<1> DEFINE u(i) == SubtreeMaxUrgency(forest, i, t)
           Less(a, b) ==
               IF forest[a].closed # forest[b].closed THEN forest[b].closed
               ELSE IF u(a) # u(b) THEN u(a) > u(b)
               ELSE IF forest[a].created # forest[b].created
                    THEN forest[a].created < forest[b].created
               ELSE a < b
<1>1. \A a, b \in DOMAIN forest : LessRoots(forest, a, b, t) <=> Less(a, b)
  BY DEF LessRoots
<1>2. \A i \in DOMAIN forest : u(i) \in Int
  OBVIOUS
<1> HIDE DEF u
<1>3. \A a \in DOMAIN forest : ~Less(a, a)
  OBVIOUS
<1>4. \A a, b \in DOMAIN forest : a # b => Less(a, b) \/ Less(b, a)
  BY <1>2
<1>5. \A a, b, c \in DOMAIN forest : Less(a, b) /\ Less(b, c) => Less(a, c)
  BY <1>2
<1>6. QED  BY <1>1, <1>3, <1>4, <1>5

-----------------------------------------------------------------------------
(***************************************************************************)
(* Due dates.                                                              *)
(***************************************************************************)

\* What is used of a division by the length of a day.
LEMMA Division ==
    ASSUME NEW a \in Int
    PROVE  /\ a \div 86400 \in Int
           /\ (a \div 86400) * 86400 <= a
           /\ a < (a \div 86400) * 86400 + 86400
  BY SMT

\* ... and that it is the only such quotient.
LEMMA DayOf ==
    ASSUME NEW a \in Int, NEW q \in Int, q * 86400 <= a, a < q * 86400 + 86400
    PROVE  a \div 86400 = q
  BY SMT

\* Go's division, corrected, is the division that rounds down.
LEMMA FloorDivIsDiv ==
    ASSUME NEW a \in Int
    PROVE  floorDiv(a, 86400) = a \div 86400
<1>1. CASE a >= 0
  BY <1>1, Division, DayOf DEF floorDiv, Quo
<1>2. CASE a < 0
  <2> DEFINE b == (-a) \div 86400
  <2>1. b \in Int /\ b * 86400 <= -a /\ -a < b * 86400 + 86400
    BY Division
  <2>2. Quo(a, 86400) = -b
    BY <1>2 DEF Quo
  <2> HIDE DEF b
  <2>3. CASE a = -b * 86400
    <3>1. floorDiv(a, 86400) = -b
      BY <1>2, <2>1, <2>2, <2>3 DEF floorDiv
    <3>2. QED  BY <2>1, <2>3, <3>1, DayOf
  <2>4. CASE a # -b * 86400
    <3>1. floorDiv(a, 86400) = -b - 1
      BY <1>2, <2>1, <2>2, <2>4 DEF floorDiv
    <3>2. (-b - 1) * 86400 <= a /\ a < (-b - 1) * 86400 + 86400
      BY <2>1, <2>4
    <3>3. QED  BY <2>1, <3>1, <3>2, DayOf
  <2>5. QED  BY <2>3, <2>4
<1>3. QED  BY <1>1, <1>2

\* A due date picked on a local day is the end of the local day promised, and
\* reads as what was picked.
THEOREM DueDatesAreThatDay ==
    ASSUME NEW instant \in Int, NEW offset \in Offsets
    PROVE  DueIsThatDay(instant, offset)
<1> DEFINE today == FormatDate(instant, offset)
<1>1. offset \in Int
  BY DEF Offsets
<1>2. /\ today \in Int
      /\ today * 86400 <= instant + offset * 60
      /\ instant + offset * 60 < today * 86400 + 86400
  BY <1>1, Division DEF FormatDate, day
<1> SUFFICES ASSUME NEW kw \in Keywords
             PROVE  LET due == DueFromKeyword(kw, instant, offset) IN
                    /\ FormatDate(due, offset) = today + addDays(kw)
                    /\ FormatDate(due + 1, offset) = FormatDate(due, offset) + 1
                    /\ FormatDate(instant + 1, offset) = today =>
                           FormatDue(due, instant, offset) = Promised(kw, instant, offset)
  BY DEF DueIsThatDay
<1> DEFINE due == DueFromKeyword(kw, instant, offset)
<1>3. addDays(kw) \in {0, 1, 3, 7}
  BY DEF addDays, Keywords
<1>4. due = today * 86400 + addDays(kw) * 86400 + 86399 - offset * 60
  BY <1>1, FloorDivIsDiv DEF DueFromKeyword, FormatDate, day
<1> HIDE DEF due, today
<1>5. due \in Int
  BY <1>1, <1>2, <1>3, <1>4
<1> DEFINE that == today + addDays(kw)
<1>6. that \in Int /\ due + offset * 60 = that * 86400 + 86399
  BY <1>1, <1>2, <1>3, <1>4
<1> HIDE DEF that
<1>7. FormatDate(due, offset) = that
  <2>1. (due + offset * 60) \div 86400 = that
    BY <1>1, <1>5, <1>6, DayOf
  <2>2. QED  BY <2>1 DEF FormatDate, day
<1>8. FormatDate(due + 1, offset) = that + 1
  <2>1. due + 1 + offset * 60 = (that + 1) * 86400
    BY <1>1, <1>5, <1>6
  <2>2. (due + 1 + offset * 60) \div 86400 = that + 1
    BY <1>1, <1>5, <1>6, <2>1, DayOf
  <2>3. QED  BY <2>2 DEF FormatDate, day
<1>9. ASSUME FormatDate(instant + 1, offset) = today
      PROVE  FormatDue(due, instant, offset) = Promised(kw, instant, offset)
  <2>1. instant + offset * 60 + 1 < today * 86400 + 86400
    BY <1>1, <1>9, Division DEF FormatDate, day
  <2> DEFINE delta == due - instant
  <2>2. /\ delta \in Int
        /\ delta > addDays(kw) * 86400
        /\ delta < addDays(kw) * 86400 + 86400
    BY <1>1, <1>2, <1>3, <1>4, <1>5, <2>1
  <2>3. Promised(kw, instant, offset) =
            CASE kw = "today" -> Label("today", 0)
              [] kw = "tomorrow" -> Label("tomorrow", 0)
              [] kw = "+3d" -> Label("days", 3)
              [] kw = "+1w" -> Label("date", today + 7)
    BY DEF Promised, today
  <2>4. FormatDue(due, instant, offset) =
            IF delta < 0 THEN Label("overdue", 0)
            ELSE IF delta <= 86400 THEN Label("today", 0)
            ELSE IF delta <= 172800 THEN Label("tomorrow", 0)
            ELSE IF delta <= 604800 THEN Label("days", delta \div 86400)
            ELSE Label("date", FormatDate(due, offset))
    BY DEF FormatDue, day
  <2> HIDE DEF delta
  <2>5. CASE kw = "today"
    BY <2>2, <2>3, <2>4, <2>5 DEF addDays
  <2>6. CASE kw = "tomorrow"
    BY <2>2, <2>3, <2>4, <2>6 DEF addDays
  <2>7. CASE kw = "+3d"
    <3>1. delta > 259200 /\ delta < 345600
      BY <2>2, <2>7 DEF addDays
    <3>2. delta \div 86400 = 3
      BY <2>2, <3>1, DayOf
    <3>3. QED  BY <2>2, <2>3, <2>4, <2>7, <3>1, <3>2
  <2>8. CASE kw = "+1w"
    <3>1. delta > 604800 /\ addDays(kw) = 7
      BY <2>2, <2>8 DEF addDays
    <3>2. FormatDate(due, offset) = today + 7
      BY <1>7, <3>1 DEF that
    <3>3. QED  BY <2>2, <2>3, <2>4, <2>8, <3>1, <3>2
  <2>9. QED  BY <2>5, <2>6, <2>7, <2>8 DEF Keywords
<1>10. QED  BY <1>7, <1>8, <1>9 DEF due, that

\* At every moment of every behaviour, for every offset of a configuration.
THEOREM DueAlwaysReadsBack == Spec => []DueReadsBack
<1>1. Init => now \in Instants
  BY DEF Init
<1>2. now \in Instants /\ [Next]_vars => (now \in Instants)'
  BY DEF Next, Command, Forward, Backward, Elsewhere, Tick, vars
<1>3. now \in Instants => DueReadsBack
  BY DueDatesAreThatDay, ReaderAssumption DEF DueReadsBack
<1>4. QED  BY <1>1, <1>2, <1>3, PTL DEF Spec

-----------------------------------------------------------------------------
(***************************************************************************)
(* Pages.                                                                  *)
(***************************************************************************)
Placed == [breaks: Seq(Nat), roots: Nat, rows: Nat]

NothingPlaced == [breaks |-> <<1>>, roots |-> 0, rows |-> 0]

\* The loop of pageBreaks, group by group.
LEMMA PlacingRuns ==
    ASSUME NEW groups \in Seq(Seq(Row))
    PROVE  placing(groups) =
               [i \in 0..Len(groups) |->
                   IF i = 0 THEN NothingPlaced
                   ELSE placeGroup(placing(groups)[i - 1], i, Len(groups[i]))]
<1> DEFINE step == [i \in 1..Len(groups) |->
                       [acc \in Placed |-> placeGroup(acc, i, Len(groups[i]))]]
           start == NothingPlaced
<1>1. start \in Placed
  BY DEF Placed, NothingPlaced
<1>2. ASSUME NEW i \in 1..Len(groups), NEW acc \in Placed
      PROVE  placeGroup(acc, i, Len(groups[i])) \in Placed
  <2>1. Len(groups[i]) \in Nat /\ i \in Nat
    OBVIOUS
  <2>2. Append(acc.breaks, i) \in Seq(Nat)
    BY <2>1 DEF Placed
  <2>3. QED  BY <2>1, <2>2, ViewAssumption, SMTT(20) DEF Placed, placeGroup
<1>3. Steps(step, Placed, 0, Len(groups))
  BY <1>2 DEF Steps
<1>4. PICK g : Run(g, step, Placed, start, 0, Len(groups))
  <2>1. Len(groups) \in Nat
    OBVIOUS
  <2> HIDE DEF step, start
  <2>2. QED  BY <1>1, <1>3, <2>1, Loop
<1>5. ASSUME NEW i \in 0..Len(groups), i # 0
      PROVE  step[i][g[i - 1]] = placeGroup(g[i - 1], i, Len(groups[i]))
  <2>1. i \in 1..Len(groups) /\ i - 1 \in 0..Len(groups)
    BY <1>5
  <2>2. g[i - 1] \in Placed
    BY <1>4, <2>1 DEF Run
  <2>3. QED  BY <2>1, <2>2
<1>6. g = [i \in 0..Len(groups) |->
              IF i = 0 THEN start ELSE placeGroup(g[i - 1], i, Len(groups[i]))]
  <2> HIDE DEF step, start
  <2>1. g = [i \in 0..Len(groups) |-> g[i]]
    BY <1>4 DEF Run
  <2>2. \A i \in 0..Len(groups) :
            g[i] = IF i = 0 THEN start ELSE placeGroup(g[i - 1], i, Len(groups[i]))
    <3> TAKE i \in 0..Len(groups)
    <3>1. CASE i = 0
      BY <1>4, <3>1 DEF Run
    <3>2. CASE i # 0
      <4>1. i \in 0 + 1..Len(groups)
        BY <3>2
      <4>2. g[i] = step[i][g[i - 1]]
        BY <1>4, <4>1 DEF Run
      <4>3. QED  BY <1>5, <3>2, <4>2
    <3>3. QED  BY <3>1, <3>2
  <2>3. QED  BY <2>1, <2>2
<1>7. QED  BY <1>6 DEF placing, NothingPlaced

Shown == {page \in [rows: Seq(Row), overflow: Nat] : Len(page.rows) <= maxRowsPerPage}

NothingShown == [rows |-> <<>>, overflow |-> 0]

\* A page keeps to its length.
LEMMA AddGroupType ==
    ASSUME NEW page \in Shown, NEW g \in Seq(Row)
    PROVE  addGroup(page, g) \in Shown
<1> DEFINE room == maxRowsPerPage - Len(page.rows)
<1>1. page.rows \in Seq(Row) /\ page.overflow \in Nat /\ room \in Nat
  BY ViewAssumption DEF Shown
<1>2. CASE Len(g) > room
  <2>1. SubSeq(g, 1, room) \in Seq(Row) /\ Len(SubSeq(g, 1, room)) = room
    BY <1>1, <1>2
  <2>2. page.rows \o SubSeq(g, 1, room) \in Seq(Row)
        /\ Len(page.rows \o SubSeq(g, 1, room)) = Len(page.rows) + room
    BY <1>1, <2>1
  <2>3. page.overflow + Len(g) - room \in Nat
    BY <1>1, <1>2
  <2>4. QED  BY <1>1, <1>2, <2>2, <2>3, ViewAssumption, SMTT(20) DEF addGroup, Shown
<1>3. CASE ~(Len(g) > room)
  BY <1>1, <1>3, ViewAssumption DEF addGroup, Shown
<1>4. QED  BY <1>2, <1>3

\* The loop of Paginate, group by group.
LEMMA FillingRuns ==
    ASSUME NEW groups \in Seq(Seq(Row)), NEW first \in 1..Len(groups)
    PROVE  /\ filling(groups, first) =
                  [i \in first - 1..Len(groups) |->
                      IF i = first - 1 THEN NothingShown
                      ELSE addGroup(filling(groups, first)[i - 1], groups[i])]
           /\ \A i \in first - 1..Len(groups) : filling(groups, first)[i] \in Shown
<1> DEFINE step == [i \in first..Len(groups) |-> [acc \in Shown |-> addGroup(acc, groups[i])]]
           start == NothingShown
           f == filling(groups, first)
<1>1. start \in Shown
  BY ViewAssumption DEF Shown, NothingShown
<1>2. \A i \in first..Len(groups), acc \in Shown : addGroup(acc, groups[i]) \in Shown
  BY AddGroupType
<1>3. Steps(step, Shown, first - 1, Len(groups))
  BY <1>2 DEF Steps
<1>4. PICK g : Run(g, step, Shown, start, first - 1, Len(groups))
  <2>1. first - 1 \in Int /\ Len(groups) \in Int /\ first - 1 <= Len(groups)
    OBVIOUS
  <2> HIDE DEF step, start
  <2>2. QED  BY <1>1, <1>3, <2>1, Loop
<1>5. ASSUME NEW i \in first - 1..Len(groups), i # first - 1
      PROVE  step[i][g[i - 1]] = addGroup(g[i - 1], groups[i])
  <2>1. i \in first..Len(groups) /\ i - 1 \in first - 1..Len(groups)
    BY <1>5
  <2>2. g[i - 1] \in Shown
    BY <1>4, <2>1 DEF Run
  <2>3. QED  BY <2>1, <2>2
<1>6. g = [i \in first - 1..Len(groups) |->
              IF i = first - 1 THEN start ELSE addGroup(g[i - 1], groups[i])]
  <2> HIDE DEF step, start
  <2>1. g = [i \in first - 1..Len(groups) |-> g[i]]
    BY <1>4 DEF Run
  <2>2. \A i \in first - 1..Len(groups) :
            g[i] = IF i = first - 1 THEN start ELSE addGroup(g[i - 1], groups[i])
    <3> TAKE i \in first - 1..Len(groups)
    <3>1. CASE i = first - 1
      BY <1>4, <3>1 DEF Run
    <3>2. CASE i # first - 1
      <4>1. i \in (first - 1) + 1..Len(groups)
        BY <3>2
      <4>2. g[i] = step[i][g[i - 1]]
        BY <1>4, <4>1 DEF Run
      <4>3. QED  BY <1>5, <3>2, <4>2
    <3>3. QED  BY <3>1, <3>2
  <2>3. QED  BY <2>1, <2>2
<1>7. f = [i \in first - 1..Len(groups) |->
              IF i = first - 1 THEN start ELSE addGroup(f[i - 1], groups[i])]
  BY <1>6 DEF filling, NothingShown
<1>8. \A i \in first - 1..Len(groups) : f[i] \in Shown
  <2> DEFINE good == {i \in first - 1..Len(groups) : f[i] \in Shown}
  <2> HIDE DEF f
  <2>1. first - 1 \in good
    BY <1>1, <1>7
  <2>2. ASSUME NEW i \in first - 1..Len(groups) - 1, i \in good
        PROVE  i + 1 \in good
    <3>1. f[i + 1] = addGroup(f[i], groups[i + 1]) /\ groups[i + 1] \in Seq(Row)
      BY <1>7
    <3>2. QED  BY <2>2, <3>1, AddGroupType
  <2> HIDE DEF good
  <2>3. first - 1 \in Int /\ Len(groups) \in Int
    OBVIOUS
  <2>4. first - 1..Len(groups) \subseteq good
    BY <2>1, <2>2, <2>3, Induct
  <2>5. QED  BY <2>4 DEF good
<1>9. QED  BY <1>7, <1>8

\* A sequence and the beginning of another one after it.
LEMMA PrefixAdded ==
    ASSUME NEW S, NEW s \in Seq(S), NEW t \in Seq(S), NEW n \in 0..Len(t)
    PROVE  /\ s \o SubSeq(t, 1, n) \in Seq(S)
           /\ Len(s \o SubSeq(t, 1, n)) = Len(s) + n
           /\ \A k \in 1..Len(s) : (s \o SubSeq(t, 1, n))[k] = s[k]
           /\ \A k \in Len(s) + 1..Len(s) + n : (s \o SubSeq(t, 1, n))[k] = t[k - Len(s)]
<1> DEFINE part == SubSeq(t, 1, n)
<1>1. part \in Seq(S) /\ Len(part) = n /\ \A k \in 1..n : part[k] = t[k]
  OBVIOUS
<1> HIDE DEF part
<1>2. /\ s \o part \in Seq(S)
      /\ Len(s \o part) = Len(s) + n
      /\ \A k \in 1..Len(s) + n :
             (s \o part)[k] = IF k <= Len(s) THEN s[k] ELSE part[k - Len(s)]
  BY <1>1, ConcatProperties
<1>3. Len(s) \in Nat
  OBVIOUS
<1>4. ASSUME NEW k \in Len(s) + 1..Len(s) + n
      PROVE  (s \o part)[k] = t[k - Len(s)]
  BY <1>1, <1>2, <1>3
<1>5. ASSUME NEW k \in 1..Len(s)
      PROVE  (s \o part)[k] = s[k]
  BY <1>2, <1>3
<1>6. QED  BY <1>2, <1>4, <1>5 DEF part

\* How many rows of a group a page takes, and what it then shows; the other rows are
\* counted.
Taken(page, g) ==
    IF Len(g) > maxRowsPerPage - Len(page.rows) THEN maxRowsPerPage - Len(page.rows) ELSE Len(g)

LEMMA AddGroupCuts ==
    ASSUME NEW page \in Shown, NEW g \in Seq(Row)
    PROVE  /\ Taken(page, g) \in 0..Len(g)
           /\ addGroup(page, g).rows = page.rows \o SubSeq(g, 1, Taken(page, g))
           /\ addGroup(page, g).overflow = page.overflow + (Len(g) - Taken(page, g))
<1> DEFINE room == maxRowsPerPage - Len(page.rows)
<1>1. page.rows \in Seq(Row) /\ page.overflow \in Nat /\ room \in Nat
  BY ViewAssumption DEF Shown
<1>2. CASE Len(g) > room
  <2> DEFINE cut == page.rows \o SubSeq(g, 1, room)
             count == page.overflow + Len(g) - room
  <2>1. addGroup(page, g) = [rows |-> cut, overflow |-> count]
    BY <1>2 DEF addGroup
  <2>2. count = page.overflow + (Len(g) - room)
    BY <1>1
  <2>3. Taken(page, g) = room
    BY <1>2 DEF Taken
  <2>4. Len(g) \in Nat
    OBVIOUS
  <2>5. room \in 0..Len(g)
    <3> HIDE DEF room
    <3> QED  BY <1>1, <1>2, <2>4
  <2>6. addGroup(page, g).rows = cut /\ addGroup(page, g).overflow = count
    <3> HIDE DEF cut, count
    <3> QED  BY <2>1
  <2> HIDE DEF room
  <2>7. QED  BY <2>2, <2>3, <2>5, <2>6
<1>3. CASE ~(Len(g) > room)
  <2>1. addGroup(page, g) = [rows |-> page.rows \o g, overflow |-> page.overflow]
    BY <1>3 DEF addGroup
  <2>2. SubSeq(g, 1, Len(g)) = g
    OBVIOUS
  <2>3. page.overflow = page.overflow + (Len(g) - Len(g))
    BY <1>1
  <2>4. QED  BY <1>1, <1>3, <2>1, <2>2, <2>3 DEF Taken
<1>4. QED  BY <1>2, <1>3

Roots(rows) == {k \in DOMAIN rows : rows[k].depth = 0}

\* The rows of one tree: the root, then rows that are further in.
IsGroup(g) == g \in Seq(Row) /\ g # <<>> /\ Roots(g) = {1}

\* A group adds its root to a page, at its end, if anything.
LEMMA AddGroupRoots ==
    ASSUME NEW page \in Shown, NEW g, IsGroup(g)
    PROVE  /\ Roots(page.rows) \subseteq Roots(addGroup(page, g).rows)
           /\ Roots(addGroup(page, g).rows) \subseteq Roots(page.rows) \union {Len(page.rows) + 1}
           /\ page.rows = <<>> => /\ addGroup(page, g).rows # <<>>
                                  /\ Roots(addGroup(page, g).rows) = {1}
           /\ page.rows # <<>> => addGroup(page, g).rows # <<>>
<1> DEFINE old == page.rows
           n == Taken(page, g)
           new == old \o SubSeq(g, 1, n)
<1>1. g \in Seq(Row) /\ g # <<>> /\ Len(g) > 0 /\ Roots(g) = {1}
  BY DEF IsGroup
<1>2. n \in 0..Len(g) /\ addGroup(page, g).rows = new
  BY <1>1, AddGroupCuts
<1>3. old \in Seq(Row) /\ Len(old) \in Nat /\ DOMAIN old = 1..Len(old)
  BY DEF Shown
<1>4. Len(old) = 0 => n >= 1
  BY <1>1, ViewAssumption DEF Taken
<1> HIDE DEF n
<1>5. /\ new \in Seq(Row)
      /\ Len(new) = Len(old) + n /\ DOMAIN new = 1..Len(old) + n
      /\ n \in Nat /\ n <= Len(g)
      /\ \A k \in 1..Len(old) : new[k] = old[k]
      /\ \A k \in Len(old) + 1..Len(old) + n : new[k] = g[k - Len(old)]
  <2>1. new \in Seq(Row) /\ Len(new) = Len(old) + n
    <3>1. g \in Seq(Row) /\ old \in Seq(Row) /\ n \in 0..Len(g)
      BY <1>1, <1>2, <1>3
    <3> HIDE DEF old
    <3>2. QED  BY <3>1, PrefixAdded, Zenon
  <2>2. /\ \A k \in 1..Len(old) : new[k] = old[k]
        /\ \A k \in Len(old) + 1..Len(old) + n : new[k] = g[k - Len(old)]
    BY <1>1, <1>2, <1>3, PrefixAdded
  <2> HIDE DEF new
  <2>3. DOMAIN new = 1..Len(old) + n
    BY <2>1
  <2>4. QED  BY <1>1, <1>2, <2>1, <2>2, <2>3
<1> HIDE DEF new
<1>6. Roots(old) \subseteq Roots(new)
  BY <1>3, <1>5 DEF Roots
<1>7. ASSUME NEW k \in Roots(new), k \notin Roots(old)
      PROVE  k = Len(old) + 1
  <2>1. k \in 1..Len(old) + n /\ new[k].depth = 0
    BY <1>3, <1>5 DEF Roots
  <2>2. k \notin 1..Len(old)
    BY <1>3, <1>5, <1>7, <2>1 DEF Roots
  <2>3. k - Len(old) \in 1..Len(g) /\ g[k - Len(old)].depth = 0
    BY <1>1, <1>3, <1>5, <2>1, <2>2
  <2>4. k - Len(old) \in Roots(g)
    BY <1>1, <2>3 DEF Roots
  <2>5. QED  BY <1>1, <1>3, <2>1, <2>4
<1>8. ASSUME old = <<>>
      PROVE  new # <<>> /\ Roots(new) = {1}
  <2>1. Len(old) = 0 /\ n >= 1
    BY <1>4, <1>8
  <2>2. 1 \in Roots(new)
    <3>1. 1 \in DOMAIN new /\ 1 \in Len(old) + 1..Len(old) + n /\ 1 - Len(old) = 1
      BY <1>5, <2>1
    <3>2. new[1] = g[1]
      BY <1>5, <3>1
    <3>3. g[1].depth = 0
      BY <1>1 DEF Roots
    <3>4. QED  BY <3>1, <3>2, <3>3 DEF Roots
  <2>3. Roots(old) = {}
    BY <1>8 DEF Roots
  <2>4. QED  BY <1>5, <1>7, <2>1, <2>2, <2>3
<1>9. old # <<>> => new # <<>>
  <2>1. old # <<>> => Len(old) > 0
    BY <1>3
  <2>2. QED  BY <1>3, <1>5, <2>1
<1>10. QED  BY <1>2, <1>6, <1>7, <1>8, <1>9 DEF new

\* A page is what its groups add, one after the other.
LEMMA FillingStep ==
    ASSUME NEW groups \in Seq(Seq(Row)), NEW first \in 1..Len(groups)
    PROVE  /\ filling(groups, first)[first] = addGroup(NothingShown, groups[first])
           /\ \A i \in first..Len(groups) - 1 :
                  filling(groups, first)[i + 1] =
                      addGroup(filling(groups, first)[i], groups[i + 1])
           /\ \A i \in first..Len(groups) : filling(groups, first)[i] \in Shown
<1> DEFINE f == filling(groups, first)
<1>1. /\ f = [i \in first - 1..Len(groups) |->
                IF i = first - 1 THEN NothingShown ELSE addGroup(f[i - 1], groups[i])]
      /\ \A i \in first - 1..Len(groups) : f[i] \in Shown
  BY FillingRuns
<1> HIDE DEF f
<1>2. f[first - 1] = NothingShown /\ f[first] = addGroup(f[first - 1], groups[first])
  BY <1>1
<1>3. ASSUME NEW i \in first..Len(groups) - 1
      PROVE  f[i + 1] = addGroup(f[i], groups[i + 1])
  <2>1. i + 1 \in first - 1..Len(groups) /\ i + 1 # first - 1 /\ (i + 1) - 1 = i
    OBVIOUS
  <2>2. f[i + 1] = addGroup(f[(i + 1) - 1], groups[i + 1])
    BY <1>1, <2>1
  <2>3. QED  BY <2>1, <2>2
<1>4. \A i \in first..Len(groups) : f[i] \in Shown
  BY <1>1
<1>5. QED  BY <1>2, <1>3, <1>4 DEF f

\* A page of n trees: it begins with a root and has n at most.
Begun(rows, n) ==
    /\ rows # <<>>
    /\ 1 \in Roots(rows)
    /\ IsFiniteSet(Roots(rows)) /\ Cardinality(Roots(rows)) <= n
    /\ n = 1 => Roots(rows) = {1}

\* A page filled from the groups of a listing begins as one.
LEMMA FilledPageBegins ==
    ASSUME NEW groups \in Seq(Seq(Row)), \A n \in 1..Len(groups) : IsGroup(groups[n]),
           NEW first \in 1..Len(groups)
    PROVE  \A i \in first..Len(groups) : Begun(filling(groups, first)[i].rows, i - first + 1)
<1> DEFINE f == filling(groups, first)
           good == {i \in first..Len(groups) : Begun(f[i].rows, i - first + 1)}
<1>1. /\ f[first] = addGroup(NothingShown, groups[first])
      /\ \A i \in first..Len(groups) - 1 : f[i + 1] = addGroup(f[i], groups[i + 1])
      /\ \A i \in first..Len(groups) : f[i] \in Shown
  BY FillingStep
<1> HIDE DEF f
<1>2. first \in good
  <2>1. NothingShown \in Shown /\ NothingShown.rows = <<>>
    BY ViewAssumption DEF Shown, NothingShown
  <2>2. f[first].rows # <<>> /\ Roots(f[first].rows) = {1}
    <3>1. IsGroup(groups[first])
      OBVIOUS
    <3>2. /\ addGroup(NothingShown, groups[first]).rows # <<>>
          /\ Roots(addGroup(NothingShown, groups[first]).rows) = {1}
      BY <2>1, <3>1, AddGroupRoots
    <3>3. QED  BY <1>1, <3>2
  <2>3. IsFiniteSet({1}) /\ Cardinality({1}) = 1
    BY FS_Singleton
  <2>4. first - first + 1 = 1
    OBVIOUS
  <2>5. Begun(f[first].rows, 1)
    BY <2>2, <2>3 DEF Begun
  <2>6. QED  BY <2>4, <2>5
<1>3. ASSUME NEW i \in first..Len(groups) - 1, i \in good
      PROVE  i + 1 \in good
  <2> DEFINE old == f[i].rows
             new == f[i + 1].rows
             n == i - first + 1
  <2>1. Begun(old, n) /\ n \in Nat \ {0} /\ f[i] \in Shown /\ IsGroup(groups[i + 1])
    BY <1>1, <1>3
  <2>2. /\ Roots(old) \subseteq Roots(new)
        /\ Roots(new) \subseteq Roots(old) \union {Len(old) + 1}
        /\ new # <<>>
    BY <1>1, <2>1, AddGroupRoots DEF Begun
  <2> HIDE DEF old, new
  <2>3. /\ IsFiniteSet(Roots(old) \union {Len(old) + 1})
        /\ Cardinality(Roots(old) \union {Len(old) + 1}) <= n + 1
    <3>1. IsFiniteSet(Roots(old)) /\ Cardinality(Roots(old)) <= n
      BY <2>1 DEF Begun
    <3>2. Cardinality(Roots(old)) \in Nat
      BY <3>1, FS_CardinalityType
    <3>3. /\ IsFiniteSet(Roots(old) \union {Len(old) + 1})
          /\ Cardinality(Roots(old) \union {Len(old) + 1})
                 \in {Cardinality(Roots(old)), Cardinality(Roots(old)) + 1}
      BY <3>1, FS_AddElement
    <3>4. QED  BY <2>1, <3>1, <3>2, <3>3, SMTT(20)
  <2>4. IsFiniteSet(Roots(new)) /\ Cardinality(Roots(new)) <= n + 1
    <3>1. /\ IsFiniteSet(Roots(new))
          /\ Cardinality(Roots(new)) <= Cardinality(Roots(old) \union {Len(old) + 1})
      BY <2>2, <2>3, FS_Subset
    <3>2. Cardinality(Roots(new)) \in Nat /\ Cardinality(Roots(old) \union {Len(old) + 1}) \in Nat
      BY <2>3, <3>1, FS_CardinalityType
    <3>3. QED  BY <2>1, <2>3, <3>1, <3>2
  <2>5. 1 \in Roots(new)
    BY <2>1, <2>2 DEF Begun
  <2>6. Begun(new, n + 1)
    BY <2>1, <2>2, <2>4, <2>5 DEF Begun
  <2>7. n + 1 = (i + 1) - first + 1 /\ i + 1 \in first..Len(groups)
    OBVIOUS
  <2>8. QED  BY <2>6, <2>7 DEF new
<1>4. first \in Int /\ Len(groups) \in Int
  OBVIOUS
<1> HIDE DEF good
<1>5. first..Len(groups) \subseteq good
  BY <1>2, <1>3, <1>4, Induct
<1>6. QED  BY <1>5 DEF good, f

\* A page that pageBreaks has closed, or has at hand, holds the groups from first to
\* last: it is one group, or so few that each was added whole.
PageOf(groups, first, last) ==
    \/ first = last
    \/ last - first < maxRootsPerPage /\ filling(groups, first)[last].overflow = 0

IsBreaks(breaks, n) ==
    /\ breaks \in Seq(Nat) /\ breaks # <<>>
    /\ breaks[1] = 1
    /\ breaks[Len(breaks)] \in 1..n
    /\ \A p \in 1..Len(breaks) - 1 : breaks[p] \in 1..n /\ breaks[p] < breaks[p + 1]

\* What the loop of pageBreaks knows after n groups: every page it closed fits, and
\* the one at hand counts what Paginate will put on it.
PlacedWell(groups, n) ==
    LET acc == placing(groups)[n]
        first == acc.breaks[Len(acc.breaks)]
    IN  /\ IsBreaks(acc.breaks, n)
        /\ \A p \in 1..Len(acc.breaks) - 1 :
               PageOf(groups, acc.breaks[p], acc.breaks[p + 1] - 1)
        /\ \/ first = n /\ acc.roots = maxRootsPerPage
           \/ /\ acc.roots = n - first + 1 /\ acc.roots <= maxRootsPerPage
              /\ filling(groups, first)[n].overflow = 0
              /\ acc.rows = Len(filling(groups, first)[n].rows)

\* A group there is room for is added whole.
LEMMA AddGroupWhole ==
    ASSUME NEW page \in Shown, NEW g \in Seq(Row),
           Len(page.rows) + Len(g) <= maxRowsPerPage
    PROVE  /\ addGroup(page, g).overflow = page.overflow
           /\ Len(addGroup(page, g).rows) = Len(page.rows) + Len(g)
<1>1. /\ page.rows \in Seq(Row) /\ page.overflow \in Nat /\ Len(page.rows) \in Nat
      /\ Len(g) \in Nat
  BY DEF Shown
<1>2. ~(Len(g) > maxRowsPerPage - Len(page.rows))
  BY <1>1, ViewAssumption
<1>3. addGroup(page, g) = [rows |-> page.rows \o g, overflow |-> page.overflow]
  BY <1>2 DEF addGroup
<1>4. Len(page.rows \o g) = Len(page.rows) + Len(g)
  BY <1>1
<1>5. QED  BY <1>3, <1>4

\* Another group on the page at hand, or on a new one.
LEMMA BreaksGrow ==
    ASSUME NEW n \in Nat, NEW breaks, IsBreaks(breaks, n)
    PROVE  /\ IsBreaks(breaks, n + 1)
           /\ IsBreaks(Append(breaks, n + 1), n + 1)
           /\ Len(Append(breaks, n + 1)) = Len(breaks) + 1
           /\ Append(breaks, n + 1)[Len(breaks) + 1] = n + 1
           /\ \A p \in 1..Len(breaks) : Append(breaks, n + 1)[p] = breaks[p]
<1> DEFINE more == Append(breaks, n + 1)
<1>1. /\ breaks \in Seq(Nat) /\ breaks # <<>> /\ Len(breaks) \in Nat \ {0}
      /\ breaks[1] = 1
      /\ breaks[Len(breaks)] \in 1..n
      /\ \A p \in 1..Len(breaks) - 1 : breaks[p] \in 1..n /\ breaks[p] < breaks[p + 1]
  BY DEF IsBreaks
<1>2. /\ more \in Seq(Nat) /\ more # <<>>
      /\ Len(more) = Len(breaks) + 1
      /\ more[Len(breaks) + 1] = n + 1
      /\ \A p \in 1..Len(breaks) : more[p] = breaks[p]
  BY <1>1, AppendProperties
<1> HIDE DEF more
<1>3. IsBreaks(breaks, n + 1)
  <2>1. breaks[Len(breaks)] \in 1..n + 1
    BY <1>1
  <2>2. \A p \in 1..Len(breaks) - 1 : breaks[p] \in 1..n + 1
    BY <1>1
  <2>3. QED  BY <1>1, <2>1, <2>2 DEF IsBreaks
<1>4. IsBreaks(more, n + 1)
  <2>1. more[1] = 1 /\ more[Len(more)] \in 1..n + 1
    <3>1. 1 \in 1..Len(breaks) /\ n + 1 \in 1..n + 1
      BY <1>1
    <3>2. QED  BY <1>1, <1>2, <3>1
  <2>2. ASSUME NEW p \in 1..Len(more) - 1
        PROVE  more[p] \in 1..n + 1 /\ more[p] < more[p + 1]
    <3>1. p \in 1..Len(breaks) /\ more[p] = breaks[p]
      BY <1>1, <1>2
    <3>2. CASE p = Len(breaks)
      BY <1>1, <1>2, <3>1, <3>2
    <3>3. CASE p # Len(breaks)
      <4>1. p \in 1..Len(breaks) - 1 /\ p + 1 \in 1..Len(breaks)
        BY <1>1, <3>1, <3>3
      <4>2. more[p + 1] = breaks[p + 1]
        BY <1>2, <4>1
      <4>3. breaks[p] \in 1..n /\ breaks[p] < breaks[p + 1]
        BY <1>1, <4>1
      <4>4. QED  BY <3>1, <4>2, <4>3
    <3>4. QED  BY <3>2, <3>3
  <2>3. QED  BY <1>2, <2>1, <2>2 DEF IsBreaks
<1>5. QED  BY <1>2, <1>3, <1>4 DEF more

\* The first group is placed well ...
LEMMA FirstPlaced ==
    ASSUME NEW groups \in Seq(Seq(Row)), groups # <<>>
    PROVE  PlacedWell(groups, 1)
<1> DEFINE g == groups[1]
           acc == placing(groups)[1]
           page == filling(groups, 1)[1]
<1>1. 1 \in 0..Len(groups) /\ 1 \in 1..Len(groups) /\ g \in Seq(Row) /\ Len(g) \in Nat
  OBVIOUS
<1>2. placing(groups) = [i \in 0..Len(groups) |->
                   IF i = 0 THEN NothingPlaced
                   ELSE placeGroup(placing(groups)[i - 1], i, Len(groups[i]))]
  BY PlacingRuns
<1> DEFINE f == placing(groups)
<1>3. acc = placeGroup(NothingPlaced, 1, Len(g))
  <2>1. f[0] = NothingPlaced /\ f[1] = placeGroup(f[1 - 1], 1, Len(groups[1])) /\ 1 - 1 = 0
    <3> HIDE DEF f
    <3>1. f = [i \in 0..Len(groups) |->
                   IF i = 0 THEN NothingPlaced
                   ELSE placeGroup(f[i - 1], i, Len(groups[i]))]
      BY <1>2 DEF f
    <3>2. 0 \in 0..Len(groups)
      OBVIOUS
    <3>3. QED  BY <1>1, <3>1, <3>2
  <2>2. QED  BY <2>1
<1>4. page = addGroup(NothingShown, g)
  BY <1>1, FillingStep
<1>5. /\ acc.breaks = <<1>>
      /\ acc.roots = IF Len(g) > maxRowsPerPage THEN maxRootsPerPage ELSE 1
      /\ Len(g) <= maxRowsPerPage => acc.rows = Len(g)
  BY <1>1, <1>3, ViewAssumption DEF placeGroup, NothingPlaced
<1>6. IsBreaks(acc.breaks, 1)
  BY <1>5 DEF IsBreaks
<1>7. CASE Len(g) > maxRowsPerPage
  BY <1>5, <1>6, <1>7 DEF PlacedWell
<1>8. CASE Len(g) <= maxRowsPerPage
  <2>1. NothingShown \in Shown /\ NothingShown.rows = <<>> /\ NothingShown.overflow = 0
    BY ViewAssumption DEF Shown, NothingShown
  <2>2. page.overflow = 0 /\ Len(page.rows) = Len(g)
    <3>1. Len(NothingShown.rows) = 0 /\ Len(NothingShown.rows) + Len(g) <= maxRowsPerPage
      BY <1>1, <1>8, <2>1
    <3>2. /\ addGroup(NothingShown, g).overflow = NothingShown.overflow
          /\ Len(addGroup(NothingShown, g).rows) = Len(NothingShown.rows) + Len(g)
      BY <1>1, <2>1, <3>1, AddGroupWhole
    <3>3. QED  BY <1>1, <1>4, <2>1, <3>1, <3>2
  <2>3. acc.roots = 1 - 1 + 1 /\ acc.roots <= maxRootsPerPage /\ acc.rows = Len(page.rows)
    BY <1>5, <1>8, <2>2, ViewAssumption
  <2>4. Len(acc.breaks) = 1 /\ acc.breaks[1] = 1
    BY <1>5
  <2>5. QED  BY <1>6, <2>2, <2>3, <2>4 DEF PlacedWell
<1>9. QED  BY <1>1, <1>7, <1>8, ViewAssumption

\* ... a group after groups that were is placed well ...
LEMMA NextPlaced ==
    ASSUME NEW groups \in Seq(Seq(Row)), NEW n \in 1..Len(groups) - 1, PlacedWell(groups, n)
    PROVE  PlacedWell(groups, n + 1)
<1> DEFINE g == groups[n + 1]
           old == placing(groups)[n]
           new == placing(groups)[n + 1]
           last == old.breaks[Len(old.breaks)]
           full == Len(g) > maxRowsPerPage
           fits == old.roots < maxRootsPerPage /\ old.rows + Len(g) <= maxRowsPerPage
           turn == ~fits \/ full
           shown == filling(groups, last)[n]
<1>1. n + 1 \in 1..Len(groups) /\ g \in Seq(Row) /\ Len(g) \in Nat /\ n \in Nat \ {0}
  OBVIOUS
<1>2. new = placeGroup(old, n + 1, Len(g))
  <2> DEFINE f == placing(groups)
  <2>1. f = [i \in 0..Len(groups) |->
                 IF i = 0 THEN NothingPlaced ELSE placeGroup(f[i - 1], i, Len(groups[i]))]
    BY PlacingRuns
  <2> HIDE DEF f
  <2>2. n + 1 \in 0..Len(groups) /\ n + 1 # 0 /\ (n + 1) - 1 = n
    BY <1>1
  <2>3. f[n + 1] = placeGroup(f[(n + 1) - 1], n + 1, Len(groups[n + 1]))
    BY <2>1, <2>2
  <2>4. QED  BY <2>2, <2>3 DEF f
<1>3. /\ new.breaks = IF turn THEN Append(old.breaks, n + 1) ELSE old.breaks
      /\ new.roots = IF full THEN maxRootsPerPage ELSE 1 + IF turn THEN 0 ELSE old.roots
      /\ new.rows = IF full THEN maxRowsPerPage ELSE Len(g) + IF turn THEN 0 ELSE old.rows
  BY <1>1, <1>2 DEF placeGroup
<1>4. /\ IsBreaks(old.breaks, n)
      /\ \A p \in 1..Len(old.breaks) - 1 :
             PageOf(groups, old.breaks[p], old.breaks[p + 1] - 1)
      /\ \/ last = n /\ old.roots = maxRootsPerPage
         \/ /\ old.roots = n - last + 1 /\ old.roots <= maxRootsPerPage
            /\ shown.overflow = 0
            /\ old.rows = Len(shown.rows)
  BY DEF PlacedWell
<1>5. last \in 1..n /\ last \in 1..Len(groups) - 1 /\ n \in last..Len(groups) - 1
  BY <1>4 DEF IsBreaks
<1> HIDE DEF old, new, last, shown, g
<1>6. PageOf(groups, last, n)
  <2>1. CASE last = n
    BY <2>1 DEF PageOf
  <2>2. CASE /\ old.roots = n - last + 1 /\ old.roots <= maxRootsPerPage
             /\ shown.overflow = 0
    <3>1. n - last < maxRootsPerPage
      BY <1>1, <1>5, <2>2, ViewAssumption
    <3>2. QED  BY <2>2, <3>1 DEF PageOf, shown
  <2>3. QED  BY <1>4, <2>1, <2>2
<1>7. CASE turn
  <2>1. new.breaks = Append(old.breaks, n + 1)
    BY <1>3, <1>7
  <2>2. IsBreaks(new.breaks, n + 1) /\ Len(new.breaks) = Len(old.breaks) + 1
        /\ new.breaks[Len(new.breaks)] = n + 1
        /\ \A p \in 1..Len(old.breaks) : new.breaks[p] = old.breaks[p]
    <3> DEFINE before == old.breaks
               more == Append(old.breaks, n + 1)
    <3>1. /\ IsBreaks(more, n + 1)
          /\ Len(more) = Len(old.breaks) + 1
          /\ more[Len(old.breaks) + 1] = n + 1
          /\ \A p \in 1..Len(old.breaks) : more[p] = old.breaks[p]
      <4>1. IsBreaks(before, n) /\ n \in Nat
        BY <1>4
      <4> HIDE DEF before
      <4>2. /\ IsBreaks(Append(before, n + 1), n + 1)
            /\ Len(Append(before, n + 1)) = Len(before) + 1
            /\ Append(before, n + 1)[Len(before) + 1] = n + 1
            /\ \A p \in 1..Len(before) : Append(before, n + 1)[p] = before[p]
        BY <4>1, BreaksGrow
      <4>3. QED  BY <4>2 DEF before
    <3> HIDE DEF before
    <3> HIDE DEF more
    <3>2. new.breaks = more
      BY <2>1 DEF more
    <3>3. QED  BY <3>1, <3>2
  <2>3. \A p \in 1..Len(new.breaks) - 1 : PageOf(groups, new.breaks[p], new.breaks[p + 1] - 1)
    <3> TAKE p \in 1..Len(new.breaks) - 1
    <3>1. Len(old.breaks) \in Nat
      BY <1>4 DEF IsBreaks
    <3>2. CASE p = Len(old.breaks)
      <4>1. new.breaks[p + 1] = n + 1 /\ (n + 1) - 1 = n
        BY <1>1, <2>2, <3>2
      <4>2. p \in 1..Len(old.breaks)
        BY <2>2, <3>1
      <4>3. new.breaks[p] = last
        BY <2>2, <3>2, <4>2 DEF last
      <4>4. QED  BY <1>6, <4>1, <4>3
    <3>3. CASE p # Len(old.breaks)
      <4>1. p \in 1..Len(old.breaks) - 1 /\ p \in 1..Len(old.breaks)
            /\ p + 1 \in 1..Len(old.breaks)
        BY <2>2, <3>1, <3>3
      <4>2. new.breaks[p] = old.breaks[p] /\ new.breaks[p + 1] = old.breaks[p + 1]
        BY <2>2, <4>1
      <4>3. QED  BY <1>4, <4>1, <4>2
    <3>4. QED  BY <3>2, <3>3
  <2> DEFINE page == filling(groups, n + 1)[n + 1]
  <2>4. CASE full
    BY <1>3, <2>2, <2>3, <2>4 DEF PlacedWell, new
  <2>5. CASE ~full
    <3>1. page = addGroup(NothingShown, g)
      BY <1>1, FillingStep DEF g
    <3>2. NothingShown \in Shown /\ NothingShown.rows = <<>> /\ NothingShown.overflow = 0
      BY ViewAssumption DEF Shown, NothingShown
    <3>3. Len(NothingShown.rows) = 0 /\ Len(NothingShown.rows) + Len(g) <= maxRowsPerPage
      BY <1>1, <2>5, <3>2, ViewAssumption
    <3>4. page.overflow = 0 /\ Len(page.rows) = Len(g)
      <4>1. /\ addGroup(NothingShown, g).overflow = NothingShown.overflow
            /\ Len(addGroup(NothingShown, g).rows) = Len(NothingShown.rows) + Len(g)
        BY <1>1, <3>2, <3>3, AddGroupWhole
      <4>2. QED  BY <1>1, <3>1, <3>2, <3>3, <4>1
    <3>5. /\ new.roots = (n + 1) - (n + 1) + 1 /\ new.roots <= maxRootsPerPage
          /\ new.rows = Len(page.rows)
      BY <1>1, <1>3, <1>7, <2>5, <3>4, ViewAssumption
    <3>6. QED  BY <2>2, <2>3, <3>4, <3>5 DEF PlacedWell, new
  <2>6. QED  BY <2>4, <2>5
<1>8. CASE ~turn
  <2>1. new.breaks = old.breaks /\ new.roots = 1 + old.roots /\ new.rows = Len(g) + old.rows
    BY <1>3, <1>8
  <2>2. /\ old.roots = n - last + 1 /\ old.roots < maxRootsPerPage
        /\ shown.overflow = 0
        /\ old.rows = Len(shown.rows)
        /\ Len(shown.rows) + Len(g) <= maxRowsPerPage
    <3>1. old.roots < maxRootsPerPage /\ old.rows + Len(g) <= maxRowsPerPage
      BY <1>8
    <3>2. ~(old.roots = maxRootsPerPage)
      BY <3>1, ViewAssumption
    <3>3. QED  BY <1>4, <3>1, <3>2
  <2> DEFINE page == filling(groups, last)[n + 1]
  <2>3. page = addGroup(shown, g) /\ shown \in Shown
    <3>1. n \in last..Len(groups) /\ last \in 1..Len(groups)
      BY <1>1, <1>5
    <3>2. /\ \A i \in last..Len(groups) - 1 :
                 filling(groups, last)[i + 1] = addGroup(filling(groups, last)[i], groups[i + 1])
          /\ \A i \in last..Len(groups) : filling(groups, last)[i] \in Shown
      BY <3>1, FillingStep
    <3>3. QED  BY <1>5, <3>1, <3>2 DEF g, shown
  <2>4. page.overflow = 0 /\ Len(page.rows) = Len(shown.rows) + Len(g)
    BY <1>1, <2>2, <2>3, AddGroupWhole
  <2> HIDE DEF page
  <2>5. Len(shown.rows) \in Nat
    BY <2>3 DEF Shown
  <2>6. /\ new.roots = (n + 1) - last + 1 /\ new.roots <= maxRootsPerPage
        /\ new.rows = Len(page.rows)
    BY <1>1, <1>5, <2>1, <2>2, <2>4, <2>5, ViewAssumption
  <2>7. IsBreaks(new.breaks, n + 1)
    BY <1>1, <1>4, <2>1, BreaksGrow
  <2>8. new.breaks[Len(new.breaks)] = last
    BY <2>1 DEF last
  <2>9. \A p \in 1..Len(new.breaks) - 1 : PageOf(groups, new.breaks[p], new.breaks[p + 1] - 1)
    BY <1>4, <2>1
  <2>10. QED  BY <2>4, <2>6, <2>7, <2>8, <2>9 DEF PlacedWell, new, page
<1>9. QED  BY <1>7, <1>8

\* ... so all are.
LEMMA AllPlaced ==
    ASSUME NEW groups \in Seq(Seq(Row)), groups # <<>>
    PROVE  PlacedWell(groups, Len(groups))
<1> DEFINE good == {n \in Nat : PlacedWell(groups, n)}
<1>1. Len(groups) \in Nat \ {0}
  OBVIOUS
<1>2. 1 \in good
  BY FirstPlaced
<1>3. ASSUME NEW n \in 1..Len(groups) - 1, n \in good
      PROVE  n + 1 \in good
  BY <1>3, NextPlaced
<1>4. Len(groups) \in 1..Len(groups) /\ Len(groups) \in Int /\ 1 \in Int
  BY <1>1
<1> HIDE DEF good
<1>5. 1..Len(groups) \subseteq good
  <2> DEFINE total == Len(groups)
  <2>1. total \in Int /\ \A n \in 1..total - 1 : n \in good => n + 1 \in good
    BY <1>3, <1>4
  <2> HIDE DEF total
  <2>2. 1..total \subseteq good
    BY <1>2, <1>4, <2>1, Induct
  <2>3. QED  BY <2>2 DEF total
<1>6. QED  BY <1>4, <1>5 DEF good

\* What Paginate may make of any groups and any number of a page.
Fits(page) ==
    LET roots == Roots(page.rows)
    IN  /\ Len(page.rows) <= maxRowsPerPage
        /\ Cardinality(roots) <= maxRootsPerPage
        /\ page.rows # <<>> => 1 \in roots
        /\ page.overflow > 0 => roots = {1}
        /\ page.count > 0 => page.rows # <<>> /\ page.index < page.count

\* Where a page starts and ends: pages follow one another and cover the groups.
FirstOf(groups, index) == pageBreaks(groups)[index + 1]

LastOf(groups, index) ==
    IF index + 1 < Len(pageBreaks(groups)) THEN FirstOf(groups, index + 1) - 1 ELSE Len(groups)

LEMMA PagesCover ==
    ASSUME NEW groups \in Seq(Seq(Row)), groups # <<>>
    PROVE  /\ Len(pageBreaks(groups)) \in Nat \ {0}
           /\ FirstOf(groups, 0) = 1
           /\ \A index \in 0..Len(pageBreaks(groups)) - 1 :
                  /\ FirstOf(groups, index) \in 1..Len(groups)
                  /\ LastOf(groups, index) \in FirstOf(groups, index)..Len(groups)
                  /\ PageOf(groups, FirstOf(groups, index), LastOf(groups, index))
           /\ LastOf(groups, Len(pageBreaks(groups)) - 1) = Len(groups)
           /\ \A index \in 0..Len(pageBreaks(groups)) - 2 :
                  FirstOf(groups, index + 1) = LastOf(groups, index) + 1
<1> DEFINE breaks == pageBreaks(groups)
           total == Len(groups)
<1>1. breaks = placing(groups)[total].breaks
  BY DEF pageBreaks
<1>2. total \in Nat \ {0}
  OBVIOUS
<1>3. PlacedWell(groups, total)
  BY AllPlaced
<1>4. /\ IsBreaks(breaks, total)
      /\ \A p \in 1..Len(breaks) - 1 : PageOf(groups, breaks[p], breaks[p + 1] - 1)
      /\ \/ breaks[Len(breaks)] = total
         \/ /\ placing(groups)[total].roots = total - breaks[Len(breaks)] + 1
            /\ placing(groups)[total].roots <= maxRootsPerPage
            /\ filling(groups, breaks[Len(breaks)])[total].overflow = 0
  BY <1>1, <1>3 DEF PlacedWell
<1> HIDE DEF breaks
<1>5. /\ breaks \in Seq(Nat) /\ Len(breaks) \in Nat \ {0}
      /\ breaks[1] = 1
      /\ breaks[Len(breaks)] \in 1..total
      /\ \A p \in 1..Len(breaks) - 1 : breaks[p] \in 1..total /\ breaks[p] < breaks[p + 1]
  BY <1>4 DEF IsBreaks
<1>6. PageOf(groups, breaks[Len(breaks)], total)
  <2>1. CASE breaks[Len(breaks)] = total
    BY <2>1 DEF PageOf
  <2>2. CASE /\ placing(groups)[total].roots = total - breaks[Len(breaks)] + 1
             /\ placing(groups)[total].roots <= maxRootsPerPage
             /\ filling(groups, breaks[Len(breaks)])[total].overflow = 0
    <3>1. total - breaks[Len(breaks)] < maxRootsPerPage
      BY <1>2, <1>5, <2>2, ViewAssumption
    <3>2. QED  BY <2>2, <3>1 DEF PageOf
  <2>3. QED  BY <1>4, <2>1, <2>2
<1>7. ASSUME NEW index \in 0..Len(breaks) - 1
      PROVE  /\ FirstOf(groups, index) \in 1..total
             /\ LastOf(groups, index) \in FirstOf(groups, index)..total
             /\ PageOf(groups, FirstOf(groups, index), LastOf(groups, index))
  <2>1. FirstOf(groups, index) = breaks[index + 1]
    BY DEF FirstOf, breaks
  <2>2. CASE index + 1 < Len(breaks)
    <3>1. LastOf(groups, index) = breaks[index + 2] - 1
      BY <2>2 DEF LastOf, FirstOf, breaks
    <3>2. index + 1 \in 1..Len(breaks) - 1 /\ (index + 1) + 1 = index + 2
      BY <1>5, <2>2
    <3>3. /\ breaks[index + 1] \in 1..total /\ breaks[index + 1] < breaks[index + 2]
          /\ PageOf(groups, breaks[index + 1], breaks[index + 2] - 1)
      BY <1>4, <1>5, <3>2
    <3>4. breaks[index + 2] \in 1..total
      <4>1. CASE index + 2 = Len(breaks)
        BY <1>5, <4>1
      <4>2. CASE index + 2 # Len(breaks)
        <5>1. index + 2 \in 1..Len(breaks) - 1
          BY <1>5, <2>2, <4>2
        <5>2. QED  BY <1>5, <5>1
      <4>3. QED  BY <4>1, <4>2
    <3> DEFINE here == breaks[index + 1]
               next == breaks[index + 2]
    <3> HIDE DEF here, next
    <3>5. here \in 1..total /\ next - 1 \in here..total
      <4>1. here \in 1..total /\ here < next /\ next \in 1..total
        BY <3>3, <3>4 DEF here, next
      <4>2. QED  BY <1>2, <4>1
    <3>6. QED  BY <2>1, <3>1, <3>3, <3>5 DEF here, next
  <2>3. CASE ~(index + 1 < Len(breaks))
    <3>1. index + 1 = Len(breaks)
      BY <1>5, <2>3
    <3>2. LastOf(groups, index) = total
      BY <2>3 DEF LastOf, breaks
    <3>3. QED  BY <1>2, <1>5, <1>6, <2>1, <3>1, <3>2
  <2>4. QED  BY <2>2, <2>3
<1>8. FirstOf(groups, 0) = 1
  BY <1>5 DEF FirstOf, breaks
<1>9. LastOf(groups, Len(breaks) - 1) = total
  BY <1>5 DEF LastOf, breaks
<1>10. \A index \in 0..Len(breaks) - 2 :
           FirstOf(groups, index + 1) = LastOf(groups, index) + 1
  <2> TAKE index \in 0..Len(breaks) - 2
  <2>1. index + 1 < Len(breaks) /\ index + 1 \in 0..Len(breaks) - 1
    BY <1>5
  <2>2. LastOf(groups, index) = FirstOf(groups, index + 1) - 1
    BY <2>1 DEF LastOf, breaks
  <2>3. FirstOf(groups, index + 1) \in 1..total
    BY <1>7, <2>1
  <2>4. QED  BY <1>2, <2>2, <2>3
<1>11. QED  BY <1>5, <1>7, <1>8, <1>9, <1>10 DEF breaks

\* The page that Paginate returns.
LEMMA PaginateIs ==
    ASSUME NEW groups \in Seq(Seq(Row)), groups # <<>>, NEW page \in Int
    PROVE  \E index \in 0..Len(pageBreaks(groups)) - 1 :
               /\ index = clampPage(page, Len(pageBreaks(groups)))
               /\ Paginate(groups, page) =
                      [rows |-> filling(groups, FirstOf(groups, index))[LastOf(groups, index)].rows,
                       index |-> index, count |-> Len(pageBreaks(groups)),
                       overflow |->
                           filling(groups, FirstOf(groups, index))[LastOf(groups, index)].overflow]
<1> DEFINE breaks == pageBreaks(groups)
           index == clampPage(page, Len(breaks))
<1>1. Len(breaks) \in Nat \ {0}
  BY PagesCover
<1>2. index \in 0..Len(breaks) - 1
  BY <1>1 DEF clampPage
<1>3. /\ FirstOf(groups, index) = breaks[index + 1]
      /\ LastOf(groups, index) =
             IF index + 1 < Len(breaks) THEN breaks[index + 2] - 1 ELSE Len(groups)
  <2> HIDE DEF index
  <2>1. (index + 1) + 1 = index + 2
    BY <1>1, <1>2
  <2>2. QED  BY <2>1 DEF FirstOf, LastOf
<1>4. Paginate(groups, page) =
          [rows |-> filling(groups, FirstOf(groups, index))[LastOf(groups, index)].rows,
           index |-> index, count |-> Len(breaks),
           overflow |-> filling(groups, FirstOf(groups, index))[LastOf(groups, index)].overflow]
  BY <1>3 DEF Paginate
<1> HIDE DEF index
<1>5. QED  BY <1>2, <1>4 DEF index

\* Whatever the groups and the page asked for, Paginate returns a page that fits.
LEMMA EveryPageFits ==
    ASSUME NEW groups \in Seq(Seq(Row)), \A n \in 1..Len(groups) : IsGroup(groups[n]),
           NEW page \in Int
    PROVE  Fits(Paginate(groups, page))
<1>1. CASE groups = <<>>
  <2>1. Paginate(groups, page) = NoPage
    BY <1>1 DEF Paginate
  <2>2. Roots(NoPage.rows) = {}
    BY DEF Roots, NoPage
  <2>3. Cardinality({}) = 0
    BY FS_EmptySet
  <2>4. /\ NoPage.rows = <<>> /\ Len(NoPage.rows) = 0
        /\ NoPage.count = 0 /\ NoPage.overflow = 0
    BY DEF NoPage
  <2>5. Fits(NoPage)
    BY <2>2, <2>3, <2>4, ViewAssumption DEF Fits
  <2>6. QED  BY <2>1, <2>5
<1>2. CASE groups # <<>>
  <2>1. PICK index \in 0..Len(pageBreaks(groups)) - 1 :
            Paginate(groups, page) =
                [rows |-> filling(groups, FirstOf(groups, index))[LastOf(groups, index)].rows,
                 index |-> index, count |-> Len(pageBreaks(groups)),
                 overflow |->
                     filling(groups, FirstOf(groups, index))[LastOf(groups, index)].overflow]
    BY <1>2, PaginateIs
  <2> DEFINE first == FirstOf(groups, index)
             last == LastOf(groups, index)
             shown == filling(groups, first)[last]
  <2>2. /\ first \in 1..Len(groups) /\ last \in first..Len(groups)
        /\ PageOf(groups, first, last)
        /\ Len(pageBreaks(groups)) \in Nat
    BY <1>2, PagesCover
  <2> HIDE DEF first, last
  <2>3. shown \in Shown
    BY <2>2, FillingStep
  <2>4. Begun(shown.rows, last - first + 1)
    BY <2>2, FilledPageBegins
  <2>5. \/ last - first + 1 = 1
        \/ last - first + 1 <= maxRootsPerPage /\ shown.overflow = 0
    BY <2>2, ViewAssumption DEF PageOf
  <2> HIDE DEF shown
  <2>6. Cardinality(Roots(shown.rows)) \in Nat
    BY <2>4, FS_CardinalityType DEF Begun
  <2>7. Cardinality(Roots(shown.rows)) <= maxRootsPerPage
    <3>1. Cardinality(Roots(shown.rows)) <= last - first + 1
      BY <2>4 DEF Begun
    <3>2. last - first + 1 \in Nat /\ last - first + 1 <= maxRootsPerPage
      BY <2>2, <2>5, ViewAssumption
    <3>3. QED  BY <2>6, <3>1, <3>2, ViewAssumption
  <2>8. shown.overflow > 0 => Roots(shown.rows) = {1}
    BY <2>3, <2>4, <2>5 DEF Begun
  <2>9. QED  BY <2>1, <2>2, <2>3, <2>4, <2>7, <2>8 DEF Fits, Begun, Shown, shown, first, last
<1>3. QED  BY <1>1, <1>2

-----------------------------------------------------------------------------
(***************************************************************************)
(* The walk over a tree.                                                   *)
(***************************************************************************)
Walk == [out: Seq(Row), ahead: Seq(Row)]

WalkFrom(id) == [out |-> <<>>, ahead |-> <<[task |-> id, depth |-> 0]>>]

\* The rows of the children of a task.
Under(forest, row) ==
    [k \in DOMAIN forest[row.task].kids |->
        [task |-> forest[row.task].kids[k], depth |-> row.depth + 1]]

LEMMA UnderIs ==
    ASSUME NEW forest, IsForest(forest), NEW row \in Row, row.task \in DOMAIN forest
    PROVE  /\ Under(forest, row) \in Seq(Row)
           /\ Len(Under(forest, row)) = Len(forest[row.task].kids)
           /\ \A k \in 1..Len(Under(forest, row)) :
                  /\ Under(forest, row)[k].depth # 0
                  /\ Under(forest, row)[k].task = forest[row.task].kids[k]
                  /\ Under(forest, row)[k].task \in Range(forest[row.task].kids)
<1> DEFINE kids == forest[row.task].kids
           under == Under(forest, row)
<1>1. kids \in Seq(Id) /\ DOMAIN kids = 1..Len(kids) /\ Len(kids) \in Nat
  BY DEF IsForest, Task
<1>2. row.depth \in Nat
  BY DEF Row
<1>3. under = [k \in 1..Len(kids) |-> [task |-> kids[k], depth |-> row.depth + 1]]
  BY <1>1 DEF Under
<1> HIDE DEF kids, under
<1>4. \A k \in 1..Len(kids) : [task |-> kids[k], depth |-> row.depth + 1] \in Row
  BY <1>1, <1>2 DEF Row
<1>5. under \in [1..Len(kids) -> Row]
  BY <1>3, <1>4
<1>6. under \in Seq(Row) /\ Len(under) = Len(kids)
  BY <1>1, <1>5, SeqDef
<1>7. ASSUME NEW k \in 1..Len(under)
      PROVE  under[k].depth # 0 /\ under[k].task = kids[k] /\ under[k].task \in Range(kids)
  <2>1. under[k].depth = row.depth + 1 /\ under[k].task = kids[k] /\ k \in DOMAIN kids
    BY <1>1, <1>3, <1>6
  <2>2. QED  BY <1>2, <2>1 DEF Range
<1>8. QED  BY <1>6, <1>7 DEF kids, under

\* The three cases of a call.
LEMMA VisitCases ==
    ASSUME NEW forest, IsForest(forest), NEW w \in Walk
    PROVE  \/ w.ahead = <<>> /\ visit(forest, w) = w
           \/ /\ w.ahead # <<>>
              /\ \/ \E k \in 1..Len(w.out) : w.out[k].task = Head(w.ahead).task
                 \/ Head(w.ahead).task \notin DOMAIN forest
              /\ visit(forest, w) = [out |-> w.out, ahead |-> Tail(w.ahead)]
           \/ /\ w.ahead # <<>> /\ Head(w.ahead) \in Row
              /\ Head(w.ahead).task \in DOMAIN forest
              /\ \A k \in 1..Len(w.out) : w.out[k].task # Head(w.ahead).task
              /\ visit(forest, w) = [out |-> Append(w.out, Head(w.ahead)),
                                     ahead |-> Under(forest, Head(w.ahead)) \o Tail(w.ahead)]
<1> DEFINE here == Head(w.ahead)
<1>1. w.out \in Seq(Row) /\ w.ahead \in Seq(Row)
  BY DEF Walk
<1>2. CASE w.ahead = <<>>
  BY <1>2 DEF visit
<1>3. CASE w.ahead # <<>> /\ (here.task \in {row.task : row \in Range(w.out)} \/ here.task \notin DOMAIN forest)
  <2>1. visit(forest, w) = [out |-> w.out, ahead |-> Tail(w.ahead)]
    <3> HIDE DEF here
    <3>1. QED  BY <1>3 DEF visit, here
  <2>2. here.task \in {row.task : row \in Range(w.out)} => \E k \in 1..Len(w.out) : w.out[k].task = here.task
    <3> HIDE DEF here
    <3>1. QED  BY <1>1 DEF Range
  <2>3. QED  BY <1>3, <2>1, <2>2
<1>4. CASE w.ahead # <<>> /\ ~(here.task \in {row.task : row \in Range(w.out)} \/ here.task \notin DOMAIN forest)
  <2>1. visit(forest, w) = [out |-> Append(w.out, here),
                            ahead |-> Under(forest, here) \o Tail(w.ahead)]
    BY <1>4 DEF visit, Under
  <2>2. here \in Row
    BY <1>1, <1>4
  <2>3. \A k \in 1..Len(w.out) : w.out[k] \in Range(w.out)
    BY <1>1 DEF Range
  <2>4. \A k \in 1..Len(w.out) : w.out[k].task # here.task
    BY <1>4, <2>3
  <2>5. QED  BY <1>4, <2>1, <2>2, <2>4
<1>5. QED  BY <1>2, <1>3, <1>4

\* A call leaves a walk.
LEMMA VisitType ==
    ASSUME NEW forest, IsForest(forest), NEW w \in Walk
    PROVE  visit(forest, w) \in Walk
<1>1. w.out \in Seq(Row) /\ w.ahead \in Seq(Row)
  BY DEF Walk
<1>2. w.ahead # <<>> => Tail(w.ahead) \in Seq(Row)
  BY <1>1
<1>3. CASE visit(forest, w) = w
  BY <1>3
<1>4. CASE w.ahead # <<>> /\ visit(forest, w) = [out |-> w.out, ahead |-> Tail(w.ahead)]
  BY <1>1, <1>2, <1>4 DEF Walk
<1>5. CASE /\ w.ahead # <<>> /\ Head(w.ahead) \in Row
           /\ Head(w.ahead).task \in DOMAIN forest
           /\ visit(forest, w) = [out |-> Append(w.out, Head(w.ahead)),
                                  ahead |-> Under(forest, Head(w.ahead)) \o Tail(w.ahead)]
  <2>1. Under(forest, Head(w.ahead)) \in Seq(Row)
    BY <1>5, UnderIs
  <2>2. Under(forest, Head(w.ahead)) \o Tail(w.ahead) \in Seq(Row)
    BY <1>2, <1>5, <2>1
  <2>3. Append(w.out, Head(w.ahead)) \in Seq(Row)
    BY <1>1, <1>5
  <2>4. QED  BY <1>5, <2>2, <2>3 DEF Walk
<1>6. QED  BY <1>3, <1>4, <1>5, VisitCases

\* The links from tasks to their children.
Links(forest, S) == UNION {{p} \X DOMAIN forest[p].kids : p \in S}

\* A forest has finitely many links, and the walk as many calls and one more.
LEMMA CallsType ==
    ASSUME NEW forest, IsForest(forest)
    PROVE  /\ calls(forest) \in Nat \ {0}
           /\ IsFiniteSet(Links(forest, DOMAIN forest))
           /\ calls(forest) = 1 + Cardinality(Links(forest, DOMAIN forest))
<1> DEFINE entries(p) == {p} \X DOMAIN forest[p].kids
           f == [p \in DOMAIN forest |-> entries(p)]
           all == {entries(p) : p \in DOMAIN forest}
<1>1. \A p \in DOMAIN forest : IsFiniteSet(entries(p))
  <2> TAKE p \in DOMAIN forest
  <2>1. DOMAIN forest[p].kids = 1..Len(forest[p].kids) /\ Len(forest[p].kids) \in Nat
    BY DEF IsForest, Task
  <2>2. IsFiniteSet(DOMAIN forest[p].kids)
    BY <2>1, FS_Interval
  <2>3. IsFiniteSet({p})
    BY FS_Singleton
  <2>4. QED  BY <2>2, <2>3, FS_Product
<1> HIDE DEF entries
<1>2. f \in Surjection(DOMAIN forest, all)
  BY DEF Surjection
<1>3. IsFiniteSet(DOMAIN forest)
  BY DEF IsForest
<1>4. IsFiniteSet(all)
  <2> HIDE DEF f, all
  <2>1. QED  BY <1>2, <1>3, FS_Surjection
<1>5. \A T \in all : IsFiniteSet(T)
  BY <1>1
<1>6. IsFiniteSet(UNION all)
  <2> HIDE DEF all
  <2>1. QED  BY <1>4, <1>5, FS_UNION
<1>7. Cardinality(UNION all) \in Nat
  <2> HIDE DEF all
  <2>1. QED  BY <1>6, FS_CardinalityType
<1>8. calls(forest) = 1 + Cardinality(UNION all) /\ Links(forest, DOMAIN forest) = UNION all
  BY DEF calls, entries, Links
<1>9. QED
  <2> DEFINE number == Cardinality(Links(forest, DOMAIN forest))
  <2>1. number \in Nat /\ IsFiniteSet(Links(forest, DOMAIN forest)) /\ calls(forest) = 1 + number
    <3> HIDE DEF all
    <3>1. QED  BY <1>6, <1>7, <1>8
  <2> HIDE DEF number
  <2>2. 1 + number \in Nat \ {0}
    BY <2>1
  <2>3. QED  BY <2>1, <2>2 DEF number

\* The recursion of expand, call by call.
LEMMA WalkingRuns ==
    ASSUME NEW forest, IsForest(forest), NEW id \in DOMAIN forest
    PROVE  /\ walking(forest, id) =
                  [n \in 0..calls(forest) |->
                      IF n = 0 THEN WalkFrom(id)
                      ELSE visit(forest, walking(forest, id)[n - 1])]
<1> DEFINE total == calls(forest)
           step == [n \in 1..total |-> [w \in Walk |-> visit(forest, w)]]
           start == WalkFrom(id)
<1>1. total \in Nat \ {0}
  BY CallsType
<1>2. start \in Walk
  <2>1. [task |-> id, depth |-> 0] \in Row
    BY DEF IsForest, Row
  <2>2. <<[task |-> id, depth |-> 0]>> \in Seq(Row)
    BY <2>1
  <2>3. QED  BY <2>2 DEF Walk, WalkFrom
<1>3. \A w \in Walk : visit(forest, w) \in Walk
  BY VisitType
<1> HIDE DEF total
<1>4. Steps(step, Walk, 0, total)
  BY <1>1, <1>3 DEF Steps
<1>5. PICK g : Run(g, step, Walk, start, 0, total)
  <2> HIDE DEF step, start
  <2>1. QED  BY <1>1, <1>2, <1>4, Loop
<1>6. ASSUME NEW n \in 0..total, n # 0
      PROVE  step[n][g[n - 1]] = visit(forest, g[n - 1])
  <2>1. n \in 1..total /\ n - 1 \in 0..total
    BY <1>1, <1>6
  <2>2. g[n - 1] \in Walk
    BY <1>5, <2>1 DEF Run
  <2>3. QED  BY <2>1, <2>2
<1>7. g = [n \in 0..total |-> IF n = 0 THEN start ELSE visit(forest, g[n - 1])]
  <2> HIDE DEF step, start
  <2>1. g = [n \in 0..total |-> g[n]]
    BY <1>5 DEF Run
  <2>2. \A n \in 0..total : g[n] = IF n = 0 THEN start ELSE visit(forest, g[n - 1])
    BY <1>1, <1>5, <1>6 DEF Run
  <2>3. QED  BY <2>1, <2>2
<1>8. QED  BY <1>7 DEF walking, WalkFrom, total

ChildOf(forest, i, p) == p \in DOMAIN forest /\ i \in Range(forest[p].kids)

\* What expand returns of a tree: its root, then tasks further in, each after the
\* one it is a child of, and none twice.
Visited(forest, id, out) ==
    /\ out \in Seq(Row) /\ out # <<>>
    /\ out[1] = [task |-> id, depth |-> 0]
    /\ \A k \in 1..Len(out) : out[k].task \in DOMAIN forest
    /\ \A j, k \in 1..Len(out) : out[j].task = out[k].task => j = k
    /\ \A k \in 2..Len(out) :
           /\ out[k].depth # 0
           /\ \E p \in 1..k - 1 : ChildOf(forest, out[k].task, out[p].task)

Coming(forest, out, ahead) ==
    /\ ahead \in Seq(Row)
    /\ \A k \in 1..Len(ahead) :
           /\ ahead[k].depth # 0
           /\ \E p \in 1..Len(out) : ChildOf(forest, ahead[k].task, out[p].task)

\* The first call appends the root ...
LEMMA FirstVisit ==
    ASSUME NEW forest, IsForest(forest), NEW id \in DOMAIN forest
    PROVE  /\ Visited(forest, id, visit(forest, WalkFrom(id)).out)
           /\ Coming(forest, visit(forest, WalkFrom(id)).out, visit(forest, WalkFrom(id)).ahead)
<1> DEFINE root == [task |-> id, depth |-> 0]
           w == WalkFrom(id)
           new == visit(forest, w)
           under == Under(forest, root)
<1>1. root \in Row /\ root.task = id /\ root.depth = 0
  BY DEF IsForest, Row
<1>2. new = [out |-> <<root>>, ahead |-> under]
  <2>1. w.out = <<>> /\ w.ahead = <<root>> /\ w.ahead # <<>>
    BY DEF WalkFrom
  <2>2. Head(w.ahead) = root /\ Tail(w.ahead) = <<>> /\ Append(w.out, root) = <<root>>
    BY <1>1, <2>1
  <2>3. {row.task : row \in Range(w.out)} = {}
    BY <2>1 DEF Range
  <2>4. under \in Seq(Row)
    BY <1>1, UnderIs
  <2>5. under \o <<>> = under
    BY <2>4, ConcatEmptySeq
  <2> HIDE DEF root, w
  <2>6. new = [out |-> Append(w.out, root), ahead |-> under \o Tail(w.ahead)]
    BY <1>1, <2>1, <2>2, <2>3 DEF visit, Under
  <2>7. QED  BY <2>2, <2>5, <2>6
<1>3. Visited(forest, id, <<root>>)
  <2> DEFINE out == <<root>>
  <2>1. out \in Seq(Row) /\ Len(out) = 1 /\ out[1] = root /\ out # <<>>
    BY <1>1
  <2> HIDE DEF out
  <2>2. QED  BY <1>1, <2>1 DEF Visited, out
<1>4. Coming(forest, <<root>>, under)
  <2>1. under \in Seq(Row)
        /\ \A k \in 1..Len(under) :
               under[k].depth # 0 /\ ChildOf(forest, under[k].task, id)
    BY <1>1, UnderIs DEF ChildOf
  <2>2. 1 \in 1..Len(<<root>>) /\ <<root>>[1].task = id
    BY <1>1
  <2> HIDE DEF under
  <2>3. QED  BY <2>1, <2>2 DEF Coming
<1>5. QED  BY <1>2, <1>3, <1>4

\* ... the others keep what is known of the tasks appended and of the calls to come ...
LEMMA NextVisit ==
    ASSUME NEW forest, IsForest(forest), NEW id \in DOMAIN forest, NEW w \in Walk,
           Visited(forest, id, w.out), Coming(forest, w.out, w.ahead)
    PROVE  /\ Visited(forest, id, visit(forest, w).out)
           /\ Coming(forest, visit(forest, w).out, visit(forest, w).ahead)
<1> DEFINE out == w.out
           ahead == w.ahead
           here == Head(ahead)
           rest == Tail(ahead)
<1>1. out \in Seq(Row) /\ ahead \in Seq(Row) /\ Len(out) \in Nat /\ Len(ahead) \in Nat
  BY DEF Walk
<1>2. ASSUME ahead # <<>>
      PROVE  /\ rest \in Seq(Row)
             /\ \A k \in 1..Len(rest) : k + 1 \in 1..Len(ahead) /\ rest[k] = ahead[k + 1]
             /\ 1 \in 1..Len(ahead) /\ here = ahead[1]
  BY <1>1, <1>2, HeadTailProperties
<1> HIDE DEF here, rest
<1>3. CASE visit(forest, w) = w
  BY <1>3
<1>4. CASE ahead # <<>> /\ visit(forest, w) = [out |-> out, ahead |-> rest]
  <2>1. Coming(forest, out, rest)
    BY <1>2, <1>4 DEF Coming
  <2>2. QED  BY <1>4, <2>1
<1>5. CASE /\ ahead # <<>> /\ here \in Row
           /\ here.task \in DOMAIN forest
           /\ \A k \in 1..Len(out) : out[k].task # here.task
           /\ visit(forest, w) = [out |-> Append(out, here), ahead |-> Under(forest, here) \o rest]
  <2> DEFINE more == Append(out, here)
             under == Under(forest, here)
             new == under \o rest
  <2>1. /\ more \in Seq(Row) /\ more # <<>> /\ Len(more) = Len(out) + 1
        /\ \A k \in 1..Len(out) : more[k] = out[k]
        /\ more[Len(out) + 1] = here
    <3>1. out \in Seq(Row) /\ here \in Row
      BY <1>1, <1>5
    <3> HIDE DEF out
    <3>2. QED  BY <3>1, AppendProperties
  <2> HIDE DEF more
  <2>2. /\ here.depth # 0
        /\ \E p \in 1..Len(out) : ChildOf(forest, here.task, out[p].task)
    BY <1>2, <1>5 DEF Coming
  <2>3. Visited(forest, id, more)
    <3>1. out # <<>> /\ Len(out) >= 1 /\ out[1] = [task |-> id, depth |-> 0]
      BY <1>1 DEF Visited
    <3>2. more[1] = [task |-> id, depth |-> 0]
      BY <2>1, <3>1
    <3>3. \A k \in 1..Len(more) : more[k].task \in DOMAIN forest
      <4>1. \A m \in 1..Len(more) : m \in 1..Len(out) \/ m = Len(out) + 1
        BY <1>1, <2>1
      <4>2. \A k \in 1..Len(out) : more[k].task \in DOMAIN forest
        BY <2>1 DEF Visited
      <4>3. more[Len(out) + 1].task \in DOMAIN forest
        BY <1>5, <2>1
      <4>4. QED  BY <4>1, <4>2, <4>3
    <3>4. ASSUME NEW j \in 1..Len(more), NEW k \in 1..Len(more), more[j].task = more[k].task
          PROVE  j = k
      <4>1. \A m \in 1..Len(more) : m \in 1..Len(out) \/ m = Len(out) + 1
        BY <1>1, <2>1
      <4>2. CASE j \in 1..Len(out) /\ k \in 1..Len(out)
        BY <2>1, <3>4, <4>2 DEF Visited
      <4>3. CASE j \in 1..Len(out) /\ k = Len(out) + 1
        BY <1>5, <2>1, <3>4, <4>3
      <4>4. CASE j = Len(out) + 1 /\ k \in 1..Len(out)
        BY <1>5, <2>1, <3>4, <4>4
      <4>5. CASE j = Len(out) + 1 /\ k = Len(out) + 1
        BY <4>5
      <4>6. QED  BY <4>1, <4>2, <4>3, <4>4, <4>5
    <3>5. ASSUME NEW k \in 2..Len(more)
          PROVE  /\ more[k].depth # 0
                 /\ \E p \in 1..k - 1 : ChildOf(forest, more[k].task, more[p].task)
      <4>1. CASE k \in 1..Len(out)
        <5>1. k \in 2..Len(out) /\ more[k] = out[k]
          BY <2>1, <4>1
        <5>2. /\ out[k].depth # 0
              /\ \E p \in 1..k - 1 : ChildOf(forest, out[k].task, out[p].task)
          BY <5>1 DEF Visited
        <5>3. \A p \in 1..k - 1 : more[p] = out[p]
          BY <1>1, <2>1, <5>1, SMTT(20)
        <5>4. QED  BY <5>1, <5>2, <5>3
      <4>2. CASE k = Len(out) + 1
        BY <1>1, <2>1, <2>2, <4>2
      <4>3. QED  BY <1>1, <2>1, <4>1, <4>2
    <3>6. QED  BY <2>1, <3>2, <3>3, <3>4, <3>5 DEF Visited
  <2>4. Coming(forest, more, new)
    <3>1. /\ under \in Seq(Row)
          /\ \A k \in 1..Len(under) :
                 under[k].depth # 0 /\ ChildOf(forest, under[k].task, here.task)
      BY <1>5, UnderIs DEF ChildOf
    <3> HIDE DEF under
    <3>2. /\ new \in Seq(Row) /\ Len(new) = Len(under) + Len(rest)
          /\ \A k \in 1..Len(under) + Len(rest) :
                 new[k] = IF k <= Len(under) THEN under[k] ELSE rest[k - Len(under)]
      BY <1>2, <1>5, <3>1, ConcatProperties
    <3> HIDE DEF new
    <3>3. ASSUME NEW k \in 1..Len(new)
          PROVE  /\ new[k].depth # 0
                 /\ \E p \in 1..Len(more) : ChildOf(forest, new[k].task, more[p].task)
      <4>1. Len(under) \in Nat /\ Len(rest) \in Nat
        BY <1>2, <1>5, <3>1
      <4>2. CASE k <= Len(under)
        <5>1. k \in 1..Len(under) /\ new[k] = under[k]
          BY <3>2, <4>1, <4>2
        <5>2. Len(out) + 1 \in 1..Len(more)
          BY <1>1, <2>1
        <5>3. QED  BY <2>1, <3>1, <5>1, <5>2
      <4>3. CASE k > Len(under)
        <5>1. k - Len(under) \in 1..Len(rest) /\ new[k] = rest[k - Len(under)]
          BY <3>2, <4>1, <4>3
        <5>2. PICK m \in 1..Len(ahead) : new[k] = ahead[m]
          BY <1>2, <1>5, <5>1
        <5>3. /\ ahead[m].depth # 0
              /\ \E p \in 1..Len(out) : ChildOf(forest, ahead[m].task, out[p].task)
          BY <5>2 DEF Coming
        <5>4. \A p \in 1..Len(out) : p \in 1..Len(more) /\ more[p] = out[p]
          BY <1>1, <2>1
        <5>5. QED  BY <5>2, <5>3, <5>4
      <4>4. QED  BY <3>2, <4>1, <4>2, <4>3
    <3>4. QED  BY <3>2, <3>3 DEF Coming
  <2>5. QED  BY <1>5, <2>3, <2>4 DEF more
<1>6. QED  BY <1>3, <1>4, <1>5, VisitCases DEF here, rest

\* ... so it holds of what expand returns.
LEMMA ExpandVisits ==
    ASSUME NEW forest, IsForest(forest), NEW id \in DOMAIN forest
    PROVE  Visited(forest, id, expand(forest, id))
<1> DEFINE f == walking(forest, id)
           total == calls(forest)
           Good(w) == /\ w \in Walk
                      /\ Visited(forest, id, w.out)
                      /\ Coming(forest, w.out, w.ahead)
           good == {n \in Nat : Good(f[n])}
<1>1. total \in Nat \ {0}
  BY CallsType
<1>2. f = [n \in 0..total |-> IF n = 0 THEN WalkFrom(id) ELSE visit(forest, f[n - 1])]
  BY WalkingRuns
<1> HIDE DEF f, total
<1>3. WalkFrom(id) \in Walk
  <2>1. [task |-> id, depth |-> 0] \in Row
    BY DEF IsForest, Row
  <2>2. <<[task |-> id, depth |-> 0]>> \in Seq(Row)
    BY <2>1
  <2>3. QED  BY <2>2 DEF Walk, WalkFrom
<1>4. 1 \in good
  <2>1. f[0] = WalkFrom(id) /\ f[1] = visit(forest, f[1 - 1]) /\ 1 - 1 = 0
    BY <1>1, <1>2
  <2>2. Good(visit(forest, WalkFrom(id)))
    BY <1>3, FirstVisit, VisitType
  <2>3. QED  BY <2>1, <2>2
<1>5. ASSUME NEW n \in 1..total - 1, n \in good
      PROVE  n + 1 \in good
  <2>1. n + 1 \in 0..total /\ n + 1 # 0 /\ (n + 1) - 1 = n /\ n + 1 \in Nat
    BY <1>1
  <2>2. f[n + 1] = visit(forest, f[n])
    BY <1>2, <2>1
  <2>3. Good(visit(forest, f[n]))
    BY <1>5, NextVisit, VisitType
  <2>4. QED  BY <2>1, <2>2, <2>3
<1>6. 1 \in Int /\ total \in Int /\ total \in 1..total
  BY <1>1
<1> HIDE DEF good
<1>7. 1..total \subseteq good
  BY <1>4, <1>5, <1>6, Induct
<1>8. Good(f[total])
  BY <1>6, <1>7 DEF good
<1>9. QED  BY <1>8 DEF expand, f, total

\* A tree is a group that Paginate may be given.
LEMMA ExpandIsGroup ==
    ASSUME NEW forest, IsForest(forest), NEW id \in DOMAIN forest
    PROVE  IsGroup(expand(forest, id))
<1> DEFINE out == expand(forest, id)
<1>1. Visited(forest, id, out)
  BY ExpandVisits
<1> HIDE DEF out
<1>2. /\ out \in Seq(Row) /\ out # <<>> /\ DOMAIN out = 1..Len(out) /\ Len(out) \in Nat \ {0}
      /\ out[1].depth = 0
      /\ \A k \in 2..Len(out) : out[k].depth # 0
  BY <1>1 DEF Visited
<1>3. Roots(out) = {1}
  BY <1>2 DEF Roots
<1>4. QED  BY <1>2, <1>3 DEF IsGroup, out

\* A tree is of tasks of the forest, its root among them.
LEMMA TreeIs ==
    ASSUME NEW forest, IsForest(forest), NEW id \in DOMAIN forest
    PROVE  /\ Tree(forest, id) \subseteq DOMAIN forest
           /\ id \in Tree(forest, id)
           /\ \A i : i \in Tree(forest, id) <=>
                  \E k \in 1..Len(expand(forest, id)) : expand(forest, id)[k].task = i
<1> DEFINE out == expand(forest, id)
<1>1. Visited(forest, id, out)
  BY ExpandVisits
<1> HIDE DEF out
<1>2. /\ out \in Seq(Row) /\ DOMAIN out = 1..Len(out) /\ 1 \in 1..Len(out)
      /\ out[1].task = id
      /\ \A k \in 1..Len(out) : out[k].task \in DOMAIN forest
  BY <1>1 DEF Visited
<1>3. \A i : i \in Tree(forest, id) <=> \E k \in 1..Len(out) : out[k].task = i
  BY <1>2 DEF Tree, Range, out
<1>4. QED  BY <1>2, <1>3 DEF out

-----------------------------------------------------------------------------
(***************************************************************************)
(* The walk over a tree goes to its end.                                   *)
(***************************************************************************)
\* The tasks of rows.
Named(rows) == {rows[k].task : k \in 1..Len(rows)}

\* Two sets with nothing in common are counted one after the other.
LEMMA DisjointUnion ==
    ASSUME NEW S, NEW T, IsFiniteSet(S), IsFiniteSet(T), S \intersect T = {}
    PROVE  IsFiniteSet(S \union T) /\ Cardinality(S \union T) = Cardinality(S) + Cardinality(T)
<1>1. /\ IsFiniteSet(S \union T)
      /\ Cardinality(S \union T) = Cardinality(S) + Cardinality(T) - Cardinality(S \intersect T)
  BY FS_Union
<1>2. Cardinality(S \intersect T) = 0
  BY FS_EmptySet
<1>3. Cardinality(S) \in Nat /\ Cardinality(T) \in Nat
  BY FS_CardinalityType
<1>4. QED  BY <1>1, <1>2, <1>3

\* The numbers up to n are n.
LEMMA IntervalCount ==
    ASSUME NEW n \in Nat
    PROVE  IsFiniteSet(1..n) /\ Cardinality(1..n) = n
<1>1. /\ IsFiniteSet(1..n)
      /\ Cardinality(1..n) = IF 1 > n THEN 0 ELSE n - 1 + 1
  <2>1. 1 \in Int /\ n \in Int
    OBVIOUS
  <2>2. QED  BY <2>1, FS_Interval, Zenon
<1>2. QED  BY <1>1

\* The links of some of the tasks are fewer than the calls; another task adds its own.
LEMMA LinksAdd ==
    ASSUME NEW forest, IsForest(forest), NEW S \in SUBSET DOMAIN forest
    PROVE  /\ IsFiniteSet(Links(forest, S)) /\ Cardinality(Links(forest, S)) \in Nat
           /\ Cardinality(Links(forest, S)) < calls(forest)
           /\ \A p \in DOMAIN forest \ S :
                  Cardinality(Links(forest, S \union {p})) =
                      Cardinality(Links(forest, S)) + Len(forest[p].kids)
<1> DEFINE all == Links(forest, DOMAIN forest)
<1>1. /\ IsFiniteSet(all) /\ calls(forest) = 1 + Cardinality(all)
  BY CallsType
<1>2. Links(forest, S) \in SUBSET all
  BY DEF Links
<1> HIDE DEF all
<1>3. IsFiniteSet(Links(forest, S)) /\ Cardinality(Links(forest, S)) <= Cardinality(all)
  BY <1>1, <1>2, FS_Subset
<1>4. Cardinality(Links(forest, S)) \in Nat /\ Cardinality(all) \in Nat
  BY <1>1, <1>3, FS_CardinalityType
<1>5. ASSUME NEW p \in DOMAIN forest \ S
      PROVE  Cardinality(Links(forest, S \union {p})) =
                 Cardinality(Links(forest, S)) + Len(forest[p].kids)
  <2> DEFINE own == {p} \X DOMAIN forest[p].kids
             len == Len(forest[p].kids)
  <2>1. DOMAIN forest[p].kids = 1..len /\ len \in Nat
    BY DEF IsForest, Task
  <2>2. IsFiniteSet(DOMAIN forest[p].kids) /\ Cardinality(DOMAIN forest[p].kids) = len
    BY <2>1, IntervalCount
  <2>3. IsFiniteSet({p}) /\ Cardinality({p}) = 1
    BY FS_Singleton
  <2>4. IsFiniteSet(own) /\ Cardinality(own) = 1 * len
    <3>1. /\ IsFiniteSet(own)
          /\ Cardinality(own) = Cardinality({p}) * Cardinality(DOMAIN forest[p].kids)
      BY <2>2, <2>3, FS_Product, Zenon
    <3>2. QED  BY <2>2, <2>3, <3>1
  <2>5. Links(forest, S \union {p}) = Links(forest, S) \union own
    BY DEF Links
  <2>6. Links(forest, S) \intersect own = {}
    BY DEF Links
  <2> HIDE DEF own
  <2>7. Cardinality(Links(forest, S \union {p})) = Cardinality(Links(forest, S)) + Cardinality(own)
    BY <1>3, <2>4, <2>5, <2>6, DisjointUnion
  <2>8. QED  BY <2>1, <2>4, <2>7
<1>6. QED  BY <1>1, <1>3, <1>4, <1>5

\* What the walk knows after n calls: no child of a task it has met is forgotten, and
\* until it is done, every call is of another link.
Underway(forest, w, n) ==
    /\ w \in Walk
    /\ Named(w.out) \subseteq DOMAIN forest
    /\ \A p \in Named(w.out) : \A i \in Range(forest[p].kids) :
           i \in DOMAIN forest => i \in Named(w.out) \union Named(w.ahead)
    /\ w.ahead # <<>> => n + Len(w.ahead) = 1 + Cardinality(Links(forest, Named(w.out)))

\* It holds before the first call ...
LEMMA FirstUnderway ==
    ASSUME NEW forest, IsForest(forest), NEW id \in DOMAIN forest
    PROVE  Underway(forest, WalkFrom(id), 0)
<1> DEFINE w == WalkFrom(id)
<1>1. [task |-> id, depth |-> 0] \in Row
  BY DEF IsForest, Row
<1>2. /\ w.out = <<>> /\ w.ahead = <<[task |-> id, depth |-> 0]>> /\ Len(w.ahead) = 1
      /\ w \in Walk
  BY <1>1 DEF WalkFrom, Walk
<1>3. Named(w.out) = {}
  BY <1>2 DEF Named
<1>4. Cardinality(Links(forest, Named(w.out))) = 0
  <2>1. Links(forest, {}) = {}
    BY DEF Links
  <2>2. Links(forest, Named(w.out)) = {}
    BY <1>3, <2>1
  <2>3. QED  BY <2>2, FS_EmptySet
<1> HIDE DEF w
<1>5. 0 + Len(w.ahead) = 1 + Cardinality(Links(forest, Named(w.out)))
  BY <1>2, <1>4
<1>6. Underway(forest, w, 0)
  BY <1>2, <1>3, <1>5 DEF Underway
<1>7. QED  BY <1>6 DEF w

\* The tasks of rows put together.
LEMMA NamedParts ==
    ASSUME NEW s \in Seq(Row), NEW t \in Seq(Row)
    PROVE  /\ Named(s \o t) = Named(s) \union Named(t)
           /\ \A row \in Row : Named(Append(s, row)) = Named(s) \union {row.task}
           /\ s # <<>> => Named(s) = {Head(s).task} \union Named(Tail(s))
<1>1. Len(s) \in Nat /\ Len(t) \in Nat
  OBVIOUS
<1>2. Named(s \o t) = Named(s) \union Named(t)
  <2>1. /\ Len(s \o t) = Len(s) + Len(t)
        /\ \A k \in 1..Len(s) + Len(t) :
               (s \o t)[k] = IF k <= Len(s) THEN s[k] ELSE t[k - Len(s)]
    BY ConcatProperties
  <2> DEFINE u == s \o t
  <2> HIDE DEF u
  <2>2. /\ Len(u) = Len(s) + Len(t)
        /\ \A k \in 1..Len(s) : u[k] = s[k]
        /\ \A k \in 1..Len(t) : u[Len(s) + k] = t[k]
    BY <1>1, <2>1 DEF u
  <2>3. \A k \in 1..Len(u) : k \in 1..Len(s) \/ \E j \in 1..Len(t) : k = Len(s) + j
    <3> TAKE k \in 1..Len(u)
    <3>1. k \notin 1..Len(s) => k - Len(s) \in 1..Len(t) /\ k = Len(s) + (k - Len(s))
      BY <1>1, <2>2
    <3>2. QED  BY <3>1
  <2>4. /\ \A k \in 1..Len(s) : k \in 1..Len(u)
        /\ \A k \in 1..Len(t) : Len(s) + k \in 1..Len(u)
    BY <1>1, <2>2
  <2>5. Named(u) \subseteq Named(s) \union Named(t)
    <3> SUFFICES ASSUME NEW k \in 1..Len(u)
                 PROVE  u[k].task \in Named(s) \union Named(t)
      BY DEF Named
    <3>1. CASE k \in 1..Len(s)
      BY <2>2, <3>1 DEF Named
    <3>2. CASE k \notin 1..Len(s)
      <4>1. PICK j \in 1..Len(t) : k = Len(s) + j
        BY <2>3, <3>2
      <4>2. u[k] = t[j]
        BY <2>2, <4>1
      <4>3. QED  BY <4>2 DEF Named
    <3>3. QED  BY <3>1, <3>2
  <2>6. Named(s) \subseteq Named(u) /\ Named(t) \subseteq Named(u)
    BY <2>2, <2>4 DEF Named
  <2>7. QED  BY <2>5, <2>6 DEF u
<1>3. ASSUME NEW row \in Row
      PROVE  Named(Append(s, row)) = Named(s) \union {row.task}
  <2> DEFINE u == Append(s, row)
  <2>1. /\ Len(u) = Len(s) + 1 /\ u[Len(s) + 1] = row
        /\ \A k \in 1..Len(s) : u[k] = s[k]
    BY <1>1
  <2> HIDE DEF u
  <2>2. 1..Len(u) = 1..Len(s) \union {Len(s) + 1}
    BY <1>1, <2>1
  <2>3. QED  BY <2>1, <2>2 DEF Named, u
<1>4. ASSUME s # <<>>
      PROVE  Named(s) = {Head(s).task} \union Named(Tail(s))
  <2> DEFINE u == Tail(s)
             row == Head(s)
  <2>1. /\ row = s[1] /\ Len(u) = Len(s) - 1
        /\ \A k \in 1..Len(u) : u[k] = s[k + 1]
    BY <1>4, HeadTailProperties
  <2>2. Len(s) \in Nat \ {0}
    BY <1>4
  <2> HIDE DEF u, row
  <2>3. /\ \A k \in 1..Len(s) : k = 1 \/ \E j \in 1..Len(u) : k = j + 1
        /\ \A j \in 1..Len(u) : j + 1 \in 1..Len(s)
        /\ 1 \in 1..Len(s)
    <3>1. \A k \in 1..Len(s) : k # 1 => k - 1 \in 1..Len(u) /\ k = (k - 1) + 1
      BY <2>1, <2>2
    <3>2. QED  BY <2>1, <2>2, <3>1
  <2>4. Named(s) \subseteq {row.task} \union Named(u)
    <3> SUFFICES ASSUME NEW k \in 1..Len(s)
                 PROVE  s[k].task \in {row.task} \union Named(u)
      BY DEF Named
    <3>1. CASE k = 1
      BY <2>1, <3>1
    <3>2. CASE k # 1
      <4>1. PICK j \in 1..Len(u) : k = j + 1
        BY <2>3, <3>2
      <4>2. s[k] = u[j]
        BY <2>1, <4>1
      <4>3. QED  BY <4>2 DEF Named
    <3>3. QED  BY <3>1, <3>2
  <2>5. {row.task} \union Named(u) \subseteq Named(s)
    BY <2>1, <2>3 DEF Named
  <2>6. QED  BY <2>4, <2>5 DEF u, row
<1>5. QED  BY <1>2, <1>3, <1>4

\* ... and after every other.
LEMMA NextUnderway ==
    ASSUME NEW forest, IsForest(forest), NEW w, NEW n \in Nat, Underway(forest, w, n)
    PROVE  Underway(forest, visit(forest, w), n + 1)
<1> DEFINE out == w.out
           ahead == w.ahead
           here == Head(ahead)
           rest == Tail(ahead)
           new == visit(forest, w)
<1>1. /\ w \in Walk /\ out \in Seq(Row) /\ ahead \in Seq(Row)
      /\ Named(out) \subseteq DOMAIN forest
      /\ \A p \in Named(out) : \A i \in Range(forest[p].kids) :
             i \in DOMAIN forest => i \in Named(out) \union Named(ahead)
      /\ ahead # <<>> => n + Len(ahead) = 1 + Cardinality(Links(forest, Named(out)))
  BY DEF Underway, Walk
<1>2. new \in Walk
  BY <1>1, VisitType
<1>3. ASSUME ahead # <<>>
      PROVE  /\ rest \in Seq(Row) /\ Len(rest) = Len(ahead) - 1 /\ Len(ahead) \in Nat
             /\ Named(ahead) = {here.task} \union Named(rest)
  BY <1>1, <1>3, HeadTailProperties, NamedParts
<1> HIDE DEF out, ahead, here, rest, new
<1>4. CASE ahead = <<>> /\ new = w
  <2>1. new.ahead = <<>> /\ new.out = out
    BY <1>4 DEF ahead, out
  <2>2. \A p \in Named(new.out) : \A i \in Range(forest[p].kids) :
            i \in DOMAIN forest => i \in Named(new.out) \union Named(new.ahead)
    BY <1>1, <1>4, <2>1
  <2>3. QED  BY <1>1, <1>2, <2>1, <2>2 DEF Underway, new
<1>5. CASE /\ ahead # <<>>
           /\ here.task \in Named(out) \/ here.task \notin DOMAIN forest
           /\ new = [out |-> out, ahead |-> rest]
  <2>1. new.out = out /\ new.ahead = rest
    BY <1>5
  <2>2. ASSUME NEW p \in Named(out), NEW i \in Range(forest[p].kids), i \in DOMAIN forest
        PROVE  i \in Named(out) \union Named(rest)
    BY <1>1, <1>3, <1>5, <2>2
  <2>3. (n + 1) + Len(rest) = 1 + Cardinality(Links(forest, Named(out)))
    <3>1. /\ n + Len(ahead) = 1 + Cardinality(Links(forest, Named(out)))
          /\ Len(rest) = Len(ahead) - 1 /\ Len(ahead) \in Nat
      BY <1>1, <1>3, <1>5
    <3>2. (n + 1) + (Len(ahead) - 1) = n + Len(ahead)
      BY <3>1
    <3>3. QED  BY <3>1, <3>2
  <2>4. QED  BY <1>1, <1>2, <2>1, <2>2, <2>3 DEF Underway, new
<1>6. CASE /\ ahead # <<>> /\ here \in Row /\ here.task \in DOMAIN forest
           /\ here.task \notin Named(out)
           /\ new = [out |-> Append(out, here), ahead |-> Under(forest, here) \o rest]
  <2> DEFINE under == Under(forest, here)
             kids == forest[here.task].kids
  <2>1. new.out = Append(out, here) /\ new.ahead = under \o rest
    BY <1>6
  <2>2. /\ under \in Seq(Row) /\ Len(under) = Len(kids)
        /\ \A k \in 1..Len(under) : under[k].task = kids[k]
    BY <1>6, UnderIs
  <2>3. DOMAIN kids = 1..Len(kids) /\ Len(kids) \in Nat
    BY <1>6 DEF IsForest, Task
  <2> HIDE DEF under, kids
  <2>4. Named(under) = Range(kids)
    BY <2>2, <2>3 DEF Named, Range
  <2>5. Named(new.out) = Named(out) \union {here.task}
    BY <1>1, <1>6, <2>1, NamedParts
  <2>6. /\ Named(new.ahead) = Range(kids) \union Named(rest)
        /\ Len(new.ahead) = Len(kids) + Len(rest)
        /\ Len(rest) = Len(ahead) - 1 /\ Len(ahead) \in Nat
    <3>1. rest \in Seq(Row) /\ Len(rest) = Len(ahead) - 1 /\ Len(ahead) \in Nat
      BY <1>3, <1>6
    <3>2. Named(under \o rest) = Named(under) \union Named(rest)
      BY <2>2, <3>1, NamedParts
    <3>3. Len(under \o rest) = Len(under) + Len(rest)
      BY <2>2, <3>1, ConcatProperties
    <3>4. QED  BY <2>1, <2>2, <2>4, <3>1, <3>2, <3>3
  <2>7. ASSUME NEW p \in Named(new.out), NEW i \in Range(forest[p].kids), i \in DOMAIN forest
        PROVE  i \in Named(new.out) \union Named(new.ahead)
    <3>1. CASE p = here.task
      BY <2>6, <3>1 DEF kids
    <3>2. CASE p # here.task
      <4>1. p \in Named(out)
        BY <2>5, <3>2
      <4>2. i \in Named(out) \union Named(ahead)
        BY <1>1, <2>7, <4>1
      <4>3. QED  BY <1>3, <1>6, <2>5, <2>6, <4>2
    <3>3. QED  BY <3>1, <3>2
  <2>8. /\ Cardinality(Links(forest, Named(out))) \in Nat
        /\ Cardinality(Links(forest, Named(new.out))) =
               Cardinality(Links(forest, Named(out))) + Len(kids)
    <3>1. Named(out) \in SUBSET DOMAIN forest /\ here.task \in DOMAIN forest \ Named(out)
      BY <1>1, <1>6
    <3>2. /\ Cardinality(Links(forest, Named(out))) \in Nat
          /\ Cardinality(Links(forest, Named(out) \union {here.task})) =
                 Cardinality(Links(forest, Named(out))) + Len(forest[here.task].kids)
      BY <3>1, LinksAdd
    <3>3. QED  BY <2>5, <3>2 DEF kids
  <2>9. n + Len(ahead) = 1 + Cardinality(Links(forest, Named(out)))
    BY <1>1, <1>6
  <2>10. (n + 1) + Len(new.ahead) = 1 + Cardinality(Links(forest, Named(new.out)))
    BY <2>3, <2>6, <2>8, <2>9
  <2>11. Named(new.out) \subseteq DOMAIN forest
    BY <1>1, <1>6, <2>5
  <2>12. QED  BY <1>2, <2>7, <2>10, <2>11 DEF Underway, new
<1>7. (\E k \in 1..Len(out) : out[k].task = here.task) <=> here.task \in Named(out)
  BY DEF Named
<1>8. QED  BY <1>1, <1>4, <1>5, <1>6, <1>7, VisitCases DEF out, ahead, here, rest, new

\* expand leaves nothing out and adds nothing: a tree is the least set that holds its
\* root and, with a task, its children.
THEOREM TreesAreWhole ==
    ASSUME NEW forest, IsForest(forest), NEW id \in DOMAIN forest
    PROVE  /\ id \in Tree(forest, id) /\ Tree(forest, id) \subseteq DOMAIN forest
           /\ \A p \in Tree(forest, id) : \A i \in Range(forest[p].kids) :
                  i \in DOMAIN forest => i \in Tree(forest, id)
           /\ \A S : /\ id \in S
                     /\ \A p \in S \intersect DOMAIN forest : Range(forest[p].kids) \subseteq S
                     => Tree(forest, id) \subseteq S
<1> DEFINE f == walking(forest, id)
           total == calls(forest)
           good == {n \in Nat : Underway(forest, f[n], n)}
           out == expand(forest, id)
           tree == Tree(forest, id)
<1>1. total \in Nat \ {0}
  BY CallsType
<1>2. f = [n \in 0..total |-> IF n = 0 THEN WalkFrom(id) ELSE visit(forest, f[n - 1])]
  BY WalkingRuns
<1>3. out = f[total].out
  BY DEF expand
<1> HIDE DEF f, total
<1>4. 0 \in good
  <2>1. f[0] = WalkFrom(id)
    BY <1>1, <1>2
  <2>2. QED  BY <2>1, FirstUnderway
<1>5. ASSUME NEW n \in 0..total - 1, n \in good
      PROVE  n + 1 \in good
  <2>1. n + 1 \in 0..total /\ n + 1 # 0 /\ (n + 1) - 1 = n /\ n + 1 \in Nat /\ n \in Nat
    BY <1>1
  <2>2. f[n + 1] = visit(forest, f[n])
    BY <1>2, <2>1
  <2>3. Underway(forest, visit(forest, f[n]), n + 1)
    BY <1>5, <2>1, NextUnderway
  <2>4. QED  BY <2>1, <2>2, <2>3
<1>6. 0 \in Int /\ total \in Int /\ total \in 0..total
  BY <1>1
<1> HIDE DEF good
<1>7. 0..total \subseteq good
  BY <1>4, <1>5, <1>6, Induct
<1>8. Underway(forest, f[total], total)
  BY <1>6, <1>7 DEF good
<1> DEFINE w == f[total]
<1>9. w.ahead = <<>>
  <2> SUFFICES ASSUME w.ahead # <<>> PROVE FALSE
    OBVIOUS
  <2>1. total + Len(w.ahead) = 1 + Cardinality(Links(forest, Named(w.out)))
    BY <1>8 DEF Underway
  <2>2. w.ahead \in Seq(Row) /\ Len(w.ahead) \in Nat \ {0}
    <3>1. w.ahead \in Seq(Row)
      BY <1>8 DEF Underway, Walk
    <3> HIDE DEF w
    <3>2. QED  BY <3>1
  <2>3. Named(w.out) \in SUBSET DOMAIN forest
    BY <1>8 DEF Underway
  <2>4. /\ Cardinality(Links(forest, Named(w.out))) \in Nat
        /\ Cardinality(Links(forest, Named(w.out))) < total
    BY <2>3, LinksAdd DEF total
  <2> HIDE DEF w
  <2>5. QED  BY <1>1, <2>1, <2>2, <2>4
<1>10. Named(w.ahead) = {}
  BY <1>9 DEF Named
<1>11. \A p \in Named(out) : \A i \in Range(forest[p].kids) : i \in DOMAIN forest => i \in Named(out)
  BY <1>3, <1>8, <1>10 DEF Underway
<1> HIDE DEF w
<1>12. tree = Named(out)
  BY TreeIs DEF Named
<1>13. Visited(forest, id, out)
  BY ExpandVisits
<1> HIDE DEF out, tree
<1>14. ASSUME NEW S, id \in S,
              \A p \in S \intersect DOMAIN forest : Range(forest[p].kids) \subseteq S
       PROVE  tree \subseteq S
  <2> DEFINE bad == {k \in Nat : k \in 1..Len(out) /\ out[k].task \notin S}
  <2>1. SUFFICES ASSUME bad # {} PROVE FALSE
    BY <1>12, <1>13 DEF Named, Visited
  <2>2. bad \in SUBSET Nat
    OBVIOUS
  <2>3. PICK k \in bad : \A j \in bad : k <= j
    <3> HIDE DEF bad
    <3>1. QED  BY <2>1, <2>2, Least
  <2>4. Len(out) \in Nat /\ out[1].task = id /\ k \in 1..Len(out) /\ out[k].task \notin S
    BY <1>13 DEF Visited
  <2>5. k \in 2..Len(out)
    <3>1. k # 1
      BY <1>14, <2>4
    <3>2. QED  BY <2>4, <3>1
  <2>6. PICK p \in 1..k - 1 : ChildOf(forest, out[k].task, out[p].task)
    BY <1>13, <2>5 DEF Visited
  <2>7. out[p].task \notin S
    BY <1>14, <2>4, <2>6 DEF ChildOf
  <2>8. p \in bad /\ ~(k <= p)
    BY <2>4, <2>7
  <2>9. QED  BY <2>3, <2>8
<1>15. QED  BY <1>11, <1>12, <1>14, TreeIs DEF tree

-----------------------------------------------------------------------------
(***************************************************************************)
(* Ranks.                                                                  *)
(***************************************************************************)
LEMMA MaxOfNats ==
    ASSUME NEW b \in Nat, NEW S \in SUBSET (0..b), S # {}
    PROVE  Max(S) \in S
<1> DEFINE bounds == {n \in Nat : \A x \in S : x <= n}
<1>1. b \in bounds /\ bounds \subseteq Nat
  OBVIOUS
<1>2. PICK m \in bounds : \A n \in bounds : m <= n
  <2> HIDE DEF bounds
  <2>1. QED  BY <1>1, Least
<1>3. m \in S
  <2> SUFFICES ASSUME m \notin S PROVE FALSE
    OBVIOUS
  <2>1. m - 1 \in Nat
    <3>1. PICK x \in S : x \in 0..b /\ x <= m /\ x # m
      BY <1>2
    <3>2. QED  BY <1>2, <3>1
  <2>2. \A x \in S : x <= m - 1
    BY <1>2
  <2>3. m - 1 \in bounds
    BY <2>1, <2>2
  <2>4. QED  BY <1>2, <2>1, <2>3
<1>4. \A x \in S : m >= x
  BY <1>2
<1>5. QED  BY <1>3, <1>4 DEF Max

\* An urgency is a small number ...
LEMMA UrgencyType ==
    ASSUME NEW task \in Task, NEW t \in Int
    PROVE  Urgency(task, t) \in 0..17
<1>1. /\ task.closed \in BOOLEAN /\ task.priority \in {"none", "low", "medium", "high"}
      /\ task.created \in Int /\ task.due \in Int \union {Null}
  BY DEF Task
<1>2. priorityWeight[task.priority] \in 0..5
  BY <1>1 DEF priorityWeight
<1>3. dueFactor(task, t) \in 0..8
  BY <1>1 DEF dueFactor
<1>4. ageFactor(task, t) \in 0..4
  <2>1. CASE t <= task.created
    BY <2>1 DEF ageFactor
  <2>2. CASE ~(t <= task.created)
    <3>1. (t - task.created) \div 604800 \in Nat
      BY <1>1, <2>2
    <3>2. ageFactor(task, t) = LET weeks == (t - task.created) \div 604800
                               IN  IF weeks > 4 THEN 4 ELSE weeks
      BY <2>2 DEF ageFactor, week, day
    <3>3. QED  BY <3>1, <3>2
  <2>3. QED  BY <2>1, <2>2
<1>5. QED  BY <1>1, <1>2, <1>3, <1>4 DEF Urgency

\* ... so the highest one of a subtree exists, and is a number.
LEMMA SubtreeUrgencyType ==
    ASSUME NEW forest, IsForest(forest), NEW id \in DOMAIN forest, NEW t \in Int
    PROVE  SubtreeMaxUrgency(forest, id, t) \in Int
<1> DEFINE S == {Urgency(forest[i], t) : i \in Tree(forest, id)}
<1>1. \A i \in Tree(forest, id) : Urgency(forest[i], t) \in 0..17
  BY TreeIs, UrgencyType DEF IsForest
<1>2. S \in SUBSET (0..17) /\ S # {} /\ 17 \in Nat
  BY <1>1, TreeIs, SMTT(20)
<1>3. Max(S) \in S
  <2> HIDE DEF S
  <2>1. QED  BY <1>2, MaxOfNats
<1>4. SubtreeMaxUrgency(forest, id, t) = Max(S)
  BY DEF SubtreeMaxUrgency
<1> HIDE DEF S
<1>5. Max(S) \in 0..17
  BY <1>2, <1>3
<1>6. QED  BY <1>4, <1>5

\* The order of the roots, on the tasks of a forest.
LEMMA RootsAreOrdered ==
    ASSUME NEW forest, IsForest(forest), NEW t \in Int
    PROVE  /\ \A a \in DOMAIN forest : ~LessRoots(forest, a, a, t)
           /\ \A a, b \in DOMAIN forest :
                  a # b => LessRoots(forest, a, b, t) \/ LessRoots(forest, b, a, t)
           /\ \A a, b, c \in DOMAIN forest :
                  LessRoots(forest, a, b, t) /\ LessRoots(forest, b, c, t)
                      => LessRoots(forest, a, c, t)
<1>1. DOMAIN forest \subseteq Nat
  BY ViewAssumption DEF IsForest
<1>2. \A i \in DOMAIN forest :
          /\ forest[i].closed \in BOOLEAN
          /\ forest[i].created \in Int
          /\ SubtreeMaxUrgency(forest, i, t) \in Int
  BY SubtreeUrgencyType DEF IsForest, Task
<1>3. QED  BY <1>1, <1>2, LessRootsIsTotal

\* A strict total order on a finite set.
IsOrder(less, C) ==
    /\ IsFiniteSet(C)
    /\ \A a \in C : <<a, a>> \notin less
    /\ \A a, b \in C : a # b => <<a, b>> \in less \/ <<b, a>> \in less
    /\ \A a, b, c \in C : <<a, b>> \in less /\ <<b, c>> \in less => <<a, c>> \in less

Below(less, C, x) == {y \in C : <<y, x>> \in less}

\* It numbers the set: every number from 0 is one element's, and only one's.
LEMMA Ranks ==
    ASSUME NEW C, NEW less, IsOrder(less, C)
    PROVE  /\ \A x, y \in C : Cardinality(Below(less, C, x)) = Cardinality(Below(less, C, y)) => x = y
           /\ \A n \in 1..Cardinality(C) : \E x \in C : Cardinality(Below(less, C, x)) = n - 1
           /\ \A x \in C : Cardinality(Below(less, C, x)) + 1 \in 1..Cardinality(C)
<1> DEFINE rank == [x \in C |-> Cardinality(Below(less, C, x)) + 1]
           total == Cardinality(C)
<1>1. IsFiniteSet(C) /\ total \in Nat
  BY FS_CardinalityType DEF IsOrder
<1>2. \A x \in C : IsFiniteSet(Below(less, C, x)) /\ Cardinality(Below(less, C, x)) \in Nat
  <2> TAKE x \in C
  <2>1. Below(less, C, x) \in SUBSET C
    BY DEF Below
  <2>2. IsFiniteSet(Below(less, C, x))
    BY <1>1, <2>1, FS_Subset
  <2>3. QED  BY <2>2, FS_CardinalityType
<1>3. ASSUME NEW x \in C, NEW y \in C, <<x, y>> \in less
      PROVE  Cardinality(Below(less, C, x)) < Cardinality(Below(less, C, y))
  <2>1. Below(less, C, x) \in SUBSET Below(less, C, y)
    BY <1>3 DEF Below, IsOrder
  <2>2. x \in Below(less, C, y) /\ x \notin Below(less, C, x)
    BY <1>3 DEF Below, IsOrder
  <2>3. /\ Cardinality(Below(less, C, x)) <= Cardinality(Below(less, C, y))
        /\ Cardinality(Below(less, C, x)) # Cardinality(Below(less, C, y))
    BY <1>2, <2>1, <2>2, FS_Subset
  <2>4. QED  BY <1>2, <2>3
<1>4. \A x, y \in C : Cardinality(Below(less, C, x)) = Cardinality(Below(less, C, y)) => x = y
  <2> TAKE x, y \in C
  <2>1. x # y => <<x, y>> \in less \/ <<y, x>> \in less
    BY DEF IsOrder
  <2>2. <<x, y>> \in less => Cardinality(Below(less, C, x)) # Cardinality(Below(less, C, y))
    BY <1>2, <1>3
  <2>3. <<y, x>> \in less => Cardinality(Below(less, C, x)) # Cardinality(Below(less, C, y))
    BY <1>2, <1>3
  <2>4. QED  BY <2>1, <2>2, <2>3
<1>5. \A x \in C : Cardinality(Below(less, C, x)) + 1 \in 1..total
  <2> TAKE x \in C
  <2>1. Below(less, C, x) \in SUBSET C /\ x \notin Below(less, C, x)
    BY DEF Below, IsOrder
  <2>2. Cardinality(Below(less, C, x)) <= total /\ Cardinality(Below(less, C, x)) # total
    BY <1>1, <2>1, FS_Subset
  <2>3. QED  BY <1>1, <1>2, <2>2
<1> HIDE DEF total
<1>6. rank \in Injection(C, 1..total)
  BY <1>2, <1>4, <1>5 DEF Injection, IsInjective
<1>7. IsFiniteSet(1..total) /\ Cardinality(1..total) = total
  BY <1>1, FS_Interval
<1>8. rank \in Surjection(C, 1..total)
  <2> HIDE DEF rank
  <2>1. QED  BY <1>6, <1>7, FS_Injection DEF total
<1>9. ASSUME NEW n \in 1..total
      PROVE  \E x \in C : Cardinality(Below(less, C, x)) = n - 1
  <2>1. PICK x \in C : rank[x] = n
    BY <1>8 DEF Surjection
  <2>2. Cardinality(Below(less, C, x)) + 1 = n
    BY <2>1
  <2>3. QED  BY <1>2, <2>2
<1>10. QED  BY <1>4, <1>5, <1>9 DEF total

Before(forest, C, t) == {p \in C \X C : LessRoots(forest, p[1], p[2], t)}

\* The order of the roots, as a set of pairs.
LEMMA BeforeIsOrder ==
    ASSUME NEW forest, IsForest(forest), NEW t \in Int, NEW C \in SUBSET DOMAIN forest
    PROVE  IsOrder(Before(forest, C, t), C)
<1> DEFINE less == Before(forest, C, t)
<1>1. IsFiniteSet(C)
  BY FS_Subset DEF IsForest
<1>2. \A a, b \in C : <<a, b>> \in less <=> LessRoots(forest, a, b, t)
  BY DEF Before
<1> HIDE DEF less
<1>3. QED  BY <1>1, <1>2, RootsAreOrdered DEF IsOrder, less

\* The tasks of a set, ranked: who comes where is a matter of the tasks alone.
Ranked(forest, C, t) ==
    [n \in 1..Cardinality(C) |->
        CHOOSE x \in C : Cardinality(Below(Before(forest, C, t), C, x)) = n - 1]

\* Each task of the set has one rank.
LEMMA RankedIsOnto ==
    ASSUME NEW forest, IsForest(forest), NEW t \in Int, NEW C \in SUBSET DOMAIN forest
    PROVE  /\ IsFiniteSet(C) /\ Cardinality(C) \in Nat
           /\ Ranked(forest, C, t) \in [1..Cardinality(C) -> C]
           /\ \A m, n \in 1..Cardinality(C) :
                  Ranked(forest, C, t)[m] = Ranked(forest, C, t)[n] => m = n
           /\ \A x \in C : \E n \in 1..Cardinality(C) : Ranked(forest, C, t)[n] = x
<1> DEFINE less == Before(forest, C, t)
           rank(x) == Cardinality(Below(less, C, x))
<1>1. IsOrder(less, C)
  BY BeforeIsOrder
<1>2. IsFiniteSet(C) /\ Cardinality(C) \in Nat
  BY <1>1, FS_CardinalityType DEF IsOrder
<1> HIDE DEF less
<1>3. /\ \A x, y \in C : rank(x) = rank(y) => x = y
      /\ \A n \in 1..Cardinality(C) : \E x \in C : rank(x) = n - 1
      /\ \A x \in C : rank(x) + 1 \in 1..Cardinality(C)
  BY <1>1, Ranks
<1> HIDE DEF rank
<1>4. Ranked(forest, C, t) = [n \in 1..Cardinality(C) |-> CHOOSE x \in C : rank(x) = n - 1]
  BY DEF Ranked, less, rank
<1>5. \A n \in 1..Cardinality(C) :
          Ranked(forest, C, t)[n] \in C /\ rank(Ranked(forest, C, t)[n]) = n - 1
  BY <1>3, <1>4
<1>6. ASSUME NEW x \in C
      PROVE  \E n \in 1..Cardinality(C) : Ranked(forest, C, t)[n] = x
  <2>1. rank(x) + 1 \in 1..Cardinality(C)
    BY <1>3
  <2>2. rank(x) \in Nat
    <3>1. Below(less, C, x) \in SUBSET C
      BY DEF Below
    <3>2. QED  BY <1>2, <3>1, FS_Subset, FS_CardinalityType DEF rank
  <2>3. rank(Ranked(forest, C, t)[rank(x) + 1]) = rank(x)
    BY <1>5, <2>1, <2>2
  <2>4. QED  BY <1>3, <1>5, <2>1, <2>3
<1>7. ASSUME NEW m \in 1..Cardinality(C), NEW n \in 1..Cardinality(C),
             Ranked(forest, C, t)[m] = Ranked(forest, C, t)[n]
      PROVE  m = n
  <2>1. m - 1 = n - 1
    BY <1>5, <1>7
  <2>2. QED  BY <1>2, <2>1
<1>8. Ranked(forest, C, t) \in [1..Cardinality(C) -> C]
  BY <1>4, <1>5
<1>9. QED  BY <1>2, <1>6, <1>7, <1>8

\* RankRoots is that, in whatever order the response listed the tasks: its stable
\* sort never has to fall back on it.
LEMMA RankRootsIsRanked ==
    ASSUME NEW forest, IsForest(forest), NEW t \in Int,
           NEW order \in Seq(Id), IsInjective(order),
           NEW chosen \in SUBSET DOMAIN order, \A k \in chosen : order[k] \in DOMAIN forest
    PROVE  RankRoots(forest, order, chosen, t) = Ranked(forest, {order[k] : k \in chosen}, t)
<1> DEFINE C == {order[k] : k \in chosen}
           less == Before(forest, C, t)
           early == {p \in chosen \X chosen : LessRoots(forest, order[p[1]], order[p[2]], t)}
           ahead == [k \in chosen |->
                        {j \in chosen : <<j, k>> \in early \/ (<<k, j>> \notin early /\ j < k)}]
<1>1. C \in SUBSET DOMAIN forest
  OBVIOUS
<1>2. IsOrder(less, C)
  <2> HIDE DEF C
  <2>1. QED  BY <1>1, BeforeIsOrder
<1>3. \A j, k \in chosen : order[j] = order[k] => j = k
  BY DEF IsInjective
<1>4. \A j, k \in chosen : <<j, k>> \in early <=> <<order[j], order[k]>> \in less
  <2> TAKE j, k \in chosen
  <2>1. order[j] \in C /\ order[k] \in C
    OBVIOUS
  <2>2. <<j, k>> \in early <=> LessRoots(forest, order[j], order[k], t)
    OBVIOUS
  <2> HIDE DEF early, C
  <2>3. <<order[j], order[k]>> \in less <=> LessRoots(forest, order[j], order[k], t)
    BY <2>1 DEF Before
  <2>4. QED  BY <2>2, <2>3
<1>5. chosen \subseteq Int
  OBVIOUS
<1> HIDE DEF less, early
<1>6. ASSUME NEW k \in chosen
      PROVE  ahead[k] = {j \in chosen : order[j] \in Below(less, C, order[k])}
  <2>1. \A j \in chosen : order[j] \in C
    OBVIOUS
  <2> HIDE DEF C
  <2>2. ASSUME NEW j \in chosen
        PROVE  (<<j, k>> \in early \/ (<<k, j>> \notin early /\ j < k)) <=>
                   <<order[j], order[k]>> \in less
    <3>1. CASE j = k
      <4>1. ~(k < k)
        BY <1>5
      <4>2. <<order[k], order[k]>> \notin less
        BY <1>2, <2>1 DEF IsOrder
      <4>3. QED  BY <1>4, <3>1, <4>1, <4>2
    <3>2. CASE j # k
      <4>1. order[j] # order[k]
        BY <1>3, <3>2
      <4>2. <<order[j], order[k]>> \in less \/ <<order[k], order[j]>> \in less
        BY <1>2, <2>1, <4>1 DEF IsOrder
      <4>3. QED  BY <1>4, <4>2
    <3>3. QED  BY <3>1, <3>2
  <2>3. QED  BY <2>1, <2>2 DEF Below
<1>7. ASSUME NEW k \in chosen
      PROVE  Cardinality(ahead[k]) = Cardinality(Below(less, C, order[k]))
  <2> DEFINE S == ahead[k]
             T == Below(less, C, order[k])
             f == [j \in S |-> order[j]]
  <2>1. S = {j \in chosen : order[j] \in T}
    BY <1>6
  <2>2. \A x \in T : \E j \in chosen : order[j] = x
    BY DEF Below
  <2>3. IsFiniteSet(T)
    <3>1. T \in SUBSET C
      BY DEF Below
    <3> HIDE DEF T, C
    <3>2. QED  BY <1>2, <3>1, FS_Subset DEF IsOrder
  <2> HIDE DEF S, T
  <2>4. f \in Injection(S, T)
    BY <1>3, <2>1 DEF Injection, IsInjective
  <2>5. f \in Surjection(S, T)
    BY <2>1, <2>2 DEF Surjection
  <2> HIDE DEF f
  <2>6. Cardinality(S) = Cardinality(T)
    BY <2>3, <2>4, <2>5, FS_Injection
  <2>7. QED  BY <2>6 DEF S, T
<1>8. Cardinality(chosen) = Cardinality(C)
  <2> DEFINE f == [j \in chosen |-> order[j]]
  <2>1. f \in Injection(chosen, C)
    BY <1>3 DEF Injection, IsInjective
  <2>2. f \in Surjection(chosen, C)
    BY DEF Surjection
  <2>3. IsFiniteSet(C)
    BY <1>2 DEF IsOrder
  <2> HIDE DEF f, C
  <2>4. QED  BY <2>1, <2>2, <2>3, FS_Injection
<1>9. ASSUME NEW n \in 1..Cardinality(C)
      PROVE  order[CHOOSE k \in chosen : Cardinality(ahead[k]) = n - 1] =
                 CHOOSE x \in C : Cardinality(Below(less, C, x)) = n - 1
  <2>1. PICK x \in C : Cardinality(Below(less, C, x)) = n - 1
    <3> HIDE DEF C
    <3>1. QED  BY <1>2, Ranks
  <2>2. PICK k \in chosen : order[k] = x
    OBVIOUS
  <2>3. Cardinality(ahead[k]) = n - 1
    BY <1>7, <2>1, <2>2
  <2> DEFINE kk == CHOOSE j \in chosen : Cardinality(ahead[j]) = n - 1
             xx == CHOOSE y \in C : Cardinality(Below(less, C, y)) = n - 1
  <2> HIDE DEF ahead
  <2>4. kk \in chosen /\ Cardinality(ahead[kk]) = n - 1
    BY <2>3
  <2>5. xx \in C /\ Cardinality(Below(less, C, xx)) = n - 1
    BY <2>1
  <2> HIDE DEF kk, xx
  <2>6. order[kk] \in C /\ Cardinality(Below(less, C, order[kk])) = n - 1
    BY <1>7, <2>4
  <2>7. order[kk] = xx
    <3> HIDE DEF C
    <3>1. QED  BY <1>2, <2>5, <2>6, Ranks
  <2>8. QED  BY <2>7 DEF kk, xx
<1> DEFINE size == Cardinality(C)
           inOrder(n) == order[CHOOSE k \in chosen : Cardinality(ahead[k]) = n - 1]
           byRank(n) == CHOOSE x \in C : Cardinality(Below(less, C, x)) = n - 1
<1>10. RankRoots(forest, order, chosen, t) = [n \in 1..size |-> inOrder(n)]
  BY <1>8 DEF RankRoots, early
<1>11. Ranked(forest, C, t) = [n \in 1..size |-> byRank(n)]
  BY DEF Ranked, less
<1>12. \A n \in 1..size : inOrder(n) = byRank(n)
  BY <1>9
<1> HIDE DEF size, inOrder, byRank
<1>13. [n \in 1..size |-> inOrder(n)] = [n \in 1..size |-> byRank(n)]
  BY <1>12
<1>14. QED  BY <1>10, <1>11, <1>13

-----------------------------------------------------------------------------
(***************************************************************************)
(* What a listing is made of.                                              *)
(***************************************************************************)
\* The roots /list shows and the tasks /find does.
Tops(forest) == {i \in DOMAIN forest : IsRoot(forest, i) /\ subtreeHasOpen(forest, i)}

Matches(forest, needle) == {i \in DOMAIN forest : IsOpen(forest[i]) /\ needle \in forest[i].title}

Trees(forest, t) ==
    [n \in 1..Cardinality(Tops(forest)) |-> expand(forest, Ranked(forest, Tops(forest), t)[n])]

Kept(forest, needle) ==
    IF Cardinality(Matches(forest, needle)) > findCeiling THEN findCeiling
    ELSE Cardinality(Matches(forest, needle))

Hits(forest, needle, t) ==
    [n \in 1..Kept(forest, needle) |->
        <<[task |-> Ranked(forest, Matches(forest, needle), t)[n], depth |-> 0]>>]

\* A response lists every task once.
LEMMA OrderIs ==
    ASSUME NEW order \in Orders
    PROVE  /\ order \in Seq(Id) /\ IsInjective(order)
           /\ \A i \in Id : \E k \in DOMAIN order : order[k] = i
<1>1. order \in Seq(Id) /\ Range(order) = Id /\ IsInjective(order)
  BY ReaderAssumption
<1>2. QED  BY <1>1 DEF Range

\* Both are the same, whatever order the response came in.
LEMMA ListGroupsIsTrees ==
    ASSUME NEW forest, IsForest(forest), NEW t \in Int, NEW order \in Orders
    PROVE  ListGroups(forest, order, t) = Trees(forest, t)
<1> DEFINE roots == {k \in DOMAIN order : /\ order[k] \in DOMAIN forest
                                          /\ IsRoot(forest, order[k])
                                          /\ subtreeHasOpen(forest, order[k])}
           ranked == RankRoots(forest, order, roots, t)
<1>1. /\ order \in Seq(Id) /\ IsInjective(order)
      /\ \A i \in Id : \E k \in DOMAIN order : order[k] = i
  BY OrderIs
<1>2. roots \in SUBSET DOMAIN order /\ \A k \in roots : order[k] \in DOMAIN forest
  OBVIOUS
<1>3. {order[k] : k \in roots} = Tops(forest)
  <2>1. DOMAIN forest \subseteq Id
    BY DEF IsForest
  <2>2. QED  BY <1>1, <2>1 DEF Tops
<1>4. ListGroups(forest, order, t) = [n \in DOMAIN ranked |-> expand(forest, ranked[n])]
  BY DEF ListGroups
<1> HIDE DEF roots
<1>5. ranked = Ranked(forest, Tops(forest), t)
  BY <1>1, <1>2, <1>3, RankRootsIsRanked
<1>6. DOMAIN ranked = 1..Cardinality(Tops(forest))
  BY <1>5 DEF Ranked
<1> HIDE DEF ranked
<1>7. QED  BY <1>4, <1>5, <1>6 DEF Trees

LEMMA FindGroupsIsHits ==
    ASSUME NEW forest, IsForest(forest), NEW t \in Int, NEW order \in Orders, NEW needle
    PROVE  /\ FindGroups(forest, order, needle, t).groups = Hits(forest, needle, t)
           /\ FindGroups(forest, order, needle, t).overflow =
                  Cardinality(Matches(forest, needle)) - Kept(forest, needle)
<1> DEFINE matches == {k \in DOMAIN order : /\ order[k] \in DOMAIN forest
                                            /\ IsOpen(forest[order[k]])
                                            /\ needle \in forest[order[k]].title}
           ranked == RankRoots(forest, order, matches, t)
           kept == IF Len(ranked) > findCeiling THEN findCeiling ELSE Len(ranked)
           C == Matches(forest, needle)
<1>1. /\ order \in Seq(Id) /\ IsInjective(order)
      /\ \A i \in Id : \E k \in DOMAIN order : order[k] = i
  BY OrderIs
<1>2. matches \in SUBSET DOMAIN order /\ \A k \in matches : order[k] \in DOMAIN forest
  OBVIOUS
<1>3. {order[k] : k \in matches} = C
  <2>1. DOMAIN forest \subseteq Id
    BY DEF IsForest
  <2>2. QED  BY <1>1, <2>1 DEF Matches
<1>4. /\ FindGroups(forest, order, needle, t).groups =
             [n \in 1..kept |-> <<[task |-> ranked[n], depth |-> 0]>>]
      /\ FindGroups(forest, order, needle, t).overflow = Len(ranked) - kept
  BY DEF FindGroups
<1> HIDE DEF matches
<1>5. ranked = Ranked(forest, C, t)
  BY <1>1, <1>2, <1>3, RankRootsIsRanked
<1>6. C \in SUBSET DOMAIN forest
  BY DEF Matches
<1> HIDE DEF ranked, C
<1>7. Ranked(forest, C, t) \in [1..Cardinality(C) -> C] /\ Cardinality(C) \in Nat
  BY <1>6, RankedIsOnto
<1>8. Len(ranked) = Cardinality(C)
  BY <1>5, <1>7
<1>9. kept = Kept(forest, needle)
  BY <1>8 DEF Kept, C
<1> HIDE DEF kept
<1>10. QED  BY <1>4, <1>5, <1>8, <1>9 DEF Hits, C

\* The groups of /list are trees, one each ...
LEMMA TreesAreGroups ==
    ASSUME NEW forest, IsForest(forest), NEW t \in Int
    PROVE  /\ Trees(forest, t) \in Seq(Seq(Row))
           /\ \A n \in 1..Len(Trees(forest, t)) : IsGroup(Trees(forest, t)[n])
<1> DEFINE C == Tops(forest)
           ranked == Ranked(forest, C, t)
<1>1. C \in SUBSET DOMAIN forest
  BY DEF Tops
<1>2. Trees(forest, t) = [n \in 1..Cardinality(C) |-> expand(forest, ranked[n])]
  BY DEF Trees
<1> HIDE DEF C
<1>3. Cardinality(C) \in Nat /\ ranked \in [1..Cardinality(C) -> C]
  BY <1>1, RankedIsOnto
<1> HIDE DEF ranked
<1>4. \A n \in 1..Cardinality(C) : IsGroup(expand(forest, ranked[n]))
  BY <1>1, <1>3, ExpandIsGroup
<1>5. \A n \in 1..Cardinality(C) : expand(forest, ranked[n]) \in Seq(Row)
  BY <1>4 DEF IsGroup
<1>6. QED  BY <1>2, <1>3, <1>4, <1>5

\* ... the number of matches /find keeps is at most what there are ...
LEMMA KeptType ==
    ASSUME NEW forest, IsForest(forest), NEW needle
    PROVE  /\ Matches(forest, needle) \in SUBSET DOMAIN forest
           /\ Kept(forest, needle) \in 0..Cardinality(Matches(forest, needle))
           /\ Cardinality(Matches(forest, needle)) \in Nat
<1>1. Matches(forest, needle) \in SUBSET DOMAIN forest
  BY DEF Matches
<1>2. Cardinality(Matches(forest, needle)) \in Nat
  BY <1>1, FS_Subset, FS_CardinalityType DEF IsForest
<1>3. QED  BY <1>1, <1>2, ViewAssumption DEF Kept

\* ... and its groups are trees of one row.
LEMMA HitsAreGroups ==
    ASSUME NEW forest, IsForest(forest), NEW t \in Int, NEW needle
    PROVE  /\ Hits(forest, needle, t) \in Seq(Seq(Row))
           /\ \A n \in 1..Len(Hits(forest, needle, t)) : IsGroup(Hits(forest, needle, t)[n])
<1> DEFINE C == Matches(forest, needle)
           ranked == Ranked(forest, C, t)
           kept == Kept(forest, needle)
           hit(n) == <<[task |-> ranked[n], depth |-> 0]>>
<1>1. C \in SUBSET DOMAIN forest /\ kept \in 0..Cardinality(C)
  BY KeptType
<1>2. Hits(forest, needle, t) = [n \in 1..kept |-> hit(n)]
  BY DEF Hits
<1> HIDE DEF C, kept
<1>3. Cardinality(C) \in Nat /\ ranked \in [1..Cardinality(C) -> C]
  BY <1>1, RankedIsOnto
<1> HIDE DEF ranked
<1>4. ASSUME NEW n \in 1..kept
      PROVE  hit(n) \in Seq(Row) /\ IsGroup(hit(n))
  <2> DEFINE row == [task |-> ranked[n], depth |-> 0]
  <2>1. ranked[n] \in Id
    BY <1>1, <1>3 DEF IsForest
  <2>2. row \in Row /\ row.depth = 0
    BY <2>1 DEF Row
  <2> HIDE DEF row
  <2>3. <<row>> \in Seq(Row) /\ <<row>> # <<>> /\ Roots(<<row>>) = {1}
    BY <2>2 DEF Roots
  <2>4. QED  BY <2>3 DEF IsGroup, row
<1>5. kept \in Nat
  BY <1>1
<1> HIDE DEF hit
<1>6. QED  BY <1>2, <1>4, <1>5

GroupsOf(forest, query, t) == IF query = Null THEN Trees(forest, t) ELSE Hits(forest, query, t)

MoreOf(forest, query) ==
    IF query = Null THEN 0 ELSE Cardinality(Matches(forest, query)) - Kept(forest, query)

\* Either is something Paginate may be given.
LEMMA GroupsAreGroups ==
    ASSUME NEW forest, IsForest(forest), NEW t \in Int, NEW query
    PROVE  /\ GroupsOf(forest, query, t) \in Seq(Seq(Row))
           /\ \A n \in 1..Len(GroupsOf(forest, query, t)) : IsGroup(GroupsOf(forest, query, t)[n])
<1>1. CASE query = Null
  BY <1>1, TreesAreGroups DEF GroupsOf
<1>2. CASE query # Null
  BY <1>2, HitsAreGroups DEF GroupsOf
<1>3. QED  BY <1>1, <1>2

\* A screen does not depend on the order the response came in.
LEMMA ListingIs ==
    ASSUME IsForest(tasks), now \in Int, NEW order \in Orders, NEW query, NEW page
    PROVE  Listing(query, page, order) =
               [query |-> query, page |-> Paginate(GroupsOf(tasks, query, now), page),
                more |-> MoreOf(tasks, query)]
<1>1. CASE query = Null
  <2>1. Listing(query, page, order) =
            [query |-> Null, page |-> Paginate(ListGroups(tasks, order, now), page), more |-> 0]
    BY <1>1 DEF Listing
  <2>2. QED  BY <1>1, <2>1, ListGroupsIsTrees DEF GroupsOf, MoreOf
<1>2. CASE query # Null
  <2>1. Listing(query, page, order) =
            [query |-> query,
             page |-> Paginate(FindGroups(tasks, order, query, now).groups, page),
             more |-> FindGroups(tasks, order, query, now).overflow]
    BY <1>2 DEF Listing
  <2>2. QED  BY <1>2, <2>1, FindGroupsIsHits DEF GroupsOf, MoreOf
<1>3. QED  BY <1>1, <1>2

\* A page has a number and a count.
LEMMA PaginateType ==
    ASSUME NEW groups \in Seq(Seq(Row)), NEW page \in Int
    PROVE  Paginate(groups, page).index \in Nat /\ Paginate(groups, page).count \in Nat
<1>1. CASE groups = <<>>
  BY <1>1 DEF Paginate, NoPage
<1>2. CASE groups # <<>>
  <2>1. PICK index \in 0..Len(pageBreaks(groups)) - 1 :
            Paginate(groups, page) =
                [rows |-> filling(groups, FirstOf(groups, index))[LastOf(groups, index)].rows,
                 index |-> index, count |-> Len(pageBreaks(groups)),
                 overflow |->
                     filling(groups, FirstOf(groups, index))[LastOf(groups, index)].overflow]
    BY <1>2, PaginateIs
  <2>2. Len(pageBreaks(groups)) \in Nat
    BY <1>2, PagesCover
  <2>3. QED  BY <2>1, <2>2
<1>3. QED  BY <1>1, <1>2

\* The inductive invariant: the server has a forest, and the screen is a page.
Readable ==
    /\ IsForest(tasks)
    /\ now \in Int
    /\ screen.page.index \in Nat /\ screen.page.count \in Nat
    /\ Fits(screen.page)

\* It holds of what the bot starts with ...
LEMMA InitReadable == Init => Readable
<1> SUFFICES ASSUME Init PROVE Readable
  OBVIOUS
<1>1. IsForest(tasks) /\ now \in Int
  BY ReaderAssumption DEF Init
<1>2. screen.page = NoPage
  BY DEF Init, NoScreen
<1>3. NoPage.index \in Nat /\ NoPage.count \in Nat
  BY DEF NoPage
<1>4. Fits(NoPage)
  <2> DEFINE none == <<>>
  <2>1. none \in Seq(Seq(Row)) /\ \A n \in 1..Len(none) : IsGroup(none[n])
    OBVIOUS
  <2>2. Paginate(none, 0) = NoPage
    BY DEF Paginate
  <2> HIDE DEF none
  <2>3. Fits(Paginate(none, 0))
    BY <2>1, EveryPageFits
  <2>4. QED  BY <2>2, <2>3
<1>5. QED  BY <1>1, <1>2, <1>3, <1>4 DEF Readable

\* A screen that is shown, whatever the query and the page asked for.
LEMMA ShownReadable ==
    ASSUME Readable, NEW query, NEW page \in Int, NEW order \in Orders,
           screen' = Listing(query, page, order), UNCHANGED <<tasks, now>>
    PROVE  Readable'
<1> DEFINE groups == GroupsOf(tasks, query, now)
<1>1. screen'.page = Paginate(groups, page)
  BY ListingIs DEF Readable
<1>2. groups \in Seq(Seq(Row)) /\ \A n \in 1..Len(groups) : IsGroup(groups[n])
  BY GroupsAreGroups DEF Readable
<1> HIDE DEF groups
<1>3. /\ Fits(Paginate(groups, page))
      /\ Paginate(groups, page).index \in Nat /\ Paginate(groups, page).count \in Nat
  BY <1>2, EveryPageFits, PaginateType
<1>4. Fits(screen.page)' <=> Fits(screen'.page)
  BY DEF Fits, Roots
<1>5. IsForest(tasks)'
  BY DEF Readable, IsForest
<1>6. QED  BY <1>1, <1>3, <1>4, <1>5 DEF Readable

\* Closing or opening a task leaves the child lists as they are.
LEMMA ClosingKeepsForest ==
    ASSUME NEW forest, IsForest(forest), NEW i \in DOMAIN forest
    PROVE  IsForest([forest EXCEPT ![i].closed = ~@])
<1> DEFINE new == [forest EXCEPT ![i].closed = ~@]
<1>1. DOMAIN new = DOMAIN forest
  OBVIOUS
<1>2. ASSUME NEW j \in DOMAIN forest
      PROVE  new[j] \in Task /\ new[j].kids = forest[j].kids
  <2>1. forest[j] \in Task /\ forest[i] \in Task
    BY DEF IsForest
  <2>2. CASE j = i
    <3>1. new[j] = [forest[i] EXCEPT !.closed = ~@]
      BY <2>2
    <3>2. QED  BY <2>1, <2>2, <3>1 DEF Task
  <2>3. CASE j # i
    BY <2>1, <2>3
  <2>4. QED  BY <2>2, <2>3
<1> HIDE DEF new
<1>3. IsForest(new)
  BY <1>1, <1>2 DEF IsForest
<1>4. QED  BY <1>3 DEF new

\* ... and after every step.
LEMMA NextReadable == Readable /\ [Next]_vars => Readable'
<1> SUFFICES ASSUME Readable, [Next]_vars PROVE Readable'
  OBVIOUS
<1>1. CASE Command
  BY <1>1, ShownReadable DEF Command
<1>2. CASE Forward
  <2>1. screen.page.index + 1 \in Int
    BY DEF Readable
  <2>2. QED  BY <1>2, <2>1, ShownReadable DEF Forward
<1>3. CASE Backward
  <2>1. screen.page.index - 1 \in Int
    BY DEF Readable
  <2>2. QED  BY <1>3, <2>1, ShownReadable DEF Backward
<1>4. CASE Elsewhere
  <2>1. IsForest(tasks')
    <3>1. PICK i \in DOMAIN tasks : tasks' = [tasks EXCEPT ![i].closed = ~@]
      BY <1>4 DEF Elsewhere
    <3>2. IsForest(tasks)
      BY DEF Readable
    <3>3. IsForest([tasks EXCEPT ![i].closed = ~@])
      BY <3>2, ClosingKeepsForest
    <3>4. QED  BY <3>1, <3>3
  <2>2. IsForest(tasks)'
    BY <2>1 DEF IsForest
  <2>3. Fits(screen.page)'
    BY <1>4 DEF Elsewhere, Readable, Fits, Roots
  <2>4. QED  BY <1>4, <2>2, <2>3 DEF Elsewhere, Readable
<1>5. CASE Tick
  <2>1. now' \in Int
    BY <1>5, ReaderAssumption DEF Tick
  <2>2. Fits(screen.page)' /\ IsForest(tasks)'
    BY <1>5 DEF Tick, Readable, Fits, Roots, IsForest
  <2>3. QED  BY <1>5, <2>1, <2>2 DEF Tick, Readable
<1>6. CASE UNCHANGED vars
  BY <1>6 DEF vars, Readable, Fits, Roots, IsForest
<1>7. QED  BY <1>1, <1>2, <1>3, <1>4, <1>5, <1>6 DEF Next

\* Whatever the forest, the limits and the page asked for, a page shown keeps to
\* both limits, begins with a root, is cut only when it is all one tree, and is
\* not empty when there is something to show.
THEOREM PageAlwaysFits == Spec => []PageFits
<1>1. Readable => PageFits
  BY DEF Readable, Fits, PageFits, Roots
<1>2. QED  BY <1>1, InitReadable, NextReadable, PTL DEF Spec

-----------------------------------------------------------------------------
(***************************************************************************)
(* What was read, and what was left out.                                   *)
(***************************************************************************)
NoTaskTwice(rows) == \A j, k \in 1..Len(rows) : rows[j].task = rows[k].task => j = k

\* Of the tasks all, those in ids were met once each in so many rows, and lost were
\* left out.
Accounts(all, ids, rows, lost) ==
    /\ IsFiniteSet(all) /\ ids \subseteq all
    /\ Cardinality(ids) = rows
    /\ Cardinality(all \ ids) = lost

\* What is counted is finite.
LEMMA AccountsType ==
    ASSUME NEW all, NEW ids, NEW rows, NEW lost, Accounts(all, ids, rows, lost)
    PROVE  /\ rows \in Nat /\ lost \in Nat
           /\ IsFiniteSet(ids) /\ IsFiniteSet(all \ ids)
<1>1. ids \in SUBSET all /\ all \ ids \in SUBSET all /\ IsFiniteSet(all)
  BY DEF Accounts
<1>2. IsFiniteSet(ids) /\ IsFiniteSet(all \ ids)
  BY <1>1, FS_Subset
<1>3. Cardinality(ids) \in Nat /\ Cardinality(all \ ids) \in Nat
  BY <1>2, FS_CardinalityType
<1>4. QED  BY <1>2, <1>3 DEF Accounts

\* Accounts of two sets with nothing in common add up.
LEMMA AccountsAdd ==
    ASSUME NEW all1, NEW ids1, NEW rows1, NEW lost1, Accounts(all1, ids1, rows1, lost1),
           NEW all2, NEW ids2, NEW rows2, NEW lost2, Accounts(all2, ids2, rows2, lost2),
           all1 \intersect all2 = {}
    PROVE  Accounts(all1 \union all2, ids1 \union ids2, rows1 + rows2, lost1 + lost2)
<1>1. /\ IsFiniteSet(all1) /\ ids1 \subseteq all1 /\ IsFiniteSet(all2) /\ ids2 \subseteq all2
      /\ Cardinality(ids1) = rows1 /\ Cardinality(ids2) = rows2
      /\ Cardinality(all1 \ ids1) = lost1 /\ Cardinality(all2 \ ids2) = lost2
  BY DEF Accounts
<1>2. /\ IsFiniteSet(ids1) /\ IsFiniteSet(all1 \ ids1)
      /\ IsFiniteSet(ids2) /\ IsFiniteSet(all2 \ ids2)
  BY AccountsType
<1>3. IsFiniteSet(all1 \union all2)
  BY <1>1, DisjointUnion
<1>4. ids1 \intersect ids2 = {}
  BY <1>1
<1>5. Cardinality(ids1 \union ids2) = rows1 + rows2
  BY <1>1, <1>2, <1>4, DisjointUnion
<1>6. (all1 \ ids1) \intersect (all2 \ ids2) = {}
  OBVIOUS
<1>7. Cardinality((all1 \ ids1) \union (all2 \ ids2)) = lost1 + lost2
  BY <1>1, <1>2, <1>6, DisjointUnion
<1>8. (all1 \union all2) \ (ids1 \union ids2) = (all1 \ ids1) \union (all2 \ ids2)
  BY <1>1
<1>9. QED  BY <1>1, <1>3, <1>5, <1>7, <1>8 DEF Accounts

\* Rows that name no task twice name as many as there are.
LEMMA NamedCount ==
    ASSUME NEW rows \in Seq(Row), NoTaskTwice(rows),
           NEW a \in 1..Len(rows) + 1, NEW b \in a - 1..Len(rows)
    PROVE  LET S == {rows[k].task : k \in a..b}
           IN  IsFiniteSet(S) /\ Cardinality(S) = b - a + 1
<1> DEFINE S == {rows[k].task : k \in a..b}
           f == [k \in a..b |-> rows[k].task]
<1>1. a \in Int /\ b \in Int /\ a..b \subseteq 1..Len(rows)
  OBVIOUS
<1>2. IsFiniteSet(a..b) /\ Cardinality(a..b) = b - a + 1
  <2>1. /\ IsFiniteSet(a..b)
        /\ Cardinality(a..b) = IF a > b THEN 0 ELSE b - a + 1
    BY <1>1, FS_Interval
  <2>2. a > b => b - a + 1 = 0
    OBVIOUS
  <2>3. QED  BY <2>1, <2>2
<1>3. f \in Surjection(a..b, S)
  BY DEF Surjection
<1>4. f \in Injection(a..b, S)
  BY <1>1 DEF Injection, IsInjective, NoTaskTwice
<1> HIDE DEF f, S
<1>5. IsFiniteSet(S) /\ Cardinality(S) = Cardinality(a..b)
  BY <1>2, <1>3, <1>4, FS_Surjection
<1>6. QED  BY <1>2, <1>5 DEF S

\* A group that is cut shows the tasks up to the cut.
LEMMA CutAccounts ==
    ASSUME NEW g \in Seq(Row), NoTaskTwice(g), NEW n \in 0..Len(g)
    PROVE  Accounts(Named(g), Named(SubSeq(g, 1, n)), n, Len(g) - n)
<1> DEFINE shown == {g[k].task : k \in 1..n}
           cut == {g[k].task : k \in n + 1..Len(g)}
           part == SubSeq(g, 1, n)
<1>1. IsFiniteSet(Named(g))
  BY NamedCount DEF Named
<1>2. IsFiniteSet(shown) /\ Cardinality(shown) = n
  <2>1. 1 \in 1..Len(g) + 1 /\ n \in 1 - 1..Len(g) /\ n - 1 + 1 = n
    OBVIOUS
  <2>2. QED  BY <2>1, NamedCount
<1>3. IsFiniteSet(cut) /\ Cardinality(cut) = Len(g) - n
  <2>1. /\ n + 1 \in 1..Len(g) + 1 /\ Len(g) \in (n + 1) - 1..Len(g)
        /\ Len(g) - (n + 1) + 1 = Len(g) - n
    OBVIOUS
  <2>2. QED  BY <2>1, NamedCount
<1>4. Named(part) = shown
  <2>1. Len(part) = n /\ \A k \in 1..n : part[k] = g[k]
    OBVIOUS
  <2> HIDE DEF part
  <2>2. QED  BY <2>1 DEF Named
<1>5. shown \subseteq Named(g)
  BY DEF Named
<1>6. Named(g) \ shown = cut
  BY DEF Named, NoTaskTwice
<1> HIDE DEF shown, cut, part
<1>7. QED  BY <1>1, <1>2, <1>3, <1>4, <1>5, <1>6 DEF Accounts, part

\* A page to which a group is added accounts for its tasks as well.
LEMMA AddGroupAccounts ==
    ASSUME NEW page \in Shown, NEW g \in Seq(Row), NoTaskTwice(g), NEW all,
           Accounts(all, Named(page.rows), Len(page.rows), page.overflow),
           all \intersect Named(g) = {}
    PROVE  LET new == addGroup(page, g)
           IN  Accounts(all \union Named(g), Named(new.rows), Len(new.rows), new.overflow)
<1> DEFINE new == addGroup(page, g)
           n == Taken(page, g)
           part == SubSeq(g, 1, n)
<1>1. n \in 0..Len(g) /\ new.rows = page.rows \o part /\ new.overflow = page.overflow + (Len(g) - n)
  BY AddGroupCuts
<1>2. Accounts(Named(g), Named(part), n, Len(g) - n)
  BY <1>1, CutAccounts
<1>3. page.rows \in Seq(Row)
  BY DEF Shown
<1> HIDE DEF n
<1>4. Len(part) = n /\ \A k \in 1..n : part[k] = g[k]
  BY <1>1
<1>5. /\ page.rows \o part \in Seq(Row)
      /\ Len(page.rows \o part) = Len(page.rows) + n
      /\ \A k \in 1..Len(page.rows) : (page.rows \o part)[k] = page.rows[k]
      /\ \A k \in Len(page.rows) + 1..Len(page.rows) + n :
             (page.rows \o part)[k] = g[k - Len(page.rows)]
  <2> DEFINE old == page.rows
  <2>1. old \in Seq(Row) /\ n \in 0..Len(g)
    BY <1>1, <1>3
  <2> HIDE DEF old
  <2>2. /\ old \o SubSeq(g, 1, n) \in Seq(Row)
        /\ Len(old \o SubSeq(g, 1, n)) = Len(old) + n
        /\ \A k \in 1..Len(old) : (old \o SubSeq(g, 1, n))[k] = old[k]
        /\ \A k \in Len(old) + 1..Len(old) + n :
               (old \o SubSeq(g, 1, n))[k] = g[k - Len(old)]
    BY <2>1, PrefixAdded
  <2>3. QED  BY <2>2 DEF old
<1> HIDE DEF part, new
<1>6. Named(new.rows) = Named(page.rows) \union Named(part)
  <2> DEFINE len == Len(page.rows)
  <2>1. len \in Nat /\ n \in Nat
    BY <1>1, <1>3
  <2>2. Len(new.rows) = len + n
    BY <1>1, <1>5
  <2>3. \A k \in 1..len : new.rows[k].task = page.rows[k].task
    BY <1>1, <1>5
  <2>4. \A k \in len + 1..len + n : new.rows[k].task = part[k - len].task
    <3> TAKE k \in len + 1..len + n
    <3>1. k - len \in 1..n
      BY <2>1
    <3>2. QED  BY <1>1, <1>4, <1>5, <3>1
  <2> HIDE DEF len
  <2>5. Named(new.rows) \subseteq Named(page.rows) \union Named(part)
    <3> SUFFICES ASSUME NEW k \in 1..len + n
                 PROVE  new.rows[k].task \in Named(page.rows) \union Named(part)
      BY <2>2 DEF Named
    <3>1. CASE k \in 1..len
      BY <2>3, <3>1 DEF Named, len
    <3>2. CASE k \notin 1..len
      <4>1. k \in len + 1..len + n /\ k - len \in 1..n
        BY <2>1, <3>2
      <4>2. QED  BY <1>4, <2>4, <4>1 DEF Named
    <3>3. QED  BY <3>1, <3>2
  <2>6. Named(page.rows) \subseteq Named(new.rows)
    <3> SUFFICES ASSUME NEW k \in 1..len
                 PROVE  page.rows[k].task \in Named(new.rows)
      BY DEF Named, len
    <3>1. k \in 1..len + n
      BY <2>1
    <3>2. QED  BY <2>2, <2>3, <3>1 DEF Named
  <2>7. Named(part) \subseteq Named(new.rows)
    <3> SUFFICES ASSUME NEW k \in 1..n
                 PROVE  part[k].task \in Named(new.rows)
      BY <1>4 DEF Named
    <3>1. len + k \in len + 1..len + n /\ len + k \in 1..len + n /\ (len + k) - len = k
      BY <2>1
    <3>2. new.rows[len + k].task = part[k].task
      BY <2>4, <3>1
    <3>3. QED  BY <2>2, <3>1, <3>2 DEF Named
  <2>8. QED  BY <2>5, <2>6, <2>7
<1>7. Accounts(all \union Named(g), Named(page.rows) \union Named(part),
               Len(page.rows) + n, page.overflow + (Len(g) - n))
  BY <1>2, AccountsAdd
<1>8. QED  BY <1>1, <1>5, <1>6, <1>7 DEF new

\* No two rows of the groups, of one group or of two, are of one task.
Different(groups) ==
    \A m, n \in 1..Len(groups) : \A j \in 1..Len(groups[m]), k \in 1..Len(groups[n]) :
        groups[m][j].task = groups[n][k].task => m = n /\ j = k

IdsOf(groups, a, b) == {i \in Id : \E n \in a..b : i \in Named(groups[n])}

\* The tasks of some groups and those of the groups after them have nothing in common.
LEMMA IdsOfParts ==
    ASSUME NEW groups \in Seq(Seq(Row)), Different(groups),
           NEW a \in 1..Len(groups), NEW b \in a - 1..Len(groups)
    PROVE  /\ \A n \in 1..Len(groups) : NoTaskTwice(groups[n])
           /\ a = b => IdsOf(groups, a, b) = Named(groups[a])
           /\ \A c \in b + 1..Len(groups) :
                  /\ IdsOf(groups, a, c) = IdsOf(groups, a, b) \union IdsOf(groups, b + 1, c)
                  /\ IdsOf(groups, a, b) \intersect IdsOf(groups, b + 1, c) = {}
<1>1. \A n \in 1..Len(groups) : NoTaskTwice(groups[n])
  BY DEF Different, NoTaskTwice
<1>2. ASSUME NEW n \in 1..Len(groups)
      PROVE  Named(groups[n]) \subseteq Id
  <2>1. \A k \in 1..Len(groups[n]) : groups[n][k] \in Row
    OBVIOUS
  <2>2. QED  BY <2>1 DEF Named, Row
<1>3. a = b => IdsOf(groups, a, b) = Named(groups[a])
  BY <1>2 DEF IdsOf
<1>4. ASSUME NEW c \in b + 1..Len(groups)
      PROVE  /\ IdsOf(groups, a, c) = IdsOf(groups, a, b) \union IdsOf(groups, b + 1, c)
             /\ IdsOf(groups, a, b) \intersect IdsOf(groups, b + 1, c) = {}
  <2>1. \A n : n \in a..c <=> n \in a..b \/ n \in b + 1..c
    OBVIOUS
  <2>2. IdsOf(groups, a, c) = IdsOf(groups, a, b) \union IdsOf(groups, b + 1, c)
    BY <2>1 DEF IdsOf
  <2>3. ASSUME NEW m \in a..b, NEW n \in b + 1..c, NEW i \in Named(groups[m]) \intersect Named(groups[n])
        PROVE  FALSE
    <3>1. m \in 1..Len(groups) /\ n \in 1..Len(groups) /\ m # n
      OBVIOUS
    <3>2. PICK j \in 1..Len(groups[m]) : groups[m][j].task = i
      BY <2>3 DEF Named
    <3>3. PICK k \in 1..Len(groups[n]) : groups[n][k].task = i
      BY <2>3 DEF Named
    <3>4. groups[m][j].task = groups[n][k].task => m = n
      BY <3>1 DEF Different
    <3>5. QED  BY <3>1, <3>2, <3>3, <3>4
  <2>4. QED  BY <2>2, <2>3 DEF IdsOf
<1>5. QED  BY <1>1, <1>3, <1>4

\* A page accounts for the groups from its first to its last.
LEMMA FilledAccounts ==
    ASSUME NEW groups \in Seq(Seq(Row)), Different(groups), NEW first \in 1..Len(groups)
    PROVE  \A i \in first..Len(groups) :
               LET page == filling(groups, first)[i]
               IN  Accounts(IdsOf(groups, first, i), Named(page.rows), Len(page.rows), page.overflow)
<1> DEFINE f == filling(groups, first)
           Good(i) == Accounts(IdsOf(groups, first, i), Named(f[i].rows), Len(f[i].rows), f[i].overflow)
           good == {i \in first..Len(groups) : Good(i)}
<1>1. /\ f[first] = addGroup(NothingShown, groups[first])
      /\ \A i \in first..Len(groups) - 1 : f[i + 1] = addGroup(f[i], groups[i + 1])
      /\ \A i \in first..Len(groups) : f[i] \in Shown
  BY FillingStep
<1> HIDE DEF f
<1>2. first \in good
  <2> DEFINE g == groups[first]
  <2>1. /\ NothingShown \in Shown /\ NothingShown.rows = <<>> /\ Len(NothingShown.rows) = 0
        /\ NothingShown.overflow = 0
    BY ViewAssumption DEF Shown, NothingShown
  <2>2. Named(NothingShown.rows) = {}
    BY <2>1 DEF Named
  <2>3. Accounts({}, Named(NothingShown.rows), Len(NothingShown.rows), NothingShown.overflow)
    BY <2>1, <2>2, FS_EmptySet DEF Accounts
  <2>4. first \in first - 1..Len(groups)
    OBVIOUS
  <2>5. g \in Seq(Row) /\ NoTaskTwice(g) /\ IdsOf(groups, first, first) = Named(g)
    BY <2>4, IdsOfParts
  <2> HIDE DEF g
  <2>6. Accounts({} \union Named(g), Named(f[first].rows), Len(f[first].rows), f[first].overflow)
    BY <1>1, <2>1, <2>3, <2>5, AddGroupAccounts DEF g
  <2>7. {} \union Named(g) = Named(g)
    OBVIOUS
  <2>8. QED  BY <2>5, <2>6, <2>7
<1>3. ASSUME NEW i \in first..Len(groups) - 1, i \in good
      PROVE  i + 1 \in good
  <2> DEFINE g == groups[i + 1]
             all == IdsOf(groups, first, i)
  <2>1. i + 1 \in 1..Len(groups) /\ i + 1 \in first..Len(groups) /\ i \in first - 1..Len(groups)
        /\ i + 1 \in (i + 1) - 1..Len(groups) /\ i + 1 \in i + 1..Len(groups)
    OBVIOUS
  <2>2. g \in Seq(Row) /\ NoTaskTwice(g) /\ IdsOf(groups, i + 1, i + 1) = Named(g)
    BY <2>1, IdsOfParts
  <2>3. /\ IdsOf(groups, first, i + 1) = all \union IdsOf(groups, i + 1, i + 1)
        /\ all \intersect IdsOf(groups, i + 1, i + 1) = {}
    BY <2>1, IdsOfParts
  <2>4. f[i] \in Shown /\ f[i + 1] = addGroup(f[i], g)
    BY <1>1, <2>1
  <2>5. Accounts(all, Named(f[i].rows), Len(f[i].rows), f[i].overflow)
    BY <1>3
  <2> HIDE DEF g, all
  <2>6. Accounts(all \union Named(g), Named(f[i + 1].rows), Len(f[i + 1].rows), f[i + 1].overflow)
    BY <2>2, <2>3, <2>4, <2>5, AddGroupAccounts
  <2>7. QED  BY <2>1, <2>2, <2>3, <2>6
<1>4. first \in Int /\ Len(groups) \in Int
  OBVIOUS
<1> HIDE DEF good
<1>5. first..Len(groups) \subseteq good
  BY <1>2, <1>3, <1>4, Induct
<1>6. QED  BY <1>5 DEF good, f

\* Two trees with different roots have no task in common: the first of one that is
\* in the other has its parent before it, in both.
LEMMA TreesApart ==
    ASSUME NEW forest, IsForest(forest),
           NEW r \in DOMAIN forest, IsRoot(forest, r), NEW s \in DOMAIN forest, IsRoot(forest, s),
           r # s
    PROVE  \A j \in 1..Len(expand(forest, r)) : \A k \in 1..Len(expand(forest, s)) :
               expand(forest, r)[j].task # expand(forest, s)[k].task
<1> DEFINE out1 == expand(forest, r)
           out2 == expand(forest, s)
           bad == {j \in Nat : j \in 1..Len(out1) /\ \E k \in 1..Len(out2) : out1[j].task = out2[k].task}
<1>1. Visited(forest, r, out1) /\ Visited(forest, s, out2)
  BY ExpandVisits
<1> HIDE DEF out1, out2
<1>2. SUFFICES ASSUME bad # {} PROVE FALSE
  BY DEF out1, out2
<1>3. bad \in SUBSET Nat
  OBVIOUS
<1>4. PICK j \in bad : \A i \in bad : j <= i
  <2> HIDE DEF bad
  <2>1. QED  BY <1>2, <1>3, Least
<1>5. j \in 1..Len(out1)
  OBVIOUS
<1>6. PICK k \in 1..Len(out2) : out1[j].task = out2[k].task
  OBVIOUS
<1>7. Len(out1) \in Nat /\ Len(out2) \in Nat
  BY <1>1 DEF Visited
<1>8. out1[1].task = r /\ out2[1].task = s
  BY <1>1 DEF Visited
<1>9. /\ \A p \in DOMAIN forest : r \notin Range(forest[p].kids)
      /\ \A p \in DOMAIN forest : s \notin Range(forest[p].kids)
  BY DEF IsRoot
<1>10. CASE j = 1
  <2>1. k # 1
    BY <1>6, <1>8, <1>10
  <2>2. k \in 2..Len(out2)
    BY <1>7, <2>1
  <2>3. \E p \in 1..k - 1 : ChildOf(forest, out2[k].task, out2[p].task)
    BY <1>1, <2>2 DEF Visited
  <2>4. QED  BY <1>6, <1>8, <1>9, <1>10, <2>3 DEF ChildOf
<1>11. CASE j # 1
  <2>1. j \in 2..Len(out1)
    BY <1>5, <1>7, <1>11
  <2>2. PICK p \in 1..j - 1 : ChildOf(forest, out1[j].task, out1[p].task)
    BY <1>1, <2>1 DEF Visited
  <2>3. CASE k = 1
    BY <1>6, <1>8, <1>9, <2>2, <2>3 DEF ChildOf
  <2>4. CASE k # 1
    <3>1. k \in 2..Len(out2)
      BY <1>7, <2>4
    <3>2. PICK q \in 1..k - 1 : ChildOf(forest, out2[k].task, out2[q].task)
      BY <1>1, <3>1 DEF Visited
    <3>3. out1[p].task = out2[q].task
      BY <1>6, <2>2, <3>2 DEF ChildOf, IsForest
    <3>4. q \in 1..Len(out2) /\ p \in 1..Len(out1) /\ p \in Nat
      BY <1>5, <1>7
    <3>5. p \in bad
      BY <3>3, <3>4
    <3>6. ~(j <= p)
      BY <1>5
    <3>7. QED  BY <1>4, <3>5, <3>6
  <2>5. QED  BY <2>3, <2>4
<1>12. QED  BY <1>10, <1>11

\* The trees of /list have every task of theirs once.
LEMMA TreesAreDifferent ==
    ASSUME NEW forest, IsForest(forest), NEW t \in Int
    PROVE  /\ Different(Trees(forest, t))
           /\ IdsOf(Trees(forest, t), 1, Len(Trees(forest, t))) =
                  {i \in DOMAIN forest : \E root \in Tops(forest) : i \in Tree(forest, root)}
<1> DEFINE C == Tops(forest)
           ranked == Ranked(forest, C, t)
           tree(n) == expand(forest, ranked[n])
           groups == Trees(forest, t)
<1>1. C \in SUBSET DOMAIN forest /\ \A i \in C : IsRoot(forest, i)
  BY DEF Tops
<1>2. groups = [n \in 1..Cardinality(C) |-> tree(n)]
  BY DEF Trees
<1> HIDE DEF C
<1>3. /\ Cardinality(C) \in Nat /\ ranked \in [1..Cardinality(C) -> C]
      /\ \A m, n \in 1..Cardinality(C) : ranked[m] = ranked[n] => m = n
      /\ \A x \in C : \E n \in 1..Cardinality(C) : ranked[n] = x
  BY <1>1, RankedIsOnto
<1> HIDE DEF ranked
<1>4. \A n \in 1..Cardinality(C) : ranked[n] \in C /\ ranked[n] \in DOMAIN forest
  BY <1>1, <1>3
<1>5. ASSUME NEW m \in 1..Cardinality(C), NEW n \in 1..Cardinality(C),
             NEW j \in 1..Len(tree(m)), NEW k \in 1..Len(tree(n)),
             tree(m)[j].task = tree(n)[k].task
      PROVE  m = n /\ j = k
  <2>1. m = n
    <3> SUFFICES ASSUME m # n PROVE FALSE
      OBVIOUS
    <3>1. ranked[m] # ranked[n]
      BY <1>3
    <3>2. /\ ranked[m] \in DOMAIN forest /\ IsRoot(forest, ranked[m])
          /\ ranked[n] \in DOMAIN forest /\ IsRoot(forest, ranked[n])
      BY <1>1, <1>4
    <3>3. QED  BY <1>5, <3>1, <3>2, TreesApart
  <2>2. Visited(forest, ranked[m], tree(m))
    BY <1>4, ExpandVisits
  <2> HIDE DEF tree
  <2>3. j = k
    BY <1>5, <2>1, <2>2 DEF Visited
  <2>4. QED  BY <2>1, <2>3
<1>6. groups \in Seq(Seq(Row))
  BY TreesAreGroups
<1> HIDE DEF tree, groups
<1>7. Len(groups) = Cardinality(C) /\ \A n \in 1..Cardinality(C) : groups[n] = tree(n)
  BY <1>2, <1>3, <1>6
<1>8. Different(groups)
  BY <1>5, <1>7 DEF Different
<1>9. ASSUME NEW n \in 1..Cardinality(C)
      PROVE  Named(groups[n]) = Tree(forest, ranked[n])
  <2>1. \A i : i \in Tree(forest, ranked[n]) <=> \E k \in 1..Len(tree(n)) : tree(n)[k].task = i
    BY <1>4, TreeIs DEF tree
  <2>2. QED  BY <1>7, <2>1 DEF Named
<1>10. IdsOf(groups, 1, Len(groups)) =
           {i \in DOMAIN forest : \E root \in C : i \in Tree(forest, root)}
  <2>1. \A root \in C : Tree(forest, root) \subseteq DOMAIN forest
    BY <1>1, TreeIs
  <2>2. DOMAIN forest \subseteq Id
    BY DEF IsForest
  <2>3. QED  BY <1>3, <1>4, <1>7, <1>9, <2>1, <2>2 DEF IdsOf
<1>11. QED  BY <1>8, <1>10 DEF groups, C

\* The groups of /find are of as many matches as it keeps, each once.
LEMMA HitsAreDifferent ==
    ASSUME NEW forest, IsForest(forest), NEW t \in Int, NEW needle
    PROVE  LET all == IdsOf(Hits(forest, needle, t), 1, Len(Hits(forest, needle, t)))
           IN  /\ Different(Hits(forest, needle, t))
               /\ all \subseteq Matches(forest, needle)
               /\ IsFiniteSet(all) /\ Cardinality(all) = Kept(forest, needle)
<1> DEFINE C == Matches(forest, needle)
           ranked == Ranked(forest, C, t)
           kept == Kept(forest, needle)
           hit(n) == <<[task |-> ranked[n], depth |-> 0]>>
           groups == Hits(forest, needle, t)
           all == IdsOf(groups, 1, Len(groups))
<1>1. C \in SUBSET DOMAIN forest /\ kept \in 0..Cardinality(C)
  BY KeptType
<1>2. groups = [n \in 1..kept |-> hit(n)]
  BY DEF Hits
<1> HIDE DEF C, kept
<1>3. /\ IsFiniteSet(C)
      /\ Cardinality(C) \in Nat /\ ranked \in [1..Cardinality(C) -> C]
      /\ \A m, n \in 1..Cardinality(C) : ranked[m] = ranked[n] => m = n
  BY <1>1, RankedIsOnto
<1> HIDE DEF ranked
<1>4. \A n \in 1..kept : Len(hit(n)) = 1 /\ hit(n)[1].task = ranked[n]
  OBVIOUS
<1>5. groups \in Seq(Seq(Row)) /\ kept \in Nat /\ 1..kept \subseteq 1..Cardinality(C)
  BY <1>1, <1>3, HitsAreGroups
<1> HIDE DEF hit, groups
<1>6. Len(groups) = kept /\ \A n \in 1..kept : groups[n] = hit(n)
  BY <1>2, <1>5
<1>7. Different(groups)
  BY <1>3, <1>4, <1>5, <1>6 DEF Different
<1>8. \A n \in 1..kept : Named(groups[n]) = {ranked[n]}
  BY <1>4, <1>6 DEF Named
<1>9. all = {ranked[n] : n \in 1..kept}
  <2>1. \A n \in 1..kept : ranked[n] \in Id
    BY <1>1, <1>3, <1>5 DEF IsForest
  <2>2. QED  BY <1>6, <1>8, <2>1 DEF IdsOf
<1>10. all \subseteq C
  BY <1>3, <1>5, <1>9
<1>11. IsFiniteSet(all) /\ Cardinality(all) = kept
  <2> DEFINE f == [n \in 1..kept |-> ranked[n]]
  <2>1. IsFiniteSet(1..kept) /\ Cardinality(1..kept) = kept
    BY <1>5, IntervalCount
  <2> HIDE DEF all
  <2>2. f \in Surjection(1..kept, all)
    BY <1>9 DEF Surjection
  <2>3. f \in Injection(1..kept, all)
    BY <1>3, <1>5, <1>9 DEF Injection, IsInjective
  <2> HIDE DEF f
  <2>4. QED  BY <2>1, <2>2, <2>3, FS_Surjection
<1>12. QED  BY <1>7, <1>10, <1>11 DEF groups, C, kept

\* Neither listing has a task twice.
LEMMA GroupsAreDifferent ==
    ASSUME NEW forest, IsForest(forest), NEW t \in Int, NEW query
    PROVE  Different(GroupsOf(forest, query, t))
<1>1. CASE query = Null
  BY <1>1, TreesAreDifferent DEF GroupsOf
<1>2. CASE query # Null
  BY <1>2, HitsAreDifferent DEF GroupsOf
<1>3. QED  BY <1>1, <1>2

\* The groups of a listing are what it is of, but for the tasks /find only counts.
LEMMA ListedIs ==
    ASSUME IsForest(tasks), now \in Int, NEW query
    PROVE  LET groups == GroupsOf(tasks, query, now)
               all == IdsOf(groups, 1, Len(groups))
           IN  /\ all \subseteq Listed(query) /\ IsFiniteSet(Listed(query))
               /\ Cardinality(Listed(query) \ all) = MoreOf(tasks, query)
<1> DEFINE groups == GroupsOf(tasks, query, now)
           all == IdsOf(groups, 1, Len(groups))
<1>1. CASE query = Null
  <2>1. all = {i \in DOMAIN tasks : \E root \in Tops(tasks) : i \in Tree(tasks, root)}
    BY <1>1, TreesAreDifferent DEF GroupsOf
  <2>2. Listed(query) =
            {i \in DOMAIN tasks : \E root \in DOMAIN tasks :
                 /\ i \in Tree(tasks, root)
                 /\ IsRoot(tasks, root) /\ \E j \in Tree(tasks, root) : IsOpen(tasks[j])}
    BY <1>1 DEF Listed, ForestOf
  <2> HIDE DEF all
  <2>3. all = Listed(query)
    BY <2>1, <2>2 DEF Tops, subtreeHasOpen
  <2>4. Listed(query) \in SUBSET DOMAIN tasks
    BY <2>2
  <2>5. IsFiniteSet(Listed(query))
    BY <2>4, FS_Subset DEF IsForest
  <2>6. Listed(query) \ all = {} /\ Cardinality({}) = 0
    BY <2>3, FS_EmptySet
  <2>7. MoreOf(tasks, query) = 0
    BY <1>1 DEF MoreOf
  <2>8. QED  BY <2>3, <2>5, <2>6, <2>7 DEF all
<1>2. CASE query # Null
  <2> DEFINE C == Matches(tasks, query)
  <2>1. all \subseteq C /\ IsFiniteSet(all) /\ Cardinality(all) = Kept(tasks, query)
    BY <1>2, HitsAreDifferent DEF GroupsOf
  <2>2. Listed(query) = C
    BY <1>2 DEF Listed, Matches
  <2>3. /\ C \in SUBSET DOMAIN tasks
        /\ Kept(tasks, query) \in 0..Cardinality(C) /\ Cardinality(C) \in Nat
    BY KeptType
  <2> HIDE DEF C, all
  <2>4. IsFiniteSet(C)
    BY <2>3, FS_Subset DEF IsForest
  <2>5. IsFiniteSet(C \ all)
    <3>1. C \ all \in SUBSET C
      OBVIOUS
    <3>2. QED  BY <2>4, <3>1, FS_Subset
  <2>6. Cardinality(C \ all) \in Nat
    BY <2>5, FS_CardinalityType
  <2>7. Cardinality(all \union (C \ all)) = Cardinality(all) + Cardinality(C \ all)
    <3>1. all \intersect (C \ all) = {}
      OBVIOUS
    <3>2. QED  BY <2>1, <2>5, <3>1, DisjointUnion
  <2>8. all \union (C \ all) = C
    BY <2>1
  <2>9. Cardinality(C \ all) = Cardinality(C) - Kept(tasks, query)
    BY <2>1, <2>3, <2>6, <2>7, <2>8
  <2>10. MoreOf(tasks, query) = Cardinality(C) - Kept(tasks, query)
    BY <1>2 DEF MoreOf, C
  <2>11. QED  BY <2>1, <2>2, <2>4, <2>9, <2>10 DEF all
<1>3. QED  BY <1>1, <1>2

\* The groups that have been read when a page is shown.
ReadTo(groups, index) == IF groups = <<>> THEN 0 ELSE LastOf(groups, index)

\* A page shown of the groups, and the tour that ends with it.
Toured(groups, page, ids, rows, lost) ==
    /\ page.count = Len(pageBreaks(groups))
    /\ groups # <<>> => page.index \in 0..page.count - 1
    /\ Accounts(IdsOf(groups, 1, ReadTo(groups, page.index)), ids, rows, lost)

\* The page Paginate returns accounts for the groups between its two breaks.
LEMMA PageAccounts ==
    ASSUME NEW groups \in Seq(Seq(Row)), Different(groups), groups # <<>>, NEW page \in Int
    PROVE  LET shown == Paginate(groups, page)
           IN  /\ shown.count = Len(pageBreaks(groups)) /\ shown.count \in Nat \ {0}
               /\ shown.index = clampPage(page, shown.count)
               /\ shown.index \in 0..shown.count - 1
               /\ shown.rows \in Seq(Row)
               /\ Accounts(IdsOf(groups, FirstOf(groups, shown.index), LastOf(groups, shown.index)),
                           Named(shown.rows), Len(shown.rows), shown.overflow)
<1>1. PICK index \in 0..Len(pageBreaks(groups)) - 1 :
          /\ index = clampPage(page, Len(pageBreaks(groups)))
          /\ Paginate(groups, page) =
                 [rows |-> filling(groups, FirstOf(groups, index))[LastOf(groups, index)].rows,
                  index |-> index, count |-> Len(pageBreaks(groups)),
                  overflow |->
                      filling(groups, FirstOf(groups, index))[LastOf(groups, index)].overflow]
  BY PaginateIs
<1> DEFINE first == FirstOf(groups, index)
           last == LastOf(groups, index)
           filled == filling(groups, first)[last]
           shown == Paginate(groups, page)
<1>2. first \in 1..Len(groups) /\ last \in first..Len(groups) /\ Len(pageBreaks(groups)) \in Nat \ {0}
  BY PagesCover
<1>3. /\ shown.rows = filled.rows /\ shown.overflow = filled.overflow
      /\ shown.index = index /\ shown.count = Len(pageBreaks(groups))
  BY <1>1
<1> HIDE DEF first, last, shown
<1>4. Accounts(IdsOf(groups, first, last), Named(filled.rows), Len(filled.rows), filled.overflow)
  BY <1>2, FilledAccounts
<1>5. filled \in Shown
  BY <1>2, FillingStep
<1> HIDE DEF filled
<1>6. filled.rows \in Seq(Row)
  BY <1>5 DEF Shown
<1>7. Accounts(IdsOf(groups, FirstOf(groups, shown.index), LastOf(groups, shown.index)),
               Named(shown.rows), Len(shown.rows), shown.overflow)
  BY <1>3, <1>4 DEF first, last
<1>8. QED  BY <1>1, <1>2, <1>3, <1>6, <1>7 DEF shown

\* The first page is a tour ...
LEMMA FirstPageTours ==
    ASSUME NEW groups \in Seq(Seq(Row)), Different(groups)
    PROVE  LET shown == Paginate(groups, 0)
           IN  Toured(groups, shown, Named(shown.rows), Len(shown.rows), shown.overflow)
<1> DEFINE shown == Paginate(groups, 0)
<1>1. CASE groups = <<>>
  <2>1. shown = NoPage
    BY <1>1 DEF Paginate
  <2>2. /\ shown.rows = <<>> /\ shown.overflow = 0 /\ shown.count = 0
        /\ Len(shown.rows) = 0
    BY <2>1 DEF NoPage
  <2>3. Len(pageBreaks(groups)) = 0
    BY <1>1 DEF pageBreaks
  <2>4. Named(shown.rows) = {}
    BY <2>2 DEF Named
  <2>5. IdsOf(groups, 1, ReadTo(groups, shown.index)) = {}
    BY <1>1 DEF IdsOf, ReadTo
  <2> HIDE DEF shown
  <2>6. Accounts({}, {}, 0, 0)
    BY FS_EmptySet DEF Accounts
  <2>7. QED  BY <1>1, <2>2, <2>3, <2>4, <2>5, <2>6 DEF Toured, shown
<1>2. CASE groups # <<>>
  <2>1. /\ shown.count = Len(pageBreaks(groups)) /\ shown.count \in Nat \ {0}
        /\ shown.index = clampPage(0, shown.count)
        /\ shown.index \in 0..shown.count - 1
        /\ Accounts(IdsOf(groups, FirstOf(groups, shown.index), LastOf(groups, shown.index)),
                    Named(shown.rows), Len(shown.rows), shown.overflow)
    BY <1>2, PageAccounts
  <2> HIDE DEF shown
  <2>2. shown.index = 0
    BY <2>1 DEF clampPage
  <2>3. FirstOf(groups, 0) = 1
    BY <1>2, PagesCover
  <2>4. QED  BY <1>2, <2>1, <2>2, <2>3 DEF Toured, ReadTo, shown
<1>3. QED  BY <1>1, <1>2

\* ... and the page after one that ends a tour goes on with it.
LEMMA NextPageTours ==
    ASSUME NEW groups \in Seq(Seq(Row)), Different(groups), NEW page, page.index \in Nat,
           NEW ids, NEW rows, NEW lost, Toured(groups, page, ids, rows, lost),
           page.index < page.count - 1
    PROVE  LET shown == Paginate(groups, page.index + 1)
           IN  Toured(groups, shown, ids \union Named(shown.rows), rows + Len(shown.rows),
                      lost + shown.overflow)
<1> DEFINE index == page.index
           count == Len(pageBreaks(groups))
           shown == Paginate(groups, index + 1)
<1>1. /\ index \in Nat /\ page.count = count /\ index < count - 1
      /\ Accounts(IdsOf(groups, 1, ReadTo(groups, index)), ids, rows, lost)
  BY DEF Toured
<1>2. groups # <<>>
  <2>1. groups = <<>> => count = 0
    BY DEF pageBreaks
  <2> HIDE DEF count, index
  <2>2. QED  BY <1>1, <2>1
<1> HIDE DEF index
<1>3. /\ shown.count = count /\ count \in Nat \ {0}
      /\ shown.index = clampPage(index + 1, count)
      /\ shown.index \in 0..count - 1
      /\ Accounts(IdsOf(groups, FirstOf(groups, shown.index), LastOf(groups, shown.index)),
                  Named(shown.rows), Len(shown.rows), shown.overflow)
  <2>1. index + 1 \in Int
    BY <1>1
  <2>2. QED  BY <1>2, <2>1, PageAccounts
<1> HIDE DEF count, shown
<1>4. shown.index = index + 1
  BY <1>1, <1>3 DEF clampPage
<1>5. /\ LastOf(groups, index) \in 1..Len(groups)
      /\ FirstOf(groups, index + 1) = LastOf(groups, index) + 1
      /\ LastOf(groups, index + 1) \in FirstOf(groups, index + 1)..Len(groups)
  <2>1. index \in 0..count - 1 /\ index \in 0..count - 2 /\ index + 1 \in 0..count - 1
    BY <1>1, <1>3
  <2>2. /\ \A i \in 0..count - 1 :
               /\ FirstOf(groups, i) \in 1..Len(groups)
               /\ LastOf(groups, i) \in FirstOf(groups, i)..Len(groups)
        /\ \A i \in 0..count - 2 : FirstOf(groups, i + 1) = LastOf(groups, i) + 1
    BY <1>2, PagesCover DEF count
  <2>3. /\ FirstOf(groups, index) \in 1..Len(groups)
        /\ LastOf(groups, index) \in FirstOf(groups, index)..Len(groups)
        /\ FirstOf(groups, index + 1) = LastOf(groups, index) + 1
        /\ LastOf(groups, index + 1) \in FirstOf(groups, index + 1)..Len(groups)
    BY <2>1, <2>2
  <2>4. LastOf(groups, index) \in 1..Len(groups)
    BY <2>3
  <2>5. QED  BY <2>3, <2>4
<1> DEFINE b == LastOf(groups, index)
           c == LastOf(groups, index + 1)
<1>6. /\ IdsOf(groups, 1, c) = IdsOf(groups, 1, b) \union IdsOf(groups, b + 1, c)
      /\ IdsOf(groups, 1, b) \intersect IdsOf(groups, b + 1, c) = {}
  <2>1. 1 \in 1..Len(groups) /\ b \in 1 - 1..Len(groups) /\ c \in b + 1..Len(groups)
    BY <1>5
  <2> HIDE DEF b, c
  <2>2. QED  BY <2>1, IdsOfParts
<1>7. /\ Accounts(IdsOf(groups, 1, b), ids, rows, lost)
      /\ Accounts(IdsOf(groups, b + 1, c), Named(shown.rows), Len(shown.rows), shown.overflow)
  BY <1>1, <1>2, <1>3, <1>4, <1>5 DEF ReadTo
<1> HIDE DEF b, c
<1>8. Accounts(IdsOf(groups, 1, c), ids \union Named(shown.rows), rows + Len(shown.rows),
               lost + shown.overflow)
  BY <1>6, <1>7, AccountsAdd
<1>9. Toured(groups, shown, ids \union Named(shown.rows), rows + Len(shown.rows),
             lost + shown.overflow)
  BY <1>2, <1>3, <1>4, <1>8 DEF Toured, ReadTo, count, c
<1>10. QED  BY <1>9 DEF shown, index

\* The inductive invariant of a tour: what was read so far accounts for the groups up
\* to the last one of the page at hand.
Touring ==
    tour.whole =>
        /\ screen.more = MoreOf(tasks, screen.query)
        /\ Toured(GroupsOf(tasks, screen.query, now), screen.page, tour.ids, tour.rows, tour.lost)

\* The ids on a screen are the tasks of its rows ...
LEMMA RowIdsIs ==
    ASSUME NEW s, s.page.rows \in Seq(Row)
    PROVE  RowIds(s) = Named(s.page.rows)
BY DEF RowIds, Named, Range

\* ... which are rows.
LEMMA PageRows ==
    ASSUME NEW groups \in Seq(Seq(Row)), Different(groups), NEW page \in Int
    PROVE  Paginate(groups, page).rows \in Seq(Row)
<1>1. CASE groups = <<>>
  BY <1>1 DEF Paginate, NoPage
<1>2. CASE groups # <<>>
  BY <1>2, PageAccounts
<1>3. QED  BY <1>1, <1>2

\* What a screen shows, and a tour that reads it.
LEMMA ScreenIs ==
    ASSUME Readable, NEW query, NEW page \in Int, NEW order \in Orders,
           screen' = Listing(query, page, order), UNCHANGED <<tasks, now>>
    PROVE  LET groups == GroupsOf(tasks, query, now)
               shown == Paginate(groups, page)
           IN  /\ groups \in Seq(Seq(Row)) /\ Different(groups)
               /\ screen'.query = query /\ screen'.page = shown
               /\ screen'.more = MoreOf(tasks, query)
               /\ \A old : Read(old, screen') =
                      [whole |-> TRUE, ids |-> old.ids \union Named(shown.rows),
                       rows |-> old.rows + Len(shown.rows), lost |-> old.lost + shown.overflow]
<1> DEFINE groups == GroupsOf(tasks, query, now)
           shown == Paginate(groups, page)
<1>1. screen' = [query |-> query, page |-> shown, more |-> MoreOf(tasks, query)]
  BY ListingIs DEF Readable
<1>2. groups \in Seq(Seq(Row)) /\ Different(groups)
  BY GroupsAreGroups, GroupsAreDifferent DEF Readable
<1> HIDE DEF groups
<1>3. shown.rows \in Seq(Row)
  BY <1>2, PageRows
<1> HIDE DEF shown
<1>4. RowIds(screen') = Named(shown.rows)
  BY <1>1, <1>3, RowIdsIs
<1>5. /\ screen'.query = query /\ screen'.page = shown
      /\ screen'.more = MoreOf(tasks, query)
  BY <1>1
<1>6. \A old : Read(old, screen') =
          [whole |-> TRUE, ids |-> old.ids \union Named(shown.rows),
           rows |-> old.rows + Len(shown.rows), lost |-> old.lost + shown.overflow]
  BY <1>4, <1>5 DEF Read
<1>7. QED  BY <1>2, <1>5, <1>6 DEF groups, shown

\* Every step goes on with a tour or breaks it off.
LEMMA NextTouring == Readable /\ Touring /\ [Next]_vars => Touring'
<1> SUFFICES ASSUME Readable, Touring, [Next]_vars PROVE Touring'
  OBVIOUS
<1>1. CASE Command
  <2>1. PICK query \in Needle \union {Null}, order \in Orders : screen' = Listing(query, 0, order)
    BY <1>1 DEF Command
  <2>2. tour' = Read(Broken, screen') /\ UNCHANGED <<tasks, now>>
    BY <1>1 DEF Command
  <2> DEFINE groups == GroupsOf(tasks, query, now)
             shown == Paginate(groups, 0)
  <2>3. /\ groups \in Seq(Seq(Row)) /\ Different(groups)
        /\ screen'.query = query /\ screen'.page = shown
        /\ screen'.more = MoreOf(tasks, query)
        /\ tour' = [whole |-> TRUE, ids |-> Broken.ids \union Named(shown.rows),
                    rows |-> Broken.rows + Len(shown.rows), lost |-> Broken.lost + shown.overflow]
    <3>1. 0 \in Int
      OBVIOUS
    <3>2. QED  BY <2>1, <2>2, <3>1, ScreenIs
  <2> HIDE DEF groups
  <2>4. Toured(groups, shown, Named(shown.rows), Len(shown.rows), shown.overflow)
    BY <2>3, FirstPageTours
  <2>5. shown.overflow \in Nat /\ Len(shown.rows) \in Nat
    <3> HIDE DEF shown
    <3>1. QED  BY <2>4, AccountsType DEF Toured
  <2> HIDE DEF shown
  <2>6. tour'.ids = Named(shown.rows) /\ tour'.rows = Len(shown.rows) /\ tour'.lost = shown.overflow
    BY <2>3, <2>5 DEF Broken
  <2>7. GroupsOf(tasks', screen'.query, now') = groups
    BY <2>2, <2>3 DEF groups
  <2>8. MoreOf(tasks', screen'.query) = screen'.more
    BY <2>2, <2>3
  <2>9. Toured(groups, screen'.page, tour'.ids, tour'.rows, tour'.lost)
    BY <2>3, <2>4, <2>6
  <2>10. QED  BY <2>7, <2>8, <2>9 DEF Touring
<1>2. CASE Forward
  <2>1. PICK order \in Orders : screen' = Listing(screen.query, screen.page.index + 1, order)
    BY <1>2 DEF Forward
  <2>2. /\ screen.page.index < screen.page.count - 1
        /\ tour' = IF tour.whole THEN Read(tour, screen') ELSE Broken
        /\ UNCHANGED <<tasks, now>>
    BY <1>2 DEF Forward
  <2>3. CASE ~tour.whole
    <3>1. ~tour'.whole
      BY <2>2, <2>3 DEF Broken
    <3>2. QED  BY <3>1 DEF Touring
  <2>4. CASE tour.whole
    <3> DEFINE groups == GroupsOf(tasks, screen.query, now)
               shown == Paginate(groups, screen.page.index + 1)
    <3>1. screen.page.index \in Nat /\ screen.page.index + 1 \in Int
      BY DEF Readable
    <3>2. /\ groups \in Seq(Seq(Row)) /\ Different(groups)
          /\ screen'.query = screen.query /\ screen'.page = shown
          /\ screen'.more = MoreOf(tasks, screen.query)
          /\ \A old : Read(old, screen') =
                 [whole |-> TRUE, ids |-> old.ids \union Named(shown.rows),
                  rows |-> old.rows + Len(shown.rows), lost |-> old.lost + shown.overflow]
      BY <2>1, <2>2, <3>1, ScreenIs
    <3>3. tour' = [whole |-> TRUE, ids |-> tour.ids \union Named(shown.rows),
                   rows |-> tour.rows + Len(shown.rows), lost |-> tour.lost + shown.overflow]
      BY <2>2, <2>4, <3>2
    <3>4. Toured(groups, screen.page, tour.ids, tour.rows, tour.lost)
      BY <2>4 DEF Touring
    <3> HIDE DEF groups
    <3>5. Toured(groups, shown, tour.ids \union Named(shown.rows), tour.rows + Len(shown.rows),
                 tour.lost + shown.overflow)
      BY <2>2, <3>1, <3>2, <3>4, NextPageTours
    <3> HIDE DEF shown
    <3>6. GroupsOf(tasks', screen'.query, now') = groups
      BY <2>2, <3>2 DEF groups
    <3>7. MoreOf(tasks', screen'.query) = screen'.more
      BY <2>2, <3>2
    <3>8. Toured(groups, screen'.page, tour'.ids, tour'.rows, tour'.lost)
      BY <3>2, <3>3, <3>5
    <3>9. QED  BY <3>6, <3>7, <3>8 DEF Touring
  <2>5. QED  BY <2>3, <2>4
<1>3. CASE Backward \/ Elsewhere \/ Tick
  <2>1. ~tour'.whole
    BY <1>3 DEF Backward, Elsewhere, Tick, Broken
  <2>2. QED  BY <2>1 DEF Touring
<1>4. CASE UNCHANGED vars
  BY <1>4 DEF vars, Touring
<1>5. QED  BY <1>1, <1>2, <1>3, <1>4 DEF Next

\* A tour that has come to the last page is of the whole listing.
LEMMA TouringIsWhole == Readable /\ Touring => WholeListing
<1> SUFFICES ASSUME Readable, Touring, tour.whole, screen.page.index + 1 >= screen.page.count
             PROVE  /\ tour.rows = Cardinality(tour.ids)
                    /\ tour.ids \subseteq Listed(screen.query)
                    /\ Cardinality(Listed(screen.query) \ tour.ids) = tour.lost + screen.more
  BY DEF WholeListing
<1> DEFINE groups == GroupsOf(tasks, screen.query, now)
           all == IdsOf(groups, 1, Len(groups))
           listed == Listed(screen.query)
<1>1. /\ screen.more = MoreOf(tasks, screen.query)
      /\ screen.page.count = Len(pageBreaks(groups))
      /\ groups # <<>> => screen.page.index \in 0..screen.page.count - 1
      /\ Accounts(IdsOf(groups, 1, ReadTo(groups, screen.page.index)), tour.ids, tour.rows, tour.lost)
  BY DEF Touring, Toured
<1>2. groups \in Seq(Seq(Row))
  BY GroupsAreGroups DEF Readable
<1>3. /\ all \subseteq listed /\ IsFiniteSet(listed)
      /\ Cardinality(listed \ all) = screen.more
  BY <1>1, ListedIs DEF Readable
<1> HIDE DEF groups, listed
<1>4. ReadTo(groups, screen.page.index) = Len(groups)
  <2>1. CASE groups = <<>>
    BY <2>1 DEF ReadTo
  <2>2. CASE groups # <<>>
    <3>1. Len(pageBreaks(groups)) \in Nat \ {0}
      BY <1>2, <2>2, PagesCover
    <3>2. screen.page.index = Len(pageBreaks(groups)) - 1
      BY <1>1, <2>2, <3>1
    <3>3. LastOf(groups, Len(pageBreaks(groups)) - 1) = Len(groups)
      BY <1>2, <2>2, PagesCover
    <3>4. QED  BY <2>2, <3>2, <3>3 DEF ReadTo
  <2>3. QED  BY <2>1, <2>2
<1>5. Accounts(all, tour.ids, tour.rows, tour.lost)
  BY <1>1, <1>4
<1> HIDE DEF all
<1>6. /\ tour.ids \subseteq all /\ Cardinality(tour.ids) = tour.rows
      /\ Cardinality(all \ tour.ids) = tour.lost /\ IsFiniteSet(all \ tour.ids)
  BY <1>5, AccountsType DEF Accounts
<1>7. IsFiniteSet(listed \ all)
  <2>1. listed \ all \in SUBSET listed
    OBVIOUS
  <2>2. QED  BY <1>3, <2>1, FS_Subset
<1>8. (all \ tour.ids) \intersect (listed \ all) = {}
  OBVIOUS
<1>9. Cardinality((all \ tour.ids) \union (listed \ all)) = tour.lost + screen.more
  BY <1>3, <1>6, <1>7, <1>8, DisjointUnion
<1>10. (all \ tour.ids) \union (listed \ all) = listed \ tour.ids
  BY <1>3, <1>6
<1>11. QED  BY <1>3, <1>6, <1>9, <1>10 DEF listed

\* Whoever reads a listing from its first page to its last, while nothing changes,
\* meets each task of it once and is told how many were left out: for any forest,
\* any limits, and whatever order each of the responses came in.
THEOREM ListingsAreWhole == Spec => []WholeListing
<1>1. Init => Touring
  BY DEF Init, Broken, Touring
<1>2. QED  BY <1>1, InitReadable, NextReadable, NextTouring, TouringIsWhole, PTL DEF Spec
=============================================================================
