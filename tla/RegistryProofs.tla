--------------------------- MODULE RegistryProofs ---------------------------
(***************************************************************************)
(* Proofs about Registry for any capacity and any number of tokens,        *)
(* prompts, actions and addresses: its list and its two maps agree, and    *)
(* together they are a least-recently-used map.                            *)
(*                                                                         *)
(* What carries both is that every record has exactly one key. Eviction    *)
(* takes a record's key out of one map without looking which record the    *)
(* map has under it; with RegInv it is the evicted one, always.            *)
(***************************************************************************)
EXTENDS Registry, SequenceTheorems, TLAPS

-----------------------------------------------------------------------------
(***************************************************************************)
(* The inductive invariant.                                                *)
(***************************************************************************)
\* The record r is found under its key, which is the only one it has.
FoundUnderKey(r, e, tokens, prompts) ==
    \/ r.prompt = None /\ r.token \in DOMAIN tokens /\ tokens[r.token] = e
    \/ r.token = None /\ r.prompt \in DOMAIN prompts /\ prompts[r.prompt] = e

\* A set of elements with their records, and two maps, that agree.
Agree(E, values, tokens, prompts) ==
    /\ DOMAIN tokens \subseteq Token
    /\ DOMAIN prompts \subseteq Prompt
    /\ \A t \in DOMAIN tokens : tokens[t] \in E /\ values[tokens[t]].token = t
    /\ \A p \in DOMAIN prompts : prompts[p] \in E /\ values[prompts[p]].prompt = p
    /\ \A e \in E : values[e] \in Record /\ FoundUnderKey(values[e], e, tokens, prompts)

\* A list: no element is in it twice.
IsList(s) == s \in Seq(Element) /\ IsInjective(s)

RegInv ==
    /\ IsList(ll) /\ Len(ll) <= Capacity
    /\ value = [e \in ToSet(ll) |-> value[e]]
    /\ Agree(ToSet(ll), value, byToken, byPrompt)
    /\ DOMAIN byToken \subseteq minted /\ minted \subseteq Token
    /\ found \in Action \union {None}

-----------------------------------------------------------------------------
(***************************************************************************)
(* Lists: what pushing, removing and truncating make of them.              *)
(***************************************************************************)
LEMMA Pushed ==
    ASSUME NEW S, NEW s \in Seq(S), NEW e \in S
    PROVE  LET p == <<e>> \o s IN
           /\ p \in Seq(S) /\ Len(p) = Len(s) + 1
           /\ p[1] = e /\ \A k \in 1..Len(s) : p[k + 1] = s[k]
           /\ ToSet(p) = {e} \union ToSet(s)
           /\ e \notin ToSet(s) /\ IsInjective(s) => IsInjective(p)
<1> DEFINE p == <<e>> \o s
<1>1. p \in Seq(S) /\ Len(p) = Len(s) + 1 /\ Len(s) \in Nat
  OBVIOUS
<1>2. p[1] = e /\ \A k \in 1..Len(s) : p[k + 1] = s[k]
  OBVIOUS
<1>3. DOMAIN p = 1..(Len(s) + 1) /\ DOMAIN s = 1..Len(s)
  BY <1>1
<1> HIDE DEF p
<1>4. \A j \in DOMAIN p : j = 1 \/ (j - 1 \in DOMAIN s /\ p[j] = s[j - 1])
  <2> SUFFICES ASSUME NEW j \in DOMAIN p, j # 1
               PROVE  j - 1 \in DOMAIN s /\ p[j] = s[j - 1]
    OBVIOUS
  <2>1. j - 1 \in 1..Len(s) /\ (j - 1) + 1 = j
    BY <1>1, <1>3
  <2>2. QED  BY <2>1, <1>2, <1>3
<1>5. 1 \in DOMAIN p /\ \A k \in DOMAIN s : k + 1 \in DOMAIN p
  BY <1>1, <1>3
<1>6. ToSet(p) = {e} \union ToSet(s)
  <2>1. ToSet(p) \subseteq {e} \union ToSet(s)
    BY <1>2, <1>4 DEF ToSet
  <2>2. {e} \union ToSet(s) \subseteq ToSet(p)
    BY <1>2, <1>3, <1>5 DEF ToSet
  <2>3. QED  BY <2>1, <2>2
<1>7. ASSUME e \notin ToSet(s), IsInjective(s), NEW a \in DOMAIN p, NEW b \in DOMAIN p, p[a] = p[b]
      PROVE  a = b
  <2>1. CASE a = 1 /\ b = 1
    BY <2>1
  <2>2. CASE a = 1 /\ b # 1
    BY <1>2, <1>4, <1>7, <2>2 DEF ToSet
  <2>3. CASE a # 1 /\ b = 1
    BY <1>2, <1>4, <1>7, <2>3 DEF ToSet
  <2>4. CASE a # 1 /\ b # 1
    <3>1. a - 1 \in DOMAIN s /\ b - 1 \in DOMAIN s /\ s[a - 1] = s[b - 1]
      BY <1>4, <1>7, <2>4
    <3>2. a - 1 = b - 1
      BY <3>1, <1>7 DEF IsInjective
    <3>3. QED  BY <3>2, <1>3, <1>1
  <2>5. QED  BY <2>1, <2>2, <2>3, <2>4
<1>8. e \notin ToSet(s) /\ IsInjective(s) => IsInjective(p)
  BY <1>7 DEF IsInjective
<1>9. QED  BY <1>1, <1>2, <1>6, <1>8 DEF p

\* Where an element past the n-th comes from once the n-th is taken out.
Past(k, n) == IF k < n THEN k ELSE k + 1

LEMMA RemovedAt ==
    ASSUME NEW S, NEW s \in Seq(S), NEW n \in DOMAIN s
    PROVE  /\ RemoveAt(s, n) \in Seq(S) /\ Len(RemoveAt(s, n)) = Len(s) - 1
           /\ \A k \in 1..(Len(s) - 1) : RemoveAt(s, n)[k] = s[Past(k, n)]
<1> DEFINE a == SubSeq(s, 1, n - 1)
           b == SubSeq(s, n + 1, Len(s))
<1>1. n \in 1..Len(s) /\ Len(s) \in Nat
  OBVIOUS
<1>2. a \in Seq(S) /\ Len(a) = n - 1 /\ \A k \in 1..(n - 1) : a[k] = s[k]
  BY <1>1, SubSeqProperties
<1>3. b \in Seq(S) /\ Len(b) = Len(s) - n /\ \A k \in 1..(Len(s) - n) : b[k] = s[n + k]
  <2>1. n + 1 \in 1..Len(s) + 1 /\ Len(s) \in n..Len(s)
    BY <1>1
  <2>2. \A i \in (n + 1)..Len(s) : s[i] \in S
    BY <1>1
  <2>3. QED  BY <1>1, <2>1, <2>2
<1>4. RemoveAt(s, n) = a \o b
  BY DEF RemoveAt
<1> HIDE DEF a, b
<1>5. a \o b \in Seq(S) /\ Len(a \o b) = Len(s) - 1
  BY <1>1, <1>2, <1>3
<1>6. ASSUME NEW k \in 1..(Len(s) - 1)
      PROVE  (a \o b)[k] = s[Past(k, n)]
  <2>1. (a \o b)[k] = IF k <= Len(a) THEN a[k] ELSE b[k - Len(a)]
    <3>1. k \in 1..(Len(a) + Len(b))
      BY <1>1, <1>2, <1>3, <1>6
    <3>2. QED  BY <1>2, <1>3, <3>1, ConcatProperties
  <2>2. CASE k < n
    BY <1>1, <1>2, <2>1, <2>2 DEF Past
  <2>3. CASE ~(k < n)
    <3>1. k - Len(a) \in 1..(Len(s) - n) /\ n + (k - Len(a)) = k + 1 /\ ~(k <= Len(a))
      BY <1>1, <1>2, <1>6, <2>3
    <3>2. b[k - Len(a)] = s[k + 1]
      BY <1>3, <3>1
    <3>3. QED  BY <2>1, <2>3, <3>1, <3>2 DEF Past
  <2>4. QED  BY <2>2, <2>3
<1>7. QED  BY <1>4, <1>5, <1>6

LEMMA Removed ==
    ASSUME NEW S, NEW s \in Seq(S), IsInjective(s), NEW n \in DOMAIN s
    PROVE  /\ RemoveFirst(s, s[n]) = RemoveAt(s, n)
           /\ RemoveAt(s, n) \in Seq(S) /\ IsInjective(RemoveAt(s, n))
           /\ ToSet(RemoveAt(s, n)) = ToSet(s) \ {s[n]}
<1> DEFINE r == RemoveAt(s, n)
           I == {i \in 1..Len(s) : s[i] = s[n]}
<1>1. n \in 1..Len(s) /\ Len(s) \in Nat /\ DOMAIN s = 1..Len(s)
  OBVIOUS
<1>2. r \in Seq(S) /\ Len(r) = Len(s) - 1 /\ \A k \in 1..(Len(s) - 1) : r[k] = s[Past(k, n)]
  BY RemovedAt
<1>3. DOMAIN r = 1..(Len(s) - 1)
  BY <1>2, <1>1
<1>4. RemoveFirst(s, s[n]) = r
  <2>1. I = {n}
    BY <1>1 DEF IsInjective
  <2>2. Min(I) = n
    BY <2>1, <1>1 DEF Min
  <2>3. SelectInSeq(s, LAMBDA v : v = s[n]) = n
    BY <2>1, <2>2 DEF SelectInSeq
  <2>4. \E i \in 1..Len(s) : s[i] = s[n]
    BY <1>1
  <2>5. QED  BY <2>3, <2>4 DEF RemoveFirst
<1> HIDE DEF r, I
<1>5. \A k \in DOMAIN r : Past(k, n) \in DOMAIN s /\ Past(k, n) # n
  BY <1>1, <1>3 DEF Past
<1>6. \A i \in DOMAIN s \ {n} : \E k \in DOMAIN r : Past(k, n) = i
  <2> SUFFICES ASSUME NEW i \in DOMAIN s \ {n}
               PROVE  \E k \in DOMAIN r : Past(k, n) = i
    OBVIOUS
  <2> DEFINE k == IF i < n THEN i ELSE i - 1
  <2>1. k \in DOMAIN r /\ Past(k, n) = i
    BY <1>1, <1>3 DEF Past
  <2>2. QED  BY <2>1
<1>7. \A j, k \in DOMAIN r : Past(j, n) = Past(k, n) => j = k
  BY <1>1, <1>3 DEF Past
<1>8. IsInjective(r)
  BY <1>2, <1>3, <1>5, <1>7 DEF IsInjective
<1>9. ToSet(r) = ToSet(s) \ {s[n]}
  <2>1. ToSet(r) \subseteq ToSet(s) \ {s[n]}
    BY <1>1, <1>2, <1>3, <1>5 DEF ToSet, IsInjective
  <2>2. ToSet(s) \ {s[n]} \subseteq ToSet(r)
    BY <1>1, <1>2, <1>3, <1>6 DEF ToSet
  <2>3. QED  BY <2>1, <2>2
<1>10. QED  BY <1>2, <1>4, <1>8, <1>9 DEF r

LEMMA NotThere ==
    ASSUME NEW S, NEW s \in Seq(S), NEW e, e \notin ToSet(s)
    PROVE  RemoveFirst(s, e) = s
<1>1. ~ \E i \in 1..Len(s) : s[i] = e
  BY DEF ToSet
<1>2. QED  BY <1>1 DEF RemoveFirst

LEMMA Truncated ==
    ASSUME NEW S, NEW s \in Seq(S)
    PROVE  LET t == Truncate(s) IN
           /\ t \in Seq(S)
           /\ Len(t) = (IF Len(s) > Capacity THEN Capacity ELSE Len(s)) /\ Len(t) <= Capacity
           /\ \A k \in 1..Len(t) : k \in DOMAIN s /\ t[k] = s[k]
           /\ IsInjective(s) => IsInjective(t) /\ ToSet(t) = ToSet(s) \ Overflow(s)
<1> DEFINE n == IF Len(s) > Capacity THEN Capacity ELSE Len(s)
           t == SubSeq(s, 1, n)
<1>1. n \in Nat /\ n <= Len(s) /\ n <= Capacity /\ Len(s) \in Nat /\ Capacity \in Nat
  BY RegistryAssumption
<1> HIDE DEF n
<1>2. t \in Seq(S) /\ Len(t) = n /\ \A k \in 1..n : t[k] = s[k]
  BY <1>1, SubSeqProperties
<1> HIDE DEF t
<1>3. DOMAIN t = 1..n /\ DOMAIN s = 1..Len(s) /\ 1..n \subseteq 1..Len(s)
  BY <1>1, <1>2
<1>4. IsInjective(s) => IsInjective(t)
  BY <1>2, <1>3 DEF IsInjective
<1>5. ASSUME IsInjective(s)
      PROVE  ToSet(t) = ToSet(s) \ Overflow(s)
  <2>1. 1..Len(s) = 1..n \union (Capacity + 1)..Len(s)
    BY <1>1 DEF n
  <2>2. 1..n \intersect (Capacity + 1)..Len(s) = {}
    BY <1>1 DEF n
  <2>3. ToSet(t) = {s[k] : k \in 1..n}
    BY <1>2, <1>3 DEF ToSet
  <2>4. ToSet(s) = {s[k] : k \in 1..Len(s)}
    BY <1>3 DEF ToSet
  <2>5. {s[k] : k \in 1..n} \intersect Overflow(s) = {}
    BY <2>1, <2>2, <1>3, <1>5 DEF Overflow, IsInjective
  <2>6. {s[k] : k \in 1..Len(s)} = {s[k] : k \in 1..n} \union Overflow(s)
    BY <2>1 DEF Overflow
  <2>7. QED  BY <2>3, <2>4, <2>5, <2>6
<1>6. Truncate(s) = t
  BY DEF Truncate, t, n
<1>7. QED  BY <1>1, <1>2, <1>3, <1>4, <1>5, <1>6 DEF n

-----------------------------------------------------------------------------
(***************************************************************************)
(* Maps: what taking a record out, putting one in and evicting some do to  *)
(* two maps that agree with the records.                                   *)
(***************************************************************************)
\* A record has a token or a prompt, not both.
OneKey(rec) ==
    /\ rec \in Record
    /\ rec.token = None <=> rec.prompt # None

LEMMA NoneIsNoKey == None \notin Token /\ None \notin Prompt /\ None \notin Action
  BY RegistryAssumption

LEMMA Deleted ==
    ASSUME NEW map, NEW K
    PROVE  /\ DOMAIN Delete(map, K) = DOMAIN map \ K
           /\ \A k \in DOMAIN map \ K : Delete(map, K)[k] = map[k]
  BY DEF Delete, Restrict

\* PutPrompt lets go of the record an id already has.
LEMMA LetGo ==
    ASSUME NEW E, NEW V, NEW T, NEW P, Agree(E, V, T, P), NEW id \in DOMAIN P
    PROVE  /\ P[id] \in E
           /\ Delete(T, {V[P[id]].token}) = Restrict(T, DOMAIN T)
           /\ Agree(E \ {P[id]}, V, Delete(T, {V[P[id]].token}), Delete(P, {id}))
<1> DEFINE x == P[id]
           T2 == Delete(T, {V[P[id]].token})
           P2 == Delete(P, {id})
<1>1. x \in E /\ V[x].prompt = id /\ id \in Prompt /\ V[x].token = None
  BY NoneIsNoKey DEF Agree, FoundUnderKey
<1>2. DOMAIN T \ {V[x].token} = DOMAIN T
  BY <1>1, NoneIsNoKey DEF Agree
<1>3. T2 = Restrict(T, DOMAIN T)
  BY <1>2 DEF Delete
<1>4. DOMAIN T2 = DOMAIN T /\ \A t \in DOMAIN T : T2[t] = T[t]
  BY <1>3 DEF Restrict
<1>5. DOMAIN P2 = DOMAIN P \ {id} /\ \A p \in DOMAIN P \ {id} : P2[p] = P[p]
  BY Deleted
<1> HIDE DEF x, T2, P2
<1>6. ASSUME NEW t \in DOMAIN T2
      PROVE  T2[t] \in E \ {x} /\ V[T2[t]].token = t
  <2>1. T[t] \in E /\ V[T[t]].token = t /\ t \in Token
    BY <1>4, <1>6 DEF Agree
  <2>2. T[t] # x
    BY <2>1, <1>1, NoneIsNoKey
  <2>3. QED  BY <2>1, <2>2, <1>4, <1>6
<1>7. ASSUME NEW p \in DOMAIN P2
      PROVE  P2[p] \in E \ {x} /\ V[P2[p]].prompt = p
  <2>1. P[p] \in E /\ V[P[p]].prompt = p /\ p # id
    BY <1>5, <1>7 DEF Agree
  <2>2. QED  BY <2>1, <1>1, <1>5, <1>7
<1>8. ASSUME NEW e \in E \ {x}
      PROVE  V[e] \in Record /\ FoundUnderKey(V[e], e, T2, P2)
  <2>1. V[e] \in Record /\ FoundUnderKey(V[e], e, T, P)
    BY DEF Agree
  <2>2. V[e].prompt # id \/ V[e].token # None
    BY <2>1, NoneIsNoKey DEF FoundUnderKey, Agree, x
  <2>3. QED  BY <1>4, <1>5, <2>1, <2>2, NoneIsNoKey DEF FoundUnderKey, Agree
<1>9. Agree(E \ {x}, V, T2, P2)
  BY <1>4, <1>5, <1>6, <1>7, <1>8 DEF Agree
<1>10. QED  BY <1>1, <1>3, <1>9 DEF x, T2, P2

\* insert points the maps at the record it pushes, under a key of its own.
LEMMA PutIn ==
    ASSUME NEW E, NEW V, NEW T, NEW P, Agree(E, V, T, P), E \subseteq DOMAIN V,
           NEW e, e \notin E, NEW rec, OneKey(rec),
           rec.token \notin DOMAIN T, rec.prompt \notin DOMAIN P
    PROVE  LET W == With(V, e, rec) IN
           /\ W[e] = rec /\ \A x \in E : W[x] = V[x]
           /\ Agree(E \union {e}, W, Point(T, rec.token, e), Point(P, rec.prompt, e))
<1> DEFINE W == With(V, e, rec)
           T2 == Point(T, rec.token, e)
           P2 == Point(P, rec.prompt, e)
<1>1. W[e] = rec
  BY DEF With
<1>2. W[e] = rec /\ \A x \in E : W[x] = V[x]
  BY <1>1 DEF With
<1>3. rec \in Record /\ rec.token \in Token \union {None} /\ rec.prompt \in Prompt \union {None}
  BY DEF OneKey, Record
<1>4. CASE rec.token # None /\ rec.prompt = None
  <2>1. P2 = P
    BY <1>4 DEF Point
  <2>2. /\ DOMAIN T2 = {rec.token} \union DOMAIN T /\ T2[rec.token] = e
        /\ \A t \in DOMAIN T : T2[t] = T[t]
    BY <1>4 DEF Point, With
  <2> HIDE DEF W, T2, P2
  <2>3. DOMAIN T2 \subseteq Token /\ DOMAIN P2 \subseteq Prompt
    BY <1>3, <1>4, <2>1, <2>2 DEF Agree
  <2>4. \A t \in DOMAIN T2 : T2[t] \in E \union {e} /\ W[T2[t]].token = t
    BY <1>2, <2>2 DEF Agree
  <2>5. \A p \in DOMAIN P2 : P2[p] \in E \union {e} /\ W[P2[p]].prompt = p
    BY <1>2, <2>1 DEF Agree
  <2>6. \A x \in E : W[x] \in Record /\ FoundUnderKey(W[x], x, T2, P2)
    BY <1>2, <2>1, <2>2 DEF Agree, FoundUnderKey
  <2>7. W[e] \in Record /\ FoundUnderKey(W[e], e, T2, P2)
    BY <1>2, <1>3, <1>4, <2>2 DEF FoundUnderKey
  <2>8. QED  BY <2>3, <2>4, <2>5, <2>6, <2>7, <1>2 DEF Agree, W, T2, P2
<1>5. CASE rec.token = None /\ rec.prompt # None
  <2>1. T2 = T
    BY <1>5 DEF Point
  <2>2. /\ DOMAIN P2 = {rec.prompt} \union DOMAIN P /\ P2[rec.prompt] = e
        /\ \A p \in DOMAIN P : P2[p] = P[p]
    BY <1>5 DEF Point, With
  <2> HIDE DEF W, T2, P2
  <2>3. DOMAIN T2 \subseteq Token /\ DOMAIN P2 \subseteq Prompt
    BY <1>3, <1>5, <2>1, <2>2 DEF Agree
  <2>4. \A t \in DOMAIN T2 : T2[t] \in E \union {e} /\ W[T2[t]].token = t
    BY <1>2, <2>1 DEF Agree
  <2>5. \A p \in DOMAIN P2 : P2[p] \in E \union {e} /\ W[P2[p]].prompt = p
    BY <1>2, <2>2 DEF Agree
  <2>6. \A x \in E : W[x] \in Record /\ FoundUnderKey(W[x], x, T2, P2)
    BY <1>2, <2>1, <2>2 DEF Agree, FoundUnderKey
  <2>7. W[e] \in Record /\ FoundUnderKey(W[e], e, T2, P2)
    BY <1>2, <1>3, <1>5, <2>2 DEF FoundUnderKey
  <2>8. QED  BY <2>3, <2>4, <2>5, <2>6, <2>7, <1>2 DEF Agree, W, T2, P2
<1>6. QED  BY <1>4, <1>5 DEF OneKey

\* Eviction takes the keys of the evicted records out of both maps, and no
\* other: the record under a key is the one that has it.
LEMMA PushedOut ==
    ASSUME NEW E, NEW V, NEW T, NEW P, Agree(E, V, T, P), NEW old \in SUBSET E
    PROVE  Agree(E \ old, Restrict(V, E \ old), Delete(T, {V[x].token : x \in old}),
                 Delete(P, {V[x].prompt : x \in old}))
<1> DEFINE F == E \ old
           W == Restrict(V, F)
           TK == {V[x].token : x \in old}
           PK == {V[x].prompt : x \in old}
           T2 == Delete(T, TK)
           P2 == Delete(P, PK)
<1>1. \A x \in F : W[x] = V[x]
  BY DEF Restrict
<1>2. DOMAIN T2 = DOMAIN T \ TK /\ \A t \in DOMAIN T \ TK : T2[t] = T[t]
  BY Deleted
<1>3. DOMAIN P2 = DOMAIN P \ PK /\ \A p \in DOMAIN P \ PK : P2[p] = P[p]
  BY Deleted
<1> HIDE DEF W, T2, P2
<1>4. ASSUME NEW t \in DOMAIN T2
      PROVE  T2[t] \in F /\ W[T2[t]].token = t
  <2>1. T2[t] = T[t] /\ T[t] \in E /\ V[T[t]].token = t /\ t \notin TK
    BY <1>2, <1>4 DEF Agree
  <2>2. T[t] \notin old
    BY <2>1
  <2>3. QED  BY <1>1, <2>1, <2>2
<1>5. ASSUME NEW p \in DOMAIN P2
      PROVE  P2[p] \in F /\ W[P2[p]].prompt = p
  <2>1. P2[p] = P[p] /\ P[p] \in E /\ V[P[p]].prompt = p /\ p \notin PK
    BY <1>3, <1>5 DEF Agree
  <2>2. P[p] \notin old
    BY <2>1
  <2>3. QED  BY <1>1, <2>1, <2>2
<1>6. ASSUME NEW e \in F
      PROVE  W[e] \in Record /\ FoundUnderKey(W[e], e, T2, P2)
  <2>1. W[e] = V[e] /\ V[e] \in Record /\ FoundUnderKey(V[e], e, T, P)
    BY <1>1 DEF Agree
  <2>2. CASE V[e].prompt = None /\ V[e].token \in DOMAIN T /\ T[V[e].token] = e
    <3>1. V[e].token \notin TK
      <4> SUFFICES ASSUME NEW x \in old, V[x].token = V[e].token
                   PROVE  FALSE
        OBVIOUS
      <4>1. V[x].token \in Token /\ FoundUnderKey(V[x], x, T, P)
        BY <2>2 DEF Agree
      <4>2. T[V[x].token] = x
        BY <4>1, NoneIsNoKey DEF FoundUnderKey
      <4>3. QED  BY <2>2, <4>2
    <3>2. QED  BY <1>2, <2>1, <2>2, <3>1 DEF FoundUnderKey
  <2>3. CASE V[e].token = None /\ V[e].prompt \in DOMAIN P /\ P[V[e].prompt] = e
    <3>1. V[e].prompt \notin PK
      <4> SUFFICES ASSUME NEW x \in old, V[x].prompt = V[e].prompt
                   PROVE  FALSE
        OBVIOUS
      <4>1. V[x].prompt \in Prompt /\ FoundUnderKey(V[x], x, T, P)
        BY <2>3 DEF Agree
      <4>2. P[V[x].prompt] = x
        BY <4>1, NoneIsNoKey DEF FoundUnderKey
      <4>3. QED  BY <2>3, <4>2
    <3>2. QED  BY <1>3, <2>1, <2>3, <3>1 DEF FoundUnderKey
  <2>4. QED  BY <2>1, <2>2, <2>3 DEF FoundUnderKey
<1>7. DOMAIN T2 \subseteq Token /\ DOMAIN P2 \subseteq Prompt
  BY <1>2, <1>3 DEF Agree
<1>8. QED  BY <1>4, <1>5, <1>6, <1>7 DEF Agree, W, T2, P2

-----------------------------------------------------------------------------
(***************************************************************************)
(* insert, given a list and maps that agree, leaves a list and maps that   *)
(* agree.                                                                  *)
(***************************************************************************)
LEMMA InsertKeeps ==
    ASSUME NEW L, IsList(L), NEW T, NEW P, Agree(ToSet(L), value, T, P),
           ToSet(L) \subseteq DOMAIN value,
           NEW rec, OneKey(rec), rec.token \notin DOMAIN T, rec.prompt \notin DOMAIN P,
           NEW e \in Element, e \notin ToSet(L), insert(L, T, P, rec, e)
    PROVE  /\ ll' = Truncate(<<e>> \o L) /\ IsList(ll') /\ Len(ll') <= Capacity
           /\ value' = [x \in ToSet(ll') |-> value'[x]]
           /\ \A x \in ToSet(ll') : value'[x] = IF x = e THEN rec ELSE value[x]
           /\ e \in ToSet(ll') /\ ToSet(ll') \subseteq ToSet(L) \union {e}
           /\ Agree(ToSet(ll'), value', byToken', byPrompt')
           /\ DOMAIN byToken' \subseteq DOMAIN T \union {rec.token}
<1> DEFINE p == <<e>> \o L
           old == Overflow(p)
           W == With(value, e, rec)
           T2 == Point(T, rec.token, e)
           P2 == Point(P, rec.prompt, e)
           E == ToSet(L) \union {e}
<1>1. /\ ll' = Truncate(p)
      /\ value' = Restrict(W, ToSet(p) \ old)
      /\ byToken' = Delete(T2, {W[x].token : x \in old})
      /\ byPrompt' = Delete(P2, {W[x].prompt : x \in old})
  BY DEF insert
<1>2. p \in Seq(Element) /\ ToSet(p) = E /\ IsInjective(p)
  BY Pushed DEF IsList
<1>3. Truncate(p) \in Seq(Element) /\ Len(Truncate(p)) <= Capacity
      /\ IsInjective(Truncate(p)) /\ ToSet(Truncate(p)) = ToSet(p) \ old
  BY <1>2, Truncated
<1>4. W[e] = rec /\ (\A x \in ToSet(L) : W[x] = value[x]) /\ Agree(E, W, T2, P2)
  BY PutIn
<1>5. old \in SUBSET E
  <2>1. \A k \in (Capacity + 1)..Len(p) : k \in DOMAIN p
    BY <1>2, RegistryAssumption
  <2>2. old \subseteq ToSet(p)
    BY <2>1 DEF Overflow, ToSet
  <2>3. QED  BY <1>2, <2>2
<1>6. DOMAIN T2 \subseteq DOMAIN T \union {rec.token}
  BY DEF Point, With
<1>7. DOMAIN byToken' \subseteq DOMAIN T2
  BY <1>1 DEF Delete, Restrict
<1> HIDE DEF p, old, W, T2, P2, E
<1>8. Agree(E \ old, Restrict(W, E \ old), Delete(T2, {W[x].token : x \in old}),
            Delete(P2, {W[x].prompt : x \in old}))
  BY <1>4, <1>5, PushedOut
<1>9. ToSet(ll') = E \ old
  BY <1>1, <1>2, <1>3
<1>10. Agree(ToSet(ll'), value', byToken', byPrompt')
  BY <1>1, <1>2, <1>8, <1>9
<1>11. value' = [x \in ToSet(ll') |-> W[x]]
  BY <1>1, <1>2, <1>9 DEF Restrict
<1>12. \A x \in ToSet(ll') : value'[x] = IF x = e THEN rec ELSE value[x]
  BY <1>4, <1>9, <1>11 DEF E
<1>13. value' = [x \in ToSet(ll') |-> value'[x]]
  BY <1>11
<1>14. e \in ToSet(ll')
  <2>1. Len(p) = Len(L) + 1 /\ Len(L) \in Nat /\ p[1] = e
    BY Pushed DEF IsList, p
  <2>2. Len(ll') >= 1 /\ ll'[1] = e
    BY <1>1, <1>2, <2>1, Truncated, RegistryAssumption
  <2>3. 1 \in DOMAIN ll'
    BY <1>1, <1>3, <2>2
  <2>4. QED  BY <2>2, <2>3 DEF ToSet
<1>15. QED
  BY <1>1, <1>3, <1>6, <1>7, <1>9, <1>10, <1>12, <1>13, <1>14 DEF IsList, p, E

-----------------------------------------------------------------------------
(***************************************************************************)
(* RegInv is inductive.                                                    *)
(***************************************************************************)
LEMMA InitInv == Init => RegInv
<1> SUFFICES ASSUME Init PROVE RegInv
  OBVIOUS
<1>1. ToSet(ll) = {} /\ ll \in Seq(Element) /\ Len(ll) = 0 /\ IsInjective(ll)
  BY DEF Init, ToSet, IsInjective
<1>2. value = [e \in ToSet(ll) |-> value[e]]
  BY <1>1 DEF Init, Empty
<1>3. QED  BY <1>1, <1>2, RegistryAssumption DEF Init, RegInv, IsList, Agree, Empty

\* Put: its token is new.
LEMMA PutKeeps ==
    ASSUME RegInv, NEW a \in Action, NEW t \in Token \ minted, NEW e \in Unused,
           insert(ll, byToken, byPrompt, [action |-> a, token |-> t, prompt |-> None], e),
           minted' = minted \union {t}, found' = None
    PROVE  RegInv'
<1> DEFINE rec == [action |-> a, token |-> t, prompt |-> None]
<1>1. OneKey(rec) /\ rec.token = t /\ rec.prompt = None
  BY NoneIsNoKey DEF OneKey, Record
<1>2. t \notin DOMAIN byToken /\ None \notin DOMAIN byPrompt
  BY NoneIsNoKey DEF RegInv, Agree
<1>3. ToSet(ll) \subseteq DOMAIN value /\ e \in Element /\ e \notin ToSet(ll)
  BY DEF RegInv, Unused
<1> HIDE DEF rec
<1>4. /\ IsList(ll') /\ Len(ll') <= Capacity
      /\ value' = [x \in ToSet(ll') |-> value'[x]]
      /\ Agree(ToSet(ll'), value', byToken', byPrompt')
      /\ DOMAIN byToken' \subseteq DOMAIN byToken \union {rec.token}
  <2>1. insert(ll, byToken, byPrompt, rec, e)
    BY DEF rec
  <2>2. QED  BY <1>1, <1>2, <1>3, <2>1, InsertKeeps DEF RegInv
<1>5. QED  BY <1>1, <1>4 DEF RegInv

\* What PutPrompt gives to insert.
LEMMA PromptGone ==
    ASSUME RegInv, NEW id \in DOMAIN byPrompt
    PROVE  LET L == RemoveFirst(ll, byPrompt[id])
               T == Delete(byToken, {value[byPrompt[id]].token})
               P == Delete(byPrompt, {id}) IN
           /\ byPrompt[id] \in ToSet(ll)
           /\ IsList(L) /\ ToSet(L) = ToSet(ll) \ {byPrompt[id]}
           /\ Agree(ToSet(L), value, T, P)
           /\ DOMAIN T = DOMAIN byToken /\ DOMAIN P = DOMAIN byPrompt \ {id}
<1> DEFINE L == RemoveFirst(ll, byPrompt[id])
           T == Delete(byToken, {value[byPrompt[id]].token})
           P == Delete(byPrompt, {id})
<1>1. Agree(ToSet(ll), value, byToken, byPrompt)
  BY DEF RegInv
<1>2. /\ byPrompt[id] \in ToSet(ll)
      /\ T = Restrict(byToken, DOMAIN byToken)
      /\ Agree(ToSet(ll) \ {byPrompt[id]}, value, T, P)
  BY <1>1, LetGo
<1>3. PICK n \in DOMAIN ll : ll[n] = byPrompt[id]
  BY <1>2 DEF ToSet
<1>4. IsList(L) /\ ToSet(L) = ToSet(ll) \ {byPrompt[id]}
  BY <1>3, Removed DEF RegInv, IsList
<1>5. DOMAIN T = DOMAIN byToken
  BY <1>2 DEF Restrict
<1>6. DOMAIN P = DOMAIN byPrompt \ {id}
  BY Deleted
<1>7. QED  BY <1>2, <1>4, <1>5, <1>6

LEMMA PutPromptKeeps ==
    ASSUME RegInv, NEW a \in Action, NEW id \in Prompt, PutPrompt(a, id)
    PROVE  RegInv'
<1> DEFINE rec == [action |-> a, token |-> None, prompt |-> id]
<1>1. OneKey(rec) /\ rec.token = None /\ rec.prompt = id
  BY NoneIsNoKey DEF OneKey, Record
<1>2. PICK e \in Unused :
        \/ /\ id \in DOMAIN byPrompt
           /\ insert(RemoveFirst(ll, byPrompt[id]), Delete(byToken, {value[byPrompt[id]].token}),
                     Delete(byPrompt, {id}), rec, e)
        \/ /\ id \notin DOMAIN byPrompt
           /\ insert(ll, byToken, byPrompt, rec, e)
  BY DEF PutPrompt
<1>3. ToSet(ll) \subseteq DOMAIN value /\ e \in Element /\ e \notin ToSet(ll)
  BY DEF RegInv, Unused
<1>4. None \notin DOMAIN byToken
  BY NoneIsNoKey DEF RegInv, Agree
<1> HIDE DEF rec
<1>5. /\ IsList(ll') /\ Len(ll') <= Capacity
      /\ value' = [x \in ToSet(ll') |-> value'[x]]
      /\ Agree(ToSet(ll'), value', byToken', byPrompt')
      /\ DOMAIN byToken' \subseteq DOMAIN byToken \union {None}
  <2>1. CASE id \notin DOMAIN byPrompt
    BY <1>1, <1>2, <1>3, <1>4, <2>1, InsertKeeps DEF RegInv
  <2>2. CASE id \in DOMAIN byPrompt
    <3> DEFINE L == RemoveFirst(ll, byPrompt[id])
               T == Delete(byToken, {value[byPrompt[id]].token})
               P == Delete(byPrompt, {id})
    <3>1. /\ IsList(L) /\ ToSet(L) = ToSet(ll) \ {byPrompt[id]}
          /\ Agree(ToSet(L), value, T, P)
          /\ DOMAIN T = DOMAIN byToken /\ DOMAIN P = DOMAIN byPrompt \ {id}
      BY <2>2, PromptGone
    <3>2. insert(L, T, P, rec, e)
      BY <1>2, <2>2
    <3> HIDE DEF L, T, P
    <3>3. QED  BY <1>1, <1>3, <1>4, <3>1, <3>2, InsertKeeps
  <2>3. QED  BY <2>1, <2>2
<1>6. DOMAIN byToken' \subseteq minted
  <2>1. DOMAIN byToken' \subseteq Token
    BY <1>5 DEF Agree
  <2>2. QED  BY <1>5, <2>1, NoneIsNoKey DEF RegInv
<1>7. minted' = minted /\ found' = None
  BY DEF PutPrompt
<1>8. QED  BY <1>5, <1>6, <1>7 DEF RegInv

\* A hit moves its element to the front.
LEMMA LookupKeeps ==
    ASSUME RegInv, NEW map, map = byToken \/ map = byPrompt, NEW k, Lookup(map, k)
    PROVE  RegInv'
<1>1. UNCHANGED <<value, byToken, byPrompt, minted>>
  BY DEF Lookup
<1>2. CASE k \in DOMAIN map /\ ll' = <<map[k]>> \o RemoveFirst(ll, map[k])
           /\ found' = value[map[k]].action
  <2>1. map[k] \in ToSet(ll)
    BY <1>2 DEF RegInv, Agree
  <2>2. PICK n \in DOMAIN ll : ll[n] = map[k]
    BY <2>1 DEF ToSet
  <2> DEFINE r == RemoveFirst(ll, map[k])
  <2>3. r \in Seq(Element) /\ IsInjective(r) /\ ToSet(r) = ToSet(ll) \ {map[k]}
        /\ Len(r) = Len(ll) - 1
    BY <2>2, Removed, RemovedAt DEF RegInv, IsList
  <2>4. map[k] \in Element
    BY <2>2 DEF RegInv, IsList
  <2>5. ll' = <<map[k]>> \o r
    BY <1>2
  <2> HIDE DEF r
  <2>6. ll' \in Seq(Element) /\ IsInjective(ll') /\ ToSet(ll') = {map[k]} \union ToSet(r)
        /\ Len(ll') = Len(r) + 1
    BY <2>3, <2>4, <2>5, Pushed
  <2>7. ToSet(ll') = ToSet(ll)
    BY <2>1, <2>3, <2>6
  <2>8. Len(ll') = Len(ll)
    BY <2>3, <2>6 DEF RegInv, IsList
  <2>9. found' \in Action
    BY <1>2, <2>1 DEF RegInv, Agree, Record
  <2>10. QED  BY <1>1, <2>6, <2>7, <2>8, <2>9 DEF RegInv, IsList
<1>3. CASE k \notin DOMAIN map /\ found' = None /\ UNCHANGED ll
  BY <1>1, <1>3 DEF RegInv
<1>4. QED  BY <1>2, <1>3 DEF Lookup

LEMMA NextInv == RegInv /\ [Next]_vars => RegInv'
<1> SUFFICES ASSUME RegInv, [Next]_vars PROVE RegInv'
  OBVIOUS
<1>1. ASSUME NEW a \in Action, Put(a) PROVE RegInv'
  BY <1>1, PutKeeps DEF Put
<1>2. ASSUME NEW a \in Action, NEW id \in Prompt, PutPrompt(a, id) PROVE RegInv'
  BY <1>2, PutPromptKeeps
<1>3. ASSUME NEW t \in Token, Get(t) PROVE RegInv'
  BY <1>3, LookupKeeps DEF Get
<1>4. ASSUME NEW id \in Prompt, GetByPrompt(id) PROVE RegInv'
  BY <1>4, LookupKeeps DEF GetByPrompt
<1>5. CASE UNCHANGED vars
  BY <1>5 DEF vars, RegInv
<1>6. QED  BY <1>1, <1>2, <1>3, <1>4, <1>5 DEF Next

\* RegInv holds whatever is put, found and evicted (actions.go).
THEOREM RegistryInvariant == Spec => []RegInv
<1>1. QED  BY InitInv, NextInv, PTL DEF Spec

\* Every variable of the registry keeps its type (actions.go).
THEOREM RegistryTypes == Spec => []TypeOK
<1>1. RegInv => TypeOK
  <2> SUFFICES ASSUME RegInv PROVE TypeOK
    OBVIOUS
  <2>1. value \in [ToSet(ll) -> Record]
    BY DEF RegInv, Agree
  <2>2. QED  BY <2>1 DEF RegInv, IsList, Agree, TypeOK
<1>2. QED  BY <1>1, RegistryInvariant, PTL

\* The list and its two maps agree about what exists, whatever is put, found
\* and evicted (insert, PutPrompt).
THEOREM ListAndMapsAgree == Spec => []IndexesAgree
<1>1. RegInv => IndexesAgree
  BY DEF RegInv, Agree, FoundUnderKey, IndexesAgree
<1>2. QED  BY <1>1, RegistryInvariant, PTL

-----------------------------------------------------------------------------
(***************************************************************************)
(* The refinement. A record answers to its one key, and under the keys the *)
(* list is the sequence of names LeastRecentlyUsed keeps.                  *)
(***************************************************************************)
KeyOf(r) == IF r.token # None THEN r.token ELSE r.prompt
NamesOf(s, V) == [k \in DOMAIN s |-> KeyOf(V[s[k]])]
TargetIn(T, P, n) == IF n \in DOMAIN T THEN T[n] ELSE P[n]
KeysOf(S, V) == {KeyOf(V[x]) : x \in S}
GivenIn(V, T, P) == [n \in DOMAIN T \union DOMAIN P |-> V[TargetIn(T, P, n)].action]

Key == Token \union Prompt

LEMMA KeysResolve ==
    ASSUME NEW E, NEW V, NEW T, NEW P, Agree(E, V, T, P)
    PROVE  /\ \A e \in E : /\ KeyOf(V[e]) \in DOMAIN T \union DOMAIN P
                           /\ TargetIn(T, P, KeyOf(V[e])) = e
           /\ \A n \in DOMAIN T \union DOMAIN P :
                /\ TargetIn(T, P, n) \in E
                /\ KeyOf(V[TargetIn(T, P, n)]) = n
<1>1. ASSUME NEW e \in E
      PROVE  /\ KeyOf(V[e]) \in DOMAIN T \union DOMAIN P
             /\ TargetIn(T, P, KeyOf(V[e])) = e
  <2>1. FoundUnderKey(V[e], e, T, P)
    BY DEF Agree
  <2>2. CASE V[e].prompt = None /\ V[e].token \in DOMAIN T /\ T[V[e].token] = e
    <3>1. V[e].token # None
      BY <2>2, NoneIsNoKey DEF Agree
    <3>2. QED  BY <2>2, <3>1 DEF KeyOf, TargetIn
  <2>3. CASE V[e].token = None /\ V[e].prompt \in DOMAIN P /\ P[V[e].prompt] = e
    <3>1. V[e].prompt \notin DOMAIN T
      BY <2>3, RegistryAssumption DEF Agree
    <3>2. QED  BY <2>3, <3>1 DEF KeyOf, TargetIn
  <2>4. QED  BY <2>1, <2>2, <2>3 DEF FoundUnderKey
<1>2. ASSUME NEW n \in DOMAIN T \union DOMAIN P
      PROVE  TargetIn(T, P, n) \in E /\ KeyOf(V[TargetIn(T, P, n)]) = n
  <2>1. CASE n \in DOMAIN T
    <3>1. TargetIn(T, P, n) = T[n] /\ T[n] \in E /\ V[T[n]].token = n /\ n # None
      BY <2>1, NoneIsNoKey DEF TargetIn, Agree
    <3>2. QED  BY <3>1 DEF KeyOf
  <2>2. CASE n \notin DOMAIN T
    <3>1. TargetIn(T, P, n) = P[n] /\ P[n] \in E /\ V[P[n]].prompt = n /\ n # None
      BY <2>2, NoneIsNoKey DEF TargetIn, Agree
    <3>2. V[P[n]].token = None
      BY <3>1 DEF Agree, FoundUnderKey
    <3>3. QED  BY <3>1, <3>2 DEF KeyOf
  <2>3. QED  BY <2>1, <2>2
<1>3. QED  BY <1>1, <1>2

LEMMA NamesAreKeys ==
    ASSUME NEW s, IsList(s), NEW V, NEW T, NEW P, Agree(ToSet(s), V, T, P)
    PROVE  /\ NamesOf(s, V) \in Seq(Key)
           /\ Len(NamesOf(s, V)) = Len(s) /\ DOMAIN NamesOf(s, V) = DOMAIN s
           /\ IsInjective(NamesOf(s, V))
           /\ ToSet(NamesOf(s, V)) = DOMAIN T \union DOMAIN P
<1> DEFINE N == NamesOf(s, V)
<1>1. s \in Seq(Element) /\ IsInjective(s) /\ DOMAIN s = 1..Len(s) /\ Len(s) \in Nat
  BY DEF IsList
<1>2. DOMAIN N = DOMAIN s /\ \A k \in DOMAIN s : N[k] = KeyOf(V[s[k]]) /\ s[k] \in ToSet(s)
  BY DEF NamesOf, ToSet
<1>3. \A k \in DOMAIN s : N[k] \in DOMAIN T \union DOMAIN P /\ TargetIn(T, P, N[k]) = s[k]
  BY <1>2, KeysResolve
<1>4. DOMAIN T \union DOMAIN P \subseteq Key
  BY DEF Agree, Key
<1>5. N = [k \in 1..Len(s) |-> N[k]]
  BY <1>1 DEF NamesOf
<1> HIDE DEF N
<1>6. N \in Seq(Key) /\ Len(N) = Len(s)
  <2>1. N \in [1..Len(s) -> Key]
    BY <1>1, <1>3, <1>4, <1>5
  <2>2. N \in Seq(Key)
    BY <1>1, <2>1, SeqDef
  <2>3. QED  BY <1>1, <1>2, <2>2
<1>7. IsInjective(N)
  BY <1>1, <1>2, <1>3 DEF IsInjective
<1>8. ToSet(N) = DOMAIN T \union DOMAIN P
  <2>1. ToSet(N) \subseteq DOMAIN T \union DOMAIN P
    BY <1>2, <1>3 DEF ToSet
  <2>2. ASSUME NEW n \in DOMAIN T \union DOMAIN P
        PROVE  n \in ToSet(N)
    <3>1. TargetIn(T, P, n) \in ToSet(s) /\ KeyOf(V[TargetIn(T, P, n)]) = n
      BY KeysResolve
    <3>2. PICK k \in DOMAIN s : s[k] = TargetIn(T, P, n)
      BY <3>1 DEF ToSet
    <3>3. N[k] = n /\ k \in DOMAIN N
      BY <1>2, <3>1, <3>2
    <3>4. QED  BY <3>3 DEF ToSet
  <2>3. QED  BY <2>1, <2>2
<1>9. QED  BY <1>2, <1>6, <1>7, <1>8 DEF N

\* Names go where their elements go.
LEMMA NamesIsSeq ==
    ASSUME NEW S, NEW s \in Seq(S), NEW V
    PROVE  /\ NamesOf(s, V) \in Seq(KeysOf(S, V))
           /\ Len(NamesOf(s, V)) = Len(s) /\ DOMAIN NamesOf(s, V) = 1..Len(s)
           /\ \A k \in 1..Len(s) : NamesOf(s, V)[k] = KeyOf(V[s[k]])
<1> DEFINE N == NamesOf(s, V)
           R == KeysOf(S, V)
<1>1. DOMAIN s = 1..Len(s) /\ Len(s) \in Nat /\ \A k \in 1..Len(s) : s[k] \in S
  OBVIOUS
<1>2. N = [k \in 1..Len(s) |-> KeyOf(V[s[k]])]
  BY <1>1 DEF NamesOf
<1>3. N \in [1..Len(s) -> R]
  BY <1>1, <1>2 DEF KeysOf
<1> HIDE DEF N, R
<1>4. N \in Seq(R)
  BY <1>1, <1>3, SeqDef
<1>5. DOMAIN N = 1..Len(s) /\ Len(N) = Len(s)
  BY <1>1, <1>3, <1>4
<1>6. QED  BY <1>2, <1>4, <1>5 DEF N, R

LEMMA NamesPushed ==
    ASSUME NEW S, NEW s \in Seq(S), NEW e \in S, NEW V
    PROVE  NamesOf(<<e>> \o s, V) = <<KeyOf(V[e])>> \o NamesOf(s, V)
<1> DEFINE R == KeysOf(S, V)
           p == <<e>> \o s
           N == NamesOf(s, V)
           M == NamesOf(p, V)
           q == <<KeyOf(V[e])>> \o N
<1>1. p \in Seq(S) /\ Len(p) = Len(s) + 1 /\ Len(s) \in Nat
      /\ p[1] = e /\ \A k \in 1..Len(s) : p[k + 1] = s[k]
  BY Pushed
<1> HIDE DEF p
<1>2. N \in Seq(R) /\ Len(N) = Len(s) /\ \A k \in 1..Len(s) : N[k] = KeyOf(V[s[k]])
  BY NamesIsSeq
<1>3. M \in Seq(R) /\ Len(M) = Len(s) + 1 /\ \A k \in 1..(Len(s) + 1) : M[k] = KeyOf(V[p[k]])
  <2>1. p \in Seq(S)
    BY <1>1
  <2>2. M \in Seq(R) /\ Len(M) = Len(p) /\ \A k \in 1..Len(p) : M[k] = KeyOf(V[p[k]])
    BY <2>1, NamesIsSeq
  <2>3. QED  BY <2>2, <1>1
<1>4. KeyOf(V[e]) \in R
  BY DEF KeysOf
<1> HIDE DEF N, M, R
<1>5. q \in Seq(R) /\ Len(q) = Len(s) + 1
      /\ q[1] = KeyOf(V[e]) /\ \A k \in 1..Len(s) : q[k + 1] = N[k]
  BY <1>2, <1>4, Pushed
<1> HIDE DEF q
<1>6. ASSUME NEW k \in 1..(Len(s) + 1)
      PROVE  M[k] = q[k]
  <2>1. CASE k = 1
    BY <1>1, <1>3, <1>5, <2>1
  <2>2. CASE k # 1
    <3> DEFINE j == k - 1
    <3>1. j \in 1..Len(s) /\ k = j + 1
      BY <1>1, <2>2
    <3> HIDE DEF j
    <3>2. M[k] = KeyOf(V[s[j]])
      BY <1>1, <1>3, <3>1
    <3>3. q[k] = KeyOf(V[s[j]])
      BY <1>2, <1>5, <3>1
    <3>4. QED  BY <3>2, <3>3
  <2>3. QED  BY <2>1, <2>2
<1>7. M = q
  BY <1>1, <1>3, <1>5, <1>6, SeqEqual
<1>8. QED  BY <1>7 DEF M, N, q, p

LEMMA NamesRemoved ==
    ASSUME NEW S, NEW s \in Seq(S), NEW n \in DOMAIN s, NEW V
    PROVE  NamesOf(RemoveAt(s, n), V) = RemoveAt(NamesOf(s, V), n)
<1> DEFINE R == KeysOf(S, V)
           r == RemoveAt(s, n)
           N == NamesOf(s, V)
           M == NamesOf(r, V)
           q == RemoveAt(N, n)
<1>1. n \in 1..Len(s) /\ Len(s) \in Nat
  OBVIOUS
<1>2. r \in Seq(S) /\ Len(r) = Len(s) - 1 /\ \A k \in 1..(Len(s) - 1) : r[k] = s[Past(k, n)]
  BY RemovedAt
<1>3. N \in Seq(R) /\ Len(N) = Len(s) /\ DOMAIN N = 1..Len(s)
      /\ \A k \in 1..Len(s) : N[k] = KeyOf(V[s[k]])
  BY NamesIsSeq
<1> HIDE DEF r
<1>4. M \in Seq(R) /\ Len(M) = Len(s) - 1 /\ \A k \in 1..(Len(s) - 1) : M[k] = KeyOf(V[r[k]])
  <2>1. r \in Seq(S)
    BY <1>2
  <2>2. M \in Seq(R) /\ Len(M) = Len(r) /\ \A k \in 1..Len(r) : M[k] = KeyOf(V[r[k]])
    BY <2>1, NamesIsSeq
  <2>3. QED  BY <2>2, <1>2
<1> HIDE DEF N, M, R
<1>5. q \in Seq(R) /\ Len(q) = Len(s) - 1 /\ \A k \in 1..(Len(s) - 1) : q[k] = N[Past(k, n)]
  <2>1. N \in Seq(R) /\ n \in DOMAIN N
    BY <1>1, <1>3
  <2>2. /\ q \in Seq(R) /\ Len(q) = Len(N) - 1
        /\ \A k \in 1..(Len(N) - 1) : q[k] = N[Past(k, n)]
    BY <2>1, RemovedAt
  <2>3. QED  BY <2>2, <1>3
<1>6. \A k \in 1..(Len(s) - 1) : Past(k, n) \in 1..Len(s)
  BY <1>1 DEF Past
<1> HIDE DEF q
<1>7. \A k \in 1..(Len(s) - 1) : M[k] = q[k]
  BY <1>2, <1>3, <1>4, <1>5, <1>6
<1>8. M = q
  BY <1>4, <1>5, <1>7, SeqEqual
<1>9. QED  BY <1>8 DEF M, N, q, r

LEMMA NamesTruncated ==
    ASSUME NEW S, NEW s \in Seq(S), NEW V
    PROVE  NamesOf(Truncate(s), V) = Truncate(NamesOf(s, V))
<1> DEFINE R == KeysOf(S, V)
           t == Truncate(s)
           N == NamesOf(s, V)
           M == NamesOf(t, V)
           q == Truncate(N)
           n == IF Len(s) > Capacity THEN Capacity ELSE Len(s)
<1>1. t \in Seq(S) /\ Len(t) = n /\ \A k \in 1..n : k \in DOMAIN s /\ t[k] = s[k]
  BY Truncated
<1>2. N \in Seq(R) /\ Len(N) = Len(s) /\ \A k \in 1..Len(s) : N[k] = KeyOf(V[s[k]])
  BY NamesIsSeq
<1> HIDE DEF t
<1>3. M \in Seq(R) /\ Len(M) = n /\ \A k \in 1..n : M[k] = KeyOf(V[t[k]])
  <2>1. t \in Seq(S)
    BY <1>1
  <2>2. M \in Seq(R) /\ Len(M) = Len(t) /\ \A k \in 1..Len(t) : M[k] = KeyOf(V[t[k]])
    BY <2>1, NamesIsSeq
  <2>3. QED  BY <2>2, <1>1
<1> HIDE DEF N, M, R
<1>4. q \in Seq(R) /\ Len(q) = n /\ \A k \in 1..n : q[k] = N[k]
  BY <1>2, Truncated
<1> HIDE DEF q
<1>5. DOMAIN s = 1..Len(s)
  OBVIOUS
<1> HIDE DEF n
<1>6. \A k \in 1..n : M[k] = q[k]
  BY <1>1, <1>2, <1>3, <1>4, <1>5
<1>7. M = q
  BY <1>3, <1>4, <1>6, SeqEqual
<1>8. QED  BY <1>7 DEF M, N, q, t

-----------------------------------------------------------------------------
(***************************************************************************)
(* Each step of the registry is one of LeastRecentlyUsed.                  *)
(***************************************************************************)
Given == GivenIn(value, byToken, byPrompt)

LEMMA MappedState == Names = NamesOf(ll, value)
                     /\ Given = [n \in DOMAIN byToken \union DOMAIN byPrompt |->
                                    value[Target(n)].action]
<1>1. Names = NamesOf(ll, value)
  BY DEF Names, NamesOf, NameOf, KeyOf
<1>2. \A n : Target(n) = TargetIn(byToken, byPrompt, n)
  BY DEF Target, TargetIn
<1>3. QED  BY <1>1, <1>2 DEF Given, GivenIn

LEMMA MappedNext ==
    /\ Names' = NamesOf(ll', value')
    /\ [n \in DOMAIN byToken \union DOMAIN byPrompt |-> value[Target(n)].action]'
         = GivenIn(value', byToken', byPrompt')
<1>1. Names' = NamesOf(ll', value')
  BY DEF Names, NamesOf, NameOf, KeyOf
<1>2. [n \in DOMAIN byToken \union DOMAIN byPrompt |-> value[Target(n)].action]'
        = GivenIn(value', byToken', byPrompt')
  BY DEF Target, TargetIn, GivenIn
<1>3. QED  BY <1>1, <1>2

LEMMA SameOperators ==
    /\ \A s, e : LRU!RemoveFirst(s, e) = RemoveFirst(s, e)
    /\ \A s : LRU!Truncate(s) = Truncate(s)
<1>1. \A s, e : LRU!RemoveFirst(s, e) = RemoveFirst(s, e)
  <2> SUFFICES ASSUME NEW s, NEW e
               PROVE  LRU!RemoveFirst(s, e) = RemoveFirst(s, e)
    OBVIOUS
  <2>1. QED
    BY DEF LRU!RemoveFirst, RemoveFirst, LRU!RemoveAt, RemoveAt, LRU!SelectInSeq,
           SelectInSeq, LRU!Min, Min
<1>2. \A s : LRU!Truncate(s) = Truncate(s)
  BY DEF LRU!Truncate, Truncate
<1>3. QED  BY <1>1, <1>2

LEMMA SameNames ==
    ASSUME NEW s, NEW V, NEW W, \A x \in ToSet(s) : V[x] = W[x]
    PROVE  NamesOf(s, V) = NamesOf(s, W)
<1>1. \A k \in DOMAIN s : V[s[k]] = W[s[k]]
  BY DEF ToSet
<1>2. QED  BY <1>1 DEF NamesOf

LEMMA NamesInserted ==
    ASSUME NEW s \in Seq(Element), NEW e \in Element, NEW V
    PROVE  NamesOf(Truncate(<<e>> \o s), V) = Truncate(<<KeyOf(V[e])>> \o NamesOf(s, V))
<1>1. <<e>> \o s \in Seq(Element)
  BY Pushed
<1>2. NamesOf(<<e>> \o s, V) = <<KeyOf(V[e])>> \o NamesOf(s, V)
  BY NamesPushed
<1>3. NamesOf(Truncate(<<e>> \o s), V) = Truncate(NamesOf(<<e>> \o s, V))
  BY <1>1, NamesTruncated
<1>4. QED  BY <1>2, <1>3

\* A record is pushed on a list without its name: the name is used last, and
\* given the record's action.
LEMMA InsertGives ==
    ASSUME RegInv, RegInv',
           NEW L, IsList(L), ToSet(L) \subseteq ToSet(ll),
           NEW rec, OneKey(rec), NEW e \in Element, e \notin ToSet(L),
           NamesOf(L, value) = RemoveFirst(Names, KeyOf(rec)),
           ll' = Truncate(<<e>> \o L), e \in ToSet(ll'),
           ToSet(ll') \subseteq ToSet(L) \union {e},
           \A x \in ToSet(ll') : value'[x] = IF x = e THEN rec ELSE value[x],
           found' = None
    PROVE  LRU!Give(KeyOf(rec), rec.action)
<1> DEFINE n == KeyOf(rec)
           p == <<e>> \o L
           W == [x \in Element |-> IF x = e THEN rec ELSE value[x]]
<1>1. L \in Seq(Element) /\ p \in Seq(Element)
  BY Pushed DEF IsList
<1>2. ToSet(L) \subseteq Element /\ ToSet(ll') \subseteq Element
  BY <1>1 DEF ToSet, RegInv, IsList
<1>3. NamesOf(ll', value') = Truncate(<<n>> \o RemoveFirst(Names, n))
  <2>1. NamesOf(ll', value') = NamesOf(ll', W)
    <3>1. \A x \in ToSet(ll') : value'[x] = W[x]
      BY <1>2
    <3> HIDE DEF W
    <3>2. QED  BY <3>1, SameNames
  <2>2. NamesOf(L, W) = NamesOf(L, value)
    <3>1. \A x \in ToSet(L) : W[x] = value[x]
      BY <1>2
    <3> HIDE DEF W
    <3>2. QED  BY <3>1, SameNames
  <2>3. W[e] = rec
    OBVIOUS
  <2> HIDE DEF W
  <2>4. NamesOf(ll', W) = Truncate(<<KeyOf(W[e])>> \o NamesOf(L, W))
    BY <1>1, NamesInserted
  <2>5. QED  BY <2>1, <2>2, <2>3, <2>4
<1>4. ToSet(NamesOf(ll', value')) = DOMAIN byToken' \union DOMAIN byPrompt'
  BY NamesAreKeys DEF RegInv
<1>5. ASSUME NEW m \in DOMAIN byToken' \union DOMAIN byPrompt'
      PROVE  value'[TargetIn(byToken', byPrompt', m)].action
                = IF m = n THEN rec.action ELSE Given[m]
  <2> DEFINE x == TargetIn(byToken', byPrompt', m)
  <2>1. x \in ToSet(ll') /\ KeyOf(value'[x]) = m
    BY KeysResolve DEF RegInv
  <2>2. TargetIn(byToken', byPrompt', n) = e
    <3>1. value'[e] = rec
      OBVIOUS
    <3>2. QED  BY <3>1, KeysResolve DEF RegInv
  <2> HIDE DEF x
  <2>3. CASE x = e
    BY <2>1, <2>3 DEF x
  <2>4. CASE x # e
    <3>1. m # n
      BY <2>2, <2>4 DEF x
    <3>2. value'[x] = value[x] /\ x \in ToSet(ll)
      BY <2>1, <2>4
    <3>3. m \in DOMAIN byToken \union DOMAIN byPrompt /\ TargetIn(byToken, byPrompt, m) = x
      <4>1. KeyOf(value[x]) = m
        BY <2>1, <3>2
      <4>2. QED  BY <3>2, <4>1, KeysResolve DEF RegInv
    <3>4. Given[m] = value[x].action
      BY <3>3 DEF Given, GivenIn
    <3>5. QED  BY <3>1, <3>2, <3>4 DEF x
  <2>5. QED  BY <2>3, <2>4 DEF x
<1> HIDE DEF n, W, p
<1>6. GivenIn(value', byToken', byPrompt')
        = [m \in ToSet(NamesOf(ll', value')) |-> IF m = n THEN rec.action ELSE Given[m]]
  BY <1>4, <1>5 DEF GivenIn
<1>7. Names' = LRU!Truncate(<<n>> \o LRU!RemoveFirst(Names, n))
  BY <1>3, MappedNext, SameOperators
<1>8. [m \in DOMAIN byToken \union DOMAIN byPrompt |-> value[Target(m)].action]'
        = [m \in {Names'[k] : k \in DOMAIN Names'} |->
             IF m = n THEN rec.action
             ELSE [i \in DOMAIN byToken \union DOMAIN byPrompt |-> value[Target(i)].action][m]]
  <2>1. {Names'[k] : k \in DOMAIN Names'} = ToSet(NamesOf(ll', value'))
    BY MappedNext DEF ToSet
  <2>2. Given = [i \in DOMAIN byToken \union DOMAIN byPrompt |-> value[Target(i)].action]
    BY MappedState
  <2> DEFINE G == [i \in DOMAIN byToken \union DOMAIN byPrompt |-> value[Target(i)].action]
  <2>3. GivenIn(value', byToken', byPrompt')
          = [m \in {Names'[k] : k \in DOMAIN Names'} |-> IF m = n THEN rec.action ELSE G[m]]
    <3>1. Given = G
      BY <2>2
    <3> HIDE DEF G
    <3>2. QED  BY <1>6, <2>1, <3>1
  <2>4. QED  BY <2>3, MappedNext
<1>9. QED  BY <1>7, <1>8 DEF LRU!Give, n

LEMMA PutGives ==
    ASSUME RegInv, RegInv', NEW a \in Action, Put(a)
    PROVE  \E t \in Token : LRU!Give(t, a)
<1>1. PICK t \in Token \ minted, e \in Unused :
        /\ insert(ll, byToken, byPrompt, [action |-> a, token |-> t, prompt |-> None], e)
        /\ found' = None
  BY DEF Put
<1> DEFINE rec == [action |-> a, token |-> t, prompt |-> None]
<1>2. OneKey(rec) /\ rec.token = t /\ rec.prompt = None /\ rec.action = a
  BY NoneIsNoKey DEF OneKey, Record
<1>3. KeyOf(rec) = t
  BY <1>2, NoneIsNoKey DEF KeyOf
<1>4. insert(ll, byToken, byPrompt, rec, e)
  BY <1>1
<1> HIDE DEF rec
<1>5. t \notin DOMAIN byToken /\ t \notin DOMAIN byPrompt /\ None \notin DOMAIN byPrompt
  BY NoneIsNoKey, RegistryAssumption DEF RegInv, Agree
<1>6. ToSet(ll) \subseteq DOMAIN value /\ e \in Element /\ e \notin ToSet(ll)
  BY DEF RegInv, Unused
<1>7. /\ ll' = Truncate(<<e>> \o ll) /\ e \in ToSet(ll')
      /\ ToSet(ll') \subseteq ToSet(ll) \union {e}
      /\ \A x \in ToSet(ll') : value'[x] = IF x = e THEN rec ELSE value[x]
  <2>1. IsList(ll) /\ Agree(ToSet(ll), value, byToken, byPrompt)
    BY DEF RegInv
  <2>2. rec.token \notin DOMAIN byToken /\ rec.prompt \notin DOMAIN byPrompt /\ OneKey(rec)
    BY <1>2, <1>5
  <2>3. QED  BY <1>4, <1>6, <2>1, <2>2, InsertKeeps
<1>8. NamesOf(ll, value) = RemoveFirst(Names, t)
  <2>1. Names \in Seq(Key) /\ t \notin ToSet(Names)
    BY <1>5, NamesAreKeys, MappedState DEF RegInv
  <2>2. QED  BY <2>1, NotThere, MappedState
<1>9. LRU!Give(KeyOf(rec), rec.action)
  BY <1>1, <1>2, <1>3, <1>6, <1>7, <1>8, InsertGives DEF RegInv
<1>10. QED  BY <1>2, <1>3, <1>9

LEMMA PutPromptGives ==
    ASSUME RegInv, RegInv', NEW a \in Action, NEW id \in Prompt, PutPrompt(a, id)
    PROVE  LRU!Give(id, a)
<1> DEFINE rec == [action |-> a, token |-> None, prompt |-> id]
<1>1. OneKey(rec) /\ rec.token = None /\ rec.prompt = id /\ rec.action = a
  BY NoneIsNoKey DEF OneKey, Record
<1>2. KeyOf(rec) = id
  BY <1>1 DEF KeyOf
<1>3. PICK e \in Unused :
        \/ /\ id \in DOMAIN byPrompt
           /\ insert(RemoveFirst(ll, byPrompt[id]), Delete(byToken, {value[byPrompt[id]].token}),
                     Delete(byPrompt, {id}), rec, e)
        \/ /\ id \notin DOMAIN byPrompt
           /\ insert(ll, byToken, byPrompt, rec, e)
  BY DEF PutPrompt
<1>4. ToSet(ll) \subseteq DOMAIN value /\ e \in Element /\ e \notin ToSet(ll)
  BY DEF RegInv, Unused
<1>5. None \notin DOMAIN byToken /\ id \notin DOMAIN byToken
  BY NoneIsNoKey, RegistryAssumption DEF RegInv, Agree
<1>6. found' = None
  BY DEF PutPrompt
<1>7. /\ Names = NamesOf(ll, value) /\ Names \in Seq(Key) /\ IsInjective(Names)
      /\ DOMAIN Names = DOMAIN ll /\ ToSet(Names) = DOMAIN byToken \union DOMAIN byPrompt
  BY NamesAreKeys, MappedState DEF RegInv
<1> HIDE DEF rec
<1>8. CASE id \notin DOMAIN byPrompt
  <2>1. insert(ll, byToken, byPrompt, rec, e)
    BY <1>3, <1>8
  <2>2. /\ ll' = Truncate(<<e>> \o ll) /\ e \in ToSet(ll')
        /\ ToSet(ll') \subseteq ToSet(ll) \union {e}
        /\ \A x \in ToSet(ll') : value'[x] = IF x = e THEN rec ELSE value[x]
    <3>1. IsList(ll) /\ Agree(ToSet(ll), value, byToken, byPrompt)
      BY DEF RegInv
    <3>2. rec.token \notin DOMAIN byToken /\ rec.prompt \notin DOMAIN byPrompt /\ OneKey(rec)
      BY <1>1, <1>5, <1>8
    <3>3. QED  BY <1>4, <2>1, <3>1, <3>2, InsertKeeps
  <2>3. NamesOf(ll, value) = RemoveFirst(Names, id)
    BY <1>5, <1>7, <1>8, NotThere
  <2>4. LRU!Give(KeyOf(rec), rec.action)
    BY <1>1, <1>2, <1>4, <1>6, <2>2, <2>3, InsertGives DEF RegInv
  <2>5. QED  BY <1>1, <1>2, <2>4
<1>9. CASE id \in DOMAIN byPrompt
  <2> DEFINE x == byPrompt[id]
             L == RemoveFirst(ll, x)
             T == Delete(byToken, {value[x].token})
             P == Delete(byPrompt, {id})
  <2>1. /\ x \in ToSet(ll) /\ IsList(L) /\ ToSet(L) = ToSet(ll) \ {x}
        /\ Agree(ToSet(L), value, T, P)
        /\ DOMAIN T = DOMAIN byToken /\ DOMAIN P = DOMAIN byPrompt \ {id}
    BY <1>9, PromptGone
  <2>2. insert(L, T, P, rec, e)
    BY <1>3, <1>9
  <2>3. NamesOf(L, value) = RemoveFirst(Names, id)
    <3>1. PICK n \in DOMAIN ll : ll[n] = x
      BY <2>1 DEF ToSet
    <3>2. L = RemoveAt(ll, n)
      BY <3>1, Removed DEF RegInv, IsList
    <3>3. Names[n] = id
      <4>1. TargetIn(byToken, byPrompt, id) = x
        BY <1>5 DEF TargetIn
      <4>2. KeyOf(value[x]) = id
        BY <1>9, <4>1, KeysResolve DEF RegInv
      <4>3. QED  BY <1>7, <3>1, <4>2 DEF NamesOf
    <3>4. RemoveFirst(Names, id) = RemoveAt(Names, n)
      BY <1>7, <3>3, Removed
    <3>5. NamesOf(RemoveAt(ll, n), value) = RemoveAt(Names, n)
      BY <1>7, NamesRemoved DEF RegInv, IsList
    <3>6. QED  BY <3>2, <3>4, <3>5
  <2> HIDE DEF x, L, T, P
  <2>4. /\ ll' = Truncate(<<e>> \o L) /\ e \in ToSet(ll')
        /\ ToSet(ll') \subseteq ToSet(L) \union {e}
        /\ \A y \in ToSet(ll') : value'[y] = IF y = e THEN rec ELSE value[y]
    <3>1. /\ ToSet(L) \subseteq DOMAIN value /\ e \notin ToSet(L)
          /\ rec.token \notin DOMAIN T /\ rec.prompt \notin DOMAIN P
      BY <1>1, <1>4, <1>5, <2>1
    <3>2. OneKey(rec) /\ e \in Element /\ IsList(L) /\ Agree(ToSet(L), value, T, P)
      BY <1>1, <1>4, <2>1
    <3>3. QED  BY <2>2, <3>1, <3>2, InsertKeeps
  <2>5. LRU!Give(KeyOf(rec), rec.action)
    BY <1>1, <1>2, <1>4, <1>6, <2>1, <2>3, <2>4, InsertGives
  <2>6. QED  BY <1>1, <1>2, <2>5
<1>10. QED  BY <1>8, <1>9

LEMMA LookupFinds ==
    ASSUME RegInv, NEW map, NEW k, Lookup(map, k),
           \/ map = byToken /\ k \in Token
           \/ map = byPrompt /\ k \in Prompt
    PROVE  LRU!Find(k)
<1>1. UNCHANGED <<value, byToken, byPrompt>>
  BY DEF Lookup
<1>2. /\ Names = NamesOf(ll, value) /\ Names \in Seq(Key) /\ IsInjective(Names)
      /\ DOMAIN Names = DOMAIN ll /\ ToSet(Names) = DOMAIN byToken \union DOMAIN byPrompt
  BY NamesAreKeys, MappedState DEF RegInv
<1>3. ToSet(Names) = {Names[i] : i \in DOMAIN Names}
  BY DEF ToSet
<1>4. k \in DOMAIN byToken \union DOMAIN byPrompt <=> k \in DOMAIN map
  BY RegistryAssumption DEF RegInv, Agree
<1>5. Names' = NamesOf(ll', value)
  BY <1>1, MappedNext
<1>6. [n \in DOMAIN byToken \union DOMAIN byPrompt |-> value[Target(n)].action]'
        = [n \in DOMAIN byToken \union DOMAIN byPrompt |-> value[Target(n)].action]
  <2>1. GivenIn(value', byToken', byPrompt') = Given
    BY <1>1 DEF Given
  <2>2. QED  BY <2>1, MappedNext, MappedState
<1>7. CASE k \in DOMAIN map /\ ll' = <<map[k]>> \o RemoveFirst(ll, map[k])
           /\ found' = value[map[k]].action
  <2> DEFINE x == map[k]
  <2>1. TargetIn(byToken, byPrompt, k) = x
    BY <1>7, RegistryAssumption DEF TargetIn, RegInv, Agree
  <2>2. x \in ToSet(ll) /\ KeyOf(value[x]) = k
    BY <1>4, <1>7, <2>1, KeysResolve DEF RegInv
  <2>3. PICK n \in DOMAIN ll : ll[n] = x
    BY <2>2 DEF ToSet
  <2>4. x \in Element /\ ll \in Seq(Element) /\ IsInjective(ll)
    BY <2>3 DEF RegInv, IsList
  <2>5. ll' = <<x>> \o RemoveAt(ll, n)
    BY <1>7, <2>3, <2>4, Removed
  <2>6. RemoveAt(ll, n) \in Seq(Element)
    BY <2>3, <2>4, Removed
  <2> HIDE DEF x
  <2>7. Names' = <<k>> \o RemoveAt(Names, n)
    <3>1. NamesOf(RemoveAt(ll, n), value) = RemoveAt(Names, n)
      BY <1>2, <2>4, NamesRemoved
    <3> DEFINE r == RemoveAt(ll, n)
    <3> HIDE DEF r
    <3>2. NamesOf(<<x>> \o r, value) = <<KeyOf(value[x])>> \o NamesOf(r, value)
      BY <2>4, <2>6, NamesPushed DEF r
    <3>3. QED  BY <1>5, <2>2, <2>5, <3>1, <3>2 DEF r
  <2>8. Names[n] = k
    BY <1>2, <2>2, <2>3 DEF NamesOf
  <2>9. RemoveFirst(Names, k) = RemoveAt(Names, n)
    BY <1>2, <2>3, <2>8, Removed
  <2>10. Names' = <<k>> \o LRU!RemoveFirst(Names, k)
    BY <2>7, <2>9, SameOperators
  <2>11. found' = [m \in DOMAIN byToken \union DOMAIN byPrompt |-> value[Target(m)].action][k]
    <3>1. Given[k] = value[x].action
      BY <1>4, <1>7, <2>1 DEF Given, GivenIn
    <3>2. QED  BY <1>7, <3>1, MappedState DEF x
  <2>12. k \in {Names[i] : i \in DOMAIN Names}
    BY <1>2, <1>3, <1>4, <1>7
  <2>13. QED  BY <1>6, <2>10, <2>11, <2>12 DEF LRU!Find
<1>8. CASE k \notin DOMAIN map /\ found' = None /\ UNCHANGED ll
  <2>1. k \notin {Names[i] : i \in DOMAIN Names}
    BY <1>2, <1>3, <1>4, <1>8
  <2>2. Names' = Names
    BY <1>2, <1>5, <1>8
  <2>3. QED  BY <1>6, <1>8, <2>1, <2>2 DEF LRU!Find
<1>9. QED  BY <1>7, <1>8 DEF Lookup

\* The registry is a least-recently-used map: what a name resolves to is what it
\* was last given for, exactly while it is among the Capacity names used last
\* (actions.go, the comment on Registry).
THEOREM RegistryKeepsPromise == Spec => IsLeastRecentlyUsed
<1>1. Init => LRU!Start
  <2> SUFFICES ASSUME Init PROVE LRU!Start
    OBVIOUS
  <2>1. DOMAIN ll = {} /\ DOMAIN byToken = {} /\ DOMAIN byPrompt = {} /\ found = None
    BY DEF Init, Empty
  <2>2. Names = <<>>
    <3>1. Len(Names) = 0 /\ Names \in Seq(Key)
      BY <2>1, InitInv, NamesAreKeys, MappedState DEF RegInv, Init
    <3>2. QED  BY <3>1, EmptySeq
  <2>3. [n \in DOMAIN byToken \union DOMAIN byPrompt |-> value[Target(n)].action] = [n \in {} |-> None]
    BY <2>1
  <2>4. QED  BY <2>1, <2>2, <2>3 DEF LRU!Start
<1>2. RegInv /\ RegInv' /\ [Next]_vars => [LRU!Step]_(LRU!promised)
  <2> SUFFICES ASSUME RegInv, RegInv', [Next]_vars PROVE [LRU!Step]_(LRU!promised)
    OBVIOUS
  <2>1. ASSUME NEW a \in Action, Put(a) PROVE LRU!Step
    BY <2>1, PutGives DEF LRU!Step
  <2>2. ASSUME NEW a \in Action, NEW id \in Prompt, PutPrompt(a, id) PROVE LRU!Step
    BY <2>2, PutPromptGives DEF LRU!Step
  <2>3. ASSUME NEW t \in Token, Get(t) PROVE LRU!Step
    BY <2>3, LookupFinds DEF Get, LRU!Step
  <2>4. ASSUME NEW id \in Prompt, GetByPrompt(id) PROVE LRU!Step
    BY <2>4, LookupFinds DEF GetByPrompt, LRU!Step
  <2>5. CASE UNCHANGED vars
    <3>1. Names' = Names
      BY <2>5, MappedState, MappedNext DEF vars
    <3>2. [n \in DOMAIN byToken \union DOMAIN byPrompt |-> value[Target(n)].action]'
            = [n \in DOMAIN byToken \union DOMAIN byPrompt |-> value[Target(n)].action]
      BY <2>5, MappedState, MappedNext DEF vars, Given
    <3>3. QED  BY <2>5, <3>1, <3>2 DEF vars, LRU!promised
  <2>6. QED  BY <2>1, <2>2, <2>3, <2>4, <2>5 DEF Next
<1>3. QED  BY <1>1, <1>2, RegistryInvariant, PTL DEF Spec, IsLeastRecentlyUsed, LRU!Promise

=============================================================================
