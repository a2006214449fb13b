------------------------------ MODULE Registry ------------------------------
(***************************************************************************)
(* The bot's Registry (client/bot/actions.go): one list of records in the  *)
(* order of their last use, and two maps into it, from button tokens and   *)
(* from the message ids of outstanding prompts. Each method runs under the *)
(* mutex from end to end, so each is one step.                             *)
(*                                                                         *)
(* The maps hold pointers to list elements, and the address of an element  *)
(* may be used again once the list has let go of it.                       *)
(***************************************************************************)
EXTENDS Naturals, FiniteSets, SequencesExt

CONSTANTS
    Capacity,   \* registryCapacity
    Element,    \* addresses of list elements
    Token,      \* what newToken may return
    Prompt,     \* message ids of prompts
    Action,     \* what a button or a prompt stands for
    None        \* no token, no message id, a lookup that found nothing

ASSUME RegistryAssumption ==
    /\ Capacity \in Nat \ {0}
    /\ IsFiniteSet(Element) /\ Cardinality(Element) > Capacity
    /\ Token \intersect Prompt = {}
    /\ None \notin Token \union Prompt \union Action

Record == [action: Action, token: Token \union {None}, prompt: Prompt \union {None}]

VARIABLES
    ll,         \* the elements of the list, front first
    value,      \* the record each of them holds
    byToken,
    byPrompt,
    minted,     \* every token newToken has returned
    found       \* what the last lookup returned, or None

vars == <<ll, value, byToken, byPrompt, minted, found>>

Empty == [x \in {} |-> None]

Init ==
    /\ ll = <<>>
    /\ value = Empty
    /\ byToken = Empty
    /\ byPrompt = Empty
    /\ minted = {}
    /\ found = None

\* A map with the key k sent to x.
With(map, k, x) == [j \in DOMAIN map \union {k} |-> IF j = k THEN x ELSE map[j]]
\* The same, unless the key is None.
Point(map, k, e) == IF k = None THEN map ELSE With(map, k, e)
\* A map with the keys K taken out.
Delete(map, K) == Restrict(map, DOMAIN map \ K)

\* What the loop of insert leaves of a list, and what it evicts from the back.
Truncate(s) == SubSeq(s, 1, IF Len(s) > Capacity THEN Capacity ELSE Len(s))
Overflow(s) == {s[k] : k \in (Capacity + 1)..Len(s)}

\* insert, given the list and the maps as its caller leaves them.
insert(list, tokens, prompts, rec, e) ==
    LET pushed == <<e>> \o list
        values == With(value, e, rec)
        old    == Overflow(pushed)
    IN  /\ ll' = Truncate(pushed)
        /\ value' = Restrict(values, ToSet(pushed) \ old)
        /\ byToken' = Delete(Point(tokens, rec.token, e), {values[x].token : x \in old})
        /\ byPrompt' = Delete(Point(prompts, rec.prompt, e), {values[x].prompt : x \in old})

Unused == Element \ ToSet(ll)

\* No two tokens are alike. When there is no randomness for one, nothing is
\* put, which is no step.
Put(a) ==
    \E t \in Token \ minted, e \in Unused :
        /\ insert(ll, byToken, byPrompt, [action |-> a, token |-> t, prompt |-> None], e)
        /\ minted' = minted \union {t}
        /\ found' = None

\* Mutant: the record an id already has is left in the list.
PutPromptAgain(a, id) ==
    \E e \in Unused :
        /\ insert(ll, byToken, byPrompt, [action |-> a, token |-> None, prompt |-> id], e)
        /\ found' = None
        /\ UNCHANGED minted

PutPrompt(a, id) ==
    /\ \E e \in Unused :
        LET rec == [action |-> a, token |-> None, prompt |-> id] IN
        \/ /\ id \in DOMAIN byPrompt
           /\ insert(RemoveFirst(ll, byPrompt[id]), Delete(byToken, {value[byPrompt[id]].token}),
                     Delete(byPrompt, {id}), rec, e)
        \/ /\ id \notin DOMAIN byPrompt
           /\ insert(ll, byToken, byPrompt, rec, e)
    /\ found' = None
    /\ UNCHANGED minted

\* Mutant: a hit does not refresh the record.
LookupQuietly(map, k) ==
    /\ found' = IF k \in DOMAIN map THEN value[map[k]].action ELSE None
    /\ UNCHANGED <<ll, value, byToken, byPrompt, minted>>

Lookup(map, k) ==
    /\ \/ /\ k \in DOMAIN map
          /\ ll' = <<map[k]>> \o RemoveFirst(ll, map[k])
          /\ found' = value[map[k]].action
       \/ /\ k \notin DOMAIN map
          /\ found' = None
          /\ UNCHANGED ll
    /\ UNCHANGED <<value, byToken, byPrompt, minted>>

Get(t) == Lookup(byToken, t)
GetByPrompt(id) == Lookup(byPrompt, id)

Next ==
    \/ \E a \in Action : Put(a) \/ \E id \in Prompt : PutPrompt(a, id)
    \/ \E t \in Token : Get(t)
    \/ \E id \in Prompt : GetByPrompt(id)

Spec == Init /\ [][Next]_vars

-----------------------------------------------------------------------------
(***************************************************************************)
(* Properties.                                                             *)
(***************************************************************************)
TypeOK ==
    /\ ll \in Seq(Element)
    /\ value \in [ToSet(ll) -> Record]
    /\ DOMAIN byToken \subseteq Token
    /\ DOMAIN byPrompt \subseteq Prompt
    /\ minted \subseteq Token
    /\ found \in Action \union {None}

\* The comment on the struct: one record set with two maps into it. Every map
\* entry leads to a record in the list that carries its key, and every record
\* in the list is found under its key, so the two lookups never disagree
\* about what exists.
IndexesAgree ==
    /\ \A t \in DOMAIN byToken : byToken[t] \in ToSet(ll) /\ value[byToken[t]].token = t
    /\ \A p \in DOMAIN byPrompt : byPrompt[p] \in ToSet(ll) /\ value[byPrompt[p]].prompt = p
    /\ \A e \in ToSet(ll) :
        \/ value[e].token \in DOMAIN byToken /\ byToken[value[e].token] = e
        \/ value[e].prompt \in DOMAIN byPrompt /\ byPrompt[value[e].prompt] = e

\* The registry implements LeastRecentlyUsed: a name resolves to the action it
\* was given for exactly while it is among the Capacity names used last.
NameOf(e) == IF value[e].token # None THEN value[e].token ELSE value[e].prompt
Names == [k \in DOMAIN ll |-> NameOf(ll[k])]
Target(n) == IF n \in DOMAIN byToken THEN byToken[n] ELSE byPrompt[n]

LRU == INSTANCE LeastRecentlyUsed
        WITH Name <- Token \union Prompt, Missing <- None,
             recent <- Names,
             given <- [n \in DOMAIN byToken \union DOMAIN byPrompt |-> value[Target(n)].action],
             answer <- found

IsLeastRecentlyUsed == LRU!Promise
=============================================================================
