------------------------------ MODULE TaskServer ------------------------------
(***************************************************************************)
(* The whole server: the configuration main refuses or accepts             *)
(* (server/main.go), the chain of middleware in front of the store         *)
(* (server/handlers.go: body limit, authentication, rate limit, routing,   *)
(* decoding) and, behind it, the store of TaskStore with its lock, file    *)
(* and crashes. Every step here is a step of TaskStore with what the chain *)
(* does beside it, or a step of the chain alone.                           *)
(*                                                                         *)
(* A client may keep an answer to /api/tasks/get and send its ETag, the    *)
(* state_version, back as If-None-Match.                                   *)
(***************************************************************************)
EXTENDS TaskStore, Integers

CONSTANTS
    Credential,  \* values of an Authorization header that say something
    Absent,      \* the empty string: no header, or no secret configured
    Rates,       \* what rate_limit may be in a configuration
    DefaultRate  \* defaultRateLimit

ASSUME ServerAssumption ==
    /\ Absent \notin Credential
    /\ Rates \subseteq Int
    /\ DefaultRate \in Nat \ {0}

VARIABLES
    cfg,    \* config.yaml, the same at every start
    tokens, \* the limiter's bucket
    front,  \* what each handler is doing in the chain
    copy,   \* the answer a client keeps, named by its ETag
    spent   \* history: authentic requests since the bucket was last full

chain == <<cfg, tokens, front, copy, spent>>
serverVars == <<vars, chain>>

Bodies == {"whole", "broken", "big"}

Free == [at |-> "free", cred |-> Absent, op |-> "none", body |-> "whole",
         etag |-> Null, status |-> 0]

\* What arrives: a request that changes something has a body, a get may be
\* conditional on the copy its client has, and a path may have no route.
Request(etags) ==
    [at: {"in"}, cred: Credential \union {Absent}, op: {"get"}, body: {"whole"},
     etag: etags, status: {0}]
    \union
    [at: {"in"}, cred: Credential \union {Absent}, op: {"add", "update", "delete"},
     body: Bodies, etag: {Null}, status: {0}]
    \union
    [at: {"in"}, cred: Credential \union {Absent}, op: {"none"}, body: {"whole"},
     etag: {Null}, status: {0}]

NoCopy == [sv |-> Null, tasks |-> NoTasks]

-----------------------------------------------------------------------------
(***************************************************************************)
(* Starting.                                                               *)
(***************************************************************************)
resolveRateLimit(rate) == IF rate = 0 THEN DefaultRate ELSE rate

\* Mutant: any secret will do.
validateRate(c) == c.rate >= 0

validateConfig(c) == c.secret # Absent /\ c.rate >= 0

\* NewServer: the bucket holds twice the rate.
Burst == 2 * resolveRateLimit(cfg.rate)

ServerInit ==
    /\ Init
    /\ cfg \in [secret: Credential \union {Absent}, rate: Rates]
    /\ tokens = 0
    /\ front = [h \in Handler |-> Free]
    /\ copy = NoCopy
    /\ spent = 0

\* main: a configuration that is refused ends the process before the store is
\* opened. The bucket of a new process is full.
main ==
    /\ validateConfig(cfg)
    /\ load
    /\ tokens' = Burst
    /\ spent' = 0
    /\ UNCHANGED <<cfg, front, copy>>

ServerCrash ==
    /\ Crash
    /\ front' = [h \in Handler |-> Free]
    /\ UNCHANGED <<cfg, tokens, copy, spent>>

-----------------------------------------------------------------------------
(***************************************************************************)
(* The chain.                                                              *)
(***************************************************************************)
\* Both sides are hashed: equal digests are equal strings.
auth(r) == r.cred = cfg.secret

Enter(h, r) == front' = [front EXCEPT ![h] = r]

Refusal(status) ==
    [at |-> "refused", cred |-> Absent, op |-> "none", body |-> "whole",
     etag |-> Null, status |-> status]

Refuse(h, status) == Enter(h, Refusal(status))

SpendOne == spent' = IF spent < Burst THEN spent + 1 ELSE spent

\* Mutant: the limiter comes first.
LimitThenAuth(h, r) ==
    \/ /\ tokens = 0
       /\ Refuse(h, 429)
       /\ IF auth(r) THEN SpendOne ELSE UNCHANGED spent
       /\ UNCHANGED tokens
    \/ /\ tokens > 0
       /\ tokens' = tokens - 1
       /\ IF auth(r) THEN Enter(h, r) /\ SpendOne ELSE Refuse(h, 403) /\ UNCHANGED spent

\* Mutant: what Allow says is not looked at.
AuthAlone(h, r) ==
    \/ /\ ~auth(r)
       /\ Refuse(h, 403)
       /\ UNCHANGED <<tokens, spent>>
    \/ /\ auth(r)
       /\ tokens' = tokens - 1
       /\ SpendOne
       /\ Enter(h, r)

\* auth, then rateLimit. A request without the secret never meets the bucket.
AuthThenLimit(h, r) ==
    \/ /\ ~auth(r)
       /\ Refuse(h, 403)
       /\ UNCHANGED <<tokens, spent>>
    \/ /\ auth(r)
       /\ tokens = 0
       /\ Refuse(h, 429)
       /\ SpendOne
       /\ UNCHANGED tokens
    \/ /\ auth(r)
       /\ tokens > 0
       /\ tokens' = tokens - 1
       /\ SpendOne
       /\ Enter(h, r)

Arrive(h) ==
    /\ Ready(h)
    /\ front[h] = Free
    /\ \E r \in Request({Null, copy.sv}) : AuthThenLimit(h, r)
    /\ UNCHANGED <<vars, cfg, copy>>

\* The limiter lets a token in as time passes.
Refill ==
    /\ up
    /\ tokens < Burst
    /\ tokens' = tokens + 1
    /\ spent' = IF tokens + 1 = Burst THEN 0 ELSE spent
    /\ UNCHANGED <<vars, cfg, front, copy>>

Serving(h, op) == front[h].at = "in" /\ front[h].op = op

\* The mux knows no such path. The request has spent its token.
NotFound(h) ==
    /\ Ready(h)
    /\ Serving(h, "none")
    /\ Refuse(h, 404)
    /\ UNCHANGED <<vars, cfg, tokens, copy, spent>>

\* The body is read to its limit or its end, and is no JSON.
decodeErr(h) ==
    /\ Ready(h)
    /\ front[h].at = "in"
    /\ \/ front[h].body = "big" /\ Refuse(h, 413)
       \/ front[h].body = "broken" /\ Refuse(h, 400)
    /\ UNCHANGED <<vars, cfg, tokens, copy, spent>>

\* 304 to a client that names the version served, or else the tasks, which the
\* client may keep for the next time.
handleGet(h) ==
    /\ Serving(h, "get")
    /\ Snapshot(h)
    /\ \/ /\ front[h].etag = mem.sv
          /\ Enter(h, [front[h] EXCEPT !.status = 304])
          /\ UNCHANGED copy
       \/ /\ front[h].etag # mem.sv
          /\ Enter(h, [front[h] EXCEPT !.status = 200])
          /\ copy' \in {copy, [sv |-> mem.sv, tasks |-> mem.tasks]}
    /\ UNCHANGED <<cfg, tokens, spent>>

handleAdd(h) == Serving(h, "add") /\ front[h].body = "whole" /\ Add(h)

handleUpdate(h) == Serving(h, "update") /\ front[h].body = "whole" /\ Update(h)

handleDelete(h) == Serving(h, "delete") /\ front[h].body = "whole" /\ Delete(h)

\* The rest of a mutation, once it has the lock.
Proceed(h) == SaveFails(h) \/ saveState(h) \/ Commit(h)

\* writeJSON: the answer of the store, or of the chain, leaves.
writeJSON(h) ==
    /\ \/ Respond(h)
       \/ front[h].at = "refused" /\ UNCHANGED vars
    /\ Enter(h, Free)
    /\ UNCHANGED <<cfg, tokens, copy, spent>>

ServerNext ==
    \/ main \/ ServerCrash \/ Refill
    \/ \E h \in Handler :
        \/ Arrive(h) \/ NotFound(h) \/ decodeErr(h) \/ handleGet(h) \/ writeJSON(h)
        \/ /\ handleAdd(h) \/ handleUpdate(h) \/ handleDelete(h) \/ Proceed(h)
           /\ UNCHANGED chain

\* A handler that has begun to save runs on: its goroutine is scheduled, and
\* each of its file operations returns.
ServerFairness ==
    \A h \in Handler : WF_serverVars((Proceed(h) /\ UNCHANGED chain) \/ writeJSON(h))

ServerSpec == ServerInit /\ [][ServerNext]_serverVars /\ ServerFairness

-----------------------------------------------------------------------------
(***************************************************************************)
(* Properties.                                                             *)
(***************************************************************************)
ServerTypeOK ==
    /\ cfg \in [secret: Credential \union {Absent}, rate: Rates]
    /\ tokens \in Nat
    /\ \A h \in Handler :
        /\ front[h].at \in {"free", "in", "refused"}
        /\ front[h].status \in {0, 200, 304, 400, 403, 404, 413, 429}
    /\ copy = NoCopy \/ (copy.sv \in Nat /\ IsTaskMap(copy.tasks))
    /\ spent \in Nat

\* The comment in validateConfig: a server that runs lets in nobody who sends
\* no secret, and whatever the store is asked to do comes from one who knows it.
OnlyTheOwner ==
    \A h \in Handler :
        front[h].at = "in" \/ pc[h] # "idle" =>
            front[h].at = "in" /\ front[h].cred = cfg.secret /\ front[h].cred # Absent

\* The comment on Handler: unauthenticated traffic cannot exhaust the bucket and
\* lock the real user out. Who is told 429 has sent a whole bucket of requests
\* since it was last full, whatever strangers sent.
LockedOutByOwnTraffic ==
    [][\A h \in Handler :
        front'[h].status = 429 /\ front[h].status # 429 => spent' >= Burst]_serverVars

\* A 304 is true: what a client has kept under the ETag now served is what is
\* served, through failed saves, crashes and restarts.
EtagNamesOneState == up /\ copy.sv = mem.sv => copy.tasks = mem.tasks
=============================================================================
