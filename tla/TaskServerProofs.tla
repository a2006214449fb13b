--------------------------- MODULE TaskServerProofs ---------------------------
(***************************************************************************)
(* Proofs about TaskServer, for any credentials, rates and store. The      *)
(* chain of middleware adds nothing to what the store does: every step of  *)
(* the server is a step of TaskStore or leaves its variables alone, so     *)
(* every theorem of TaskStoreProofs holds of the server. What the chain    *)
(* promises of its own rests on three small invariants: where a request    *)
(* in the chain comes from, what the bucket and the requests since it was  *)
(* full add up to, and what a kept answer may name.                        *)
(***************************************************************************)
EXTENDS TaskServer, TaskStoreProofs

-----------------------------------------------------------------------------
(***************************************************************************)
(* The server is the store behind a chain.                                 *)
(***************************************************************************)
LEMMA InitStore == ServerInit => Init
  BY DEF ServerInit

LEMMA StepStore == [ServerNext]_serverVars => [Next]_vars
<1> SUFFICES ASSUME [ServerNext]_serverVars
             PROVE  Next \/ UNCHANGED vars
  OBVIOUS
<1>1. CASE main
  BY <1>1 DEF main, Next
<1>2. CASE ServerCrash
  BY <1>2 DEF ServerCrash, Next
<1>3. CASE Refill
  BY <1>3 DEF Refill
<1>4. ASSUME NEW h \in Handler, Arrive(h) \/ NotFound(h) \/ decodeErr(h)
      PROVE  UNCHANGED vars
  BY <1>4 DEF Arrive, NotFound, decodeErr
<1>5. ASSUME NEW h \in Handler, handleGet(h)
      PROVE  Next
  BY <1>5 DEF handleGet, Next
<1>6. ASSUME NEW h \in Handler, writeJSON(h)
      PROVE  Next \/ UNCHANGED vars
  BY <1>6 DEF writeJSON, Next
<1>7. ASSUME NEW h \in Handler, handleAdd(h) \/ handleUpdate(h) \/ handleDelete(h) \/ Proceed(h)
      PROVE  Next
  BY <1>7 DEF handleAdd, handleUpdate, handleDelete, Proceed, Next
<1>8. CASE UNCHANGED serverVars
  BY <1>8 DEF serverVars
<1>9. QED
  BY <1>1, <1>2, <1>3, <1>4, <1>5, <1>6, <1>7, <1>8 DEF ServerNext

\* Whatever the chain refuses, delays or lets in, the store behind it behaves as
\* TaskStore: every theorem about Spec is one about the server.
THEOREM ServerIsStore == ServerSpec => Spec
<1>1. ServerInit => Init
  BY InitStore
<1>2. [ServerNext]_serverVars => [Next]_vars
  BY StepStore
<1>3. QED  BY <1>1, <1>2, PTL DEF ServerSpec, Spec

-----------------------------------------------------------------------------
(***************************************************************************)
(* Who is let in.                                                          *)
(***************************************************************************)
\* A server that runs has a secret; what is in the chain presented it, and the
\* store works only for what is in the chain.
EntryInv ==
    /\ DOMAIN front = Handler
    /\ up => cfg.secret # Absent
    /\ \A h \in Handler :
        /\ front[h].at = "in" => up /\ front[h].cred = cfg.secret
        /\ pc[h] # "idle" => front[h].at = "in"

LEMMA EntryInit == ServerInit => EntryInv
  BY DEF ServerInit, Init, EntryInv, Free

\* A handler's step in the store moves no other handler, and no process.
LEMMA StoreFrame ==
    ASSUME pc \in [Handler -> {"idle", "saving", "renamed", "replying"}],
           NEW h \in Handler,
           \/ Add(h) \/ Update(h) \/ Delete(h) \/ Snapshot(h)
           \/ SaveFails(h) \/ saveState(h) \/ Commit(h) \/ Respond(h)
    PROVE  /\ up' = up
           /\ \A g \in Handler \ {h} : pc'[g] = pc[g]
<1> DEFINE Framed == up' = up /\ \A g \in Handler \ {h} : pc'[g] = pc[g]
<1>1. \A op, code, v, ids : Answer(h, op, code, v, ids) => Framed
  BY DEF Answer
<1>2. \A op, ids, forest : Propose(h, op, ids, forest) => Framed
  BY <1>1 DEF Propose
<1>3. CASE SaveFails(h) \/ saveState(h) \/ Commit(h) \/ Respond(h)
  BY <1>3 DEF SaveFails, saveState, Commit, Respond
<1> HIDE DEF Framed
<1>4. Add(h) => Framed
  BY <1>1, <1>2 DEF Add
<1>5. Update(h) => Framed
  BY <1>1, <1>2 DEF Update
<1>6. Delete(h) => Framed
  BY <1>1, <1>2 DEF Delete
<1>7. Snapshot(h) => Framed
  BY <1>1 DEF Snapshot
<1>8. QED  BY <1>3, <1>4, <1>5, <1>6, <1>7 DEF Framed

\* The chain lets in one request at a time, with the secret.
LEMMA ArriveEntry ==
    ASSUME EntryInv, NEW h \in Handler, Arrive(h)
    PROVE  EntryInv'
<1>1. PICK r \in Request({Null, copy.sv}) : AuthThenLimit(h, r)
  BY DEF Arrive
<1>2. up /\ pc[h] = "idle" /\ UNCHANGED <<vars, cfg>>
  BY DEF Arrive, Ready
<1>3. UNCHANGED <<up, pc>>
  BY <1>2 DEF vars
<1>4. PICK entry : /\ front' = [front EXCEPT ![h] = entry]
                   /\ entry.at = "in" => entry.cred = cfg.secret
  <2>1. ASSUME NEW status, Refuse(h, status)
        PROVE  /\ front' = [front EXCEPT ![h] = Refusal(status)]
               /\ Refusal(status).at # "in"
    BY <2>1 DEF Refuse, Enter, Refusal
  <2>2. CASE auth(r) /\ Enter(h, r)
    BY <2>2 DEF auth, Enter
  <2>3. QED  BY <1>1, <2>1, <2>2 DEF AuthThenLimit
<1>5. QED  BY <1>2, <1>3, <1>4 DEF EntryInv

LEMMA EntryStep == IInv /\ EntryInv /\ [ServerNext]_serverVars => EntryInv'
<1> SUFFICES ASSUME IInv, EntryInv, [ServerNext]_serverVars
             PROVE  EntryInv'
  OBVIOUS
<1>0. pc \in [Handler -> {"idle", "saving", "renamed", "replying"}]
  BY DEF IInv, TypeOK
<1>1. CASE main
  BY <1>1 DEF main, validateConfig, load, Serve, EntryInv
<1>2. CASE ServerCrash
  BY <1>2 DEF ServerCrash, Crash, Free, EntryInv
<1>3. CASE Refill
  BY <1>3 DEF Refill, vars, EntryInv
<1>4. ASSUME NEW h \in Handler, Arrive(h)
      PROVE  EntryInv'
  BY <1>4, ArriveEntry
<1>5. ASSUME NEW h \in Handler, NotFound(h) \/ decodeErr(h)
      PROVE  EntryInv'
  <2>1. pc[h] = "idle" /\ UNCHANGED <<up, pc, cfg>>
    BY <1>5 DEF NotFound, decodeErr, Ready, vars
  <2>2. PICK status : front' = [front EXCEPT ![h] = Refusal(status)]
    BY <1>5 DEF NotFound, decodeErr, Refuse, Enter
  <2>3. QED  BY <2>1, <2>2 DEF EntryInv, Refusal
<1>6. ASSUME NEW h \in Handler, handleGet(h)
      PROVE  EntryInv'
  <2>1. up' = up /\ cfg' = cfg /\ \A g \in Handler \ {h} : pc'[g] = pc[g]
    BY <1>0, <1>6, StoreFrame DEF handleGet
  <2>2. PICK status : front' = [front EXCEPT ![h] = [front[h] EXCEPT !.status = status]]
    BY <1>6 DEF handleGet, Enter
  <2>3. front[h].at = "in"
    BY <1>6 DEF handleGet, Serving
  <2>4. front'[h].at = front[h].at /\ front'[h].cred = front[h].cred
    BY <2>2 DEF EntryInv
  <2>5. QED  BY <2>1, <2>2, <2>3, <2>4 DEF EntryInv
<1>7. ASSUME NEW h \in Handler, writeJSON(h)
      PROVE  EntryInv'
  <2>1. /\ up' = up /\ cfg' = cfg /\ \A g \in Handler \ {h} : pc'[g] = pc[g]
        /\ pc'[h] = "idle"
    <3>1. CASE Respond(h)
      BY <1>0, <1>7, <3>1, StoreFrame DEF writeJSON, Respond
    <3>2. CASE front[h].at = "refused" /\ UNCHANGED vars
      BY <1>0, <1>7, <3>2 DEF writeJSON, vars, EntryInv
    <3>3. QED  BY <1>7, <3>1, <3>2 DEF writeJSON
  <2>2. front' = [front EXCEPT ![h] = Free]
    BY <1>7 DEF writeJSON, Enter
  <2>3. QED  BY <2>1, <2>2 DEF EntryInv, Free
<1>8. ASSUME NEW h \in Handler,
             handleAdd(h) \/ handleUpdate(h) \/ handleDelete(h) \/ Proceed(h),
             UNCHANGED chain
      PROVE  EntryInv'
  <2>1. up' = up /\ \A g \in Handler \ {h} : pc'[g] = pc[g]
    BY <1>0, <1>8, StoreFrame DEF handleAdd, handleUpdate, handleDelete, Proceed
  <2>2. front[h].at = "in"
    BY <1>8 DEF handleAdd, handleUpdate, handleDelete, Serving, Proceed, SaveFails, saveState,
               Commit, EntryInv
  <2>3. QED  BY <1>8, <2>1, <2>2 DEF chain, EntryInv
<1>9. CASE UNCHANGED serverVars
  BY <1>9 DEF serverVars, vars, chain, EntryInv
<1>10. QED
  BY <1>1, <1>2, <1>3, <1>4, <1>5, <1>6, <1>7, <1>8, <1>9 DEF ServerNext

\* Nobody without the secret reaches the store, and no server runs whose secret
\* is the one of a request that sends none.
THEOREM OnlyTheOwnerEnters == ServerSpec => []OnlyTheOwner
<1>1. ServerInit => EntryInv
  BY EntryInit
<1>2. IInv /\ EntryInv /\ [ServerNext]_serverVars => EntryInv'
  BY EntryStep
<1>3. EntryInv => OnlyTheOwner
  BY DEF EntryInv, OnlyTheOwner
<1>4. QED  BY <1>1, <1>2, <1>3, ServerIsStore, Inductive, PTL DEF ServerSpec

-----------------------------------------------------------------------------
(***************************************************************************)
(* The bucket.                                                             *)
(***************************************************************************)
\* A token missing from the bucket is one an authentic request has spent.
BucketInv ==
    /\ cfg.rate \in Int /\ tokens \in Nat /\ spent \in Nat
    /\ up => cfg.rate >= 0 /\ tokens + spent >= Burst

LEMMA BucketInit == ServerInit => BucketInv
<1> SUFFICES ASSUME ServerInit
             PROVE  BucketInv
  OBVIOUS
<1>1. cfg.rate \in Rates /\ tokens = 0 /\ spent = 0
  BY DEF ServerInit
<1>2. up = FALSE
  BY DEF ServerInit, Init
<1>3. QED  BY <1>1, <1>2, ServerAssumption DEF BucketInv

LEMMA BurstIsNat == ASSUME cfg.rate \in Int, cfg.rate >= 0  PROVE Burst \in Nat \ {0}
  BY ServerAssumption DEF Burst, resolveRateLimit

\* The limiter's own step, for a request that is let in or refused.
LEMMA ArriveBucket ==
    ASSUME BucketInv, NEW h \in Handler, Arrive(h)
    PROVE  BucketInv'
<1>1. PICK r \in Request({Null, copy.sv}) : AuthThenLimit(h, r)
  BY DEF Arrive
<1>2. up /\ up' = up /\ cfg' = cfg
  BY DEF Arrive, Ready, vars
<1>3. Burst \in Nat /\ Burst' = Burst
  BY <1>2, BurstIsNat DEF BucketInv, Burst
<1>4. \/ UNCHANGED <<tokens, spent>>
      \/ tokens' = tokens /\ SpendOne
      \/ tokens > 0 /\ tokens' = tokens - 1 /\ SpendOne
  BY <1>1 DEF AuthThenLimit
<1> HIDE DEF Burst
<1>5. QED  BY <1>2, <1>3, <1>4 DEF BucketInv, SpendOne

LEMMA BucketStep == IInv /\ BucketInv /\ [ServerNext]_serverVars => BucketInv'
<1> SUFFICES ASSUME IInv, BucketInv, [ServerNext]_serverVars
             PROVE  BucketInv'
  OBVIOUS
<1>1. CASE main
  <2>1. cfg.rate >= 0 /\ cfg' = cfg /\ tokens' = Burst /\ spent' = 0
    BY <1>1 DEF main, validateConfig
  <2>2. Burst \in Nat /\ Burst' = Burst
    BY <2>1, BurstIsNat DEF BucketInv, Burst
  <2> HIDE DEF Burst
  <2>3. QED  BY <2>1, <2>2 DEF BucketInv
<1>2. CASE ServerCrash
  BY <1>2 DEF ServerCrash, Crash, BucketInv
<1>3. CASE Refill
  <2>1. /\ up /\ up' = up /\ cfg' = cfg /\ tokens < Burst /\ tokens' = tokens + 1
        /\ spent' = IF tokens + 1 = Burst THEN 0 ELSE spent
    BY <1>3 DEF Refill, vars
  <2>2. Burst \in Nat /\ Burst' = Burst
    BY <2>1, BurstIsNat DEF BucketInv, Burst
  <2> HIDE DEF Burst
  <2>3. QED  BY <2>1, <2>2 DEF BucketInv
<1>4. ASSUME NEW h \in Handler, Arrive(h)
      PROVE  BucketInv'
  BY <1>4, ArriveBucket
<1>5. ASSUME up' = up, UNCHANGED <<cfg, tokens, spent>>
      PROVE  BucketInv'
  BY <1>5 DEF BucketInv, Burst
<1>6. ASSUME NEW h \in Handler, NotFound(h) \/ decodeErr(h)
      PROVE  BucketInv'
  BY <1>5, <1>6 DEF NotFound, decodeErr, vars
<1>7. pc \in [Handler -> {"idle", "saving", "renamed", "replying"}]
  BY DEF IInv, TypeOK
<1>8. ASSUME NEW h \in Handler, handleGet(h)
      PROVE  BucketInv'
  BY <1>5, <1>7, <1>8, StoreFrame DEF handleGet
<1>9. ASSUME NEW h \in Handler, writeJSON(h)
      PROVE  BucketInv'
  <2>1. up' = up
    BY <1>7, <1>9, StoreFrame DEF writeJSON, vars
  <2>2. QED  BY <1>5, <1>9, <2>1 DEF writeJSON
<1>10. ASSUME NEW h \in Handler,
              handleAdd(h) \/ handleUpdate(h) \/ handleDelete(h) \/ Proceed(h),
              UNCHANGED chain
       PROVE  BucketInv'
  <2>1. up' = up
    BY <1>7, <1>10, StoreFrame DEF handleAdd, handleUpdate, handleDelete, Proceed
  <2>2. QED  BY <1>5, <1>10, <2>1 DEF chain
<1>11. CASE UNCHANGED serverVars
  BY <1>5, <1>11 DEF serverVars, vars, chain
<1>12. QED
  BY <1>1, <1>2, <1>3, <1>4, <1>6, <1>8, <1>9, <1>10, <1>11 DEF ServerNext

\* The formula inside LockedOutByOwnTraffic.
LockedOutStep ==
    \A h \in Handler :
        front'[h].status = 429 /\ front[h].status # 429 => spent' >= Burst

\* Only the limiter answers 429, to an authentic request, with its bucket empty.
LEMMA LockedOutAction ==
    EntryInv /\ BucketInv /\ [ServerNext]_serverVars => [LockedOutStep]_serverVars
<1> SUFFICES ASSUME EntryInv, BucketInv, ServerNext,
                    NEW g \in Handler, front'[g].status = 429, front[g].status # 429
             PROVE  spent' >= Burst
  BY DEF LockedOutStep
<1>1. ASSUME NEW h \in Handler, NEW entry, front' = [front EXCEPT ![h] = entry]
      PROVE  entry.status = 429 /\ g = h
  BY <1>1 DEF EntryInv
<1>2. ASSUME front' = front  PROVE FALSE
  BY <1>2
<1>3. ~main /\ ~Refill
  BY <1>2 DEF main, Refill
<1>4. ~ServerCrash
  BY DEF ServerCrash, Free
<1>5. ASSUME NEW h \in Handler, NotFound(h) \/ decodeErr(h)  PROVE FALSE
  <2>1. PICK status \in {400, 404, 413} : front' = [front EXCEPT ![h] = Refusal(status)]
    BY <1>5 DEF NotFound, decodeErr, Refuse, Enter
  <2>2. QED  BY <1>1, <2>1 DEF Refusal
<1>6. ASSUME NEW h \in Handler, handleGet(h)  PROVE FALSE
  <2>1. PICK status \in {200, 304} :
            front' = [front EXCEPT ![h] = [front[h] EXCEPT !.status = status]]
    BY <1>6 DEF handleGet, Enter
  <2>2. [front[h] EXCEPT !.status = status].status = 429 /\ g = h
    BY <1>1, <2>1
  <2>3. CASE "status" \in DOMAIN front[h]
    BY <2>2, <2>3
  <2>4. CASE "status" \notin DOMAIN front[h]
    BY <2>2, <2>4
  <2>5. QED  BY <2>3, <2>4
<1>7. ASSUME NEW h \in Handler, writeJSON(h)  PROVE FALSE
  BY <1>1, <1>7 DEF writeJSON, Enter, Free
<1>8. ASSUME NEW h \in Handler, Arrive(h)
      PROVE  spent' >= Burst
  <2>1. PICK r \in Request({Null, copy.sv}) : AuthThenLimit(h, r)
    BY <1>8 DEF Arrive
  <2>2. up
    BY <1>8 DEF Arrive, Ready
  <2>3. Burst \in Nat
    BY <2>2, BurstIsNat DEF BucketInv
  <2>4. CASE Refuse(h, 403)
    BY <1>1, <2>4 DEF Refuse, Enter, Refusal
  <2>5. CASE Enter(h, r)
    <3>1. r.status = 0
      BY DEF Request
    <3>2. QED  BY <1>1, <2>5, <3>1 DEF Enter
  <2>6. CASE tokens = 0 /\ SpendOne
    <3> HIDE DEF Burst
    <3>1. QED  BY <2>2, <2>3, <2>6 DEF BucketInv, SpendOne
  <2>7. QED  BY <2>1, <2>4, <2>5, <2>6 DEF AuthThenLimit
<1>9. ASSUME UNCHANGED chain  PROVE FALSE
  BY <1>2, <1>9 DEF chain
<1>10. QED
  BY <1>3, <1>4, <1>5, <1>6, <1>7, <1>8, <1>9 DEF ServerNext

\* Strangers cannot lock the owner out: who is told 429 has spent a bucket.
THEOREM OnlyOwnTrafficLocksOut == ServerSpec => LockedOutByOwnTraffic
<1>1. ServerInit => EntryInv /\ BucketInv
  BY EntryInit, BucketInit
<1>2. IInv /\ EntryInv /\ BucketInv /\ [ServerNext]_serverVars => (EntryInv /\ BucketInv)'
  BY EntryStep, BucketStep
<1>3. EntryInv /\ BucketInv /\ [ServerNext]_serverVars => [LockedOutStep]_serverVars
  BY LockedOutAction
<1>4. ServerSpec => [][LockedOutStep]_serverVars
  BY <1>1, <1>2, <1>3, ServerIsStore, Inductive, PTL DEF ServerSpec
<1>5. QED  BY <1>4 DEF LockedOutByOwnTraffic, LockedOutStep

-----------------------------------------------------------------------------
(***************************************************************************)
(* The ETag.                                                               *)
(***************************************************************************)
\* A kept answer names a state that is, or was, on disk, and no state after it
\* has its version; memory has that version only when it is that state.
CopyInv ==
    copy # NoCopy =>
        /\ copy.sv \in Nat
        /\ copy.sv <= disk.sv
        /\ copy.sv = disk.sv => copy.tasks = disk.tasks
        /\ up /\ copy.sv = mem.sv => copy.tasks = mem.tasks

LEMMA CopyInit == ServerInit => CopyInv
  BY DEF ServerInit, CopyInv

\* File and memory carry version numbers.
LEMMA Numbers == IInv => disk.sv \in Nat /\ mem.sv \in Nat
  BY DEF IInv, TypeOK, IsState

\* What a step of the store does to a copy nobody replaces: the version of a
\* saved state is above every version a client has been shown.
LEMMA StoreKeepsCopy ==
    ASSUME IInv, CopyInv, copy' = copy, [Next]_vars
    PROVE  CopyInv'
<1> USE DEF CopyInv
<1>0. disk.sv \in Nat /\ mem.sv \in Nat
  BY Numbers
<1>1. CASE load
  <2>1. CASE disk' = EmptyState /\ mem' = EmptyState /\ ~exists
    BY <1>0, <2>1 DEF IInv, FileOK
  <2>2. CASE disk' = disk /\ mem' = Adopt(disk)
    BY <1>0, <2>2 DEF Adopt
  <2>3. QED  BY <1>1, <2>1, <2>2 DEF load, Serve
<1>2. CASE Crash
  BY <1>2 DEF Crash
<1>3. ASSUME UNCHANGED <<disk, mem, up>>
      PROVE  CopyInv'
  BY <1>3
<1>4. ASSUME NEW h \in Handler, Add(h) \/ Update(h) \/ Delete(h) \/ Snapshot(h)
      PROVE  CopyInv'
  <2> DEFINE Framed == UNCHANGED <<disk, mem, up>>
  <2>1. \A op, code, v, ids : Answer(h, op, code, v, ids) => Framed
    BY DEF Answer
  <2>2. \A op, ids, forest : Propose(h, op, ids, forest) => Framed
    BY <2>1 DEF Propose
  <2> HIDE DEF Framed
  <2>3. Add(h) => Framed
    BY <2>1, <2>2 DEF Add
  <2>4. Update(h) => Framed
    BY <2>1, <2>2 DEF Update
  <2>5. Delete(h) => Framed
    BY <2>1, <2>2 DEF Delete
  <2>6. Snapshot(h) => Framed
    BY <2>1 DEF Snapshot
  <2>7. QED  BY <1>3, <1>4, <2>3, <2>4, <2>5, <2>6 DEF Framed
<1>5. ASSUME NEW h \in Handler, SaveFails(h) \/ Respond(h)
      PROVE  CopyInv'
  BY <1>3, <1>5 DEF SaveFails, Respond
<1>6. ASSUME NEW h \in Handler, saveState(h)
      PROVE  CopyInv'
  <2>1. disk' = cand /\ mem' = mem /\ up' = up /\ pc[h] = "saving"
    BY <1>6 DEF saveState
  <2>2. /\ cand.sv = mem.sv + 1 /\ up
        /\ ~ \E g \in Handler : pc[g] = "renamed"
    BY <2>1, Saver
  <2>3. mem.sv = disk.sv
    BY <2>2 DEF IInv, NoDivergence, Adopt
  <2>4. QED  BY <1>0, <2>1, <2>2, <2>3
<1>7. ASSUME NEW h \in Handler, Commit(h)
      PROVE  CopyInv'
  <2>1. mem' = cand /\ UNCHANGED <<disk, up>> /\ pc[h] = "renamed"
    BY <1>7 DEF Commit
  <2>2. disk = cand
    BY <2>1, Saver DEF IInv, NoDivergence
  <2>3. QED  BY <2>1, <2>2
<1>8. CASE UNCHANGED vars
  BY <1>3, <1>8 DEF vars
<1>9. QED
  BY <1>1, <1>2, <1>4, <1>5, <1>6, <1>7, <1>8 DEF Next

LEMMA CopyStep == IInv /\ CopyInv /\ [ServerNext]_serverVars => CopyInv'
<1> SUFFICES ASSUME IInv, CopyInv, [ServerNext]_serverVars
             PROVE  CopyInv'
  OBVIOUS
<1>1. CASE copy' = copy
  BY <1>1, StepStore, StoreKeepsCopy
<1>2. ASSUME NEW h \in Handler, handleGet(h)
      PROVE  CopyInv'
  <2>1. lock = Null /\ up /\ UNCHANGED <<disk, mem, up>>
    BY <1>2 DEF handleGet, Snapshot, Ready, Answer
  <2>2. mem.sv = disk.sv /\ mem.tasks = disk.tasks /\ disk.sv \in Nat
    BY <2>1, QuietMemory, Numbers
  <2>3. CASE copy' = [sv |-> mem.sv, tasks |-> mem.tasks]
    BY <2>1, <2>2, <2>3 DEF CopyInv
  <2>4. QED  BY <1>1, <1>2, <2>3 DEF handleGet
<1>3. QED
  BY <1>1, <1>2 DEF ServerNext, main, ServerCrash, Refill, Arrive, NotFound, decodeErr, writeJSON, chain,
     serverVars

\* An ETag is true for ever: what a client keeps under it is what the server
\* would send, after any crashes and failed saves.
THEOREM EtagsAreTrue == ServerSpec => []EtagNamesOneState
<1>1. ServerInit => CopyInv
  BY CopyInit
<1>2. IInv /\ CopyInv /\ [ServerNext]_serverVars => CopyInv'
  BY CopyStep
<1>3. IInv /\ CopyInv => EtagNamesOneState
  BY Numbers, ValueAssumption DEF CopyInv, EtagNamesOneState, NoCopy
<1>4. QED  BY <1>1, <1>2, <1>3, ServerIsStore, Inductive, PTL DEF ServerSpec

-----------------------------------------------------------------------------
(***************************************************************************)
(* Types.                                                                  *)
(***************************************************************************)
\* What a handler may be doing in the chain.
Entry ==
    [at: {"free", "in", "refused"}, cred: Credential \union {Absent},
     op: {"none", "get", "add", "update", "delete"}, body: Bodies,
     etag: Nat \union {Null}, status: {0, 200, 304, 400, 403, 404, 413, 429}]

IsCopy(c) == c = NoCopy \/ (c.sv \in Nat /\ IsTaskMap(c.tasks))

ChainInv ==
    /\ cfg \in [secret: Credential \union {Absent}, rate: Rates]
    /\ front \in [Handler -> Entry]
    /\ IsCopy(copy)

LEMMA FreeIsEntry == Free \in Entry
  BY DEF Free, Entry, Bodies

LEMMA RefusalIsEntry ==
    ASSUME NEW status \in {400, 403, 404, 413, 429}
    PROVE  Refusal(status) \in Entry
  BY DEF Refusal, Entry, Bodies

LEMMA RequestIsEntry ==
    ASSUME ChainInv, NEW r \in Request({Null, copy.sv})
    PROVE  r \in Entry
<1>1. copy.sv \in Nat \union {Null}
  BY DEF ChainInv, IsCopy, NoCopy
<1>2. QED  BY <1>1 DEF Request, Entry, Bodies

LEMMA ChainInit == ServerInit => ChainInv
  BY FreeIsEntry DEF ServerInit, ChainInv, IsCopy

LEMMA ChainStep == IInv /\ ChainInv /\ [ServerNext]_serverVars => ChainInv'
<1> SUFFICES ASSUME IInv, ChainInv, [ServerNext]_serverVars
             PROVE  ChainInv'
  OBVIOUS
<1>1. ASSUME NEW h \in Handler, NEW e \in Entry, front' = [front EXCEPT ![h] = e],
             UNCHANGED cfg, IsCopy(copy')
      PROVE  ChainInv'
  BY <1>1 DEF ChainInv
<1>2. CASE main
  BY <1>2 DEF main, ChainInv
<1>3. CASE ServerCrash
  BY <1>3, FreeIsEntry DEF ServerCrash, ChainInv
<1>4. CASE Refill
  BY <1>4 DEF Refill, ChainInv
<1>5. IsCopy(copy)
  BY DEF ChainInv
<1>6. ASSUME NEW h \in Handler, Arrive(h)
      PROVE  ChainInv'
  <2>1. PICK r \in Request({Null, copy.sv}) : AuthThenLimit(h, r)
    BY <1>6 DEF Arrive
  <2>2. r \in Entry
    BY RequestIsEntry
  <2>3. UNCHANGED <<cfg, copy>>
    BY <1>6 DEF Arrive
  <2>4. \E e \in Entry : front' = [front EXCEPT ![h] = e]
    BY <2>1, <2>2, RefusalIsEntry DEF AuthThenLimit, Refuse, Enter
  <2>5. QED  BY <1>1, <1>5, <2>3, <2>4
<1>7. ASSUME NEW h \in Handler, NotFound(h) \/ decodeErr(h)
      PROVE  ChainInv'
  <2>1. \E e \in Entry : front' = [front EXCEPT ![h] = e]
    BY <1>7, RefusalIsEntry DEF NotFound, decodeErr, Refuse, Enter
  <2>2. QED  BY <1>1, <1>5, <1>7, <2>1 DEF NotFound, decodeErr
<1>8. ASSUME NEW h \in Handler, handleGet(h)
      PROVE  ChainInv'
  <2>1. \E e \in Entry : front' = [front EXCEPT ![h] = e]
    <3>1. front[h] \in Entry
      BY DEF ChainInv
    <3>2. \A status \in {200, 304} : [front[h] EXCEPT !.status = status] \in Entry
      BY <3>1 DEF Entry
    <3>3. QED  BY <1>8, <3>2 DEF handleGet, Enter
  <2>2. mem.sv \in Nat /\ IsTaskMap(mem.tasks)
    BY DEF IInv, TypeOK, IsState
  <2>3. IsCopy(copy')
    <3>1. IsCopy([sv |-> mem.sv, tasks |-> mem.tasks])
      BY <2>2 DEF IsCopy
    <3>2. QED  BY <1>5, <1>8, <3>1 DEF handleGet
  <2>4. QED  BY <1>1, <1>8, <2>1, <2>3 DEF handleGet
<1>9. ASSUME NEW h \in Handler, writeJSON(h)
      PROVE  ChainInv'
  BY <1>1, <1>5, <1>9, FreeIsEntry DEF writeJSON, Enter
<1>10. CASE UNCHANGED chain
  BY <1>10 DEF chain, ChainInv
<1>11. QED
  BY <1>2, <1>3, <1>4, <1>6, <1>7, <1>8, <1>9, <1>10 DEF ServerNext, serverVars

\* The chain holds what it should: a configuration that was read, a bucket that
\* is never overdrawn, and entries and a kept answer of the kinds the handlers
\* make.
THEOREM ServerTypes == ServerSpec => []ServerTypeOK
<1>1. ServerInit => ChainInv /\ BucketInv
  BY ChainInit, BucketInit
<1>2. IInv /\ ChainInv /\ BucketInv /\ [ServerNext]_serverVars => (ChainInv /\ BucketInv)'
  BY ChainStep, BucketStep
<1>3. ChainInv /\ BucketInv => ServerTypeOK
  <2> SUFFICES ASSUME ChainInv, BucketInv
               PROVE  ServerTypeOK
    OBVIOUS
  <2>1. ASSUME NEW h \in Handler
        PROVE  /\ front[h].at \in {"free", "in", "refused"}
               /\ front[h].status \in {0, 200, 304, 400, 403, 404, 413, 429}
    BY DEF ChainInv, Entry
  <2>2. QED  BY <2>1 DEF ChainInv, IsCopy, BucketInv, ServerTypeOK
<1>4. QED  BY <1>1, <1>2, <1>3, ServerIsStore, Inductive, PTL DEF ServerSpec
=============================================================================
