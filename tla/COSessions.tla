------------------------------ MODULE COSessions ------------------------------
(***************************************************************************)
(* Sessions that read and write several keys of a cache server and of the  *)
(* database under C and O leases.                                          *)
(*                                                                         *)
(* A session works through the keys of its plan, has the server validate   *)
(* it, commits to the database and then to the cache with dcommit.  When   *)
(* MemcachedClient throws COException the application starts over with the *)
(* same session id, or gives up.  The database and the application are not *)
(* in the repository; the order of calls is that of the client's tests.    *)
(***************************************************************************)
EXTENDS Naturals

CONSTANTS
    Keys, Sids, Prefixes,
    Casts,      \* what the sessions do with each key, [Sids -> [Keys -> Uses]]
    MaxTries,
    MaxFaults   \* sessions given up or dead, and items evicted

INSTANCE COItems

\* read: ciget.  update: ciget, then oqwrite.  refresh: oqread, then oqswap.
\* write: oqwrite.  append: oqappend.  invalidate: oqreg.
Uses == {"none", "read", "update", "refresh", "write", "append", "invalidate"}

ASSUME CastsAssumption == Casts \subseteq [Sids -> [Keys -> Uses]]
ASSUME TriesAssumption == MaxTries \in Nat \ {0} /\ MaxFaults \in Nat

VARIABLES
    cache,      \* the server, a state of COItems
    db,         \* the database: the sessions whose writes each value includes
    plan,       \* what each session does with each key
    at,         \* where each session is
    stage,      \* where it is with each key
    seen,       \* the value of the key it has read
    tries,      \* attempts left
    faults      \* so far

clientVars == <<plan, at, stage, seen, tries>>
vars == <<cache, db, clientVars, faults>>

Stages == {"todo", "db", "iqset", "write", "swap", "lost", "done"}
Places == {"run", "dbcommit", "dcommit", "unlease", "end", "crashed"}

TypeOK ==
    /\ cache \in Caches
    /\ db \in [Keys -> SUBSET Sids]
    /\ plan \in Casts
    /\ at \in [Sids -> Places]
    /\ stage \in [Sids -> [Keys -> Stages]]
    /\ seen \in [Sids -> [Keys -> SUBSET Sids]]
    /\ tries \in [Sids -> 0 .. MaxTries]
    /\ faults \in 0 .. MaxFaults

Start(p) == [k \in Keys |-> IF p[k] = "none" THEN "done" ELSE "todo"]

\* The cache is cold, or holds what the database holds.
Init ==
    /\ plan \in Casts
    /\ db = [k \in Keys |-> {}]
    /\ \E cached \in {{}, Keys} :
          cache = [EmptyCache EXCEPT !.it = [k \in Keys |-> IF k \in cached THEN Item({})
                                                            ELSE NoItem]]
    /\ at = [c \in Sids |-> "run"]
    /\ stage = [c \in Sids |-> Start(plan[c])]
    /\ seen = [c \in Sids |-> [k \in Keys |-> {}]]
    /\ tries = [c \in Sids |-> MaxTries - 1]
    /\ faults = 0

------------------------------------------------------------------------------
(* One command of a session *)

Writes(use) == use \notin {"none", "read"}

\* What c makes of the value v of a key.
NewValue(c, k, v) == IF plan[c][k] = "write" THEN {c} ELSE v \cup {c}

\* A key whose value is being fetched or replaced is seen to first.
At(c, k, st) ==
    /\ at[c] = "run" /\ stage[c][k] = st
    /\ \A j \in Keys \ {k} : stage[c][j] \notin {"db", "iqset", "swap"}

Plans(c, k, uses) == plan[c][k] \in uses

Reply(c, k, r, then, value) ==
    /\ cache' = r.s
    /\ stage' = [stage EXCEPT ![c][k] = then]
    /\ seen' = [seen EXCEPT ![c][k] = value]
    /\ UNCHANGED <<db, plan, at, tries, faults>>

\* COException: the application starts over under the same id, or ends.
Again(c, r) ==
    /\ cache' = r.s
    /\ seen' = [seen EXCEPT ![c] = [k \in Keys |-> {}]]
    /\ IF tries[c] > 0
       THEN /\ stage' = [stage EXCEPT ![c] = Start(plan[c])]
            /\ tries' = [tries EXCEPT ![c] = @ - 1]
            /\ at' = [at EXCEPT ![c] = "run"]
       ELSE /\ at' = [at EXCEPT ![c] = "end"]
            /\ UNCHANGED <<stage, tries>>
    /\ UNCHANGED <<db, plan, faults>>

\* The call returned false: the application gives the session up.
Refused(c, r) ==
    /\ cache' = r.s
    /\ at' = [at EXCEPT ![c] = "unlease"]
    /\ UNCHANGED <<db, plan, stage, seen, tries, faults>>

AfterRead(c, k) == IF plan[c][k] = "update" THEN "write" ELSE "done"

\* asc_process_ciget; on RETRY the client backs off and sends again.
CiGet(c, k) ==
    /\ At(c, k, "todo") /\ Plans(c, k, {"read", "update"})
    /\ \E scanned \in BOOLEAN :
          LET r == item_ciget(cache, c, k, scanned)
          IN  \/ /\ r.status = "VALUE"
                 /\ Reply(c, k, r, AfterRead(c, k), r.it.value)
              \/ /\ r.status \in {"LEASE", "NO_VALUE"}
                 /\ Reply(c, k, r, "db", {})
              \/ /\ r.status = "RETRY"
                 /\ UNCHANGED vars
              \/ /\ r.status = "ABORT"
                 /\ Again(c, r)

\* The value that was not in the cache.
DbRead(c, k) ==
    /\ At(c, k, "db")
    /\ stage' = [stage EXCEPT ![c][k] = IF Plans(c, k, {"refresh"}) THEN "swap" ELSE "iqset"]
    /\ seen' = [seen EXCEPT ![c][k] = db[k]]
    /\ UNCHANGED <<cache, db, plan, at, tries, faults>>

IqSet(c, k) ==
    /\ At(c, k, "iqset")
    /\ Reply(c, k, item_iqset(cache, c, k, seen[c][k]), AfterRead(c, k), seen[c][k])

\* asc_process_oqread.
OqRead(c, k) ==
    /\ At(c, k, "todo") /\ Plans(c, k, {"refresh"})
    /\ LET r == item_oqread(cache, c, k)
       IN  \/ /\ r.status = "OK"
              /\ Reply(c, k, r, IF r.it.here THEN "swap" ELSE "db", r.it.value)
           \/ /\ r.status = "ABORT"
              /\ Again(c, r)

\* asc_complete_nread for oqswap and oqwrite.
Stored(c, k, r) ==
    \/ r.status = "OK" /\ Reply(c, k, r, "done", seen[c][k])
    \/ r.status \in {"ABORT", "INVALID"} /\ Again(c, r)

OqSwap(c, k) ==
    /\ At(c, k, "swap")
    /\ Stored(c, k, item_oqswap(cache, c, k, NewValue(c, k, seen[c][k])))

MayWrite(c, k) == At(c, k, "write") \/ (At(c, k, "todo") /\ Plans(c, k, {"write"}))

\* An updating session writes when it has read all it is going to read.
OqWrite(c, k) ==
    /\ MayWrite(c, k)
    /\ Stored(c, k, item_oqwrite(cache, c, k, NewValue(c, k, seen[c][k])))

\* asc_complete_nread for oqappend, which answers an abort with NO_VALUE.
OqAppend(c, k) ==
    /\ At(c, k, "todo") /\ Plans(c, k, {"append"})
    /\ LET r == item_oqappend_oqprepend(cache, c, k, {c})
       IN  \/ r.status = "OK" /\ Reply(c, k, r, "done", {})
           \/ r.status = "ABORT" /\ Refused(c, r)

\* oqReg sends a token less than the server wants: CLIENT_ERROR, whatever the
\* state of the key.
OqReg(c, k) ==
    /\ At(c, k, "todo") /\ Plans(c, k, {"invalidate"})
    /\ Refused(c, Status(cache, "CLIENT_ERROR"))

------------------------------------------------------------------------------
(* The end of a session *)

\* asc_process_validate.
Validate(c) ==
    /\ at[c] = "run" /\ \A k \in Keys : stage[c][k] \in {"done", "lost"}
    /\ LET r == item_validate(cache, c)
       IN  \/ /\ r.status = "OK"
              /\ cache' = r.s
              /\ at' = [at EXCEPT ![c] = "dbcommit"]
              /\ UNCHANGED <<db, plan, stage, seen, tries, faults>>
           \/ /\ r.status = "ABORT"
              /\ Again(c, r)

DbCommit(c) ==
    /\ at[c] = "dbcommit"
    /\ db' = [k \in Keys |-> IF Writes(plan[c][k]) THEN NewValue(c, k, db[k]) ELSE db[k]]
    /\ at' = [at EXCEPT ![c] = "dcommit"]
    /\ UNCHANGED <<cache, plan, stage, seen, tries, faults>>

\* asc_process_dcommit.
Dcommit(c) ==
    /\ at[c] = "dcommit"
    /\ cache' = item_dcommit(cache, c).s
    /\ at' = [at EXCEPT ![c] = "end"]
    /\ UNCHANGED <<db, plan, stage, seen, tries, faults>>

Fault == faults < MaxFaults /\ faults' = faults + 1

\* The application gives up before the database commits.
Abort(c) ==
    /\ Fault
    /\ at[c] \in {"run", "dbcommit"}
    /\ at' = [at EXCEPT ![c] = "unlease"]
    /\ UNCHANGED <<cache, db, plan, stage, seen, tries>>

\* asc_process_co_unlease.
CoUnlease(c) ==
    /\ at[c] = "unlease"
    /\ Again(c, item_co_unlease(cache, c))

------------------------------------------------------------------------------
(* Failures, expiry and eviction *)

Crash(c) ==
    /\ Fault
    /\ at[c] \notin {"end", "crashed"}
    /\ at' = [at EXCEPT ![c] = "crashed"]
    /\ UNCHANGED <<cache, db, plan, stage, seen, tries>>

Gone(c) == at[c] \in {"end", "crashed"}

\* The sessions that list k.
Users(k) == {c \in Sids : k \in cache.sess[c].keys}

\* lease_token_expiry is longer than a session: only an I lease may lapse
\* under a session that is still running.
ExpireLease(k) ==
    /\ \/ cache.lease[k].kind = "I"
       \/ cache.lease[k] # NoLease /\ \A c \in Users(k) : Gone(c)
    /\ cache' = ExpiredLease(cache, k)
    /\ UNCHANGED <<db, clientVars, faults>>

ExpireCoLease(k) ==
    /\ cache.co[k] # NoCoLease
    /\ \A c \in cache.co[k].sids \cup Users(k) : Gone(c)
    /\ cache' = ExpiredCoLease(cache, k)
    /\ UNCHANGED <<db, clientVars, faults>>

\* The session item is as old as the last key it got.
ExpireSession(c) ==
    /\ cache.sess[c] # NoSession /\ Gone(c)
    /\ cache' = ExpiredSession(cache, c)
    /\ UNCHANGED <<db, clientVars, faults>>

Evict(k) ==
    /\ Fault
    /\ \/ cache.it[k].here /\ cache' = Evicted(cache, k)
       \/ cache.pv[k].here /\ cache' = EvictedVersion(cache, k)
    /\ UNCHANGED <<db, clientVars>>

\* No memory for the item of an oqswap or oqwrite: the server drops the value
\* it has, and the client takes SERVER_ERROR for success.
OutOfMemory(c, k) ==
    /\ Fault
    /\ At(c, k, "swap") \/ MayWrite(c, k)
    /\ cache' = Evicted(cache, k)
    /\ stage' = [stage EXCEPT ![c][k] = "lost"]
    /\ UNCHANGED <<db, plan, at, seen, tries>>

\* No memory for the new part of an oqappend: the client returns false.
AppendOutOfMemory(c, k) ==
    /\ Fault
    /\ At(c, k, "todo") /\ Plans(c, k, {"append"})
    /\ at' = [at EXCEPT ![c] = "unlease"]
    /\ UNCHANGED <<cache, db, plan, stage, seen, tries>>

Finished == (\A c \in Sids : Gone(c)) /\ UNCHANGED vars

------------------------------------------------------------------------------
KeyStep(c, k) ==
    \/ CiGet(c, k) \/ DbRead(c, k) \/ IqSet(c, k)
    \/ OqRead(c, k) \/ OqSwap(c, k) \/ OqWrite(c, k) \/ OqAppend(c, k) \/ OqReg(c, k)

Step(c) ==
    \/ \E k \in Keys : KeyStep(c, k)
    \/ Validate(c) \/ DbCommit(c) \/ Dcommit(c) \/ CoUnlease(c)

Expire ==
    \/ \E k \in Keys : ExpireLease(k) \/ ExpireCoLease(k)
    \/ \E c \in Sids : ExpireSession(c)

Next ==
    \/ \E c \in Sids : Step(c) \/ Abort(c) \/ Crash(c)
    \/ Expire
    \/ \E k \in Keys : Evict(k)
    \/ \E c \in Sids, k \in Keys : OutOfMemory(c, k) \/ AppendOutOfMemory(c, k)
    \/ Finished

Spec == Init /\ [][Next]_vars

\* Sessions make progress, and time passes.
Fairness == (\A c \in Sids : WF_vars(Step(c))) /\ WF_vars(Expire)

FairSpec == Spec /\ Fairness

------------------------------------------------------------------------------
(* Properties *)

\* A session has died between its two commits, and the old value it leaves
\* in the cache has no expiry: oqread alone sets one.  Or a session has
\* committed although the server had no memory for one of its writes, without
\* an O lease on that key.
Orphaned(k) ==
    \E c \in Sids :
        /\ c \in db[k]
        /\ \/ at[c] = "crashed" /\ plan[c][k] # "refresh"
           \/ \E j \in Keys : stage[c][j] = "lost"

\* A session that validate lets pass has read, of every key, what is in the
\* database at that moment: no write of another session was committed in
\* between, or is in the cache without being committed.
ValidatedReads ==
    [][\A c \in Sids : at[c] = "run" /\ at'[c] = "dbcommit" =>
          \A k \in Keys : plan[c][k] \in {"read", "update", "refresh"} /\ ~Orphaned(k)
                         => seen[c][k] = db[k]]_vars

\* Once validate has let a session pass that holds nothing but O leases,
\* nothing aborts it any more: dcommit finds it alive after the database has
\* committed.
CommitsInCache ==
    [][\A c \in Sids : at[c] = "dcommit" /\ at'[c] = "end"
                       /\ (\A k \in Keys : plan[c][k] # "read" /\ stage[c][k] # "lost")
                       => item_dcommit(cache, c).status = "OK"]_vars

\* A value that can be read under a C lease, or without any, is that of the
\* database.
Coherent ==
    \A k \in Keys : cache.it[k].here /\ ~O(cache.co[k]) /\ ~Orphaned(k)
                   => cache.it[k].value = db[k]

\* Two sessions never both have a write of a key in the cache and still hope
\* to commit.
ExclusiveWriters ==
    \A c, d \in Sids, k \in Keys :
        (/\ c # d /\ Writes(plan[c][k]) /\ Writes(plan[d][k])
         /\ {stage[c][k], stage[d][k]} \subseteq {"swap", "done"}
         /\ {at[c], at[d]} \subseteq {"run", "dbcommit", "dcommit"})
        => IsAborted(cache, c) \/ IsAborted(cache, d)

\* The leases that the server lists, its pending versions and what sessions take
\* themselves to hold fit together: ExclusiveWriters, with every variable of its
\* type.
WritersConsistent == TypeOK /\ ExclusiveWriters

\* Every session ends: nobody waits for ever behind the leases of others.
SessionsEnd == \A c \in Sids : <>Gone(c)
==============================================================================
