------------------------------- MODULE RejigIQ -------------------------------
(***************************************************************************)
(* Read and write sessions over a database and the cache servers, with     *)
(* I and Q leases, while the coordinator moves fragments between servers.  *)
(*                                                                         *)
(* Each client runs its session as a sequence of commands of               *)
(* MemcachedClient.  A command is checked by asc_check_config in one step  *)
(* and executed under cache_lock in a later one.  A reader looks a key up  *)
(* with iqget and, on a miss with a lease, reads the database and offers   *)
(* the value with iqset.  A writer quarantines the key, commits to the     *)
(* database and ends its lease with dar or commit.                         *)
(*                                                                         *)
(* The database and the application around the client are not in the       *)
(* repository.  Of the application this module assumes that it starts its  *)
(* session over when a command throws StaleConfigurationException, and     *)
(* that a writer whose database commit is done does not repeat it then.    *)
(*                                                                         *)
(* The server refuses iqincr, iqdecr, iqprepend and release of this client *)
(* for their number of tokens: a delta is that of iqappend.                *)
(***************************************************************************)
EXTENDS Coordinator, SequencesExt

CONSTANTS
    Readers, Writers,
    Techniques,     \* a write session follows one: invalidate, refresh or delta
    MaxReads        \* sessions of a reader; a writer has one

ASSUME TechniquesAssumption == Techniques \subseteq {"invalidate", "refresh", "delta"}
ASSUME MaxReadsAssumption == MaxReads \in Nat

VARIABLES
    cache,      \* of each server, a state of IQItems
    db,         \* the database: the writes committed to each key
    acked,      \* the database when the last acknowledged writer committed
    local,      \* localConfigurationNumber of each client
    at,         \* the command or step its session is at
    io,         \* stale: has no valid configuration; checked: at the server
    ses         \* what else the client keeps of its session

cacheVars == <<configuration_number, cache>>
dbVars == <<db, acked>>
clientVars == <<local, at, io, ses>>
vars == <<coordinatorVars, cacheVars, dbVars, clientVars>>

INSTANCE IQItems WITH Keys <- Frags, Tids <- Writers

Clients == Readers \cup Writers

ReadCommands == {"iqget", "iset", "iqset", "unlease"}
WriteCommands == {"qareg", "dar", "commit", "qaread", "swap", "iqappend"}
Commands == ReadCommands \cup WriteCommands

Sessions ==
    [frag   : Frags,
     kind   : {"read"} \cup Techniques,
     token  : [Frags -> Int],  \* i_lease_list of a reader, q_lease_list of a writer
     value  : Values,          \* to iqset or swap
     config : Int,             \* the number the command was checked with
     floor  : Values,          \* acked when the read began
     got    : Values,          \* the value iqget returned
     wrote  : Values,          \* the database after the writer's commit
     refused : BOOLEAN,        \* history: no memory for the writer's value
     left   : Nat]             \* sessions to go

TypeOK ==
    /\ CoordinatorTypeOK
    /\ cache \in [Servers -> Caches]
    /\ db \in [Frags -> Values] /\ acked \in [Frags -> Values]
    /\ local \in [Clients -> Numbers]
    /\ at \in [Clients -> Commands \cup {"begin", "db", "dbcommit", "release", "crashed"}]
    /\ io \in [Clients -> {"stale", "ready", "checked"}]
    /\ ses \in [Clients -> Sessions]

Init ==
    /\ CoordinatorInit
    /\ cache = [s \in Servers |-> EmptyCache]
    /\ db = [f \in Frags |-> <<Loaded>>] /\ acked = db
    /\ local = [c \in Clients |-> NoConfig]
    /\ at = [c \in Clients |-> "begin"]
    /\ io = [c \in Clients |-> "stale"]
    /\ \E f \in Frags : ses = [c \in Clients |->
          [frag |-> f, kind |-> "read", token |-> [g \in Frags |-> NoToken],
           value |-> NoValue, config |-> 0, floor |-> NoValue, got |-> NoValue, wrote |-> NoValue,
           refused |-> FALSE, left |-> IF c \in Readers THEN MaxReads ELSE 1]]

------------------------------------------------------------------------------
(* Sessions *)

Server(c) == Owner(local[c], ses[c].frag)

\* The command a session starts with; a writer that has committed to the
\* database redoes only the part at the cache.
FirstCommand(kind, wrote) ==
    CASE kind = "read" -> "iqget"
      [] kind = "invalidate" -> "qareg"
      [] kind = "refresh" \/ (kind = "delta" /\ wrote # NoValue) -> "qaread"
      [] OTHER -> "iqappend"

\* readConfig and updateLocalConfigurationNumber.
ReadConfig(c) ==
    /\ io[c] = "stale" /\ at[c] # "crashed"
    /\ phase \in {"running", "updating"}
    /\ local' = [local EXCEPT ![c] = currentConfigNumber]
    /\ io' = [io EXCEPT ![c] = "ready"]
    /\ UNCHANGED <<coordinatorVars, cacheVars, dbVars, at, ses>>

Begin(c) ==
    /\ at[c] = "begin" /\ io[c] = "ready"
    /\ ses[c].left > 0
    /\ \E f \in Frags, kind \in IF c \in Readers THEN {"read"} ELSE Techniques :
          /\ ses' = [ses EXCEPT ![c].frag = f, ![c].kind = kind, ![c].left = @ - 1,
                                ![c].got = NoValue, ![c].floor = acked[f]]
          /\ at' = [at EXCEPT ![c] = FirstCommand(kind, NoValue)]
    /\ UNCHANGED <<coordinatorVars, cacheVars, dbVars, local, io>>

\* asc_check_config writes FAIL, and the client throws
\* StaleConfigurationException.  The lease lists of the client stay.
CheckFails(c) ==
    /\ at[c] \in Commands /\ io[c] = "ready"
    /\ local[c] # configuration_number[Server(c)]
    /\ io' = [io EXCEPT ![c] = "stale"]
    /\ at' = [at EXCEPT ![c] = FirstCommand(ses[c].kind, ses[c].wrote)]
    /\ UNCHANGED <<coordinatorVars, cacheVars, dbVars, local, ses>>

CheckPasses(c) ==
    /\ at[c] \in Commands /\ io[c] = "ready"
    /\ local[c] = configuration_number[Server(c)]
    /\ io' = [io EXCEPT ![c] = "checked"]
    /\ ses' = [ses EXCEPT ![c].config = configuration_number[Server(c)]]
    /\ UNCHANGED <<coordinatorVars, cacheVars, dbVars, local, at>>

Executing(c, command) == at[c] = command /\ io[c] = "checked"

\* The server has executed the command of c and answers with r.
Answer(c, r, then, kept) ==
    /\ cache' = [cache EXCEPT ![Server(c)] = r.s]
    /\ at' = [at EXCEPT ![c] = then]
    /\ io' = [io EXCEPT ![c] = "ready"]
    /\ ses' = [ses EXCEPT ![c] = [kept EXCEPT !.config = 0]]
    /\ UNCHANGED <<coordinatorVars, configuration_number, db, local>>

Reply(c, r, then, kept) == Answer(c, r, then, kept) /\ UNCHANGED acked

WithToken(c, token) == [ses[c] EXCEPT !.token[ses[c].frag] = token]

\* SERVER_ERROR: no chunk is left for the value or the lease of a command.
ServerError(c) == Status(cache[Server(c)], "SERVER_ERROR")

\* Without a chunk for its value, iqset and swap delete the value there is.
ServerErrorDeletes(c) == Status(Evicted(cache[Server(c)], ses[c].frag), "SERVER_ERROR")

------------------------------------------------------------------------------
(* Readers *)

\* Mutant: any stamped value is good.
AcceptsStamped(c, it) == it.config_number >= 0

\* partitionConfigNumber <= configNumber in iqget of MemcachedClient.
AcceptsValue(c, it) == CfgId(local[c], ses[c].frag) <= it.config_number

\* iqget of MemcachedClient: a value older than its server's ownership of
\* the fragment is an InvalidValueException, and the application asks for a
\* lease with iset.  On LEASE_HOTMISS the client backs off and sends again.
\* Any other reply is an IOException, and ends the session.
IqGet(c) ==
    /\ Executing(c, "iqget")
    /\ LET f == ses[c].frag
           r == item_iqget(cache[Server(c)], f, ses[c].token[f], FALSE)
       IN  \/ /\ r.status = "VALUE" /\ AcceptsValue(c, r.it)
              /\ Reply(c, r, "begin", [ses[c] EXCEPT !.got = r.it.value])
           \/ /\ r.status = "VALUE" /\ ~AcceptsValue(c, r.it)
              /\ Reply(c, r, "iset", ses[c])
           \/ /\ r.status = "LEASE"
              /\ Reply(c, r, "db", WithToken(c, r.token))
           \/ /\ r.status = "NO_VALUE"
              /\ Reply(c, r, "db", ses[c])
           \/ /\ r.status = "HOTMISS"
              /\ Reply(c, r, "iqget", ses[c])
           \/ /\ r.status = "LEASE" /\ "no_memory" \in Faults
              /\ Reply(c, ServerError(c), "begin", ses[c])

ISet(c) ==
    /\ Executing(c, "iset")
    /\ LET f == ses[c].frag
           r == item_iqget(cache[Server(c)], f, ses[c].token[f], TRUE)
       IN  \/ /\ r.status = "LEASE"
              /\ Reply(c, r, "db", WithToken(c, r.token))
           \/ /\ r.status = "NO_VALUE"
              /\ Reply(c, r, "db", ses[c])
           \/ /\ r.status = "HOTMISS"
              /\ Reply(c, r, "iset", ses[c])
           \/ /\ r.status = "LEASE" /\ "no_memory" \in Faults
              /\ Reply(c, ServerError(c), "begin", ses[c])

\* set of MemcachedClient with a lease token; the token is used up, but not by
\* an error.
IqSet(c) ==
    /\ Executing(c, "iqset")
    /\ LET f == ses[c].frag
           r == item_iqset(cache[Server(c)], f, ses[c].token[f], ses[c].value, ses[c].config)
       IN  \/ Reply(c, r, "begin", [WithToken(c, NoToken) EXCEPT !.value = NoValue])
           \/ /\ "no_memory" \in Faults
              /\ Reply(c, ServerErrorDeletes(c), "begin", [ses[c] EXCEPT !.value = NoValue])

\* releaseX.
Unlease(c) ==
    /\ Executing(c, "unlease")
    /\ LET f == ses[c].frag
           r == item_get_and_unlease(cache[Server(c)], f, ses[c].token[f])
       IN  Reply(c, r, "begin", WithToken(c, NoToken))

\* A reader reads the value it will offer, a writer the value it will change.
DbRead(c) ==
    /\ at[c] = "db" /\ io[c] = "ready"
    /\ ses' = [ses EXCEPT ![c].value = IF c \in Writers /\ ses[c].wrote = NoValue
                                       THEN Append(db[ses[c].frag], c) ELSE db[ses[c].frag]]
    /\ at' = [at EXCEPT ![c] = IF c \in Readers THEN "iqset" ELSE "swap"]
    /\ UNCHANGED <<coordinatorVars, cacheVars, dbVars, local, io>>

------------------------------------------------------------------------------
(* Writers *)

AfterQuarantine(c) ==
    IF ses[c].wrote = NoValue THEN "dbcommit" ELSE IF ses[c].kind = "invalidate" THEN "dar" ELSE "commit"

QaReg(c) ==
    /\ Executing(c, "qareg")
    /\ LET r == item_quarantine_and_register(cache[Server(c)], c, ses[c].frag)
       IN  Reply(c, r, AfterQuarantine(c), ses[c])

\* On LEASE_HOTMISS quarantineAndRead throws IQException, and the
\* application tries again.
QaRead(c) ==
    /\ Executing(c, "qaread")
    /\ LET f == ses[c].frag
           r == item_quarantine_and_read(cache[Server(c)], c, f, ses[c].token[f])
       IN  \/ /\ r.status = "LEASE" /\ r.it.value # NoValue /\ ses[c].wrote = NoValue
              /\ Reply(c, r, "swap",
                       [WithToken(c, r.token) EXCEPT !.value = Append(r.it.value, c)])
           \/ /\ r.status = "LEASE" /\ (r.it.value = NoValue \/ ses[c].wrote # NoValue)
              /\ Reply(c, r, "db", WithToken(c, r.token))
           \/ /\ r.status = "HOTMISS"
              /\ Reply(c, r, "qaread", ses[c])

\* swap of MemcachedClient returns true whatever the server says.
Swap(c) ==
    /\ Executing(c, "swap")
    /\ LET f == ses[c].frag
           r == item_swap(cache[Server(c)], f, ses[c].token[f], ses[c].value)
       IN  \/ Reply(c, r, AfterQuarantine(c), ses[c])
           \/ /\ "no_memory" \in Faults
              /\ Reply(c, ServerErrorDeletes(c), AfterQuarantine(c),
                       [ses[c] EXCEPT !.refused = TRUE])

\* ABORT is an IQException, and the application tries again.  The client
\* returns the same for SERVER_ERROR as for a key without a value, and the
\* application goes on with no lease.
IqAppend(c) ==
    /\ Executing(c, "iqappend")
    /\ LET f == ses[c].frag
           r == item_iqappend_iqprepend(cache[Server(c)], c, f)
       IN  \/ /\ r.status \in {"LEASE", "LEASE_NO_VALUE"}
              /\ Reply(c, r, "dbcommit", WithToken(c, r.token))
           \/ /\ r.status = "ABORT"
              /\ Reply(c, r, "iqappend", ses[c])
           \/ /\ "no_memory" \in Faults
              /\ Reply(c, ServerError(c), "dbcommit", [ses[c] EXCEPT !.refused = TRUE])

DbCommit(c) ==
    LET f == ses[c].frag
    IN  /\ at[c] = "dbcommit" /\ io[c] = "ready"
        /\ db' = [db EXCEPT ![f] = Append(@, c)]
        /\ ses' = [ses EXCEPT ![c].wrote = db'[f]]
        /\ \E last \in IF ses[c].kind = "invalidate" THEN {"dar", "commit"} ELSE {"commit"} :
              at' = [at EXCEPT ![c] = last]
        /\ UNCHANGED <<coordinatorVars, cacheVars, acked, local, io>>

\* The session ends and its write counts as done when the server agrees.
End(c, r) ==
    LET f == ses[c].frag
    IN  /\ Answer(c, r, "begin", [WithToken(c, NoToken) EXCEPT !.wrote = NoValue, !.value = NoValue])
        /\ acked' = IF r.status \in {"OK", "DELETED"} /\ Len(acked[f]) < Len(ses[c].wrote)
                    THEN [acked EXCEPT ![f] = ses[c].wrote] ELSE acked

DeleteAndRelease(c) ==
    /\ Executing(c, "dar")
    /\ End(c, item_delete_and_release(cache[Server(c)], c))

Commit(c) ==
    /\ Executing(c, "commit")
    /\ End(c, item_commit(cache[Server(c)], c, ses[c].config))

\* The application gives up: a reader when it has no value to offer, a
\* writer before the database commits.
Abort(c) ==
    /\ "abort" \in Faults
    /\ io[c] = "ready"
    /\ \/ c \in Readers /\ at[c] = "db" /\ at' = [at EXCEPT ![c] = "unlease"]
       \/ at[c] = "dbcommit" /\ at' = [at EXCEPT ![c] = "release"]
    /\ UNCHANGED <<coordinatorVars, cacheVars, dbVars, local, io, ses>>

\* release of MemcachedClient has a token too few: CLIENT_ERROR, and release
\* throws.  The leases stay until they expire.
Release(c) ==
    /\ at[c] = "release"
    /\ at' = [at EXCEPT ![c] = "begin"]
    /\ ses' = [ses EXCEPT ![c].value = NoValue]
    /\ UNCHANGED <<coordinatorVars, cacheVars, dbVars, local, io>>

------------------------------------------------------------------------------
(* Failures, expiry and eviction *)

\* A client dies between two steps.
Crash(c) ==
    /\ "crash" \in Faults
    /\ at[c] \notin {"begin", "crashed"} /\ io[c] # "checked"
    /\ at' = [at EXCEPT ![c] = "crashed"]
    /\ UNCHANGED <<coordinatorVars, cacheVars, dbVars, local, io, ses>>

\* A session that has its lease, and does not have to ask for it again.
Relies(w, s, f) ==
    /\ at[w] \notin {"begin", "crashed", "qareg", "qaread", "iqappend"}
    /\ ses[w].frag = f /\ local[w] # NoConfig /\ Server(w) = s
    /\ f \in cache[s].trans[w]

\* Mutant: Q leases are kept for sessions that never come back.
ExpireILease(s, f) ==
    /\ cache[s].lease[f].kind = "I"
    /\ cache' = [cache EXCEPT ![s] = Expired(cache[s], f)]
    /\ UNCHANGED <<coordinatorVars, configuration_number, dbVars, clientVars>>

\* lease_token_expiry is longer than a session: a Q lease expires only when
\* its sessions have crashed, moved on or ask for a lease again.
ExpireLease(s, f) ==
    /\ cache[s].lease[f] # NoLease
    /\ Q(cache[s].lease[f]) => \A w \in Writers : ~Relies(w, s, f)
    /\ cache' = [cache EXCEPT ![s] = Expired(cache[s], f)]
    /\ UNCHANGED <<coordinatorVars, configuration_number, dbVars, clientVars>>

Evict(s, f) ==
    /\ \/ cache[s].it[f] # NoItem /\ cache' = [cache EXCEPT ![s] = Evicted(@, f)]
       \/ cache[s].pv[f] # NoVersion /\ cache' = [cache EXCEPT ![s] = EvictedVersion(@, f)]
    /\ UNCHANGED <<coordinatorVars, configuration_number, dbVars, clientVars>>

\* Nobody has anything left to do.
Finished ==
    /\ phase = "running" /\ currentConfigNumber = MaxConfig
    /\ \A c \in Clients : at[c] = "crashed" \/ (at[c] = "begin" /\ ses[c].left = 0)
    /\ UNCHANGED vars

------------------------------------------------------------------------------
Read(c) == IqGet(c) \/ ISet(c) \/ IqSet(c) \/ Unlease(c)

Write(c) ==
    \/ QaReg(c) \/ QaRead(c) \/ Swap(c) \/ IqAppend(c) \/ DbCommit(c)
    \/ DeleteAndRelease(c) \/ Commit(c) \/ Release(c)

Step(c) ==
    \/ ReadConfig(c) \/ Begin(c) \/ CheckFails(c) \/ CheckPasses(c) \/ DbRead(c)
    \/ c \in Readers /\ Read(c)
    \/ c \in Writers /\ Write(c)

Next ==
    \/ CoordinatorNext /\ UNCHANGED <<cache, dbVars, clientVars>>
    \/ \E c \in Clients : Step(c) \/ Crash(c) \/ Abort(c)
    \/ \E s \in Servers, f \in Frags : ExpireLease(s, f) \/ Evict(s, f)
    \/ Finished

Spec == Init /\ [][Next]_vars

\* Clients and the roll-out make progress, and time passes.
Fairness ==
    /\ WF_vars(CoordinatorNext /\ phase # "running" /\ UNCHANGED <<cache, dbVars, clientVars>>)
    /\ \A c \in Clients : WF_vars(Step(c))
    /\ \A s \in Servers, f \in Frags : WF_vars(ExpireLease(s, f))

FairSpec == Spec /\ Fairness

------------------------------------------------------------------------------
(* Properties *)

\* The value iqget returns includes every write that had been acknowledged when
\* the read began, whatever the leases, the late commands and the moves of the
\* fragment in between.
NoStaleRead ==
    \A r \in Readers : ses[r].got # NoValue => IsPrefix(ses[r].floor, ses[r].got)

\* A session that ended without its write: crashed, or given up.
Abandoned(w) == at[w] \in {"begin", "crashed"}

\* A pending version that its session abandoned may outlive the lease, and an
\* iqappend that finds no value makes none of its own: its commit then publishes
\* what the other session left.
AdoptsAbandoned(f, value) == \E w \in ToSet(value) \ ToSet(db[f]) : Abandoned(w)

\* A writer whose value met SERVER_ERROR commits to the database all the same.
LacksRefused(f, value) == \E w \in (ToSet(db[f]) \ ToSet(value)) \cap Writers : ses[w].refused

\* Once no writer is between its database commit and the end of its session,
\* an item that the published configuration would accept, and that no Q lease
\* covers, holds exactly the writes of the database, in their order.  A writer
\* that has crashed there counts as ended if it invalidates and has registered
\* with the owner: the value goes with its lease.  What a refreshing or delta
\* writer leaves in the cache then, and what readers have cached at a new owner,
\* nobody removes.  Two more exceptions are the code's own, AdoptsAbandoned and
\* LacksRefused: a write too many or too few has no other cause.
Coherent ==
    phase \in {"running", "updating"} => \A f \in Frags :
        LET s  == Owner(currentConfigNumber, f)
            it == cache[s].it[f]
        IN  (/\ it # NoItem
             /\ CfgId(currentConfigNumber, f) <= it.config_number
             /\ ~Q(cache[s].lease[f])
             /\ \A w \in Writers : ses[w].frag = f /\ ses[w].wrote # NoValue
                    => /\ at[w] = "crashed" /\ ses[w].kind = "invalidate"
                       /\ f \in cache[s].trans[w])
            => it.value = db[f] \/ AdoptsAbandoned(f, it.value) \/ LacksRefused(f, it.value)

\* Two writers that read and replace a key never hold its Q lease at one
\* server at the same time.  (One that went on after SERVER_ERROR has none.)
ExclusiveQuarantine ==
    \A v, w \in Writers :
        (/\ v # w /\ ses[v].frag = ses[w].frag
         /\ "invalidate" \notin {ses[v].kind, ses[w].kind}
         /\ {at[v], at[w]} \subseteq {"db", "swap", "dbcommit", "commit"}
         /\ io[v] # "stale" /\ io[w] # "stale"
         /\ \A u \in {v, w} : ~(ses[u].kind = "delta" /\ ses[u].refused))
        => Server(v) # Server(w)

\* A session that has registered for invalidation stays in the Q lease of
\* its key until it ends, whoever shares the lease and however they end.
QuarantineHeld ==
    \A w \in Writers :
        at[w] \in {"dbcommit", "dar"} /\ ses[w].kind = "invalidate" /\ io[w] = "ready"
        => w \in cache[Server(w)].lease[ses[w].frag].tids

\* A read is not put off for ever by the leases of others.
ReadsEnd == \A r \in Readers : at[r] = "iqget" ~> at[r] \in {"begin", "crashed"}
==============================================================================
