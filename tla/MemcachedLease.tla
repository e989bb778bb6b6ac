---------------------------- MODULE MemcachedLease ----------------------------
(***************************************************************************)
(* MemcachedLease: threads of several client processes exclude each other  *)
(* from a key with gets, add, cas and delete at a server.  A lease is an   *)
(* item whose value names its holder; the value NEW_LEASE, or no item,     *)
(* means that the key is free.  Each process keeps the leases of its own   *)
(* threads in localKeyLeaseMap.                                            *)
(*                                                                         *)
(* The module has one key: keys share no state, and the calls for several  *)
(* keys treat them one after the other.  An instance with onlyLocalLease,  *)
(* which never asks the server, is left out.  The MemcachedClient holds no *)
(* configuration, so asc_check_config lets every command pass.             *)
(***************************************************************************)
EXTENDS Integers

CONSTANTS
    Threads,      \* each has a MemcachedLease and a clientId of its own
    Processes,
    ProcessOf,    \* the process of each thread
    MaxAcquires,  \* calls of acquireLease per thread
    Timeouts,     \* of a lease, in milliseconds
    MaxCasId,     \* other keys move the server's cas_id no further than this
    Faults        \* which of io, evict and crash may happen

ASSUME ProcessOfAssumption == ProcessOf \in [Threads -> Processes]
ASSUME BoundsAssumption ==
    MaxAcquires \in Nat /\ MaxCasId \in Nat /\ Timeouts \subseteq Nat
ASSUME FaultsAssumption == Faults \subseteq {"io", "evict", "crash"}

VARIABLES
    it,                 \* the item of the key
    cas_id,             \* of the server: the last one given to any item
    localKeyLeaseMap,   \* of each process: the value of its lease on the key
    pc,                 \* where each thread is in acquireLease or releaseLease
    val,                \* the CASValue that its gets returned
    counter,            \* of each thread
    lapsed,             \* history: its lease expired or was evicted
    doubts              \* history: what happened that exclusion cannot survive

vars == <<it, cas_id, localKeyLeaseMap, pc, val, counter, lapsed, doubts>>

NEW_LEASE == <<>>
NoLease == <<>>
NoItem == [value |-> NEW_LEASE, cas_id |-> 0, exptime |-> 0]

LeaseValues == {NEW_LEASE} \cup (Threads \X (1 .. MaxAcquires))
Items == [value : LeaseValues, cas_id : Nat, exptime : Nat]

\* What gets makes of an item, and of none.
CASValue(item) == [value |-> item.value, cas_id |-> item.cas_id]
NoValue == CASValue(NoItem)

\* newVal: the clientId and the counter of the call.
NewVal(t) == <<t, counter[t]>>

\* The bytes of a value: "n", or "1 1" for a clientId and a counter below 10.
Vlen(value) == IF value = NEW_LEASE THEN 1 ELSE 3

TypeOK ==
    /\ it \in Items
    /\ cas_id \in Nat
    /\ localKeyLeaseMap \in [Processes -> LeaseValues]
    /\ pc \in [Threads -> {"idle", "gets", "store", "failed", "holding", "releasing",
                           "release_cas", "delete", "released", "crashed"}]
    /\ val \in [Threads -> [value : LeaseValues, cas_id : Nat]]
    /\ counter \in [Threads -> 0 .. MaxAcquires]
    /\ lapsed \in [Threads -> BOOLEAN]
    /\ doubts \subseteq {"lapsed_release", "lost_reply", "stale_cas"}

Init ==
    /\ it = NoItem
    /\ cas_id \in 0 .. MaxCasId
    /\ localKeyLeaseMap = [p \in Processes |-> NoLease]
    /\ pc = [t \in Threads |-> "idle"]
    /\ val = [t \in Threads |-> NoValue]
    /\ counter = [t \in Threads |-> 0]
    /\ lapsed = [t \in Threads |-> FALSE]
    /\ doubts = {}

------------------------------------------------------------------------------
(* The server *)

\* _item_store.  asc_process_update takes the cas id from token 6, which holds
\* the length of the value since the configuration numbers were put before
\* the key.
Stores(type, value) ==
    IF type = "add" THEN it = NoItem ELSE it # NoItem /\ Vlen(value) = it.cas_id


\* The client sends whole seconds, and time_reltime takes 0 for never.
Exptime(ms) == ms \div 1000

\* item_store and _item_link.
ItemStore(type, value, ms) ==
    IF Stores(type, value)
    THEN /\ it' = [value |-> value, cas_id |-> cas_id + 1, exptime |-> Exptime(ms)]
         /\ cas_id' = cas_id + 1
    ELSE UNCHANGED <<it, cas_id>>

\* An item of another key is linked.
OtherStore ==
    /\ cas_id < MaxCasId
    /\ cas_id' = cas_id + 1
    /\ UNCHANGED <<it, localKeyLeaseMap, pc, val, counter, lapsed, doubts>>

\* A release has read the item and is about to act on it.
ReleaseUnderway(t) ==
    pc[t] \in {"releasing", "release_cas", "delete"} /\ val[t] = CASValue(it)

Lapse ==
    /\ it # NoItem
    /\ it' = NoItem
    /\ lapsed' = [t \in Threads |-> lapsed[t] \/ it.value = NewVal(t)]
    /\ doubts' = IF \E t \in Threads : ReleaseUnderway(t)
                 THEN doubts \cup {"lapsed_release"} ELSE doubts
    /\ UNCHANGED <<cas_id, localKeyLeaseMap, pc, val, counter>>

\* _item_get finds the item past its exptime.
Expire == it.exptime # 0 /\ Lapse

\* item_get_from_lruq takes it for another item.
Evict == "evict" \in Faults /\ Lapse

------------------------------------------------------------------------------
(* A client.  ok: the call returns normally, with no IOException on the way. *)

Replied(ok) == ok \/ "io" \in Faults

\* Mutant: put instead of putIfAbsent.
AcquireLeasePut(t) ==
    /\ pc[t] = "idle"
    /\ counter[t] < MaxAcquires
    /\ counter' = [counter EXCEPT ![t] = @ + 1]
    /\ localKeyLeaseMap' = [localKeyLeaseMap EXCEPT ![ProcessOf[t]] = <<t, counter'[t]>>]
    /\ pc' = [pc EXCEPT ![t] = "gets"]
    /\ lapsed' = [lapsed EXCEPT ![t] = FALSE]
    /\ UNCHANGED <<it, cas_id, val, doubts>>

\* acquireLease: putIfAbsent, or false at once.
AcquireLease(t) ==
    LET p == ProcessOf[t] IN
    /\ pc[t] = "idle"
    /\ counter[t] < MaxAcquires
    /\ counter' = [counter EXCEPT ![t] = @ + 1]
    /\ IF localKeyLeaseMap[p] = NoLease
       THEN /\ localKeyLeaseMap' = [localKeyLeaseMap EXCEPT ![p] = <<t, counter'[t]>>]
            /\ pc' = [pc EXCEPT ![t] = "gets"]
       ELSE UNCHANGED <<localKeyLeaseMap, pc>>
    /\ lapsed' = [lapsed EXCEPT ![t] = FALSE]
    /\ UNCHANGED <<it, cas_id, val, doubts>>

\* gets; an IOException is swallowed and reads as no item.
Gets(t, ok) ==
    /\ Replied(ok)
    /\ pc[t] = "gets"
    /\ val' = [val EXCEPT ![t] = IF ok THEN CASValue(it) ELSE NoValue]
    /\ pc' = [pc EXCEPT ![t] = "store"]
    /\ UNCHANGED <<it, cas_id, localKeyLeaseMap, counter, lapsed, doubts>>

\* A cas that stores over another item than the one its client has read.
StaleCas(t, type, value) ==
    IF type = "cas" /\ Stores(type, value) /\ it.cas_id # val[t].cas_id
    THEN {"stale_cas"} ELSE {}

\* The private acquireLease: add, or cas on a released lease.  Without a
\* reply the server may or may not have stored the item.
Store(t, ok) ==
    LET type == IF val[t] = NoValue THEN "add" ELSE "cas" IN
    /\ Replied(ok)
    /\ pc[t] = "store"
    /\ val[t].value = NEW_LEASE
    /\ \/ \E ms \in Timeouts : ItemStore(type, NewVal(t), ms)
       \/ ~ok /\ UNCHANGED <<it, cas_id>>
    /\ doubts' = IF it' = it THEN doubts
                 ELSE doubts \cup StaleCas(t, type, NewVal(t))
    /\ pc' = [pc EXCEPT ![t] = IF ok /\ it' # it THEN "holding" ELSE "failed"]
    /\ UNCHANGED <<localKeyLeaseMap, val, counter, lapsed>>

\* It is somebody's lease.
Taken(t) ==
    /\ pc[t] = "store"
    /\ val[t].value # NEW_LEASE
    /\ pc' = [pc EXCEPT ![t] = "failed"]
    /\ UNCHANGED <<it, cas_id, localKeyLeaseMap, val, counter, lapsed, doubts>>

\* releaseLease begins with a gets of its own.
ReleaseLease(t, ok) ==
    /\ Replied(ok)
    /\ pc[t] = "holding"
    /\ val' = [val EXCEPT ![t] = IF ok THEN CASValue(it) ELSE NoValue]
    /\ pc' = [pc EXCEPT ![t] = "releasing"]
    /\ UNCHANGED <<it, cas_id, localKeyLeaseMap, counter, lapsed, doubts>>

\* Mutant: releaseLease does not look whose lease it has read.
CompareNothing(t) ==
    /\ pc[t] = "releasing"
    /\ pc' = [pc EXCEPT ![t] = IF val[t] = NoValue THEN "released" ELSE "release_cas"]
    /\ UNCHANGED <<it, cas_id, localKeyLeaseMap, val, counter, lapsed, doubts>>

\* It goes on only with the value of its own process.
Compare(t) ==
    /\ pc[t] = "releasing"
    /\ pc' = [pc EXCEPT ![t] =
                IF val[t] # NoValue /\ val[t].value = localKeyLeaseMap[ProcessOf[t]]
                THEN "release_cas" ELSE "released"]
    /\ UNCHANGED <<it, cas_id, localKeyLeaseMap, val, counter, lapsed, doubts>>

\* cas to NEW_LEASE, for a second.
ReleaseCas(t, ok) ==
    /\ Replied(ok)
    /\ pc[t] = "release_cas"
    /\ \/ ItemStore("cas", NEW_LEASE, 1000)
       \/ ~ok /\ UNCHANGED <<it, cas_id>>
    /\ doubts' = IF it' = it THEN doubts
                 ELSE doubts \cup StaleCas(t, "cas", NEW_LEASE)
                             \cup (IF ok THEN {} ELSE {"lost_reply"})
    /\ pc' = [pc EXCEPT ![t] = IF ok /\ it' # it THEN "released" ELSE "delete"]
    /\ UNCHANGED <<localKeyLeaseMap, val, counter, lapsed>>

\* A cas without SUCCESS is followed by a delete of whatever is there.
Delete(t, ok) ==
    /\ Replied(ok)
    /\ pc[t] = "delete"
    /\ it' = NoItem \/ (~ok /\ it' = it)
    /\ pc' = [pc EXCEPT ![t] = "released"]
    /\ UNCHANGED <<cas_id, localKeyLeaseMap, val, counter, lapsed, doubts>>

\* acquireLease has failed or releaseLease is done: localKeyLeaseMap.remove.
RemoveLocal(t) ==
    /\ pc[t] \in {"failed", "released"}
    /\ localKeyLeaseMap' = [localKeyLeaseMap EXCEPT ![ProcessOf[t]] = NoLease]
    /\ pc' = [pc EXCEPT ![t] = "idle"]
    /\ val' = [val EXCEPT ![t] = NoValue]
    /\ UNCHANGED <<it, cas_id, counter, lapsed, doubts>>

\* A process dies with its map and all its threads.
Crash(p) ==
    /\ "crash" \in Faults
    /\ pc' = [t \in Threads |-> IF ProcessOf[t] = p THEN "crashed" ELSE pc[t]]
    /\ pc' # pc
    /\ localKeyLeaseMap' = [localKeyLeaseMap EXCEPT ![p] = NoLease]
    /\ val' = [t \in Threads |-> IF ProcessOf[t] = p THEN NoValue ELSE val[t]]
    /\ UNCHANGED <<it, cas_id, counter, lapsed, doubts>>

------------------------------------------------------------------------------
\* A call in progress, and the release of a lease that is held.
Step(t) ==
    \/ \E ok \in BOOLEAN : \/ Gets(t, ok) \/ Store(t, ok)
                           \/ ReleaseLease(t, ok) \/ ReleaseCas(t, ok) \/ Delete(t, ok)
    \/ Taken(t) \/ Compare(t) \/ RemoveLocal(t)

Next ==
    \/ \E t \in Threads : AcquireLease(t) \/ Step(t)
    \/ \E p \in Processes : Crash(p)
    \/ OtherStore \/ Expire \/ Evict

Spec == Init /\ [][Next]_vars

\* Calls return, a thread releases what it holds, and the clock of the server
\* goes on.  Nobody has to acquire.
FairSpec == Spec /\ WF_vars(Expire) /\ \A t \in Threads : WF_vars(Step(t))

------------------------------------------------------------------------------
(* Properties *)

Holds(t) == pc[t] = "holding" /\ ~lapsed[t]

\* Whoever has acquired the lease and has not outstayed it finds its own value
\* at the server, whatever other threads and processes do meanwhile, unless a
\* lease lapsed between the gets and the delete of its release, a release lost
\* the reply to its cas, or a cas stored over an item it had not read
\* (acquireLease, releaseLease).
HolderOwnsItem == doubts = {} => \A t \in Threads : Holds(t) => it.value = NewVal(t)

\* The threads of one process exclude each other even when a lease lapses: the
\* entry of localKeyLeaseMap is that of the only thread between putIfAbsent and
\* remove.
LocalExclusion ==
    \A t, u \in Threads :
        /\ ProcessOf[t] = ProcessOf[u]
        /\ pc[t] \notin {"idle", "crashed"}
        /\ pc[u] \notin {"idle", "crashed"}
        => t = u

\* Types, and the exclusion inside a process (LocalExclusion).
LeaseConsistent == TypeOK /\ LocalExclusion

==============================================================================
