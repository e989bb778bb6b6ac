------------------------------- MODULE Assoc -------------------------------
(***************************************************************************)
(* The hash table of a cache server (mc_assoc.c).  When it has grown too   *)
(* full, a table of twice the size becomes the primary one and a           *)
(* maintenance thread moves the old buckets to it, one in each hold of     *)
(* cache_lock; lookups, insertions and deletions run in between and go to  *)
(* the table that has the bucket of their key.                             *)
(*                                                                         *)
(* A bucket is the set of keys of its items.  hash_power appears as the    *)
(* number of buckets, HASHSIZE(hash_power).                                *)
(***************************************************************************)
EXTENDS Integers, FiniteSets

CONSTANTS
    Keys,
    Hash,           \* [Keys -> Nat]
    InitialSize,    \* HASHSIZE(HASH_DEFAULT_POWER)
    MayExpand       \* settings.hash_power == 0

ASSUME AssocAssumption ==
    /\ Hash \in [Keys -> Nat]
    /\ InitialSize \in Nat \ {0}
    /\ MayExpand \in BOOLEAN

VARIABLES
    primary_hashtable,
    old_hashtable,
    hashsize,       \* HASHSIZE(hash_power)
    expanding,
    expand_bucket,
    nhash_item,
    maintenance,    \* the maintenance thread: at the head of its loop, "running"
                    \* in it, "waiting" for a signal or "stopped"
    run_maintenance_thread

tables == <<primary_hashtable, old_hashtable, hashsize, expanding, expand_bucket>>
thread == <<maintenance, run_maintenance_thread>>
vars == <<primary_hashtable, old_hashtable, hashsize, expanding, expand_bucket, nhash_item, thread>>

assoc_create_table(n) == [b \in 0 .. (n - 1) |-> {}]

\* HASHSIZE(hash_power - 1)
oldsize == hashsize \div 2

oldbucket(k) == Hash[k] % oldsize
curbucket(k) == Hash[k] % hashsize

\* Mutant: takes the bucket that is moved next for moved.
InOldTableNext(k) == expanding /\ oldbucket(k) > expand_bucket

\* Does the bucket of the key still wait in the old table?
InOldTable(k) == expanding /\ oldbucket(k) >= expand_bucket

assoc_get_bucket(k) ==
    IF InOldTable(k) THEN old_hashtable[oldbucket(k)] ELSE primary_hashtable[curbucket(k)]

assoc_find(k) == k \in assoc_get_bucket(k)

Init ==
    /\ primary_hashtable = assoc_create_table(InitialSize)
    /\ old_hashtable = assoc_create_table(0)
    /\ hashsize = InitialSize
    /\ expanding = FALSE
    /\ expand_bucket = 0
    /\ nhash_item = 0
    /\ maintenance = "loop"
    /\ run_maintenance_thread = TRUE

----------------------------------------------------------------------------
pthread_cond_signal == maintenance' = IF maintenance = "waiting" THEN "loop" ELSE maintenance

assoc_expand_needed(n) == MayExpand /\ ~expanding /\ n > (hashsize * 3) \div 2

\* Mutant: the maintenance thread is not woken.
assoc_expand_silent(table) ==
    /\ old_hashtable' = table
    /\ primary_hashtable' = assoc_create_table(2 * hashsize)
    /\ hashsize' = 2 * hashsize
    /\ expanding' = TRUE
    /\ expand_bucket' = 0
    /\ UNCHANGED thread

\* "table" is the primary table after the insertion.
assoc_expand(table) ==
    /\ old_hashtable' = table
    /\ primary_hashtable' = assoc_create_table(2 * hashsize)
    /\ hashsize' = 2 * hashsize
    /\ expanding' = TRUE
    /\ expand_bucket' = 0
    /\ pthread_cond_signal
    /\ UNCHANGED run_maintenance_thread

\* Puts the key in its bucket.
Added(table, b, k) == [table EXCEPT ![b] = @ \cup {k}]
Removed(table, b, k) == [table EXCEPT ![b] = @ \ {k}]

\* An insertion that leaves the size of the table alone: no need to expand, or
\* no memory for the new table.
InsertOnly(k) ==
    /\ IF InOldTable(k)
       THEN /\ old_hashtable' = Added(old_hashtable, oldbucket(k), k)
            /\ UNCHANGED primary_hashtable
       ELSE /\ primary_hashtable' = Added(primary_hashtable, curbucket(k), k)
            /\ UNCHANGED old_hashtable
    /\ UNCHANGED <<hashsize, expanding, expand_bucket, thread>>

assoc_insert(k) ==
    /\ ~assoc_find(k)
    /\ nhash_item' = nhash_item + 1
    /\ \/ InsertOnly(k)
       \/ /\ assoc_expand_needed(nhash_item + 1)
          /\ assoc_expand(Added(primary_hashtable, curbucket(k), k))

\* Mutant: the count of items is not taken down.
assoc_delete_uncounted(k) ==
    /\ assoc_find(k)
    /\ IF InOldTable(k)
       THEN /\ old_hashtable' = Removed(old_hashtable, oldbucket(k), k)
            /\ UNCHANGED primary_hashtable
       ELSE /\ primary_hashtable' = Removed(primary_hashtable, curbucket(k), k)
            /\ UNCHANGED old_hashtable
    /\ UNCHANGED <<hashsize, expanding, expand_bucket, nhash_item, thread>>

assoc_delete(k) ==
    /\ assoc_find(k)
    /\ nhash_item' = nhash_item - 1
    /\ IF InOldTable(k)
       THEN /\ old_hashtable' = Removed(old_hashtable, oldbucket(k), k)
            /\ UNCHANGED primary_hashtable
       ELSE /\ primary_hashtable' = Removed(primary_hashtable, curbucket(k), k)
            /\ UNCHANGED old_hashtable
    /\ UNCHANGED <<hashsize, expanding, expand_bucket, thread>>

----------------------------------------------------------------------------
(* The maintenance thread.                                                 *)

\* Mutant: a bucket keeps its number in the new table.
MovedSame(b) == [primary_hashtable EXCEPT ![b] = @ \cup old_hashtable[b]]

\* The primary table with the keys of old bucket b.
Moved(b) ==
    [i \in DOMAIN primary_hashtable |->
        primary_hashtable[i] \cup {k \in old_hashtable[b] : curbucket(k) = i}]

\* Mutant: the expansion goes on for one bucket too many.
MoveBucketLate ==
    /\ maintenance = "running" /\ expanding
    /\ primary_hashtable' = Moved(expand_bucket)
    /\ expand_bucket' = expand_bucket + 1
    /\ IF expand_bucket = oldsize
       THEN /\ expanding' = FALSE
            /\ old_hashtable' = assoc_create_table(0)
            /\ maintenance' = "waiting"
       ELSE /\ old_hashtable' = [old_hashtable EXCEPT ![expand_bucket] = {}]
            /\ maintenance' = "loop"
            /\ UNCHANGED expanding
    /\ UNCHANGED <<hashsize, nhash_item, run_maintenance_thread>>

\* The while of assoc_maintenance_thread, which tests without the lock: a thread
\* that is past it goes once more through the loop after it was told to stop.
TestRun ==
    /\ maintenance = "loop"
    /\ maintenance' = IF run_maintenance_thread THEN "running" ELSE "stopped"
    /\ UNCHANGED <<tables, nhash_item, run_maintenance_thread>>

\* One hold of the lock during an expansion: the next bucket moves, and after the
\* last one the old table is freed.  The thread then waits, with the lock given
\* up, or goes round again.
MoveBucket ==
    /\ maintenance = "running" /\ expanding
    /\ primary_hashtable' = Moved(expand_bucket)
    /\ expand_bucket' = expand_bucket + 1
    /\ IF expand_bucket + 1 = oldsize
       THEN /\ expanding' = FALSE
            /\ old_hashtable' = assoc_create_table(0)
            /\ maintenance' = "waiting"
       ELSE /\ old_hashtable' = [old_hashtable EXCEPT ![expand_bucket] = {}]
            /\ maintenance' = "loop"
            /\ UNCHANGED expanding
    /\ UNCHANGED <<hashsize, nhash_item, run_maintenance_thread>>

\* A round with nothing to move.
Wait ==
    /\ maintenance = "running" /\ ~expanding
    /\ maintenance' = "waiting"
    /\ UNCHANGED <<tables, nhash_item, run_maintenance_thread>>

\* pthread_cond_wait may return without a signal.
SpuriousWakeup ==
    /\ maintenance = "waiting"
    /\ maintenance' = "loop"
    /\ UNCHANGED <<tables, nhash_item, run_maintenance_thread>>

\* The caller then waits for the thread to end.
assoc_stop_maintenance_thread ==
    /\ run_maintenance_thread
    /\ run_maintenance_thread' = FALSE
    /\ pthread_cond_signal
    /\ UNCHANGED <<tables, nhash_item>>

Next ==
    \/ \E k \in Keys : assoc_insert(k) \/ assoc_delete(k)
    \/ TestRun
    \/ MoveBucket
    \/ Wait
    \/ SpuriousWakeup
    \/ assoc_stop_maintenance_thread

Spec == Init /\ [][Next]_vars

\* The maintenance thread runs, and gets the lock again and again.
FairSpec == Spec /\ WF_vars(TestRun \/ MoveBucket)

----------------------------------------------------------------------------
(* Properties.                                                             *)

ThreadOK ==
    /\ maintenance \in {"loop", "running", "waiting", "stopped"}
    /\ run_maintenance_thread \in BOOLEAN

TypeOK ==
    /\ hashsize \in Nat \ {0}
    /\ primary_hashtable \in [0 .. (hashsize - 1) -> SUBSET Keys]
    /\ old_hashtable \in [0 .. ((IF expanding THEN oldsize ELSE 0) - 1) -> SUBSET Keys]
    /\ expanding \in BOOLEAN
    /\ expand_bucket \in Nat
    /\ expanding => expand_bucket < oldsize
    /\ nhash_item \in Int
    /\ ThreadOK

\* Every key lies where lookups go for it, and nowhere else: in its bucket of the
\* old table until that bucket has been moved, in its bucket of the primary table
\* from then on.
KeysPlaced ==
    /\ \A b \in DOMAIN primary_hashtable : \A k \in primary_hashtable[b] :
          b = curbucket(k) /\ ~InOldTable(k)
    /\ \A b \in DOMAIN old_hashtable : \A k \in old_hashtable[b] :
          b = oldbucket(k) /\ InOldTable(k)

\* nhash_item, which decides when to expand, counts the keys that can be found.
CountExact == nhash_item = Cardinality({k \in Keys : assoc_find(k)})

\* An expansion neither hides nor revives a key at any of its steps: seen through
\* assoc_find, only insertions and deletions change the set of keys.
Dictionary == INSTANCE KeySet WITH keys <- {k \in Keys : assoc_find(k)}
ImplementsKeySet == Dictionary!Spec

\* An expansion comes to its end unless the maintenance thread ends: the signal
\* of assoc_expand is not lost, whatever the thread is doing, and a thread told to
\* stop in the middle does.  (One told to stop between the test of its loop and
\* the wait, with nothing left to move, waits for ever.)
ExpansionEnds == expanding ~> (~expanding \/ maintenance = "stopped")
=============================================================================
