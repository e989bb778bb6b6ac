---------------------------- MODULE AssocProofs ----------------------------
(***************************************************************************)
(* The hash table implements a set of keys for every set of keys, every    *)
(* hash function and every initial size.                                   *)
(***************************************************************************)
EXTENDS Assoc, FiniteSetTheorems, TLAPS

\* The inductive invariant.  KeysPlaced alone says nothing of the domains of the
\* tables; TypeOK alone does not say that a lookup goes to the right one.
IInv == TypeOK /\ KeysPlaced

----------------------------------------------------------------------------
(* Arithmetic of buckets.                                                  *)

\* A hash value masked to n buckets is the number of a bucket.
LEMMA ModRange == ASSUME NEW h \in Nat, NEW n \in Nat \ {0} PROVE h % n \in 0 .. (n - 1)
  OBVIOUS

\* Twice the size, halved, is the size: assoc_expand makes the primary table the
\* old one.
LEMMA HalfOfDouble == ASSUME NEW n \in Nat \ {0} PROVE (2 * n) \div 2 = n
  OBVIOUS

\* The buckets of a key lie in the tables.
LEMMA BucketsInTables ==
  ASSUME AssocAssumption, TypeOK, NEW k \in Keys
  PROVE  /\ curbucket(k) \in DOMAIN primary_hashtable
         /\ expanding => oldbucket(k) \in DOMAIN old_hashtable
         /\ oldsize \in Nat
         /\ expanding => oldsize # 0
  <1>1. Hash[k] \in Nat BY DEF AssocAssumption
  <1>2. oldsize \in Nat /\ (expanding => oldsize # 0) BY DEF TypeOK, oldsize
  <1>3. Hash[k] % hashsize \in 0 .. (hashsize - 1) BY <1>1, ModRange DEF TypeOK
  <1>4. expanding => Hash[k] % oldsize \in 0 .. (oldsize - 1) BY <1>1, <1>2, ModRange
  <1> QED BY <1>2, <1>3, <1>4 DEF TypeOK, curbucket, oldbucket

----------------------------------------------------------------------------
(* The invariant.                                                          *)

\* The empty table of assoc_init satisfies the invariant.
LEMMA InitInv == ASSUME AssocAssumption, Init PROVE IInv
  <1>1. hashsize \in Nat \ {0} /\ ~expanding BY DEF Init, AssocAssumption
  <1>2. primary_hashtable \in [0 .. (hashsize - 1) -> SUBSET Keys] BY <1>1 DEF Init, assoc_create_table
  <1>3. old_hashtable \in [0 .. (0 - 1) -> SUBSET Keys] BY DEF Init, assoc_create_table
  <1>4. TypeOK BY <1>1, <1>2, <1>3 DEF Init, TypeOK, ThreadOK
  <1>5. KeysPlaced BY <1>1 DEF Init, KeysPlaced, assoc_create_table
  <1> QED BY <1>4, <1>5 DEF IInv

\* An insertion without an expansion.
LEMMA InsertOnlyInv ==
  ASSUME AssocAssumption, IInv, NEW k \in Keys, assoc_insert(k), InsertOnly(k)
  PROVE  IInv'
  <1> USE DEF IInv
  <1>1. UNCHANGED <<hashsize, expanding, expand_bucket>> /\ ThreadOK' BY DEF InsertOnly, thread, TypeOK, ThreadOK
  <1>2. nhash_item' \in Int BY DEF assoc_insert, TypeOK
  <1>3. \A j \in Keys : /\ curbucket(j)' = curbucket(j) /\ oldbucket(j)' = oldbucket(j)
                        /\ InOldTable(j)' = InOldTable(j)
    BY <1>1 DEF curbucket, oldbucket, oldsize, InOldTable
  <1>4. CASE InOldTable(k)
    <2>1. old_hashtable' = [old_hashtable EXCEPT ![oldbucket(k)] = @ \cup {k}] /\ primary_hashtable' = primary_hashtable
      BY <1>4 DEF InsertOnly, Added
    <2>2. oldbucket(k) \in DOMAIN old_hashtable BY <1>4, BucketsInTables DEF InOldTable
    <2>3. TypeOK' BY <1>1, <1>2, <2>1, <2>2 DEF TypeOK, oldsize
    <2>4. ASSUME NEW b \in DOMAIN old_hashtable', NEW j \in old_hashtable'[b]
          PROVE  b = oldbucket(j) /\ InOldTable(j) /\ j \in Keys
      <3>1. CASE j = k /\ b = oldbucket(k) BY <1>4, <3>1
      <3>2. CASE j \in old_hashtable[b] /\ b \in DOMAIN old_hashtable BY <3>2 DEF KeysPlaced, TypeOK
      <3> QED BY <2>1, <2>2, <2>4, <3>1, <3>2
    <2>5. \A b \in DOMAIN primary_hashtable' : \A j \in primary_hashtable'[b] : j \in Keys /\ b = curbucket(j) /\ ~InOldTable(j)
      BY <2>1 DEF KeysPlaced, TypeOK
    <2>6. KeysPlaced' BY <1>3, <2>4, <2>5 DEF KeysPlaced
    <2> QED BY <2>3, <2>6
  <1>5. CASE ~InOldTable(k)
    <2>1. primary_hashtable' = [primary_hashtable EXCEPT ![curbucket(k)] = @ \cup {k}] /\ old_hashtable' = old_hashtable
      BY <1>5 DEF InsertOnly, Added
    <2>2. curbucket(k) \in DOMAIN primary_hashtable BY BucketsInTables
    <2>3. TypeOK' BY <1>1, <1>2, <2>1, <2>2 DEF TypeOK, oldsize
    <2>4. ASSUME NEW b \in DOMAIN primary_hashtable', NEW j \in primary_hashtable'[b]
          PROVE  b = curbucket(j) /\ ~InOldTable(j) /\ j \in Keys
      <3>1. CASE j = k /\ b = curbucket(k) BY <1>5, <3>1
      <3>2. CASE j \in primary_hashtable[b] /\ b \in DOMAIN primary_hashtable BY <3>2 DEF KeysPlaced, TypeOK
      <3> QED BY <2>1, <2>2, <2>4, <3>1, <3>2
    <2>5. \A b \in DOMAIN old_hashtable' : \A j \in old_hashtable'[b] : j \in Keys /\ b = oldbucket(j) /\ InOldTable(j)
      BY <2>1 DEF KeysPlaced, TypeOK
    <2>6. KeysPlaced' BY <1>3, <2>4, <2>5 DEF KeysPlaced
    <2> QED BY <2>3, <2>6
  <1> QED BY <1>4, <1>5

\* An insertion that starts an expansion: every key lies in the old table, none
\* of whose buckets has been moved.
LEMMA ExpandInv ==
  ASSUME AssocAssumption, IInv, NEW k \in Keys, assoc_insert(k),
         assoc_expand_needed(nhash_item + 1),
         assoc_expand(Added(primary_hashtable, curbucket(k), k))
  PROVE  IInv'
  <1> USE DEF IInv
  <1>1. ~expanding /\ ~InOldTable(k) BY DEF assoc_expand_needed, InOldTable
  <1>2. /\ old_hashtable' = [primary_hashtable EXCEPT ![curbucket(k)] = @ \cup {k}]
        /\ primary_hashtable' = [b \in 0 .. (2 * hashsize - 1) |-> {}]
        /\ hashsize' = 2 * hashsize /\ expanding' = TRUE /\ expand_bucket' = 0
    BY DEF assoc_expand, Added, assoc_create_table
  <1>3. hashsize \in Nat \ {0} /\ oldsize' = hashsize BY <1>2, HalfOfDouble DEF TypeOK, oldsize
  <1>4. ThreadOK' BY DEF assoc_expand, pthread_cond_signal, TypeOK, ThreadOK
  <1>5. nhash_item' \in Int BY DEF assoc_insert, TypeOK
  <1>6. curbucket(k) \in DOMAIN primary_hashtable BY BucketsInTables
  <1>7. primary_hashtable \in [0 .. (hashsize - 1) -> SUBSET Keys] BY DEF TypeOK
  <1>8. old_hashtable' \in [0 .. (hashsize - 1) -> SUBSET Keys] BY <1>2, <1>6, <1>7
  <1>9. TypeOK' BY <1>2, <1>3, <1>4, <1>5, <1>8 DEF TypeOK
  <1>10. ASSUME NEW j \in Keys PROVE oldbucket(j)' = curbucket(j) /\ InOldTable(j)'
    <2>1. Hash[j] % hashsize \in 0 .. (hashsize - 1) BY <1>3, ModRange DEF AssocAssumption
    <2>2. oldbucket(j)' = curbucket(j) BY <1>3 DEF oldbucket, curbucket
    <2> QED BY <1>2, <2>1, <2>2 DEF InOldTable, curbucket
  <1>11. \A b \in DOMAIN old_hashtable' : \A j \in old_hashtable'[b] : j \in Keys /\ b = curbucket(j)
    BY <1>2, <1>6, <1>7 DEF KeysPlaced
  <1>12. KeysPlaced' BY <1>2, <1>10, <1>11 DEF KeysPlaced
  <1> QED BY <1>9, <1>12

\* A step that leaves every key its buckets and takes keys out of the tables at
\* most leaves the others where they belong.
LEMMA PlacementKept ==
  ASSUME IInv,
         \A j \in Keys : /\ curbucket(j)' = curbucket(j) /\ oldbucket(j)' = oldbucket(j)
                        /\ InOldTable(j)' = InOldTable(j),
         DOMAIN primary_hashtable' = DOMAIN primary_hashtable,
         DOMAIN old_hashtable' = DOMAIN old_hashtable,
         \A b \in DOMAIN primary_hashtable : primary_hashtable'[b] \subseteq primary_hashtable[b],
         \A b \in DOMAIN old_hashtable : old_hashtable'[b] \subseteq old_hashtable[b]
  PROVE  KeysPlaced'
  <1>1. ASSUME NEW b \in DOMAIN primary_hashtable, NEW j \in primary_hashtable'[b]
        PROVE  b = curbucket(j)' /\ ~InOldTable(j)'
    <2>1. j \in primary_hashtable[b] OBVIOUS
    <2>2. j \in Keys BY <2>1 DEF IInv, TypeOK
    <2>3. b = curbucket(j) /\ ~InOldTable(j) BY <2>1 DEF IInv, KeysPlaced
    <2> QED BY <2>2, <2>3
  <1>2. ASSUME NEW b \in DOMAIN old_hashtable, NEW j \in old_hashtable'[b]
        PROVE  b = oldbucket(j)' /\ InOldTable(j)'
    <2>1. j \in old_hashtable[b] OBVIOUS
    <2>2. j \in Keys BY <2>1 DEF IInv, TypeOK
    <2>3. b = oldbucket(j) /\ InOldTable(j) BY <2>1 DEF IInv, KeysPlaced
    <2> QED BY <2>2, <2>3
  <1> QED BY <1>1, <1>2 DEF KeysPlaced

\* A deletion takes the key out of the bucket where it lies.
LEMMA DeleteInv ==
  ASSUME AssocAssumption, IInv, NEW k \in Keys, assoc_delete(k)
  PROVE  IInv'
  <1> USE DEF IInv
  <1>1. UNCHANGED <<hashsize, expanding, expand_bucket>> /\ ThreadOK' BY DEF assoc_delete, thread, TypeOK, ThreadOK
  <1>2. nhash_item' \in Int BY DEF assoc_delete, TypeOK
  <1>3. \A j \in Keys : /\ curbucket(j)' = curbucket(j) /\ oldbucket(j)' = oldbucket(j)
                        /\ InOldTable(j)' = InOldTable(j)
    BY <1>1 DEF curbucket, oldbucket, oldsize, InOldTable
  <1>4. CASE InOldTable(k)
    <2>1. old_hashtable' = [old_hashtable EXCEPT ![oldbucket(k)] = @ \ {k}] /\ primary_hashtable' = primary_hashtable
      BY <1>4 DEF assoc_delete, Removed
    <2>2. oldbucket(k) \in DOMAIN old_hashtable BY <1>4, BucketsInTables DEF InOldTable
    <2>3. TypeOK' BY <1>1, <1>2, <2>1, <2>2 DEF TypeOK, oldsize
    <2>4. DOMAIN old_hashtable' = DOMAIN old_hashtable BY <2>1
    <2>5. \A b \in DOMAIN old_hashtable : old_hashtable'[b] \subseteq old_hashtable[b] BY <2>1, <2>2
    <2>6. KeysPlaced' BY <1>3, <2>1, <2>4, <2>5, PlacementKept
    <2> QED BY <2>3, <2>6
  <1>5. CASE ~InOldTable(k)
    <2>1. primary_hashtable' = [primary_hashtable EXCEPT ![curbucket(k)] = @ \ {k}] /\ old_hashtable' = old_hashtable
      BY <1>5 DEF assoc_delete, Removed
    <2>2. curbucket(k) \in DOMAIN primary_hashtable BY BucketsInTables
    <2>3. TypeOK' BY <1>1, <1>2, <2>1, <2>2 DEF TypeOK, oldsize
    <2>4. DOMAIN primary_hashtable' = DOMAIN primary_hashtable BY <2>1
    <2>5. \A b \in DOMAIN primary_hashtable : primary_hashtable'[b] \subseteq primary_hashtable[b] BY <2>1, <2>2
    <2>6. KeysPlaced' BY <1>3, <2>1, <2>4, <2>5, PlacementKept
    <2> QED BY <2>3, <2>6
  <1> QED BY <1>4, <1>5

\* What a move does to the buckets: the keys of the moved bucket change tables,
\* the others stay.
LEMMA MoveBucketInv ==
  ASSUME AssocAssumption, IInv, MoveBucket
  PROVE  IInv'
  <1> USE DEF IInv
  <1> DEFINE b0 == expand_bucket
  <1>1. /\ expanding /\ hashsize' = hashsize /\ nhash_item' = nhash_item
        /\ b0 \in Nat /\ b0 < oldsize /\ expand_bucket' = b0 + 1
        /\ oldsize \in Nat \ {0} /\ oldsize' = oldsize
    BY DEF MoveBucket, TypeOK, oldsize
  <1>2. primary_hashtable' = [i \in 0 .. (hashsize - 1) |->
                                 primary_hashtable[i] \cup {k \in old_hashtable[b0] : curbucket(k) = i}]
    BY DEF MoveBucket, Moved, TypeOK
  <1>3. b0 \in 0 .. (oldsize - 1) /\ old_hashtable \in [0 .. (oldsize - 1) -> SUBSET Keys]
    BY <1>1 DEF TypeOK
  <1>4. primary_hashtable' \in [0 .. (hashsize - 1) -> SUBSET Keys] BY <1>2, <1>3 DEF TypeOK
  <1>5. \A j \in Keys : curbucket(j)' = curbucket(j) /\ oldbucket(j)' = oldbucket(j)
    BY <1>1 DEF curbucket, oldbucket
  <1>6. \A j \in Keys : oldbucket(j) \in 0 .. (oldsize - 1) BY <1>1, ModRange DEF AssocAssumption, oldbucket
  <1>7. \A j \in Keys : InOldTable(j) <=> oldbucket(j) >= b0 BY <1>1 DEF InOldTable
  <1>8. \A j \in Keys : InOldTable(j)' <=> expanding' /\ oldbucket(j) >= b0 + 1
    BY <1>1, <1>5 DEF InOldTable
  <1>9. ASSUME NEW i \in DOMAIN primary_hashtable', NEW j \in primary_hashtable'[i]
        PROVE  i = curbucket(j)' /\ ~InOldTable(j)'
    <2>1. j \in Keys /\ i \in 0 .. (hashsize - 1) BY <1>2, <1>4
    <2>2. CASE j \in primary_hashtable[i]
      <3>1. i = curbucket(j) /\ ~InOldTable(j) BY <2>1, <2>2 DEF KeysPlaced, TypeOK
      <3> QED BY <1>1, <1>5, <1>6, <1>7, <1>8, <2>1, <3>1
    <2>3. CASE j \in old_hashtable[b0] /\ curbucket(j) = i
      <3>1. b0 = oldbucket(j) BY <1>3, <2>3 DEF KeysPlaced
      <3> QED BY <1>1, <1>5, <1>8, <2>1, <2>3, <3>1
    <2> QED BY <1>2, <2>1, <2>2, <2>3
  <1>10. CASE b0 + 1 = oldsize
    <2>1. expanding' = FALSE /\ old_hashtable' = assoc_create_table(0) 
      BY <1>10 DEF MoveBucket
    <2>2. old_hashtable' \in [0 .. (0 - 1) -> SUBSET Keys] BY <2>1 DEF assoc_create_table
    <2>3. old_hashtable' \in [0 .. ((IF expanding' THEN oldsize' ELSE 0) - 1) -> SUBSET Keys]
      BY <2>1, <2>2, Zenon
    <2>4. /\ hashsize' \in Nat \ {0} /\ expand_bucket' \in Nat /\ nhash_item' \in Int
          /\ ThreadOK' /\ expanding' \in BOOLEAN
      <3>1. hashsize' \in Nat \ {0} BY <1>1 DEF TypeOK
      <3>2. expand_bucket' \in Nat BY <1>1
      <3>3. nhash_item' \in Int BY <1>1 DEF TypeOK
      <3>4. ThreadOK' BY DEF MoveBucket, TypeOK, ThreadOK
      <3>5. expanding' \in BOOLEAN BY <2>1
      <3> QED BY <3>1, <3>2, <3>3, <3>4, <3>5
    <2>5. TypeOK' BY <1>1, <1>4, <2>1, <2>3, <2>4 DEF TypeOK
    <2>6. KeysPlaced' BY <1>9, <2>1 DEF KeysPlaced, assoc_create_table
    <2> QED BY <2>5, <2>6
  <1>11. CASE b0 + 1 # oldsize
    <2>1. /\ expanding' = expanding /\ ThreadOK'
          /\ old_hashtable' = [old_hashtable EXCEPT ![b0] = {}]
      BY <1>11 DEF MoveBucket, TypeOK, ThreadOK
    <2>2. TypeOK' BY <1>1, <1>3, <1>4, <1>11, <2>1 DEF TypeOK
    <2>3. ASSUME NEW i \in DOMAIN old_hashtable', NEW j \in old_hashtable'[i]
          PROVE  i = oldbucket(j)' /\ InOldTable(j)'
      <3>1. i # b0 /\ i \in DOMAIN old_hashtable /\ j \in old_hashtable[i] /\ j \in Keys
        BY <1>3, <2>1, <2>3
      <3>2. i = oldbucket(j) /\ InOldTable(j) BY <3>1 DEF KeysPlaced
      <3> QED BY <1>1, <1>5, <1>6, <1>7, <1>8, <2>1, <3>1, <3>2
    <2>4. KeysPlaced' BY <1>9, <2>3 DEF KeysPlaced
    <2> QED BY <2>2, <2>4
  <1> QED BY <1>10, <1>11

\* The steps of the maintenance thread that move nothing, and stuttering.
LEMMA OtherInv ==
  ASSUME AssocAssumption, IInv, UNCHANGED <<tables, nhash_item>>, ThreadOK'
  PROVE  IInv'
  BY DEF IInv, TypeOK, KeysPlaced, tables, oldsize, curbucket, oldbucket, InOldTable

\* One step of a worker or of the maintenance thread.
LEMMA StepInv == ASSUME AssocAssumption, IInv, [Next]_vars PROVE IInv'
  <1>1. ASSUME NEW k \in Keys, assoc_insert(k) PROVE IInv'
    <2>1. CASE InsertOnly(k) BY <1>1, <2>1, InsertOnlyInv
    <2>2. CASE assoc_expand_needed(nhash_item + 1) /\ assoc_expand(Added(primary_hashtable, curbucket(k), k))
      BY <1>1, <2>2, ExpandInv
    <2> QED BY <1>1, <2>1, <2>2 DEF assoc_insert
  <1>2. ASSUME NEW k \in Keys, assoc_delete(k) PROVE IInv' BY <1>2, DeleteInv
  <1>3. CASE MoveBucket BY <1>3, MoveBucketInv
  <1>4. ThreadOK BY DEF IInv, TypeOK
  <1>5. CASE TestRun BY <1>4, <1>5, OtherInv DEF TestRun, ThreadOK
  <1>6. CASE Wait BY <1>4, <1>6, OtherInv DEF Wait, ThreadOK
  <1>7. CASE SpuriousWakeup BY <1>4, <1>7, OtherInv DEF SpuriousWakeup, ThreadOK
  <1>8. CASE assoc_stop_maintenance_thread
    BY <1>4, <1>8, OtherInv DEF assoc_stop_maintenance_thread, pthread_cond_signal, ThreadOK
  <1>9. CASE UNCHANGED vars BY <1>4, <1>9, OtherInv DEF vars, tables, thread, ThreadOK
  <1> QED BY <1>1, <1>2, <1>3, <1>5, <1>6, <1>7, <1>8, <1>9 DEF Next

\* The tables and their bookkeeping keep their types; in particular the bucket
\* that moves next is one of the old table while there is one.
THEOREM TypeCorrect == Spec => []TypeOK
  <1>1. Init => IInv BY InitInv, AssocAssumption
  <1>2. IInv /\ [Next]_vars => IInv' BY StepInv, AssocAssumption
  <1>3. IInv => TypeOK BY DEF IInv
  <1> QED BY <1>1, <1>2, <1>3, PTL DEF Spec

\* Every key lies where lookups go for it and nowhere else.
THEOREM Placement == Spec => []KeysPlaced
  <1>1. Init => IInv BY InitInv, AssocAssumption
  <1>2. IInv /\ [Next]_vars => IInv' BY StepInv, AssocAssumption
  <1>3. IInv => KeysPlaced BY DEF IInv
  <1> QED BY <1>1, <1>2, <1>3, PTL DEF Spec

----------------------------------------------------------------------------
(* The refinement.                                                         *)

Found == {k \in Keys : assoc_find(k)}

\* When the sizes and the progress of the expansion stay, so do the buckets in
\* which keys are looked up.
LEMMA SameBuckets ==
  ASSUME UNCHANGED <<hashsize, expanding, expand_bucket>>, NEW j \in Keys
  PROVE  /\ curbucket(j)' = curbucket(j) /\ oldbucket(j)' = oldbucket(j)
         /\ InOldTable(j)' = InOldTable(j)
  BY DEF curbucket, oldbucket, oldsize, InOldTable

\* After an insertion lookups find the new key and those they found before.
LEMMA InsertOnlyFinds ==
  ASSUME AssocAssumption, IInv, NEW k \in Keys, InsertOnly(k)
  PROVE  Found' = Found \cup {k}
  <1>1. UNCHANGED <<hashsize, expanding, expand_bucket>> BY DEF InsertOnly
  <1>2. ASSUME NEW j \in Keys PROVE assoc_find(j)' <=> assoc_find(j) \/ j = k
    <2>1. /\ curbucket(j) \in DOMAIN primary_hashtable /\ curbucket(k) \in DOMAIN primary_hashtable
          /\ InOldTable(j) => oldbucket(j) \in DOMAIN old_hashtable
          /\ InOldTable(k) => oldbucket(k) \in DOMAIN old_hashtable
      BY BucketsInTables DEF IInv, InOldTable
    <2>2. CASE InOldTable(k)
      <3>1. old_hashtable' = [old_hashtable EXCEPT ![oldbucket(k)] = @ \cup {k}] /\ primary_hashtable' = primary_hashtable
        BY <2>2 DEF InsertOnly, Added
      <3> QED BY <1>1, <2>1, <2>2, <3>1, SameBuckets DEF assoc_find, assoc_get_bucket
    <2>3. CASE ~InOldTable(k)
      <3>1. primary_hashtable' = [primary_hashtable EXCEPT ![curbucket(k)] = @ \cup {k}] /\ old_hashtable' = old_hashtable
        BY <2>3 DEF InsertOnly, Added
      <3> QED BY <1>1, <2>1, <2>3, <3>1, SameBuckets DEF assoc_find, assoc_get_bucket
    <2> QED BY <2>2, <2>3
  <1> QED BY <1>2 DEF Found

\* So they do when the insertion starts an expansion.
LEMMA ExpandFinds ==
  ASSUME AssocAssumption, IInv, NEW k \in Keys,
         assoc_expand_needed(nhash_item + 1),
         assoc_expand(Added(primary_hashtable, curbucket(k), k))
  PROVE  Found' = Found \cup {k}
  <1>1. ~expanding BY DEF assoc_expand_needed
  <1>2. /\ old_hashtable' = [primary_hashtable EXCEPT ![curbucket(k)] = @ \cup {k}]
        /\ hashsize' = 2 * hashsize /\ expanding' = TRUE /\ expand_bucket' = 0
    BY DEF assoc_expand, Added
  <1>3. hashsize \in Nat \ {0} /\ oldsize' = hashsize BY <1>2, HalfOfDouble DEF IInv, TypeOK, oldsize
  <1>4. ASSUME NEW j \in Keys PROVE assoc_find(j)' <=> assoc_find(j) \/ j = k
    <2>1. curbucket(j) \in DOMAIN primary_hashtable /\ curbucket(k) \in DOMAIN primary_hashtable
      BY BucketsInTables DEF IInv
    <2>2. oldbucket(j)' = curbucket(j) BY <1>3 DEF oldbucket, curbucket
    <2>3. Hash[j] % hashsize \in 0 .. (hashsize - 1) BY <1>3, ModRange DEF AssocAssumption
    <2>4. InOldTable(j)' BY <1>2, <2>2, <2>3 DEF InOldTable, curbucket
    <2>5. assoc_find(j)' <=> j \in old_hashtable'[curbucket(j)]
      BY <2>2, <2>4 DEF assoc_find, assoc_get_bucket
    <2>6. assoc_find(j) <=> j \in primary_hashtable[curbucket(j)]
      BY <1>1 DEF assoc_find, assoc_get_bucket, InOldTable
    <2> QED BY <1>2, <2>1, <2>5, <2>6
  <1> QED BY <1>4 DEF Found

\* After a deletion lookups find every other key that they found before.
LEMMA DeleteFinds ==
  ASSUME AssocAssumption, IInv, NEW k \in Keys, assoc_delete(k)
  PROVE  Found' = Found \ {k}
  <1>1. UNCHANGED <<hashsize, expanding, expand_bucket>> BY DEF assoc_delete
  <1>2. ASSUME NEW j \in Keys PROVE assoc_find(j)' <=> assoc_find(j) /\ j # k
    <2>1. /\ curbucket(j) \in DOMAIN primary_hashtable /\ curbucket(k) \in DOMAIN primary_hashtable
          /\ InOldTable(j) => oldbucket(j) \in DOMAIN old_hashtable
          /\ InOldTable(k) => oldbucket(k) \in DOMAIN old_hashtable
      BY BucketsInTables DEF IInv, InOldTable
    <2>2. CASE InOldTable(k)
      <3>1. old_hashtable' = [old_hashtable EXCEPT ![oldbucket(k)] = @ \ {k}] /\ primary_hashtable' = primary_hashtable
        BY <2>2 DEF assoc_delete, Removed
      <3> QED BY <1>1, <2>1, <2>2, <3>1, SameBuckets DEF assoc_find, assoc_get_bucket
    <2>3. CASE ~InOldTable(k)
      <3>1. primary_hashtable' = [primary_hashtable EXCEPT ![curbucket(k)] = @ \ {k}] /\ old_hashtable' = old_hashtable
        BY <2>3 DEF assoc_delete, Removed
      <3> QED BY <1>1, <2>1, <2>3, <3>1, SameBuckets DEF assoc_find, assoc_get_bucket
    <2> QED BY <2>2, <2>3
  <1> QED BY <1>2 DEF Found

\* A moved bucket takes its keys with it: a key is found after the step exactly
\* when it was found before.  Here KeysPlaced is needed: a key that lay in a
\* bucket of the primary table too early would appear.
LEMMA MoveBucketFinds ==
  ASSUME AssocAssumption, IInv, MoveBucket
  PROVE  Found' = Found
  <1> DEFINE b0 == expand_bucket
  <1>1. /\ expanding /\ hashsize' = hashsize
        /\ b0 \in Nat /\ b0 < oldsize /\ expand_bucket' = b0 + 1
        /\ oldsize \in Nat \ {0} /\ oldsize' = oldsize
    BY DEF MoveBucket, IInv, TypeOK, oldsize
  <1>2. primary_hashtable' = [i \in 0 .. (hashsize - 1) |->
                                 primary_hashtable[i] \cup {k \in old_hashtable[b0] : curbucket(k) = i}]
    BY DEF MoveBucket, Moved, IInv, TypeOK
  <1>3. b0 \in 0 .. (oldsize - 1) /\ old_hashtable \in [0 .. (oldsize - 1) -> SUBSET Keys]
    BY <1>1 DEF IInv, TypeOK
  <1>4. expanding' => b0 + 1 # oldsize /\ old_hashtable' = [old_hashtable EXCEPT ![b0] = {}]
    BY DEF MoveBucket
  <1>5. ~expanding' => b0 + 1 = oldsize BY <1>1 DEF MoveBucket
  <1>6. ASSUME NEW j \in Keys PROVE assoc_find(j)' <=> assoc_find(j)
    <2>1. curbucket(j)' = curbucket(j) /\ oldbucket(j)' = oldbucket(j) BY <1>1 DEF curbucket, oldbucket
    <2>2. curbucket(j) \in 0 .. (hashsize - 1) /\ oldbucket(j) \in 0 .. (oldsize - 1)
      BY <1>1, ModRange DEF AssocAssumption, curbucket, oldbucket, IInv, TypeOK
    <2>3. CASE oldbucket(j) >= b0 + 1
      <3>1. expanding' /\ InOldTable(j)' /\ InOldTable(j)
        BY <1>1, <1>5, <2>1, <2>2, <2>3 DEF InOldTable
      <3> QED BY <1>1, <1>3, <1>4, <2>1, <2>2, <2>3, <3>1 DEF assoc_find, assoc_get_bucket
    <2>4. CASE oldbucket(j) = b0
      <3>1. ~InOldTable(j)' /\ InOldTable(j) BY <1>1, <2>1, <2>4 DEF InOldTable
      <3>2. j \notin primary_hashtable[curbucket(j)] BY <2>2, <3>1 DEF IInv, KeysPlaced, TypeOK
      <3>3. assoc_find(j)' <=> j \in primary_hashtable'[curbucket(j)]
        BY <2>1, <3>1 DEF assoc_find, assoc_get_bucket
      <3>4. assoc_find(j) <=> j \in old_hashtable[b0]
        BY <2>4, <3>1 DEF assoc_find, assoc_get_bucket
      <3> QED BY <1>2, <2>2, <3>2, <3>3, <3>4
    <2>5. CASE oldbucket(j) < b0
      <3>1. ~InOldTable(j)' /\ ~InOldTable(j) BY <1>1, <2>1, <2>2, <2>5 DEF InOldTable
      <3>2. assoc_find(j)' <=> j \in primary_hashtable'[curbucket(j)]
        BY <2>1, <3>1 DEF assoc_find, assoc_get_bucket
      <3>3. assoc_find(j) <=> j \in primary_hashtable[curbucket(j)]
        BY <3>1 DEF assoc_find, assoc_get_bucket
      <3>4. j \notin old_hashtable[b0] BY <1>3, <2>5, <2>2 DEF IInv, KeysPlaced
      <3> QED BY <1>2, <2>2, <3>2, <3>3, <3>4
    <2> QED BY <1>1, <2>2, <2>3, <2>4, <2>5
  <1> QED BY <1>6 DEF Found

\* What lookups find depends on the tables and their bookkeeping alone.
LEMMA OtherFinds ==
  ASSUME UNCHANGED tables
  PROVE  Found' = Found
  BY DEF Found, tables, assoc_find, assoc_get_bucket, oldsize, curbucket, oldbucket, InOldTable

\* The hash table implements a set of keys: whatever the hash function and
\* however lookups, insertions, deletions and expansions interleave, assoc_find
\* answers as a set would that only insertions and deletions change.
THEOREM Refinement == Spec => ImplementsKeySet
  <1>1. Init => Found = {} BY AssocAssumption
          DEF Init, Found, assoc_find, assoc_get_bucket, InOldTable, assoc_create_table, curbucket
  <1>2. Init => Dictionary!Init BY <1>1 DEF Dictionary!Init, Found
  <1>3. ASSUME IInv, [Next]_vars PROVE [Dictionary!Next]_Found
    <2>1. ASSUME NEW k \in Keys, assoc_insert(k) PROVE Dictionary!Insert(k)
      <3>1. k \notin Found BY <2>1 DEF assoc_insert, Found
      <3>2. Found' = Found \cup {k}
        BY <1>3, <2>1, AssocAssumption, InsertOnlyFinds, ExpandFinds DEF assoc_insert
      <3> QED BY <3>1, <3>2 DEF Dictionary!Insert, Found
    <2>2. ASSUME NEW k \in Keys, assoc_delete(k) PROVE Dictionary!Delete(k)
      <3>1. k \in Found BY <2>2 DEF assoc_delete, Found
      <3>2. Found' = Found \ {k} BY <1>3, <2>2, AssocAssumption, DeleteFinds
      <3> QED BY <3>1, <3>2 DEF Dictionary!Delete, Found
    <2>3. CASE MoveBucket BY <1>3, <2>3, AssocAssumption, MoveBucketFinds
    <2>4. CASE UNCHANGED tables BY <2>4, OtherFinds
    <2>5. CASE UNCHANGED vars BY <2>5, OtherFinds DEF vars, tables
    <2> QED BY <1>3, <2>1, <2>2, <2>3, <2>4, <2>5
          DEF Next, TestRun, Wait, SpuriousWakeup, assoc_stop_maintenance_thread, Dictionary!Next
  <1>4. Init => IInv BY InitInv, AssocAssumption
  <1>5. IInv /\ [Next]_vars => IInv' BY StepInv, AssocAssumption
  <1>6. IInv /\ [Next]_vars => [Dictionary!Next]_Found BY <1>3
  <1> QED BY <1>2, <1>4, <1>5, <1>6, PTL DEF Spec, ImplementsKeySet, Dictionary!Spec, Found

----------------------------------------------------------------------------
(* The count of items.                                                     *)

\* Only finitely many keys are ever in the table, also when Keys is infinite.
CountInv == IsFiniteSet(Found) /\ nhash_item = Cardinality(Found)

\* nhash_item is the number of the keys that lookups find, at every step of every
\* expansion: an insertion is refused for a key that is there, and a moved bucket
\* neither loses nor doubles one.
THEOREM Counting == Spec => []CountExact
  <1>1. Init => IInv BY InitInv, AssocAssumption
  <1>2. IInv /\ [Next]_vars => IInv' BY StepInv, AssocAssumption
  <1>3. ASSUME Init PROVE CountInv
    <2>1. Found = {} BY <1>3, AssocAssumption
            DEF Init, Found, assoc_find, assoc_get_bucket, InOldTable, assoc_create_table, curbucket
    <2> QED BY <1>3, <2>1, FS_EmptySet DEF CountInv, Init
  <1>4. ASSUME IInv, CountInv, [Next]_vars PROVE CountInv'
    <2>1. ASSUME NEW k \in Keys, assoc_insert(k) PROVE CountInv'
      <3>1. k \notin Found /\ nhash_item' = nhash_item + 1 BY <2>1 DEF assoc_insert, Found
      <3>2. Found' = Found \cup {k}
        BY <1>4, <2>1, AssocAssumption, InsertOnlyFinds, ExpandFinds DEF assoc_insert
      <3> QED BY <1>4, <3>1, <3>2, FS_AddElement DEF CountInv
    <2>2. ASSUME NEW k \in Keys, assoc_delete(k) PROVE CountInv'
      <3>1. k \in Found /\ nhash_item' = nhash_item - 1 BY <2>2 DEF assoc_delete, Found
      <3>2. Found' = Found \ {k} BY <1>4, <2>2, AssocAssumption, DeleteFinds
      <3> QED BY <1>4, <3>1, <3>2, FS_RemoveElement DEF CountInv
    <2>3. CASE MoveBucket
      BY <1>4, <2>3, AssocAssumption, MoveBucketFinds DEF CountInv, MoveBucket
    <2>4. CASE UNCHANGED <<tables, nhash_item>> BY <1>4, <2>4, OtherFinds DEF CountInv
    <2>5. CASE UNCHANGED vars BY <1>4, <2>5, OtherFinds DEF CountInv, vars, tables
    <2> QED BY <1>4, <2>1, <2>2, <2>3, <2>4, <2>5
          DEF Next, TestRun, Wait, SpuriousWakeup, assoc_stop_maintenance_thread
  <1>5. IInv /\ CountInv /\ [Next]_vars => CountInv' BY <1>4
  <1>6. CountInv => CountExact BY DEF CountInv, CountExact, Found
  <1> QED BY <1>1, <1>2, <1>3, <1>5, <1>6, PTL DEF Spec
=============================================================================
