------------------------ MODULE MemcachedLeaseProofs ------------------------
(***************************************************************************)
(* Exclusion by MemcachedLease, for any threads and processes, any number  *)
(* of calls, any timeouts and whichever of the failures may happen.        *)
(***************************************************************************)
EXTENDS MemcachedLease, TLAPS

\* Between putIfAbsent and remove a thread has the entry of its process.
Active(t) == pc[t] \notin {"idle", "crashed"}

LocalInv == \A t \in Threads : Active(t) => localKeyLeaseMap[ProcessOf[t]] = NewVal(t)

\* A cas id is given once: a thread that has read the id of the item has read
\* the item.
CasInv ==
    /\ it.cas_id <= cas_id
    /\ it # NoItem => it.cas_id > 0
    /\ \A t \in Threads :
          /\ val[t].cas_id <= cas_id
          /\ it # NoItem /\ val[t].cas_id = it.cas_id => val[t] = CASValue(it)

\* A release that has found its own lease at the server acts on that lease.
Own(t) == val[t].value = NewVal(t)

ReleaseInv ==
    \A t \in Threads :
        /\ pc[t] \in {"release_cas", "delete"} => Own(t)
        /\ pc[t] \in {"releasing", "release_cas", "delete"} /\ Own(t) /\ doubts = {}
              => val[t] = CASValue(it)

\* HolderOwnsItem needs ReleaseInv, for the delete of another thread, and CasInv,
\* for its cas; both need LocalInv, since releaseLease compares with the entry of
\* the process.
IInv == TypeOK /\ LocalInv /\ CasInv /\ ReleaseInv /\ HolderOwnsItem

----------------------------------------------------------------------------
(* Values of leases.                                                       *)

\* The value of an active thread is a lease, and of no other thread.
LEMMA LeaseOfActive ==
    ASSUME TypeOK, LocalInv, NEW t \in Threads, Active(t)
    PROVE  NewVal(t) \in LeaseValues /\ NewVal(t) # NEW_LEASE
<1>1. localKeyLeaseMap[ProcessOf[t]] = NewVal(t)
  BY DEF LocalInv
<1>2. localKeyLeaseMap[ProcessOf[t]] \in LeaseValues
  BY ProcessOfAssumption DEF TypeOK
<1> QED
  BY <1>1, <1>2 DEF NewVal, NEW_LEASE

\* The values of two threads differ: they name their thread.
LEMMA LeasesDiffer ==
    ASSUME NEW t \in Threads, NEW u \in Threads, NewVal(t) = NewVal(u)
    PROVE  t = u
BY DEF NewVal

\* No item reads as a free key.
LEMMA NoItemFacts ==
    /\ NoItem \in Items /\ NoItem.value = NEW_LEASE /\ NoItem.cas_id = 0
    /\ NoValue = [value |-> NEW_LEASE, cas_id |-> 0]
BY DEF NoItem, Items, NoValue, CASValue, LeaseValues

\* A thread that has read its own lease, and the item as it is now, owns the item.
LEMMA OwnRead ==
    ASSUME NEW t \in Threads, val[t] = CASValue(it), Own(t)
    PROVE  it.value = NewVal(t)
BY DEF CASValue, Own

\* What gets returns is a value with its cas id.
LEMMA CASValueType ==
    ASSUME TypeOK
    PROVE  /\ CASValue(it) \in [value : LeaseValues, cas_id : Nat]
           /\ NoValue \in [value : LeaseValues, cas_id : Nat]
           /\ CASValue(it).value = it.value /\ CASValue(it).cas_id = it.cas_id
BY NoItemFacts DEF TypeOK, Items, CASValue, LeaseValues

\* A store by cas either is in doubt or replaces the item its client has read.
LEMMA CasOwnItem ==
    ASSUME CasInv, NEW t \in Threads, NEW value, Stores("cas", value),
           StaleCas(t, "cas", value) = {}
    PROVE  val[t] = CASValue(it)
BY DEF CasInv, Stores, StaleCas

----------------------------------------------------------------------------
(* Steps that leave the item alone.                                        *)

\* At first the key is free and no thread is at work.
LEMMA InitInv == ASSUME Init PROVE IInv
<1>1. TypeOK
  BY NoItemFacts, BoundsAssumption DEF Init, TypeOK, LeaseValues, NoLease, NEW_LEASE
<1>2. LocalInv /\ ReleaseInv /\ HolderOwnsItem
  BY DEF Init, LocalInv, Active, ReleaseInv, HolderOwnsItem, Holds
<1>3. CasInv
  BY NoItemFacts, BoundsAssumption DEF Init, CasInv
<1> QED
  BY <1>1, <1>2, <1>3 DEF IInv

\* acquireLease looks in the map of its process, and enters it if it is empty.
LEMMA AcquireLeaseInv ==
    ASSUME IInv, NEW t \in Threads, AcquireLease(t) PROVE IInv'
<1> USE DEF IInv
<1>1. /\ counter[t] + 1 \in 0 .. MaxAcquires
      /\ counter' \in [Threads -> 0 .. MaxAcquires]
      /\ counter' = [counter EXCEPT ![t] = @ + 1]
      /\ counter'[t] = counter[t] + 1
      /\ <<t, counter'[t]>> \in LeaseValues
      /\ lapsed' = [lapsed EXCEPT ![t] = FALSE]
      /\ pc[t] = "idle"
      /\ UNCHANGED <<it, cas_id, val, doubts>>
  BY BoundsAssumption DEF TypeOK, AcquireLease, LeaseValues
<1>2. TypeOK' /\ LocalInv'
  <2>1. CASE localKeyLeaseMap[ProcessOf[t]] = NoLease
    <3>1. /\ localKeyLeaseMap' = [localKeyLeaseMap EXCEPT ![ProcessOf[t]] = <<t, counter'[t]>>]
          /\ pc' = [pc EXCEPT ![t] = "gets"]
      BY <2>1 DEF AcquireLease
    <3>2. TypeOK'
      <4>1. localKeyLeaseMap' \in [Processes -> LeaseValues]
        BY <1>1, <3>1 DEF TypeOK
      <4> QED
        BY <1>1, <3>1, <4>1 DEF TypeOK
    <3>3. ASSUME NEW u \in Threads, Active(u)'
          PROVE  localKeyLeaseMap'[ProcessOf[u]] = NewVal(u)'
      <4>1. CASE u = t
        BY <3>1, <4>1, ProcessOfAssumption DEF TypeOK, NewVal
      <4>2. CASE u # t
        <5>1. Active(u) /\ NewVal(u)' = NewVal(u)
          BY <1>1, <3>1, <3>3, <4>2 DEF TypeOK, Active, NewVal
        <5>2. ProcessOf[u] # ProcessOf[t]
          BY <2>1, <5>1, LeaseOfActive DEF LocalInv, NoLease, NEW_LEASE
        <5> QED
          BY <3>1, <5>1, <5>2, ProcessOfAssumption DEF TypeOK, LocalInv
      <4> QED
        BY <4>1, <4>2
    <3> QED
      BY <3>2, <3>3 DEF LocalInv
  <2>2. CASE localKeyLeaseMap[ProcessOf[t]] # NoLease
    <3>1. UNCHANGED <<localKeyLeaseMap, pc>>
      BY <2>2 DEF AcquireLease
    <3>2. TypeOK'
      BY <1>1, <3>1 DEF TypeOK
    <3>3. LocalInv'
      BY <1>1, <3>1 DEF TypeOK, LocalInv, Active, NewVal
    <3> QED
      BY <3>2, <3>3
  <2> QED
    BY <2>1, <2>2
<1>3. CasInv'
  BY DEF AcquireLease, CasInv, CASValue
<1>4. ReleaseInv'
  BY DEF AcquireLease, ReleaseInv, TypeOK, CASValue, Own, NewVal
<1>5. HolderOwnsItem'
  BY DEF AcquireLease, HolderOwnsItem, TypeOK, Holds, NewVal
<1> QED
  BY <1>2, <1>3, <1>4, <1>5

\* The gets of acquireLease or releaseLease, which may fail: what a thread has
\* read is of the item, or nothing.
LEMMA GetsInv ==
    ASSUME IInv, NEW t \in Threads, NEW ok \in BOOLEAN, Gets(t, ok) \/ ReleaseLease(t, ok)
    PROVE  IInv'
<1> USE DEF IInv
<1>1. /\ val' = [val EXCEPT ![t] = IF ok THEN CASValue(it) ELSE NoValue]
      /\ pc[t] \in {"gets", "holding"}
      /\ pc' = [pc EXCEPT ![t] = IF pc[t] = "gets" THEN "store" ELSE "releasing"]
      /\ UNCHANGED <<it, cas_id, localKeyLeaseMap, counter, lapsed, doubts>>
  BY DEF Gets, ReleaseLease
<1>2. TypeOK'
  BY <1>1, CASValueType DEF TypeOK
<1>3. LocalInv'
  BY <1>1 DEF TypeOK, LocalInv, Active, NewVal
<1>4. CasInv'
  BY <1>1, NoItemFacts, CASValueType DEF TypeOK, CasInv
<1>5. ReleaseInv'
  <2> SUFFICES ASSUME NEW u \in Threads
               PROVE  (/\ pc[u] \in {"release_cas", "delete"} => Own(u)
                       /\ pc[u] \in {"releasing", "release_cas", "delete"} /\ Own(u) /\ doubts = {}
                             => val[u] = CASValue(it))'
    BY DEF ReleaseInv
  <2>1. CASE u # t
    BY <1>1, <2>1 DEF TypeOK, ReleaseInv, Own, NewVal, CASValue
  <2>2. CASE u = t
    <3>1. Active(t)
      BY <1>1 DEF Active
    <3>2. NewVal(t) # NEW_LEASE /\ NewVal(t)' = NewVal(t)
      BY <1>1, <3>1, LeaseOfActive DEF NewVal
    <3>3. NoValue.value = NEW_LEASE
      BY NoItemFacts
    <3> QED
      BY <1>1, <2>2, <3>2, <3>3 DEF TypeOK, Own, CASValue
  <2> QED
    BY <2>1, <2>2
<1>6. HolderOwnsItem'
  BY <1>1 DEF HolderOwnsItem, TypeOK, Holds, NewVal
<1> QED
  BY <1>2, <1>3, <1>4, <1>5, <1>6

\* A thread finds the lease taken, or compares what it has read.
LEMMA DecideInv ==
    ASSUME IInv, NEW t \in Threads, Taken(t) \/ Compare(t)
    PROVE  IInv'
<1> USE DEF IInv
<1>1. /\ UNCHANGED <<it, cas_id, localKeyLeaseMap, val, counter, lapsed, doubts>>
      /\ pc[t] \in {"store", "releasing"}
      /\ \/ pc' = [pc EXCEPT ![t] = "failed"]
         \/ pc' = [pc EXCEPT ![t] = "released"]
         \/ /\ pc' = [pc EXCEPT ![t] = "release_cas"]
            /\ pc[t] = "releasing"
            /\ val[t].value = localKeyLeaseMap[ProcessOf[t]]
  BY DEF Taken, Compare
<1>2. TypeOK'
  BY <1>1 DEF TypeOK
<1>3. LocalInv'
  BY <1>1 DEF TypeOK, LocalInv, Active, NewVal
<1>4. CasInv'
  BY <1>1 DEF CasInv, CASValue
<1>5. localKeyLeaseMap[ProcessOf[t]] = NewVal(t)
  BY <1>1 DEF LocalInv, Active
<1>6. ReleaseInv'
  BY <1>1, <1>5 DEF TypeOK, ReleaseInv, Own, NewVal, CASValue
<1>7. HolderOwnsItem'
  BY <1>1 DEF HolderOwnsItem, TypeOK, Holds, NewVal
<1> QED
  BY <1>2, <1>3, <1>4, <1>6, <1>7

\* A thread takes its entry from the map when it is done with the lease.
LEMMA RemoveLocalInv ==
    ASSUME IInv, NEW t \in Threads, RemoveLocal(t) PROVE IInv'
<1> USE DEF IInv
<1>1. TypeOK'
  BY CASValueType, ProcessOfAssumption DEF TypeOK, RemoveLocal, NoLease, LeaseValues, NEW_LEASE
<1>2. LocalInv'
  <2> SUFFICES ASSUME NEW u \in Threads, Active(u)'
               PROVE  localKeyLeaseMap'[ProcessOf[u]] = NewVal(u)'
    BY DEF LocalInv
  <2>1. Active(t) /\ Active(u) /\ u # t
    BY DEF RemoveLocal, TypeOK, Active
  <2>2. ProcessOf[u] # ProcessOf[t]
    BY <2>1, LeasesDiffer DEF LocalInv
  <2> QED
    BY <2>1, <2>2, ProcessOfAssumption DEF RemoveLocal, TypeOK, LocalInv, NewVal
<1>3. CasInv'
  BY NoItemFacts DEF RemoveLocal, CasInv, TypeOK, CASValue
<1>4. ReleaseInv'
  BY DEF RemoveLocal, TypeOK, ReleaseInv, Own, NewVal, CASValue
<1>5. HolderOwnsItem'
  BY DEF RemoveLocal, HolderOwnsItem, TypeOK, Holds, NewVal
<1> QED
  BY <1>1, <1>2, <1>3, <1>4, <1>5

\* A process dies, and its threads and its map with it.
LEMMA CrashInv ==
    ASSUME IInv, NEW p \in Processes, Crash(p) PROVE IInv'
<1> USE DEF IInv
<1>1. TypeOK'
  BY CASValueType DEF TypeOK, Crash, NoLease, LeaseValues, NEW_LEASE
<1>2. LocalInv'
  BY ProcessOfAssumption DEF TypeOK, Crash, LocalInv, Active, NewVal
<1>3. CasInv'
  BY NoItemFacts DEF Crash, CasInv, TypeOK, CASValue
<1>4. ReleaseInv'
  BY DEF Crash, TypeOK, ReleaseInv, Own, NewVal, CASValue
<1>5. HolderOwnsItem'
  BY DEF Crash, HolderOwnsItem, TypeOK, Holds, NewVal
<1> QED
  BY <1>1, <1>2, <1>3, <1>4, <1>5

----------------------------------------------------------------------------
(* Steps that change the item.                                             *)

\* Other keys only move the counter of cas ids.
LEMMA OtherStoreInv == ASSUME IInv, OtherStore PROVE IInv'
<1> USE DEF IInv
<1>1. TypeOK' /\ CasInv'
  BY DEF OtherStore, TypeOK, CasInv, CASValue, Items
<1>2. LocalInv' /\ ReleaseInv' /\ HolderOwnsItem'
  BY DEF OtherStore, LocalInv, Active, NewVal, ReleaseInv, Own, CASValue, HolderOwnsItem, Holds
<1> QED
  BY <1>1, <1>2

\* The lease of a holder that lapses is noted in lapsed, that of a release under
\* way in doubts.
LEMMA LapseInv == ASSUME IInv, Lapse PROVE IInv'
<1> USE DEF IInv
<1>1. /\ it' = NoItem
      /\ lapsed' = [t \in Threads |-> lapsed[t] \/ it.value = NewVal(t)]
      /\ doubts' \in {doubts, doubts \cup {"lapsed_release"}}
      /\ (\E t \in Threads : ReleaseUnderway(t)) => doubts' # {}
      /\ doubts' = {} => doubts = {}
      /\ UNCHANGED <<cas_id, localKeyLeaseMap, pc, val, counter>>
  BY DEF Lapse
<1>2. TypeOK'
  <2>1. lapsed' \in [Threads -> BOOLEAN]
    BY <1>1, Zenon
  <2> QED
    BY <1>1, <2>1, NoItemFacts DEF TypeOK
<1>3. LocalInv'
  BY <1>1 DEF LocalInv, Active, NewVal
<1>4. CasInv'
  BY <1>1, NoItemFacts DEF CasInv, TypeOK
<1>5. ReleaseInv'
  <2>1. ASSUME NEW t \in Threads, pc[t] \in {"releasing", "release_cas", "delete"}, Own(t), doubts' = {}
        PROVE  FALSE
    BY <1>1, <2>1 DEF ReleaseInv, ReleaseUnderway
  <2> QED
    BY <1>1, <2>1 DEF ReleaseInv, Own, NewVal
<1>6. HolderOwnsItem'
  BY <1>1 DEF HolderOwnsItem, Holds, NewVal
<1> QED
  BY <1>2, <1>3, <1>4, <1>5, <1>6

\* What item_store does when it stores: the item has a new cas id.
LEMMA StoredCas ==
    ASSUME TypeOK, CasInv, NEW type, NEW value \in LeaseValues, NEW ms \in Nat,
           ItemStore(type, value, ms), Stores(type, value)
    PROVE  /\ it' \in Items /\ cas_id' \in Nat
           /\ it' # it /\ it'.value = value
           /\ it'.cas_id = cas_id' /\ cas_id' = cas_id + 1
           /\ \A t \in Threads : val[t].cas_id < it'.cas_id
<1>1. /\ it' = [value |-> value, cas_id |-> cas_id + 1, exptime |-> Exptime(ms)]
      /\ cas_id' = cas_id + 1
  BY DEF ItemStore
<1>2. Exptime(ms) \in Nat
  BY DEF Exptime
<1>3. cas_id \in Nat /\ it.cas_id \in Nat /\ it.cas_id <= cas_id
  BY DEF TypeOK, Items, CasInv
<1>4. \A t \in Threads : val[t].cas_id \in Nat /\ val[t].cas_id <= cas_id
  BY DEF TypeOK, CasInv
<1> QED
  BY <1>1, <1>2, <1>3, <1>4 DEF Items

\* After a store that is not in doubt nobody else relies on the item.
LEMMA StoredNotHeld ==
    ASSUME IInv, NEW t \in Threads, NEW type \in {"add", "cas"}, NEW value, Stores(type, value),
           doubts = {}, StaleCas(t, type, value) = {},
           type = "add" \/ val[t].value = NEW_LEASE \/ Own(t),
           NEW u \in Threads, u # t, Active(u)
    PROVE  ~Holds(u) /\ ~(/\ pc[u] \in {"releasing", "release_cas", "delete"} /\ Own(u))
<1> USE DEF IInv
<1>1. NewVal(u) # NEW_LEASE /\ NewVal(u) # NewVal(t)
  BY LeaseOfActive, LeasesDiffer
<1>2. it.value \in {NEW_LEASE, NewVal(t)}
  <2>1. CASE type = "add"
    BY <2>1, NoItemFacts DEF Stores
  <2>2. CASE type = "cas"
    BY <2>2, CasOwnItem DEF CASValue, Own
  <2> QED
    BY <2>1, <2>2
<1>3. ~Holds(u)
  BY <1>1, <1>2 DEF HolderOwnsItem
<1>4. ~(pc[u] \in {"releasing", "release_cas", "delete"} /\ Own(u))
  BY <1>1, <1>2, OwnRead DEF ReleaseInv
<1> QED
  BY <1>3, <1>4

\* The add or cas of acquireLease.
LEMMA StoreInv ==
    ASSUME IInv, NEW t \in Threads, NEW ok \in BOOLEAN, Store(t, ok)
    PROVE  IInv'
<1> USE DEF IInv
<1> DEFINE type == IF val[t] = NoValue THEN "add" ELSE "cas"
<1>1. /\ pc[t] = "store" /\ val[t].value = NEW_LEASE /\ Active(t)
      /\ type \in {"add", "cas"}
      /\ pc' = [pc EXCEPT ![t] = IF ok /\ it' # it THEN "holding" ELSE "failed"]
      /\ UNCHANGED <<localKeyLeaseMap, val, counter, lapsed>>
      /\ doubts' = IF it' = it THEN doubts ELSE doubts \cup StaleCas(t, type, NewVal(t))
  BY DEF Store, Active
<1>2. NewVal(t) \in LeaseValues /\ NewVal(t) # NEW_LEASE
  BY <1>1, LeaseOfActive
<1>3. LocalInv'
  BY <1>1 DEF LocalInv, Active, NewVal, TypeOK
<1>4. CASE UNCHANGED <<it, cas_id>>
  <2>1. TypeOK'
    BY <1>1, <1>4 DEF TypeOK
  <2>2. CasInv' /\ ReleaseInv' /\ HolderOwnsItem'
    BY <1>1, <1>4 DEF TypeOK, CasInv, CASValue, ReleaseInv, Own, NewVal, HolderOwnsItem, Holds
  <2> QED
    BY <1>3, <2>1, <2>2
<1>5. ASSUME Stores(type, NewVal(t)), NEW ms \in Timeouts, ItemStore(type, NewVal(t), ms)
      PROVE  IInv'
  <2>1. ms \in Nat
    BY BoundsAssumption
  <2>2. /\ it' \in Items /\ cas_id' \in Nat
        /\ it' # it /\ it'.value = NewVal(t)
        /\ it'.cas_id = cas_id' /\ cas_id' = cas_id + 1
        /\ \A u \in Threads : val[u].cas_id < it'.cas_id
    BY <1>2, <1>5, <2>1, StoredCas
  <2>3. StaleCas(t, type, NewVal(t)) \subseteq {"stale_cas"}
    BY DEF StaleCas
  <2>4. TypeOK'
    BY <1>1, <2>2, <2>3 DEF TypeOK
  <2>5. CasInv'
    BY <1>1, <2>2 DEF CasInv, TypeOK
  <2>6. doubts' = {} => doubts = {} /\ StaleCas(t, type, NewVal(t)) = {}
    BY <1>1, <2>2
  <2>7. ASSUME NEW u \in Threads, u # t, doubts' = {}, Active(u)
        PROVE  ~Holds(u) /\ ~(pc[u] \in {"releasing", "release_cas", "delete"} /\ Own(u))
    BY <1>1, <1>5, <2>6, <2>7, StoredNotHeld
  <2>8. HolderOwnsItem'
    BY <1>1, <2>2, <2>7 DEF HolderOwnsItem, Holds, NewVal, TypeOK, Active
  <2>9. ReleaseInv'
    BY <1>1, <2>7 DEF ReleaseInv, Own, NewVal, TypeOK, Active
  <2> QED
    BY <1>3, <2>4, <2>5, <2>8, <2>9
<1> QED
  BY <1>4, <1>5 DEF Store, ItemStore

\* The cas of releaseLease.
LEMMA ReleaseCasInv ==
    ASSUME IInv, NEW t \in Threads, NEW ok \in BOOLEAN, ReleaseCas(t, ok)
    PROVE  IInv'
<1> USE DEF IInv
<1>1. /\ pc[t] = "release_cas" /\ Own(t)
      /\ pc' = [pc EXCEPT ![t] = IF ok /\ it' # it THEN "released" ELSE "delete"]
      /\ UNCHANGED <<localKeyLeaseMap, val, counter, lapsed>>
      /\ doubts' = IF it' = it THEN doubts
                   ELSE doubts \cup StaleCas(t, "cas", NEW_LEASE)
                               \cup (IF ok THEN {} ELSE {"lost_reply"})
  BY DEF ReleaseCas, ReleaseInv
<1>2. LocalInv'
  BY <1>1 DEF LocalInv, Active, NewVal, TypeOK
<1>3. CASE UNCHANGED <<it, cas_id>>
  <2>1. TypeOK'
    BY <1>1, <1>3 DEF TypeOK
  <2>2. CasInv' /\ ReleaseInv' /\ HolderOwnsItem'
    BY <1>1, <1>3 DEF TypeOK, CasInv, CASValue, ReleaseInv, Own, NewVal, HolderOwnsItem, Holds
  <2> QED
    BY <1>2, <2>1, <2>2
<1>4. ASSUME Stores("cas", NEW_LEASE), ItemStore("cas", NEW_LEASE, 1000)
      PROVE  IInv'
  <2>1. NEW_LEASE \in LeaseValues
    BY DEF LeaseValues
  <2>2. /\ it' \in Items /\ cas_id' \in Nat
        /\ it' # it /\ it'.value = NEW_LEASE
        /\ it'.cas_id = cas_id' /\ cas_id' = cas_id + 1
        /\ \A u \in Threads : val[u].cas_id < it'.cas_id
    BY <1>4, <2>1, StoredCas
  <2>3. StaleCas(t, "cas", NEW_LEASE) \subseteq {"stale_cas"}
    BY DEF StaleCas
  <2>4. TypeOK'
    BY <1>1, <2>2, <2>3 DEF TypeOK
  <2>5. CasInv'
    BY <1>1, <2>2 DEF CasInv, TypeOK
  <2>6. doubts' = {} => doubts = {} /\ StaleCas(t, "cas", NEW_LEASE) = {} /\ ok
    BY <1>1, <2>2
  <2>7. ASSUME NEW u \in Threads, u # t, doubts' = {}, Active(u)
        PROVE  ~Holds(u) /\ ~(pc[u] \in {"releasing", "release_cas", "delete"} /\ Own(u))
    BY <1>1, <1>4, <2>6, <2>7, StoredNotHeld
  <2>8. HolderOwnsItem'
    BY <1>1, <2>7 DEF HolderOwnsItem, Holds, NewVal, TypeOK, Active
  <2>9. ReleaseInv'
    BY <1>1, <2>2, <2>6, <2>7 DEF ReleaseInv, Own, NewVal, TypeOK, Active
  <2> QED
    BY <1>2, <2>4, <2>5, <2>8, <2>9
<1> QED
  BY <1>3, <1>4 DEF ReleaseCas, ItemStore

\* The delete of a release takes away the lease it has read: nobody else's.
LEMMA DeleteInv ==
    ASSUME IInv, NEW t \in Threads, NEW ok \in BOOLEAN, Delete(t, ok)
    PROVE  IInv'
<1> USE DEF IInv
<1>1. /\ pc[t] = "delete" /\ Own(t) /\ Active(t)
      /\ it' \in {NoItem, it}
      /\ pc' = [pc EXCEPT ![t] = "released"]
      /\ UNCHANGED <<cas_id, localKeyLeaseMap, val, counter, lapsed, doubts>>
  BY DEF Delete, ReleaseInv, Active
<1>2. TypeOK'
  BY <1>1, NoItemFacts DEF TypeOK
<1>3. LocalInv'
  BY <1>1 DEF LocalInv, Active, NewVal, TypeOK
<1>4. CasInv'
  <2>1. CASE it' = it
    BY <1>1, <2>1 DEF CasInv, CASValue
  <2>2. CASE it' = NoItem
    <3>1. cas_id \in Nat
      BY DEF TypeOK
    <3>2. it'.cas_id <= cas_id'
      BY <1>1, <2>2, <3>1, NoItemFacts
    <3>3. \A u \in Threads : val'[u].cas_id <= cas_id'
      BY <1>1 DEF CasInv
    <3> QED
      BY <2>2, <3>2, <3>3 DEF CasInv, NoItem
  <2> QED
    BY <1>1, <2>1, <2>2
<1>5. ASSUME NEW u \in Threads, u # t, doubts = {}
      PROVE  ~Holds(u) /\ ~(pc[u] \in {"releasing", "release_cas", "delete"} /\ Own(u))
  <2>1. it.value = NewVal(t) /\ NewVal(u) # NewVal(t)
    BY <1>1, <1>5, LeasesDiffer, OwnRead DEF ReleaseInv
  <2> QED
    BY <1>5, <2>1, OwnRead DEF HolderOwnsItem, ReleaseInv
<1>6. ReleaseInv'
  BY <1>1, <1>5 DEF ReleaseInv, Own, NewVal, TypeOK
<1>7. HolderOwnsItem'
  BY <1>1, <1>5 DEF HolderOwnsItem, Holds, NewVal, TypeOK
<1> QED
  BY <1>2, <1>3, <1>4, <1>6, <1>7

----------------------------------------------------------------------------
\* One step of a thread, a process, the server or its clock.
LEMMA StepInv == ASSUME IInv, [Next]_vars PROVE IInv'
<1>1. ASSUME NEW t \in Threads, AcquireLease(t) PROVE IInv'
  BY <1>1, AcquireLeaseInv
<1>2. ASSUME NEW t \in Threads, Step(t) PROVE IInv'
  <2>1. ASSUME NEW ok \in BOOLEAN, Gets(t, ok) \/ ReleaseLease(t, ok) PROVE IInv'
    BY <2>1, GetsInv
  <2>2. ASSUME NEW ok \in BOOLEAN, Store(t, ok) PROVE IInv'
    BY <2>2, StoreInv
  <2>3. ASSUME NEW ok \in BOOLEAN, ReleaseCas(t, ok) PROVE IInv'
    BY <2>3, ReleaseCasInv
  <2>4. ASSUME NEW ok \in BOOLEAN, Delete(t, ok) PROVE IInv'
    BY <2>4, DeleteInv
  <2>5. CASE Taken(t) \/ Compare(t)
    BY <2>5, DecideInv
  <2>6. CASE RemoveLocal(t)
    BY <2>6, RemoveLocalInv
  <2> QED
    BY <1>2, <2>1, <2>2, <2>3, <2>4, <2>5, <2>6 DEF Step
<1>3. ASSUME NEW p \in Processes, Crash(p) PROVE IInv'
  BY <1>3, CrashInv
<1>4. CASE OtherStore
  BY <1>4, OtherStoreInv
<1>5. CASE Expire \/ Evict
  BY <1>5, LapseInv DEF Expire, Evict
<1>6. CASE UNCHANGED vars
  BY <1>6 DEF vars, IInv, TypeOK, LocalInv, Active, NewVal, CasInv, CASValue, ReleaseInv, Own,
              HolderOwnsItem, Holds
<1> QED
  BY <1>1, <1>2, <1>3, <1>4, <1>5, <1>6 DEF Next

\* Every variable keeps its type, and the threads of one process exclude each
\* other from acquireLease to releaseLease: the second one finds the entry of the
\* first in localKeyLeaseMap, whatever lapses or fails at the server.
THEOREM Consistency == Spec => []LeaseConsistent
<1>1. Init => IInv
  BY InitInv
<1>2. IInv /\ [Next]_vars => IInv'
  BY StepInv
<1>3. IInv => LeaseConsistent
  <2>1. ASSUME IInv, NEW t \in Threads, NEW u \in Threads, ProcessOf[t] = ProcessOf[u],
               Active(t), Active(u)
        PROVE  t = u
    BY <2>1, LeasesDiffer DEF IInv, LocalInv
  <2> QED
    BY <2>1 DEF IInv, LeaseConsistent, LocalExclusion, Active
<1> QED
  BY <1>1, <1>2, <1>3, PTL DEF Spec

\* Whoever holds the lease finds its own value at the server, for any number of
\* threads, processes and calls, unless one of the three events of doubts has
\* happened.
THEOREM Exclusion == Spec => []HolderOwnsItem
<1>1. Init => IInv
  BY InitInv
<1>2. IInv /\ [Next]_vars => IInv'
  BY StepInv
<1>3. IInv => HolderOwnsItem
  BY DEF IInv
<1> QED
  BY <1>1, <1>2, <1>3, PTL DEF Spec
=============================================================================
