------------------------------- MODULE Slabs -------------------------------
(***************************************************************************)
(* The memory of a cache server: mc_slabs.c and the part of mc_items.c     *)
(* that moves item chunks between the slab heaps, the free queues, the LRU *)
(* queues and the hash table.                                              *)
(*                                                                         *)
(* The whole memory is one record m, and every function of the code that   *)
(* changes it is an operator from memories to memories.  All of them run   *)
(* with cache_lock held.  A function that draws a random slab returns the  *)
(* SET of its possible results.                                            *)
(*                                                                         *)
(* A slab is <<heap, number>> and a chunk <<heap, slab number, index>>.    *)
(* Keys are <<kind, name>>: the prefixes that mc_get_lease_key and         *)
(* mc_get_co_lease_key put before a key keep the kinds apart.              *)
(***************************************************************************)
EXTENDS Naturals, Sequences, FiniteSets, SequencesExt

CONSTANTS
    Ids,            \* slab class ids
    NItem,          \* [Ids -> 1..]: chunks in a slab of that class
    MaxSlab,        \* [Heaps -> Nat]: max_nslab of each heap
    ITEM_LRUQ_MAX_TRIES,
    SLAB_LRU_MAX_TRIES

Heaps == {"normal", "reserved"}

Slabs == {s \in Heaps \X (1 .. (MaxSlab["normal"] + MaxSlab["reserved"])) : s[2] <= MaxSlab[s[1]]}

MaxItem == Max({NItem[id] : id \in Ids})

Chunks == {x \in Heaps \X (1 .. (MaxSlab["normal"] + MaxSlab["reserved"])) \X (1 .. MaxItem) :
               x[2] <= MaxSlab[x[1]]}

NoItem == <<>>

Slab(x) == <<x[1], x[2]>>

\* An item header as item_hdr_init leaves it: not linked, not in a free queue,
\* unreferenced.  The key of such a chunk is never read.
NoKey == <<"none", "none">>
Header == [linked |-> FALSE, slabbed |-> FALSE, refcount |-> 0, key |-> NoKey,
           exp |-> "never", age |-> "old", id |-> 0]

slab_init ==
    [slab  |-> [s \in Slabs |-> [id |-> 0, refcount |-> 0]],
     nslab |-> [h \in Heaps |-> 0],
     slab_lruq  |-> [h \in Heaps |-> <<>>],
     free_itemq |-> [h \in Heaps |-> [id \in Ids |-> <<>>]],
     free_item  |-> [h \in Heaps |-> [id \in Ids |-> NoItem]],
     item_lruq  |-> [h \in Heaps |-> [id \in Ids |-> <<>>]],
     item  |-> [x \in Chunks |-> Header]]

----------------------------------------------------------------------------
(* Kinds of items.                                                         *)

Kind(m, x) == m.item[x].key[1]

\* I and Q leases; C and O leases; transaction and session lists; values and
\* pending versions.
item_is_lease_holder(m, x) == Kind(m, x) = "lease"
item_has_co_lease(m, x) == Kind(m, x) = "colease"
item_is_sess(m, x) == Kind(m, x) = "sess"

slab_has_reserved_slabs == MaxSlab["reserved"] > 0
ReservedHeap == IF slab_has_reserved_slabs THEN "reserved" ELSE "normal"

\* The LRU queue of an item: only lease holders go to reserved_item_lruq.
LruOf(m, x) == IF item_is_lease_holder(m, x) THEN "reserved" ELSE "normal"

item_expired(m, x) == m.item[x].exp = "past"

----------------------------------------------------------------------------
(* Reference counts: every reference to a chunk also pins its slab.        *)

item_acquire_refcount(m, x) ==
    [m EXCEPT !.item[x].refcount = @ + 1, !.slab[Slab(x)].refcount = @ + 1]

item_release_refcount(m, x) ==
    [m EXCEPT !.item[x].refcount = @ - 1, !.slab[Slab(x)].refcount = @ - 1]

----------------------------------------------------------------------------
(* Queues.                                                                 *)

slab_lruq_remove(m, h, s) == [m EXCEPT !.slab_lruq[h] = SelectSeq(@, LAMBDA t : t # s)]
slab_lruq_append(m, h, s) == [m EXCEPT !.slab_lruq[h] = Append(@, s)]

\* slab_lruq_touch and slab_reserved_lruq_touch.  "recent" is the test on
\* utime: the slab was moved less than SLAB_LRU_UPDATE_INTERVAL ago.
slab_lruq_touch(m, evict_opt, h, s, allocated, recent) ==
    IF ~recent /\ ("AS" \in evict_opt \/ (allocated /\ "CS" \in evict_opt))
    THEN slab_lruq_append(slab_lruq_remove(m, h, s), h, s)
    ELSE m

item_link_q(m, evict_opt, x, allocated, recent) ==
    LET q == LruOf(m, x)
    IN  slab_lruq_touch([m EXCEPT !.item_lruq[q][m.item[x].id] = Append(@, x),
                                  !.item[x].age = "now"],
                        evict_opt, q, Slab(x), allocated, recent)

item_unlink_q(m, x) ==
    [m EXCEPT !.item_lruq[LruOf(m, x)][m.item[x].id] = SelectSeq(@, LAMBDA y : y # x)]

\* Puts an unreferenced chunk at the head of the free queue of heap h.
slab_put_item_into_freeq(m, h, x) ==
    LET id == m.item[x].id
    IN  [m EXCEPT !.free_itemq[h][id] = <<x>> \o @,
                  !.item[x] = [Header EXCEPT !.slabbed = TRUE, !.id = id]]

\* Mutant: the lists of sessions go to the free queue of values.
item_free_sess(m, x) ==
    IF item_is_lease_holder(m, x) \/ item_has_co_lease(m, x)
    THEN slab_put_item_into_freeq(m, ReservedHeap, x)
    ELSE slab_put_item_into_freeq(m, "normal", x)

item_free(m, x) ==
    IF item_is_lease_holder(m, x) \/ item_has_co_lease(m, x) \/ item_is_sess(m, x)
    THEN slab_put_item_into_freeq(m, ReservedHeap, x)
    ELSE slab_put_item_into_freeq(m, "normal", x)

\* Unlinks an unreferenced item from hash and LRU queue, to be used again.  Its
\* branch for a lease holder asserts a reference count of 1; the callers choose
\* chunks with a count of 0 only, so a pinned lease never gets here.
item_reuse(m, x) == item_unlink_q([m EXCEPT !.item[x].linked = FALSE], x)

\* Mutant: takes the oldest item, in use or not.
item_get_from_lruq_used(m, q, id) ==
    IF m.item_lruq[q][id] = <<>> THEN NoItem ELSE Head(m.item_lruq[q][id])

\* The oldest unreferenced item among the first ITEM_LRUQ_MAX_TRIES of an LRU
\* queue, expired or not: the loop ends at the first one.
item_get_from_lruq(m, q, id) ==
    LET Q == m.item_lruq[q][id]
        Unused == {i \in 1 .. Len(Q) : i <= ITEM_LRUQ_MAX_TRIES /\ m.item[Q[i]].refcount = 0}
    IN  IF Unused = {} THEN NoItem ELSE Q[Min(Unused)]

----------------------------------------------------------------------------
(* Slabs.                                                                  *)

\* Evicts every item of an unreferenced slab: linked ones leave hash and LRU
\* queue (item_reuse), free ones leave the free queue.
slab_evict_one(m, h, s) ==
    LET id == m.slab[s].id
        Outside(q) == SelectSeq(q, LAMBDA x : Slab(x) # s)
        current == m.free_item[h][id]
        isCurrent == current # NoItem /\ Slab(current) = s
    IN  slab_lruq_remove(
          [m EXCEPT !.free_item[h][id] = IF isCurrent THEN NoItem ELSE @,
                    !.item_lruq = [q \in Heaps |-> [i \in Ids |-> Outside(@[q][i])]],
                    !.free_itemq[h][id] = Outside(@),
                    !.item = [x \in Chunks |-> IF Slab(x) = s THEN Header ELSE @[x]]],
          h, s)

\* A raw or evicted slab becomes the current slab of class id.
slab_add_one(m, h, s, id) ==
    slab_lruq_append(
      [m EXCEPT !.slab[s] = [id |-> id, refcount |-> 0],
                !.item = [x \in Chunks |-> IF Slab(x) = s /\ x[3] <= NItem[id]
                                           THEN [Header EXCEPT !.id = id] ELSE @[x]],
                !.free_item[h][id] = <<s[1], s[2], 1>>],
      h, s)

slab_heap_full(m, h) == m.nslab[h] >= MaxSlab[h]

\* Tries random slabs of the table until one is unreferenced; it may give up
\* when some slab is in use.  Returns the possible victims, NoItem for none.
slab_evict_rand(m, h) ==
    LET Table == {s \in Slabs : s[1] = h /\ s[2] <= m.nslab[h]}
        Idle == {s \in Table : m.slab[s].refcount = 0}
    IN  Idle \cup (IF Idle = Table THEN {} ELSE {NoItem})

\* The least recently used unreferenced slab among the first SLAB_LRU_MAX_TRIES.
slab_evict_lru(m, h) ==
    LET Q == m.slab_lruq[h]
        Idle == {i \in 1 .. Len(Q) : i <= SLAB_LRU_MAX_TRIES /\ m.slab[Q[i]].refcount = 0}
    IN  IF Idle = {} THEN NoItem ELSE Q[Min(Idle)]

\* Evicts the chosen slab for class id; with no slab chosen (MC_ENOMEM) nothing
\* changes and free_item stays NULL.
EvictFor(m, h, id, s) == IF s = NoItem THEN m ELSE slab_add_one(slab_evict_one(m, h, s), h, s, id)

slab_get_evict(m, h, id) == {EvictFor(m, h, id, s) : s \in slab_evict_rand(m, h)}

slab_get(m, evict_opt, h, id) ==
    LET lru == IF evict_opt \cap {"AS", "CS"} # {} THEN slab_evict_lru(m, h) ELSE NoItem
        new == <<h, m.nslab[h] + 1>>
    IN  IF ~slab_heap_full(m, h)
        THEN {slab_add_one([m EXCEPT !.nslab[h] = @ + 1], h, new, id)}
        ELSE IF lru # NoItem THEN {EvictFor(m, h, id, lru)}
        ELSE IF "RS" \in evict_opt THEN slab_get_evict(m, h, id)
        ELSE {m}

\* The next chunk of the current slab, NoItem when there is no current slab.
NextChunk(m, h, id) ==
    LET x == m.free_item[h][id]
    IN  IF x = NoItem THEN <<m, NoItem>>
        ELSE <<[m EXCEPT !.free_item[h][id] =
                    IF x[3] < NItem[id] THEN <<x[1], x[2], x[3] + 1>> ELSE NoItem], x>>

_slab_get_item_by_evict_slab(m, h, id) ==
    {NextChunk(n, h, id) :
        n \in IF m.free_item[h][id] # NoItem THEN {m} ELSE slab_get_evict(m, h, id)}

\* Mutant: overlooks the free queue.
_slab_get_item_new(m, evict_opt, h, id) ==
    {NextChunk(n, h, id) :
        n \in IF m.free_item[h][id] # NoItem THEN {m} ELSE slab_get(m, evict_opt, h, id)}

\* A chunk from the free queue, else from the current slab, else from a new one.
_slab_get_item(m, evict_opt, h, id) ==
    LET Q == m.free_itemq[h][id]
    IN  IF Q # <<>>
        THEN {<<[m EXCEPT !.free_itemq[h][id] = Tail(@), !.item[Head(Q)].slabbed = FALSE], Head(Q)>>}
        ELSE {NextChunk(n, h, id) :
                n \in IF m.free_item[h][id] # NoItem THEN {m} ELSE slab_get(m, evict_opt, h, id)}

----------------------------------------------------------------------------
(* _item_alloc: an expired item of the class, else a free chunk (a new or an *)
(* evicted slab included), else the least recently used item, else a chunk   *)
(* of a slab evicted at random.  The set of <<memory, chunk>> it may return. *)

_item_alloc(m, evict_opt, id, key, exp, reserved) ==
    LET heap == IF reserved THEN ReservedHeap ELSE "normal"
        last == IF reserved THEN "reserved" ELSE "normal"
        it == item_get_from_lruq(m, last, id)
        Done(n, x) == <<item_acquire_refcount(
                          [n EXCEPT !.item[x] = [Header EXCEPT !.key = key, !.exp = exp, !.id = id]], x), x>>
        Reused == Done(item_reuse(m, it), it)
        After(r) == IF r[2] # NoItem THEN {Done(r[1], r[2])}
                    ELSE IF it # NoItem /\ "LRU" \in evict_opt THEN {Reused}
                    ELSE IF evict_opt = {} THEN {r}
                    ELSE {IF e[2] = NoItem THEN e ELSE Done(e[1], e[2]) :
                            e \in _slab_get_item_by_evict_slab(r[1], last, id)}
    IN  IF it # NoItem /\ item_expired(m, it)
        THEN {Reused}
        ELSE UNION {After(r) : r \in _slab_get_item(m, evict_opt, heap, id)}
=============================================================================
