------------------------------ MODULE Storage ------------------------------
(***************************************************************************)
(* The item storage of a cache server (mc_items.c over mc_slabs.c): which  *)
(* chunk holds which item, who refers to it and when it may be used again. *)
(*                                                                         *)
(* Connections hold references outside cache_lock: while a value is read   *)
(* from the socket into a new item, and while a found item is sent.  The   *)
(* leases and the session lists that a request handler creates, replaces   *)
(* or removes are handled in one hold of the lock; they live in reserved   *)
(* slabs and carry one more reference, their pin.                          *)
(*                                                                         *)
(* Some branches of the handlers do not give back a reference they took,   *)
(* and one gives back a reference twice.  They are actions like the others *)
(* and the history variable stray counts what they leave behind.           *)
(***************************************************************************)
EXTENDS Slabs, Integers

CONSTANTS
    Conns,          \* connections, each handled by one worker thread
    ReservedId,     \* class of lease items and session lists
    MaxStray,       \* bound: references left behind in a behaviour
    Setups          \* settings and load: [evict: SUBSET {"LRU", "RS", "CS", "AS"},
                    \* names: [kind -> keys or session ids], ids: classes a value may
                    \* need, exps: expiry times of values, clock: does time pass?]

\* item_link_q passes the reserved slab of a colease or a session list to
\* slab_lruq_touch, which moves it with the head of the other queue: under AS and
\* CS the two slab queues do not survive these items.  Not modelled.
ASSUME SlabQueuesAssumption ==
    \A s \in Setups : s.evict \cap {"AS", "CS"} # {} => s.names["colease"] \cup s.names["sess"] = {}

VARIABLES
    m,              \* the memory (Slabs)
    held,           \* [Conns -> [mode, it]]: the item a connection refers to
    stray,          \* history, [Chunks -> Int]: references never given back, less
                    \* those given back twice
    setup           \* settings and load, fixed at start

vars == <<m, held, stray, setup>>

Idle == [mode |-> "idle", it |-> NoItem]
evict_opt == setup.evict
\* Is the slab younger than SLAB_LRU_UPDATE_INTERVAL?  Asked only for AS and CS.
Recent == IF evict_opt \cap {"AS", "CS"} = {} THEN {TRUE} ELSE BOOLEAN
Pinned == {"lease", "colease", "sess"}

\* An item without expiry time, one that will expire, and one that has.
Exptimes == {"never", "live", "past"}
\* atime against the clock and the last flush: this second, the last second,
\* earlier, and at or before oldest_live.
Ages == {"now", "last", "old", "flushed"}

TypeOK ==
    /\ setup \in Setups
    /\ \A c \in Conns : held[c].it # NoItem => held[c].it[3] <= NItem[m.item[held[c].it].id]
    /\ held \in [Conns -> [mode : {"idle", "fill", "got", "send"}, it : Chunks \cup {NoItem}]]
    /\ stray \in [Chunks -> -1 .. MaxStray]
    /\ m.slab \in [Slabs -> [id : Ids \cup {0}, refcount : Nat]]
    /\ m.nslab \in [Heaps -> Nat] /\ \A h \in Heaps : m.nslab[h] <= MaxSlab[h]
    /\ \A x \in Chunks : /\ m.item[x].linked \in BOOLEAN /\ m.item[x].slabbed \in BOOLEAN
                         /\ m.item[x].refcount \in Nat
                         /\ m.item[x].exp \in Exptimes /\ m.item[x].age \in Ages
                         /\ m.item[x].id \in Ids \cup {0}

Init ==
    /\ m = slab_init
    /\ held = [c \in Conns |-> Idle]
    /\ stray = [x \in Chunks |-> 0]
    /\ setup \in Setups

----------------------------------------------------------------------------
(* Items in hash and LRU queue.                                            *)

assoc_find(n, key) ==
    LET Found == {x \in Chunks : n.item[x].linked /\ n.item[x].key = key}
    IN  IF Found = {} THEN NoItem ELSE CHOOSE x \in Found : TRUE

item_set_pinned(n, x) == item_acquire_refcount(n, x)
item_unset_pinned(n, x) == item_release_refcount(n, x)

_item_link(n, x, recent) ==
    item_link_q([n EXCEPT !.item[x].linked = TRUE], evict_opt, x, TRUE, recent)

\* Only leases lose their pin here: a session list keeps it.
_item_unlink(n, x) ==
    LET unpinned == IF item_is_lease_holder(n, x) \/ item_has_co_lease(n, x)
                    THEN item_unset_pinned(n, x) ELSE n
        out == item_unlink_q([unpinned EXCEPT !.item[x].linked = FALSE], x)
    IN  IF out.item[x].refcount = 0 THEN item_free(out, x) ELSE out

_item_remove(n, x) ==
    LET less == IF n.item[x].refcount # 0 THEN item_release_refcount(n, x) ELSE n
    IN  IF less.item[x].refcount = 0 /\ ~less.item[x].linked THEN item_free(less, x) ELSE less

\* Finds a live item and takes a reference; an expired or flushed one is
\* unlinked.  Returns <<memory, chunk>>.
_item_get(n, key) ==
    LET x == assoc_find(n, key)
    IN  IF x = NoItem THEN <<n, NoItem>>
        ELSE IF item_expired(n, x) \/ n.item[x].age = "flushed" THEN <<_item_unlink(n, x), NoItem>>
        ELSE <<item_acquire_refcount(n, x), x>>

RemoveFound(g) == IF g[2] = NoItem THEN g[1] ELSE _item_remove(g[1], g[2])

\* Mutant: keeps the reference to the item it replaced.
_item_store_keeps(n, x, recent) ==
    LET g == _item_get(n, n.item[x].key)
        replaced == IF g[2] = NoItem THEN g[1] ELSE _item_unlink(g[1], g[2])
    IN  _item_link(replaced, x, recent)

\* _item_store with REQ_SET: the item takes the place of the one under its key.
_item_store(n, x, recent) ==
    LET g == _item_get(n, n.item[x].key)
        replaced == IF g[2] = NoItem THEN g[1] ELSE _item_unlink(g[1], g[2])
    IN  RemoveFound(<<_item_link(replaced, x, recent), g[2]>>)

_item_touch(n, x, recent) ==
    IF n.item[x].linked THEN item_link_q(item_unlink_q(n, x), evict_opt, x, FALSE, recent) ELSE n

\* Unlinks the item under a key and drops the reference it was found with, as
\* item_get_and_delete does for each of the items of a key.
DeleteFound(n, key) ==
    LET g == _item_get(n, key)
    IN  IF g[2] = NoItem THEN g[1] ELSE _item_remove(_item_unlink(g[1], g[2]), g[2])

----------------------------------------------------------------------------
(* Connections.                                                            *)

\* set <key>: a chunk for the value that is still to be read.  When there is
\* none, the client gets an error and the old value is deleted.
Update(c, k, id, exp) ==
    /\ held[c] = Idle
    /\ \E r \in _item_alloc(m, evict_opt, id, <<"value", k>>, exp, FALSE) :
          IF r[2] = NoItem
          THEN m' = DeleteFound(r[1], <<"value", k>>) /\ UNCHANGED held
          ELSE m' = r[1] /\ held' = [held EXCEPT ![c] = [mode |-> "fill", it |-> r[2]]]
    /\ UNCHANGED <<stray, setup>>

\* The value has been read (asc_complete_nread): store the item, drop the
\* reference of the connection.
CompleteNread(c, recent) ==
    /\ held[c].mode = "fill"
    /\ m' = _item_remove(_item_store(m, held[c].it, recent), held[c].it)
    /\ held' = [held EXCEPT ![c] = Idle]
    /\ UNCHANGED <<stray, setup>>

\* get <key>: the reference lasts until the value is sent.
Get(c, k) ==
    /\ held[c] = Idle
    /\ LET g == _item_get(m, <<"value", k>>)
       IN  /\ m' = g[1]
           /\ held' = IF g[2] = NoItem THEN held
                      ELSE [held EXCEPT ![c] = [mode |-> "got", it |-> g[2]]]
    /\ UNCHANGED <<stray, setup>>

\* item_touch, in a later hold of the lock than item_get; only an item that was
\* not used for ITEM_UPDATE_INTERVAL moves.
Touch(c, recent) ==
    /\ held[c].mode = "got"
    /\ \/ m' = m
       \/ /\ m.item[held[c].it].age \in {"old", "flushed"}
          /\ m' = _item_touch(m, held[c].it, recent)
    /\ held' = [held EXCEPT ![c].mode = "send"]
    /\ UNCHANGED <<stray, setup>>

\* The reply is sent, or the connection is closed while it reads or writes.
Release(c) ==
    /\ held[c].mode \in {"fill", "send"}
    /\ m' = _item_remove(m, held[c].it)
    /\ held' = [held EXCEPT ![c] = Idle]
    /\ UNCHANGED <<stray, setup>>

\* delete <key>, with the leases and the pending version of the key or without.
Delete(k, delete_lease) ==
    /\ LET lease == DeleteFound(m, <<"lease", k>>)
           others == DeleteFound(DeleteFound(lease, <<"version", k>>), <<"colease", k>>)
       IN  m' = DeleteFound(IF delete_lease THEN others ELSE m, <<"value", k>>)
    /\ UNCHANGED <<held, stray, setup>>

----------------------------------------------------------------------------
(* Leases and session lists.                                               *)

Strays == FoldSet(LAMBDA x, n : n + stray[x], 0, Chunks)

\* The handler never gives back its reference to x.
Forget(x) ==
    IF x = NoItem THEN UNCHANGED stray
    ELSE Strays < MaxStray /\ stray' = [stray EXCEPT ![x] = @ + 1]

\* _item_create_reserved_item, and storing what it created.
Reserved(n, key) == _item_alloc(n, evict_opt, ReservedId, key, "live", TRUE)
StoreReserved(n, x, recent) == _item_remove(_item_store(item_set_pinned(n, x), x, recent), x)

\* Grants a lease: no item under its key, and a reserved chunk.  Without a
\* chunk the request ends in SERVER_ERROR.
CreateLease(kind, k, recent) ==
    /\ LET g == _item_get(m, <<kind, k>>)
       IN  /\ g[2] = NoItem
           /\ \E r \in Reserved(g[1], <<kind, k>>) :
                 m' = IF r[2] = NoItem THEN r[1] ELSE StoreReserved(r[1], r[2], recent)
    /\ UNCHANGED <<held, stray, setup>>

\* Adds a holder to the list of a lease or takes one out: a new item replaces
\* the old one, which the handler has looked up first.  There is no step when
\* no chunk is left: the code then writes through a null pointer.
ReplaceLease(kind, k, recent) ==
    /\ LET g == _item_get(m, <<kind, k>>)
       IN  /\ g[2] # NoItem
           /\ \E r \in Reserved(g[1], <<kind, k>>) :
                 r[2] # NoItem /\ m' = _item_remove(StoreReserved(r[1], r[2], recent), g[2])
    /\ UNCHANGED <<held, stray, setup>>

\* qaread and oqread void a pending lease: the new one is stored over it, and
\* the pointer to the old one is overwritten while it is referenced.
VoidLease(k, recent) ==
    /\ LET g == _item_get(m, <<"lease", k>>)
       IN  /\ g[2] # NoItem
           /\ \E r \in Reserved(g[1], <<"lease", k>>) :
                 r[2] # NoItem /\ m' = StoreReserved(r[1], r[2], recent)
           /\ Forget(g[2])
    /\ UNCHANGED <<held, setup>>

\* oqread finds a Q lease and no O lease: it removes the lease twice, the second
\* time on behalf of the pin.
OqReadDenied(k) ==
    /\ LET g == _item_get(m, <<"lease", k>>)
       IN  /\ g[2] # NoItem
           /\ m' = _item_remove(RemoveFound(g), g[2])
           /\ stray' = [stray EXCEPT ![g[2]] = @ - 1]
    /\ UNCHANGED <<held, setup>>

ReleaseLease(kind, k) ==
    /\ assoc_find(m, <<kind, k>>) # NoItem
    /\ m' = DeleteFound(m, <<kind, k>>)
    /\ UNCHANGED <<held, stray, setup>>

\* Adds a key to the list of a transaction or session, which starts or extends
\* it: the new list is stored over the old one, whose pin is dropped first.
\* oqread does not give back the reference it looked the old list up with.
AssocKey(sid, oqread, recent) ==
    /\ LET g == _item_get(m, <<"sess", sid>>)
       IN  /\ \E r \in Reserved(g[1], <<"sess", sid>>) :
                 /\ r[2] # NoItem
                 /\ LET old == IF g[2] = NoItem THEN r[1] ELSE item_unset_pinned(r[1], g[2])
                        new == StoreReserved(old, r[2], recent)
                    IN  m' = IF oqread THEN new ELSE RemoveFound(<<new, g[2]>>)
           /\ IF oqread THEN Forget(g[2]) ELSE UNCHANGED stray
    /\ UNCHANGED <<held, setup>>

\* oqread of a key that is in the list of the session already.
OqReadAgain(sid) ==
    /\ LET g == _item_get(m, <<"sess", sid>>)
       IN  g[2] # NoItem /\ m' = g[1] /\ Forget(g[2])
    /\ UNCHANGED <<held, setup>>

\* The end of a transaction or session: unlink its list and drop its pin, which
\* dcommit does not do.
EndSession(sid, dcommit) ==
    /\ assoc_find(m, <<"sess", sid>>) # NoItem
    /\ LET g == _item_get(m, <<"sess", sid>>)
           gone == _item_unlink(g[1], g[2])
       IN  m' = IF g[2] = NoItem THEN g[1]
                ELSE _item_remove(IF dcommit THEN gone ELSE item_unset_pinned(gone, g[2]), g[2])
    /\ UNCHANGED <<held, stray, setup>>

----------------------------------------------------------------------------
(* Pending versions.                                                       *)

\* Creates the pending version of a key, or replaces it.  qaread sends it, and
\* the reference goes with the reply.  Without a chunk the code writes through a
\* null pointer.
StoreVersion(c, k, id, sends, recent) ==
    /\ held[c] = Idle
    /\ \E r \in _item_alloc(m, evict_opt, id, <<"version", k>>, "live", FALSE) :
          /\ r[2] # NoItem
          /\ LET new == _item_store(r[1], r[2], recent)
             IN  m' = IF sends THEN new ELSE _item_remove(new, r[2])
          /\ held' = IF sends THEN [held EXCEPT ![c] = [mode |-> "send", it |-> r[2]]] ELSE held
    /\ UNCHANGED <<stray, setup>>

\* Appends to the pending version, or adds to it, by a new item in its place.
\* oqappend and oqincr give their reference back only when the old one is still
\* linked, which it is not.
AppendToVersion(k, id, co, recent) ==
    /\ LET g == _item_get(m, <<"version", k>>)
       IN  /\ g[2] # NoItem
           /\ \E r \in _item_alloc(g[1], evict_opt, id, <<"version", k>>, m.item[g[2]].exp, FALSE) :
                 /\ r[2] # NoItem
                 /\ LET new == _item_remove(_item_store(r[1], r[2], recent), r[2])
                    IN  m' = IF co THEN new ELSE _item_remove(new, g[2])
           /\ IF co THEN Forget(g[2]) ELSE UNCHANGED stray
    /\ UNCHANGED <<held, setup>>

DropVersion(k) ==
    /\ assoc_find(m, <<"version", k>>) # NoItem
    /\ m' = DeleteFound(m, <<"version", k>>)
    /\ UNCHANGED <<held, stray, setup>>

\* commit passes over a key whose lease is gone or is not a Q lease, with its
\* reference to the pending version.
CommitPassesOver(k) ==
    /\ LET g == _item_get(m, <<"version", k>>)
       IN  g[2] # NoItem /\ m' = g[1] /\ Forget(g[2])
    /\ UNCHANGED <<held, setup>>

----------------------------------------------------------------------------
(* Time and flush_all.                                                     *)

Expire(x) ==
    /\ m.item[x].linked /\ m.item[x].exp = "live"
    /\ m' = [m EXCEPT !.item[x].exp = "past"]
    /\ UNCHANGED <<held, stray, setup>>

Older(age) == CASE age = "now" -> "last" [] age = "last" -> "old" [] OTHER -> age

Tick ==
    /\ setup.clock
    /\ m' = [m EXCEPT !.item = [x \in Chunks |->
                IF m.item[x].linked THEN [m.item[x] EXCEPT !.age = Older(@)] ELSE m.item[x]]]
    /\ UNCHANGED <<held, stray, setup>>

\* The items _item_flush_expired unlinks: from the tail of each queue of
\* item_lruq, up to the first one older than oldest_live.
RecentTail(Q) ==
    {Q[i] : i \in {i \in 1 .. Len(Q) : \A j \in i .. Len(Q) : m.item[Q[j]].age \in {"now", "last"}}}

\* flush_all: oldest_live becomes the last second.  What is as old or older dies
\* when it is next looked up.
Flush ==
    /\ setup.clock
    /\ LET Young == UNION {RecentTail(m.item_lruq["normal"][id]) : id \in Ids}
           gone == FoldSet(LAMBDA x, n : _item_unlink(n, x), m, Young)
       IN  m' = [gone EXCEPT !.item = [x \in Chunks |->
                    IF gone.item[x].linked /\ gone.item[x].age # "now"
                    THEN [gone.item[x] EXCEPT !.age = "flushed"] ELSE gone.item[x]]]
    /\ UNCHANGED <<held, stray, setup>>

\* A lease that was removed twice is freed while it is linked, or freed again:
\* the model ends there.
Intact == \A x \in Chunks : stray[x] >= 0

Next ==
    /\ Intact
    /\ \/ \E c \in Conns, k \in setup.names["value"], id \in setup.ids, exp \in setup.exps :
              Update(c, k, id, exp)
       \/ \E c \in Conns, recent \in Recent : CompleteNread(c, recent) \/ Touch(c, recent)
       \/ \E c \in Conns, k \in setup.names["value"] : Get(c, k)
       \/ \E c \in Conns : Release(c)
       \/ \E k \in setup.names["value"], b \in BOOLEAN : Delete(k, b)
       \/ \E kind \in {"lease", "colease"} : \E k \in setup.names[kind] :
              \/ \E recent \in Recent : CreateLease(kind, k, recent) \/ ReplaceLease(kind, k, recent)
              \/ ReleaseLease(kind, k)
       \/ \E k \in setup.names["lease"], recent \in Recent : VoidLease(k, recent)
       \/ \E k \in setup.names["lease"] : OqReadDenied(k)
       \/ \E sid \in setup.names["sess"], b \in BOOLEAN :
              \/ \E recent \in Recent : AssocKey(sid, b, recent)
              \/ EndSession(sid, b)
       \/ \E sid \in setup.names["sess"] : OqReadAgain(sid)
       \/ \E k \in setup.names["version"], id \in setup.ids, recent \in Recent :
              \/ \E c \in Conns, sends \in BOOLEAN : StoreVersion(c, k, id, sends, recent)
              \/ \E co \in BOOLEAN : AppendToVersion(k, id, co, recent)
       \/ \E k \in setup.names["version"] : DropVersion(k) \/ CommitPassesOver(k)
       \/ \E x \in Chunks : Expire(x)
       \/ Tick
       \/ Flush

Spec == Init /\ [][Next]_vars

----------------------------------------------------------------------------
(* Properties.                                                             *)

Holders(x) == Cardinality({c \in Conns : held[c].it = x})
Pin(x) == IF m.item[x].linked /\ Kind(m, x) \in Pinned THEN 1 ELSE 0

\* The list of a session that expired, was flushed, was overwritten or was
\* committed: unlinked but still pinned (_item_unlink has no branch for it).
Lost(x) == Kind(m, x) = "sess" /\ ~m.item[x].linked

\* Reference counts are exact: an item has one reference for every connection
\* that uses it, one for the pin of a linked lease or session list, and those that
\* the branches above left behind; the pin of a lost list comes on top.  A slab
\* has as many as its items.  A reference too few frees memory in use, one too
\* many loses it: apart from the known branches, no sequence of requests, however
\* it interleaves with the connections, does either.
RefcountsExact ==
    /\ \A x \in Chunks : m.item[x].refcount - (Holders(x) + Pin(x) + stray[x]) \in
                         IF Lost(x) THEN {0, 1} ELSE {0}
    /\ \A s \in Slabs : m.slab[s].refcount =
          FoldSet(LAMBDA x, n : n + m.item[x].refcount, 0, {x \in Chunks : Slab(x) = s})

InLru(x) == \E q \in Heaps, id \in Ids : x \in ToSet(m.item_lruq[q][id])
InFreeq(x) == \E h \in Heaps, id \in Ids : x \in ToSet(m.free_itemq[h][id])
NeverUsed(x) == LET f == m.free_item[x[1]][m.slab[Slab(x)].id]
                IN  f # NoItem /\ Slab(f) = Slab(x) /\ x[3] >= f[3]

\* Every chunk of a slab in use is in exactly one place: linked in the LRU queue
\* of its class, in the free queue of its heap and class, still uncarved behind
\* free_item, or unlinked and referenced.
ChunksAccounted ==
    \A x \in Chunks : m.slab[Slab(x)].id # 0 /\ x[3] <= NItem[m.slab[Slab(x)].id] =>
        LET it == m.item[x] IN
        /\ it.linked <=> InLru(x)
        /\ it.slabbed <=> InFreeq(x)
        /\ InFreeq(x) => x \in ToSet(m.free_itemq[x[1]][it.id])
        /\ it.id = m.slab[Slab(x)].id
        /\ Cardinality({b \in {<<"lru", InLru(x)>>, <<"free", InFreeq(x)>>, <<"new", NeverUsed(x)>>,
                               <<"ref", ~it.linked /\ it.refcount > 0>>} : b[2]}) = 1

\* The hash table has one item per key: a store replaces what it finds.
OneItemPerKey ==
    \A x, y \in Chunks : m.item[x].linked /\ m.item[y].linked /\ m.item[x].key = m.item[y].key => x = y

\* Reserved memory is kept for leases and session lists, and they use no other:
\* a value never takes a chunk a lease may need.
HeapsApart ==
    /\ \A x \in Chunks : m.item[x].key # NoKey => (x[1] = ReservedHeap <=> Kind(m, x) \in Pinned)
    /\ \A h \in Heaps : \A s \in ToSet(m.slab_lruq[h]) : s[1] = h

\* The LRU queues are sorted by last access, which flush_all relies on when it
\* stops at the first item that is old enough.
LruSorted ==
    LET Rank(x) == CASE m.item[x].age = "flushed" -> 0 [] m.item[x].age = "old" -> 1
                     [] m.item[x].age = "last" -> 2 [] m.item[x].age = "now" -> 3
    IN  \A q \in Heaps, id \in Ids :
            \A i, j \in 1 .. Len(m.item_lruq[q][id]) :
                i < j => Rank(m.item_lruq[q][id][i]) <= Rank(m.item_lruq[q][id][j])

\* The queues, the hash table and the headers of the items agree about every
\* chunk: ChunksAccounted, OneItemPerKey, HeapsApart and LruSorted, with every
\* variable of its type; under SlabQueuesAssumption.
MemoryConsistent == TypeOK /\ ChunksAccounted /\ OneItemPerKey /\ HeapsApart /\ LruSorted

\* What a connection refers to stays what it is: its chunk is neither freed, nor
\* given to another key, nor swept away with its slab.
HeldItemsStay ==
    [][\A c \in Conns : held[c].it # NoItem /\ held'[c].it = held[c].it =>
          /\ m'.item[held[c].it].key = m.item[held[c].it].key
          /\ ~m'.item[held[c].it].slabbed]_vars

\* The value of a set displaces an unexpired item, by itself or with its slab,
\* only when the class it needs has no free chunk and the heap no slab to give.
\* (An expired item of the queue may survive: _item_alloc looks at the first
\* unreferenced one only.)
EvictsLast ==
    [][\A c \in Conns : held[c].mode = "idle" /\ held'[c].mode = "fill" =>
          LET id == m'.item[held'[c].it].id
              Displaced == {x \in Chunks : m.item[x].linked /\ m.item[x].exp # "past" /\ ~m'.item[x].linked}
          IN  Displaced # {} => /\ m.free_itemq["normal"][id] = <<>>
                                /\ m.free_item["normal"][id] = NoItem
                                /\ slab_heap_full(m, "normal")]_vars
=============================================================================
