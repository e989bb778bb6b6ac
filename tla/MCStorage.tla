----------------------------- MODULE MCStorage -----------------------------
(* Instance of Storage for TLC: two classes of slabs, the small one with two *)
(* chunks in a slab, and settings that differ in what may be evicted.        *)
EXTENDS Storage

Names(values, leases, coleases, sess) ==
    [value |-> values, version |-> {}, lease |-> leases, colease |-> coleases, sess |-> sess]
Versions(values, versions) == [Names(values, {}, {}, {}) EXCEPT !.version = versions]

MCNItem == <<2, 1>>
MCMaxSlab == [normal |-> 2, reserved |-> 1]

Setup(evict, names, ids, exps, clock) ==
    [evict |-> evict, names |-> names, ids |-> ids, exps |-> exps, clock |-> clock]

MCSetups ==
    {\* Item eviction, with flush_all and with expiring values next to a lease.
     Setup({"LRU"}, Names({"k1", "k2"}, {}, {}, {}), {2}, {"never"}, TRUE),
     Setup({"LRU"}, Names({"k1", "k2"}, {"k1"}, {}, {}), {2}, {"live"}, FALSE),
     \* Slab eviction at random, and of the least recently used slab.
     Setup({"RS"}, Names({"k1", "k2"}, {}, {}, {}), {1, 2}, {"never"}, FALSE),
     Setup({"AS"}, Names({"k1", "k2"}, {"k1"}, {}, {}), {2}, {"never"}, FALSE),
     Setup({"CS", "RS"}, Names({"k1"}, {}, {}, {}), {1, 2}, {"never"}, FALSE),
     \* No eviction.
     Setup({}, Names({"k1", "k2"}, {"k1"}, {}, {}), {2}, {"never"}, FALSE),
     \* Session lists and the leases of their keys.
     Setup({"LRU"}, Names({"k1"}, {}, {"k1"}, {"s1"}), {2}, {"never"}, FALSE),
     Setup({"LRU"}, Names({}, {"k1"}, {"k1"}, {"s1"}), {2}, {"never"}, TRUE),
     \* Pending versions next to a value.
     Setup({"LRU"}, Versions({"k1"}, {"k1"}), {2}, {"never"}, FALSE),
     Setup({"RS"}, Versions({"k1"}, {"k1"}), {1}, {"never"}, FALSE)}
=============================================================================
