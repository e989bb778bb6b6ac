------------------------------- MODULE COItems -------------------------------
(***************************************************************************)
(* C and O leases of one IQ-Twemcached server (mc_items.c): the operations *)
(* of sessions that read with ciget, write with oqread and oqswap, oqwrite *)
(* or oqappend, and end with validate and dcommit or with counlease.  Each *)
(* runs under cache_lock and is an operator from the state of the server   *)
(* to its new state and what it answers.  No oqreg of this client gets as  *)
(* far as that, and with it goes the O lease for invalidate.               *)
(*                                                                         *)
(* A key has a value item, an I or Q lease, a pending version and a C or O *)
(* lease that lists sessions; a session item lists its keys.  A value is   *)
(* the set of the sessions whose writes it includes.  The token of an I    *)
(* lease is the session it was given to: a session that asks again has the *)
(* token of the last lease it was given.                                   *)
(***************************************************************************)
EXTENDS FiniteSets

CONSTANTS
    Keys,
    Sids,
    Prefixes    \* pairs of session ids, the first a proper prefix of the second

\* expires: a value has the exptime of the Q lease of an oqread; a pending
\* version was created before the O lease of its session.
NoItem == [here |-> FALSE, value |-> {}, expires |-> FALSE]
NoLease == [kind |-> "none", to |-> {}]
NoCoLease == [kind |-> "none", sids |-> {}]
NoSession == [status |-> "none", keys |-> {}]

Item(value) == [here |-> TRUE, value |-> value, expires |-> FALSE]

Items == [here : BOOLEAN, value : SUBSET Sids, expires : BOOLEAN]

Caches ==
    [it    : [Keys -> Items],
     lease : [Keys -> [kind : {"none", "I", "Q_REF"}, to : SUBSET Sids]],
     pv    : [Keys -> Items],
     co    : [Keys -> [kind : {"none", "C", "O_REF"}, sids : SUBSET Sids]],
     sess  : [Sids -> [status : {"none", "ALIVE", "ABORT"}, keys : SUBSET Keys]]]

EmptyCache ==
    [it    |-> [k \in Keys |-> NoItem],
     lease |-> [k \in Keys |-> NoLease],
     pv    |-> [k \in Keys |-> NoItem],
     co    |-> [k \in Keys |-> NoCoLease],
     sess  |-> [c \in Sids |-> NoSession]]

Result(s, status, it) == [s |-> s, status |-> status, it |-> it]
Status(s, status) == Result(s, status, NoItem)

O(co) == co.kind = "O_REF"

------------------------------------------------------------------------------
(* Lists of sessions and of keys *)

\* _item_assoc_key_sid.
WithKey(s, c, k) ==
    [s EXCEPT !.sess[c] =
        IF k \in @.keys THEN @ ELSE [status |-> "ALIVE", keys |-> @.keys \cup {k}]]

\* Mutant: every lease is a C lease.
WithSidShared(s, c, k, type) ==
    [s EXCEPT !.co[k] = IF c \in @.sids THEN @ ELSE [kind |-> "C", sids |-> @.sids \cup {c}]]

\* _item_assoc_sid_colease: a new lease is of the type asked for, a list that
\* has the session stays.
WithSid(s, c, k, type) ==
    [s EXCEPT !.co[k] = IF c \in @.sids THEN @ ELSE [kind |-> type, sids |-> @.sids \cup {c}]]

\* _item_remove_sid_colease: the lease goes with its last session.
WithoutSids(co, sids) ==
    IF sids \cap co.sids = {} THEN co
    ELSE IF co.sids \subseteq sids THEN NoCoLease ELSE [co EXCEPT !.sids = @ \ sids]

\* memcmp over the length of the first id.
SameSession(c, p) == c = p \/ <<c, p>> \in Prefixes

\* Mutant: sessions keep running when a key they read is about to change.
no_abort_sessions(s, c, k) == s

\* The sessions that hold a C lease on k are marked as aborted.  They lose
\* their other keys' C or O leases, and whatever I or Q lease is there; the
\* pending versions stay.
abort_sessions(s, c, k) ==
    LET victims == {p \in s.co[k].sids : s.sess[p] # NoSession /\ ~SameSession(c, p)}
        With(t) == {p \in victims : t # k /\ t \in s.sess[p].keys}
    IN  [s EXCEPT
            !.sess = [p \in Sids |-> IF p \in victims THEN [@[p] EXCEPT !.status = "ABORT"]
                                                      ELSE @[p]],
            !.co = [t \in Keys |-> WithoutSids(@[t], With(t))],
            !.lease = [t \in Keys |-> IF With(t) # {} /\ s.co[t] # NoCoLease
                                      THEN NoLease ELSE @[t]]]

\* Everything the session has on its keys goes, and the session.
clean_session(s, c) ==
    LET mine == s.sess[c].keys
    IN  [s EXCEPT
            !.lease = [k \in Keys |-> IF k \in mine THEN NoLease ELSE @[k]],
            !.co = [k \in Keys |-> IF k \in mine THEN WithoutSids(@[k], {c}) ELSE @[k]],
            !.pv = [k \in Keys |-> IF k \in mine THEN NoItem ELSE @[k]],
            !.sess[c] = NoSession]

\* The first thing every operation looks at: a session marked as aborted is
\* told so, and forgotten.
IsAborted(s, c) == s.sess[c].status = "ABORT"
Aborted(s, c) == Status([s EXCEPT !.sess[c] = NoSession], "ABORT")

\* Mutant: only sessions that invalidate keep others out.
DeniedInv(s, c, k) == s.co[k].kind = "O_INV" /\ c \notin s.co[k].sids

\* Another session has the key for writing.
Denied(s, c, k) == O(s.co[k]) /\ c \notin s.co[k].sids
Cleaned(s, c) == Status(clean_session(s, c), "ABORT")

\* The readers of a key that is about to be written are out, and the C lease.
Upgraded(s, c, k) ==
    IF s.co[k].kind = "C"
    THEN [abort_sessions(s, c, k) EXCEPT !.co[k] = NoCoLease] ELSE s

------------------------------------------------------------------------------
(* Readers *)

\* The C lease of a key that is free: a hit gives the value, a miss an I lease.
GrantC(s, c, k) ==
    LET joined == WithSid(WithKey(s, c, k), c, k, "C")
    IN  IF s.it[k].here THEN Result(joined, "VALUE", s.it[k])
        ELSE Status([joined EXCEPT !.lease[k] = [kind |-> "I", to |-> {c}]], "LEASE")

\* A key with a Q lease but no O lease: the session's list of keys is searched
\* over the length of the session id only, and scanned says if that was
\* enough to get to k.
BehindQ(s, c, k, scanned) ==
    IF scanned /\ k \in s.sess[c].keys
    THEN Result(s, IF s.it[k].here THEN "VALUE" ELSE "NO_VALUE", s.it[k])
    ELSE Status(s, "RETRY")

\* A key that another session writes ends this one.
item_ciget(s, c, k, scanned) ==
    IF IsAborted(s, c) THEN Aborted(s, c)
    ELSE IF Denied(s, c, k) THEN Cleaned(s, c)
    ELSE IF O(s.co[k])
    THEN Result(s, IF s.pv[k].here THEN "VALUE" ELSE "NO_VALUE", s.pv[k])
    ELSE IF s.lease[k].kind = "I"
    THEN Status(s, IF c \in s.lease[k].to THEN "NO_VALUE" ELSE "RETRY")
    ELSE IF s.lease[k] # NoLease THEN BehindQ(s, c, k, scanned)
    ELSE GrantC(s, c, k)

\* _item_store for iqset.
item_iqset(s, c, k, value) ==
    IF s.lease[k].kind = "I" /\ c \in s.lease[k].to
    THEN Status([s EXCEPT !.it[k] = Item(value), !.lease[k] = NoLease], "STORED")
    ELSE Status(s, "NOT_STORED")

------------------------------------------------------------------------------
(* Writers *)

\* Mutant: the value read keeps its own exptime.
item_oqread_lasting(s, c, k) ==
    LET u == Upgraded(s, c, k)
    IN  IF IsAborted(s, c) THEN Aborted(s, c)
        ELSE IF Denied(s, c, k) THEN Cleaned(s, c)
        ELSE IF O(s.co[k]) THEN Result(s, "OK", s.it[k])
        ELSE IF u.lease[k].kind = "Q_REF" THEN Status(u, "ABORT")
        ELSE Result(WithSid(WithKey([u EXCEPT !.lease[k] = [kind |-> "Q_REF", to |-> {}]],
                                    c, k), c, k, "O_REF"), "OK", s.it[k])

\* The value is read under a new O lease and a new Q lease, which replaces an
\* I lease, and expires with the Q lease.
item_oqread(s, c, k) ==
    LET u == Upgraded(s, c, k)
    IN  IF IsAborted(s, c) THEN Aborted(s, c)
        ELSE IF Denied(s, c, k) THEN Cleaned(s, c)
        ELSE IF O(s.co[k]) THEN Result(s, "OK", s.it[k])
        ELSE IF u.lease[k].kind = "Q_REF" THEN Status(u, "ABORT")
        ELSE Result(WithSid(WithKey([u EXCEPT !.lease[k] = [kind |-> "Q_REF", to |-> {}],
                                              !.it[k].expires = s.it[k].here],
                                    c, k), c, k, "O_REF"), "OK", s.it[k])

\* A session without the O lease takes it from the session that has it.
item_oqswap(s, c, k, value) ==
    IF IsAborted(s, c) THEN Aborted(s, c)
    ELSE IF ~O(s.co[k]) THEN Status(s, "ABORT")
    ELSE IF c \notin s.co[k].sids THEN Status([s EXCEPT !.co[k] = NoCoLease], "ABORT")
    ELSE IF s.lease[k].kind # "Q_REF" THEN Status(s, "INVALID")
    ELSE Status([s EXCEPT !.lease[k] = NoLease, !.pv[k] = Item(value)], "OK")

\* A new O lease leaves the I or Q lease of a key that had no C lease alone.
item_oqwrite(s, c, k, value) ==
    LET fresh == s.co[k] = NoCoLease \/ s.co[k].kind = "C"
        u     == Upgraded(s, c, k)
        Write(t) == WithKey([t EXCEPT !.pv[k] = Item(value)], c, k)
    IN  IF IsAborted(s, c) THEN Aborted(s, c)
        ELSE IF Denied(s, c, k) THEN Cleaned(s, c)
        ELSE IF fresh
        THEN Status(Write(WithSid([u EXCEPT !.lease[k] = IF s.co[k].kind = "C" THEN NoLease
                                                         ELSE @], c, k, "O_REF")), "OK")
        ELSE IF s.lease[k].kind \notin {"none", "Q_REF"} THEN Status(s, "INVALID")
        ELSE Status(Write([s EXCEPT !.lease[k] = NoLease]), "OK")

\* The new part goes to the pending version, which starts as a copy of the
\* value; without either there is nothing to append to.
item_oqappend_oqprepend(s, c, k, value) ==
    LET u    == Upgraded(s, c, k)
        base == IF s.pv[k].here THEN s.pv[k] ELSE [s.it[k] EXCEPT !.expires = TRUE]
        Append(t) == [t EXCEPT !.lease[k] = NoLease,
                               !.pv[k] = IF base.here THEN [base EXCEPT !.value = @ \cup value]
                                         ELSE @]
    IN  IF IsAborted(s, c) THEN Aborted(s, c)
        ELSE IF Denied(s, c, k) THEN Cleaned(s, c)
        ELSE Status(WithKey(WithSid(IF u.lease[k].kind \in {"none", "I"} THEN Append(u) ELSE u,
                                    c, k, "O_REF"), c, k), "OK")

------------------------------------------------------------------------------
(* The end of a session *)

\* What becomes of the value of k when a session that lists it commits: it
\* is replaced by the pending version, dropped for want of one, or kept.
Committed(s, k) ==
    CASE s.co[k].kind = "O_REF" -> IF s.pv[k].here THEN Item(s.pv[k].value) ELSE NoItem
      [] s.co[k].kind = "C"     -> [s.it[k] EXCEPT !.expires = FALSE]
      [] OTHER                  -> s.it[k]

item_dcommit(s, c) ==
    LET mine == s.sess[c].keys
    IN  IF s.sess[c] = NoSession THEN Status(s, "NOT_FOUND")
        ELSE IF IsAborted(s, c) THEN Aborted(s, c)
        ELSE Status([s EXCEPT
            !.it = [k \in Keys |-> IF k \in mine THEN Committed(s, k) ELSE @[k]],
            !.lease = [k \in Keys |-> IF k \in mine THEN NoLease ELSE @[k]],
            !.pv = [k \in Keys |-> IF k \in mine /\ s.co[k].kind = "O_REF" THEN NoItem ELSE @[k]],
            !.co = [k \in Keys |-> IF k \in mine THEN WithoutSids(@[k], {c}) ELSE @[k]],
            !.sess[c] = NoSession], "OK")

\* A session is good if no lease of its keys has gone to others.
item_validate(s, c) ==
    IF s.sess[c] = NoSession THEN Status(s, "ABORT")
    ELSE IF IsAborted(s, c) THEN Aborted(s, c)
    ELSE IF \E k \in s.sess[c].keys : s.co[k] # NoCoLease /\ c \notin s.co[k].sids
    THEN Cleaned(s, c)
    ELSE Status(s, "OK")

item_co_unlease(s, c) ==
    IF s.sess[c] = NoSession THEN Status(s, "NOT_FOUND")
    ELSE IF IsAborted(s, c) THEN Aborted(s, c)
    ELSE Status(clean_session(s, c), "OK")

------------------------------------------------------------------------------
(* Expiry and eviction *)

\* Mutant: an I or Q lease has no exptime.
LeaseKept(s, k) == s

\* _item_get finds an I or Q lease past its exptime, and the value that was
\* to expire with it.
ExpiredLease(s, k) ==
    [s EXCEPT !.lease[k] = NoLease, !.it[k] = IF @.expires THEN NoItem ELSE @]

\* A C or O lease is created after the I or Q lease of the key, and expires
\* no earlier.  The pending version of oqswap or oqwrite may live longer.
ExpiredCoLease(s, k) ==
    [ExpiredLease(s, k) EXCEPT !.co[k] = NoCoLease, !.pv[k] = IF @.expires THEN NoItem ELSE @]
ExpiredSession(s, c) == [s EXCEPT !.sess[c] = NoSession]

\* item_get_from_lruq: values and pending versions go, leases are pinned.
Evicted(s, k) == [s EXCEPT !.it[k] = NoItem]
EvictedVersion(s, k) == [s EXCEPT !.pv[k] = NoItem]
==============================================================================
