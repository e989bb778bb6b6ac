------------------------------- MODULE IQItems -------------------------------
(***************************************************************************)
(* The items, leases and transactions of one IQ-Twemcached server          *)
(* (mc_items.c).  Each operation runs under cache_lock and is an operator  *)
(* from the state of the server to a result: the new state, the status     *)
(* written to the client and what goes with it.                            *)
(*                                                                         *)
(* A key has a value item, a lease item and a pending version; a           *)
(* transaction item lists the keys its session holds leases on.  A value   *)
(* is the sequence of the writes it includes, empty for none.  The flag p, *)
(* which the server keeps for the application and never acts on, is left   *)
(* out.                                                                    *)
(***************************************************************************)
EXTENDS Integers, Sequences

CONSTANTS
    Keys,
    Tids    \* the ids of write sessions, which stand for their writes too

\* What the database holds before any session has written.
Loaded == "loaded"
Values == Seq(Tids \cup {Loaded})

\* lease_next_token counts up from LEASE_START, above the reserved values.
LEASE_HOTMISS == 3
LEASE_START == 5
NoToken == -1

\* expires: its exptime is that of the lease.  late: the pending version was
\* created after the lease, and may outlive it.
NoValue == <<>>
NoItem == [value |-> NoValue, config_number |-> -1, expires |-> FALSE]
NoLease == [kind |-> "none", token |-> NoToken, tids |-> {}]
NoVersion == [value |-> NoValue, late |-> FALSE]

Caches ==
    [it    : [Keys -> [value : Values, config_number : Int, expires : BOOLEAN]],
     lease : [Keys -> [kind : {"none", "I", "Q_INV", "Q_REF", "Q_INC"},
                       token : Int, tids : SUBSET Tids]],
     pv    : [Keys -> [value : Values, late : BOOLEAN]],
     trans : [Tids -> SUBSET Keys],
     next  : Nat]

EmptyCache ==
    [it    |-> [k \in Keys |-> NoItem],
     lease |-> [k \in Keys |-> NoLease],
     pv    |-> [k \in Keys |-> NoVersion],
     trans |-> [t \in Tids |-> {}],
     next  |-> LEASE_START]

Result(s, status, it, token) == [s |-> s, status |-> status, it |-> it, token |-> token]
Status(s, status) == Result(s, status, NoItem, NoToken)

\* Mutant: only a lease for invalidate is a Q lease.
QInvOnly(lease) == lease.kind = "Q_INV"

\* item_has_q_lease.
Q(lease) == lease.kind \in {"Q_INV", "Q_REF", "Q_INC"}

\* _item_lease_value equals the token sent: the data of a Q_INV lease is a
\* list of session ids, which never reads as a token.
Matches(lease, token) == lease.kind \notin {"none", "Q_INV"} /\ lease.token = token

\* _item_create_lease.
WithLease(s, k, kind) ==
    [s EXCEPT !.lease[k] = [kind |-> kind, token |-> s.next, tids |-> {}],
              !.next = @ + 1]

\* Mutant: the first session to end takes the lease with it.
RemoveLease(lease, t) == NoLease

\* _item_remove_tid_lease: the lease goes with its last session.
RemoveTid(lease, t) ==
    IF lease.tids \ {t} = {} THEN NoLease ELSE [lease EXCEPT !.tids = @ \ {t}]

------------------------------------------------------------------------------
(* Readers *)

\* iqget, and iset when override.
item_iqget(s, k, token, override) ==
    LET lease == s.lease[k]
        own   == Matches(lease, token)
    IN  IF s.it[k] # NoItem /\ own /\ lease.kind = "Q_REF"
        THEN Status(s, "NO_VALUE")
        ELSE IF s.it[k] # NoItem /\ ~override
        THEN Result(s, "VALUE", s.it[k], NoToken)
        ELSE IF lease = NoLease
        THEN Result(WithLease([s EXCEPT !.it[k] = NoItem], k, "I"), "LEASE", NoItem, s.next)
        ELSE Status(s, IF own THEN "NO_VALUE" ELSE "HOTMISS")

\* Mutant: the lease is not looked at.
item_iqset_unleased(s, k, token, value, config) ==
    Status([s EXCEPT !.it[k] = [value |-> value, config_number |-> config,
                                expires |-> FALSE]], "STORED")

\* _item_store for iqset: only with the I lease, which it ends.
item_iqset(s, k, token, value, config) ==
    IF s.lease[k].kind = "I" /\ Matches(s.lease[k], token)
    THEN Status([s EXCEPT !.it[k] = [value |-> value, config_number |-> config,
                                     expires |-> FALSE],
                          !.lease[k] = NoLease], "STORED")
    ELSE Status(s, "NOT_STORED")

item_get_and_unlease(s, k, token) ==
    IF Matches(s.lease[k], token)
    THEN Status([s EXCEPT !.lease[k] = NoLease], "DELETED")
    ELSE Status(s, "NOT_FOUND")

------------------------------------------------------------------------------
(* Writers that invalidate *)

\* Mutant: the value keeps its own exptime.
item_quarantine_and_register_lasting(s, t, k) ==
    LET shared == IF Q(s.lease[k]) THEN s.lease[k].tids ELSE {}
    IN  Status([s EXCEPT !.lease[k] = [kind |-> "Q_INV", token |-> NoToken,
                                       tids |-> shared \cup {t}],
                         !.trans[t] = @ \cup {k}], "REGISTERED")

\* qareg: an I lease is voided, a Q_INV lease is shared, and the value stays
\* until the sessions end but expires no later than the lease.
item_quarantine_and_register(s, t, k) ==
    LET shared == IF Q(s.lease[k]) THEN s.lease[k].tids ELSE {}
    IN  Status([s EXCEPT !.lease[k] = [kind |-> "Q_INV", token |-> NoToken,
                                       tids |-> shared \cup {t}],
                         !.trans[t] = @ \cup {k},
                         !.it[k].expires = s.it[k] # NoItem], "REGISTERED")

\* dar: the values of the session's keys go, and its part of their leases.
item_delete_and_release(s, t) ==
    LET Mine(k) == k \in s.trans[t]
    IN  IF s.trans[t] = {} THEN Status(s, "INVALID") ELSE
        Status([s EXCEPT
            !.it = [k \in Keys |-> IF Mine(k) THEN NoItem ELSE @[k]],
            !.lease = [k \in Keys |-> IF ~Mine(k) THEN @[k]
                                      ELSE IF @[k].kind = "Q_INV" THEN RemoveTid(@[k], t)
                                      ELSE NoLease],
            !.trans[t] = {}], "DELETED")

------------------------------------------------------------------------------
(* Writers that refresh or apply a delta *)

\* _item_create_pending_version.
Copy(it) == [value |-> it.value, late |-> FALSE]

\* qaread: a Q lease is granted again to the token that holds it, and to
\* nobody else.  The pending version starts as a copy of the value.
item_quarantine_and_read(s, t, k, token) ==
    LET lease == s.lease[k]
        it    == s.it[k]
    IN  IF ~Q(lease)
        THEN LET leased == WithLease([s EXCEPT !.trans[t] = @ \cup {k}], k, "Q_REF")
             IN  Result(IF it = NoItem THEN leased
                        ELSE [leased EXCEPT !.pv[k] = Copy(it)],
                        "LEASE", it, s.next)
        ELSE IF Matches(lease, token)
        THEN Result(s, "LEASE", [NoItem EXCEPT !.value = s.pv[k].value], token)
        ELSE Status(s, "HOTMISS")

\* swap replaces the pending version.
item_swap(s, k, token, value) ==
    IF Matches(s.lease[k], token)
    THEN Status([s EXCEPT !.pv[k] = [value |-> value, late |-> TRUE]], "STORED")
    ELSE Status(s, "INVALID")

\* iqappend: the delta goes to the pending version.  Without a
\* value there is none to make; one that an earlier session left stays.
item_iqappend_iqprepend(s, t, k) ==
    LET lease  == s.lease[k]
        leased == WithLease([s EXCEPT !.trans[t] = @ \cup {k}], k, "Q_INC")
        base   == IF Q(lease) THEN s.pv[k] ELSE Copy(s.it[k])
        after  == IF Q(lease) THEN s ELSE leased
    IN  IF Q(lease) /\ k \notin s.trans[t] THEN Status(s, "ABORT")
        ELSE IF base.value = NoValue
        THEN Result(after, "LEASE_NO_VALUE", NoItem, after.lease[k].token)
        ELSE Result([after EXCEPT !.pv[k] = [base EXCEPT !.value = Append(@, t)]],
                    "LEASE", NoItem, after.lease[k].token)

\* Mutant: a value without a pending version stays.
CommittedOrKept(s, k, config) ==
    IF s.lease[k].kind # "Q_INV" /\ s.pv[k] # NoVersion
    THEN [value |-> s.pv[k].value, config_number |-> config, expires |-> FALSE]
    ELSE s.it[k]

\* A pending version becomes the value, stamped by the server; a value
\* without one is dropped.
Committed(s, k, config) ==
    IF s.lease[k].kind # "Q_INV" /\ s.pv[k] # NoVersion
    THEN [value |-> s.pv[k].value, config_number |-> config, expires |-> FALSE]
    ELSE NoItem

\* commit.  A key whose lease is gone, or is by now a reader's, is passed
\* over in silence.
item_commit(s, t, config) ==
    LET Mine(k) == k \in s.trans[t] /\ Q(s.lease[k])
    IN  IF s.trans[t] = {} THEN Status(s, "NOT_FOUND") ELSE
        Status([s EXCEPT
            !.it = [k \in Keys |-> IF Mine(k) THEN Committed(s, k, config) ELSE @[k]],
            !.lease = [k \in Keys |-> IF ~Mine(k) THEN @[k]
                                      ELSE IF @[k].kind = "Q_INV" THEN RemoveTid(@[k], t)
                                      ELSE NoLease],
            !.pv = [k \in Keys |-> IF Mine(k) THEN NoVersion ELSE @[k]],
            !.trans[t] = {}], "OK")

------------------------------------------------------------------------------
(* Expiry and eviction *)

\* _item_get finds a lease past its exptime, and with it what was created or
\* marked to expire with it.
Expired(s, k) ==
    [s EXCEPT !.lease[k] = NoLease,
              !.pv[k] = IF @.late THEN @ ELSE NoVersion,
              !.it[k] = IF @.expires THEN NoItem ELSE @]

\* item_get_from_lruq: values and pending versions go, leases are pinned.
Evicted(s, k) == [s EXCEPT !.it[k] = NoItem]
EvictedVersion(s, k) == [s EXCEPT !.pv[k] = NoVersion]
==============================================================================
