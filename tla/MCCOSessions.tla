---------------------------- MODULE MCCOSessions ----------------------------
(***************************************************************************)
(* Instances of COSessions for TLC.                                        *)
(***************************************************************************)
EXTENDS COSessions, KeyLists

CONSTANTS c1, c2, k1, k2

MCKeys == {k1, k2}

Use(a, b) == [k \in MCKeys |-> IF k = k1 THEN a ELSE b]
Cast(p, q) == [c \in {c1, c2} |-> IF c = c1 THEN p ELSE q]

MCCasts ==
    {Cast(Use("read", "read"), Use("write", "update")),
     Cast(Use("read", "read"), Use("refresh", "refresh")),
     Cast(Use("update", "update"), Use("update", "write")),
     Cast(Use("update", "refresh"), Use("write", "refresh")),
     Cast(Use("refresh", "write"), Use("write", "none")),
     Cast(Use("append", "none"), Use("append", "read")),
     Cast(Use("append", "append"), Use("read", "read")),
     Cast(Use("read", "read"), Use("update", "invalidate"))}

\* Keys of two lengths over three bytes; a byte of a key may look like a length.
MCWords == {<<a>> : a \in 1..3} \cup {<<a, b>> : a, b \in 1..3}

\* The lists of keys do not depend on the state: once per run is enough.
AtStart ==
    /\ cache = EmptyCache
    /\ plan = CHOOSE p \in Casts : TRUE
    /\ at = [c \in Sids |-> "run"]
    /\ stage = [c \in Sids |-> Start(plan[c])]

\* What mc_sqltrig.c makes of the keys added to a list is the set of these keys,
\* in whatever order they came (KeyListHoldsSet), and trig_keylist_rmvkey undoes
\* trig_keylist_addkey (KeyListRemoves).
ListsAreSets == AtStart => KeyListHoldsSet /\ KeyListRemoves
=============================================================================
