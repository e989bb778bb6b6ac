------------------------------ MODULE KeyLists ------------------------------
(***************************************************************************)
(* The lists that the items of transactions, sessions and shared leases    *)
(* hold (mc_sqltrig.c): keys one after the other in the bytes of a value,  *)
(* each behind a byte with its length.  COItems and IQItems take them for  *)
(* sets; the properties here say that this is what they are.               *)
(*                                                                         *)
(* A position is the number of bytes before it.                            *)
(***************************************************************************)
EXTENDS Integers, FiniteSets, Sequences

LOCAL INSTANCE SequencesExt

CONSTANTS
    Words,      \* the keys, sequences of bytes
    MaxEntries  \* bound on the keys of a list

KeyAt(list, pos) == SubSeq(list, pos + 2, pos + 1 + list[pos + 1])
After(list, pos) == pos + 1 + list[pos + 1]

\* The sign of memcmp over keys of one length.
memcmp(key1, key2) ==
    LET diff == {i \in DOMAIN key1 : key1[i] # key2[i]}
        first == CHOOSE i \in diff : \A j \in diff : i <= j
    IN  IF diff = {} THEN 0 ELSE key1[first] - key2[first]

trig_compare_key(key1, key2) ==
    IF Len(key1) # Len(key2) THEN Len(key2) - Len(key1) ELSE memcmp(key1, key2)

\* Looks until a key that has to come after the one in question.
trig_check_keylist(list, listlen, key) ==
    LET found[pos \in 0..Len(list)] ==
            /\ pos < listlen
            /\ LET cmp == trig_compare_key(KeyAt(list, pos), key)
               IN  cmp = 0 \/ (cmp > 0 /\ found[After(list, pos)])
    IN  found[0]

\* Mutant: a new key goes to the end.
trig_keylist_addkey_end(list, key) == list \o <<Len(key)>> \o key

\* The key goes before the first that has to come after it.  Callers have
\* made sure that it is not there.
trig_keylist_addkey(list, key) ==
    LET ins[pos \in 0..Len(list)] ==
            IF pos < Len(list) /\ trig_compare_key(KeyAt(list, pos), key) > 0
            THEN ins[After(list, pos)] ELSE pos
        pos == ins[0]
    IN  SubSeq(list, 1, pos) \o <<Len(key)>> \o key \o SubSeq(list, pos + 1, Len(list))

\* Callers have made sure that the key is there.
trig_keylist_rmvkey(list, key) ==
    LET at[pos \in 0..Len(list)] ==
            IF pos < Len(list) /\ KeyAt(list, pos) # key THEN at[After(list, pos)] ELSE pos
    IN  SubSeq(list, 1, at[0]) \o SubSeq(list, at[0] + Len(key) + 2, Len(list))

trig_size_keylist(list) ==
    LET cnt[pos \in 0..Len(list)] == IF pos < Len(list) THEN 1 + cnt[After(list, pos)] ELSE 0
    IN  cnt[0]

\* What a loop over trig_keylist_next visits.
trig_keylist_next(list) ==
    LET visit[pos \in 0..Len(list)] ==
            IF pos < Len(list) THEN <<KeyAt(list, pos)>> \o visit[After(list, pos)] ELSE <<>>
    IN  visit[0]

----------------------------------------------------------------------------
KeySets == {S \in SUBSET Words : Cardinality(S) <= MaxEntries}
Built(keys) == FoldLeft(trig_keylist_addkey, <<>>, keys)

\* The order in which keys were added does not matter: the list is the same,
\* has every key once, and a search finds those keys and no others, although it
\* gives up at the first key that sorts after the one in question.
KeyListHoldsSet ==
    \A S \in KeySets : \A keys \in SetToSeqs(S) :
        LET list == Built(keys)
        IN  /\ list = Built(SetToSeq(S))
            /\ \A k \in Words : trig_check_keylist(list, Len(list), k) <=> k \in S
            /\ Range(trig_keylist_next(list)) = S
            /\ trig_size_keylist(list) = Cardinality(S)

\* Removing a key leaves the list that the other keys build.
KeyListRemoves ==
    \A S \in KeySets : \A k \in S :
        trig_keylist_rmvkey(Built(SetToSeq(S)), k) = Built(SetToSeq(S \ {k}))
=============================================================================
