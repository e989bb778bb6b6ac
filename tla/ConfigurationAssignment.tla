---------------------- MODULE ConfigurationAssignment -----------------------
(***************************************************************************)
(* How the owners of the fragments in the next configuration are found     *)
(* (ConfigurationAssignment.java): the same number for every server, or    *)
(* fragments moved from the servers that have more than their part of the  *)
(* load.                                                                   *)
(*                                                                         *)
(* An assignment is a function from fragment ids to servers.  The code     *)
(* goes through a hash map of the servers that have fragments: order is    *)
(* the order it does that in.  Loads are percentages, scaled so that the   *)
(* load of a fragment is whole; rounding of doubles is left out.           *)
(***************************************************************************)
EXTENDS Integers, FiniteSets, SequencesExt

CONSTANTS
    Hosts,      \* newServers
    MaxFrags,   \* bound on the number of fragments
    Percents    \* loads a server may have

FragsOf(owner, s) == {f \in DOMAIN owner : owner[f] = s}
Rank(owner, f) == Cardinality({g \in FragsOf(owner, owner[f]) : g < f})
Count(owner, s) == Cardinality(FragsOf(owner, s))

\* A server keeps its first fragsPerServer fragments; the others fill up the
\* servers that have fewer, and what is over then gets no server.
Assign(owner, order, fragsPerServer) ==
    LET kept == {f \in DOMAIN owner : Rank(owner, f) < fragsPerServer}
        reassignFragIds == SetToSortSeq(DOMAIN owner \ kept, <)
        reassignIndex[i \in 0..Len(order)] ==
            IF i = 0 THEN 0
            ELSE LET room == fragsPerServer - Count(owner, order[i])
                 IN  reassignIndex[i - 1] + (IF room > 0 THEN room ELSE 0)
        given == {j \in DOMAIN reassignFragIds : j <= reassignIndex[Len(order)]}
        NewOwner(j) == order[Min({i \in DOMAIN order : j <= reassignIndex[i]})]
    IN  [f \in kept \cup {reassignFragIds[j] : j \in given} |->
            IF f \in kept THEN owner[f]
            ELSE NewOwner(CHOOSE j \in given : reassignFragIds[j] = f)]

\* loadPerFrag of all servers and balanceLoad, times Scale.
Scale(owner, order) ==
    Cardinality(Hosts) * FoldSeq(LAMBDA s, p : Count(owner, s) * p, 1, order)
LoadPerFrag(owner, order, load, s) == (load[s] * Scale(owner, order)) \div Count(owner, s)
BalanceLoad(owner, order) == (100 * Scale(owner, order)) \div Cardinality(Hosts)

\* Mutant: the fragments that a server gives away get no other.
AssignBalanceLoadDrops(owner, order, load) ==
    [f \in {f \in DOMAIN owner :
                LET per == LoadPerFrag(owner, order, load, owner[f])
                IN  (Rank(owner, f) + 1) * per <= BalanceLoad(owner, order)} |-> owner[f]]

\* A server above its part gives its first fragments away; they go to the
\* servers below theirs, each until it has its part, and what is over then to
\* the same servers in turn.
AssignBalanceLoad(owner, order, load) ==
    LET balance == BalanceLoad(owner, order)
        PerFrag(s) == LoadPerFrag(owner, order, load, s)
        Over(s) == load[s] * Scale(owner, order) > balance
        Moves(f) == Over(owner[f]) /\ Rank(owner, f) < Count(owner, owner[f]) - balance \div PerFrag(owner[f])
        underLoadServers == SelectSeq(order, LAMBDA s : ~Over(s))
        reassignFragIds == FlattenSeq([i \in DOMAIN order |->
            SetToSortSeq({f \in FragsOf(owner, order[i]) : Moves(f)}, <)])
        n == Len(reassignFragIds)
        Taken(i, j) == MapThenSumSet(LAMBDA k : PerFrag(owner[reassignFragIds[k]]), i..j)
        reassignIndex[i \in 0..Len(order)] ==
            IF i = 0 THEN 0
            ELSE LET from == reassignIndex[i - 1]
                     Full(j) == load[order[i]] * Scale(owner, order) + Taken(from + 1, j) >= balance
                 IN  Min({j \in from..n : j = n \/ Full(j)})
        last == reassignIndex[Len(order)]
        NewOwner(j) ==
            IF j <= last THEN order[Min({i \in DOMAIN order : j <= reassignIndex[i]})]
            ELSE underLoadServers[((j - last - 1) % Len(underLoadServers)) + 1]
    IN  [f \in DOMAIN owner |->
            IF Moves(f) THEN NewOwner(CHOOSE j \in 1..n : reassignFragIds[j] = f) ELSE owner[f]]

----------------------------------------------------------------------------
\* Every assignment is looked at, so one order of the servers is enough.
Order == SetToSeq(Hosts)
Owners == {owner \in UNION {[0..(n - 1) -> Hosts] : n \in 1..MaxFrags} :
              \A s \in Hosts : FragsOf(owner, s) # {}}

\* Where every server has fragments and they divide evenly, assign finds a server
\* for every fragment, the same number for each, and moves no fragment of a
\* server that has not too many, whatever the order of the hash map.
AssignEven ==
    \A owner \in Owners :
        LET n == Cardinality(DOMAIN owner)
            per == n \div Cardinality(Hosts)
            new == Assign(owner, Order, per)
        IN  n % Cardinality(Hosts) = 0 =>
                /\ DOMAIN new = DOMAIN owner
                /\ \A s \in Hosts : Count(new, s) = per
                /\ \A f \in DOMAIN owner : Count(owner, owner[f]) <= per => new[f] = owner[f]

\* assignBalanceLoad finds a server for every fragment and moves none of a server
\* that has not more than its part.  A server that had more ends with no more
\* than its part, and no server ends above it by more than a fragment for each
\* other server, though fragments differ in weight and are handed out blindly.
BalanceBounded ==
    \A owner \in Owners, load \in [Hosts -> Percents] :
        LET new == AssignBalanceLoad(owner, Order, load)
            Weight(f) == LoadPerFrag(owner, Order, load, owner[f])
            NewLoad(s) == MapThenSumSet(Weight, FragsOf(new, s))
            balance == BalanceLoad(owner, Order)
            others == Cardinality(Hosts) - 1
            Over(s) == load[s] * Cardinality(Hosts) > 100
        IN  SumFunction(load) = 100 =>
                /\ DOMAIN new = DOMAIN owner
                /\ \A f \in DOMAIN owner : ~Over(owner[f]) => new[f] = owner[f]
                /\ \A s \in Hosts : Over(s) => NewLoad(s) <= balance
                /\ \A s \in Hosts : \E f \in DOMAIN owner :
                        NewLoad(s) <= balance + others * Weight(f)
=============================================================================
