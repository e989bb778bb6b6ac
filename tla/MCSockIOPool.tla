---------------------------- MODULE MCSockIOPool ----------------------------
(***************************************************************************)
(* Instances of SockIOPool for TLC.                                        *)
(***************************************************************************)
EXTENDS SockIOPool

Set(servers, threads, aliveCheck, failover, failback, maintSleep, outs) ==
    [servers |-> servers, threads |-> threads, aliveCheck |-> aliveCheck, ciget |-> FALSE,
     failover |-> failover, failback |-> failback, maintSleep |-> maintSleep, outages |-> outs]

\* Two threads, or one and a server that fails, with and without maintenance;
\* one thread at two servers, with every way of failing over; one that calls
\* ciget.
MCSettings ==
    {Set({"h1"}, {"t1", "t2"}, FALSE, TRUE, TRUE, TRUE, 0),
     Set({"h1"}, {"t1", "t2"}, FALSE, FALSE, FALSE, FALSE, 1),
     Set({"h1"}, {"t1"}, FALSE, TRUE, TRUE, TRUE, 1),
     Set({"h1"}, {"t1"}, TRUE, TRUE, TRUE, TRUE, 1),
     Set({"h1", "h2"}, {"t1"}, TRUE, TRUE, FALSE, FALSE, 1),
     Set({"h1", "h2"}, {"t1"}, FALSE, TRUE, TRUE, FALSE, 1),
     [Set({"h1"}, {"t1"}, FALSE, TRUE, TRUE, TRUE, 1) EXCEPT !.ciget = TRUE]}
=============================================================================
