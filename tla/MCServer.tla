------------------------------ MODULE MCServer ------------------------------
(* Instance of Server for TLC: requests of each kind of reply, and refusals,   *)
(* before a set and a get on one connection, and two connections that share a  *)
(* worker or the only descriptor.                                              *)
EXTENDS Server

Req(cmd, noreply, hits, bad) == [cmd |-> cmd, noreply |-> noreply, hits |-> hits, bad |-> bad]
Plain(cmd) == Req(cmd, FALSE, 1, {})

Requests ==
    {Plain(cmd) : cmd \in {"set", "sar", "swap", "iqappend", "get", "iqget", "ciget", "qaread",
                           "iqincr", "incr", "delete", "stats", "quit"}}
    \cup {Req(cmd, FALSE, 0, {"stale"}) : cmd \in {"set", "swap", "iqappend", "get", "iqget"}}
    \cup {Req(cmd, TRUE, 0, {}) : cmd \in {"set", "delete"}}
    \cup {Req("get", FALSE, 2, {}), Req("get", FALSE, 0, {"key"}), Req("get", FALSE, 1, {"key"}),
          Req("get", FALSE, 0, {"long"}),
          Req("delete", FALSE, 0, {"long"}), Req("sar", FALSE, 0, {"args"}),
          Req("set", FALSE, 0, {"crlf"}), Req("set", FALSE, 0, {"size"})}
Probes == {Plain("set"), Req("get", FALSE, 2, {})}

Setup(s1, s2, workers, reqs, fds, alloc, leave) ==
    [script |-> ("c1" :> s1) @@ ("c2" :> s2), workers |-> workers, reqs |-> reqs, fds |-> fds,
     alloc |-> alloc, leave |-> leave]
One(script, reqs, alloc, leave) == Setup(script, <<>>, 1, reqs, 2, alloc, leave)

MCSetups ==
    {One(<<r, p>>, 1, {TRUE}, {}) : r \in Requests, p \in Probes}
    \cup {One(<<r, Plain("iqget")>>, 2, {TRUE}, {}) : r \in {Plain("iqincr"), Plain("ciget"), Plain("iqappend")}}
    \* Memory runs out, or the client goes away.
    \cup {One(<<Plain(cmd), Plain("delete")>>, 2, {TRUE, FALSE}, {}) : cmd \in StorageCommands \cup {"iqget"}}
    \cup {One(<<r>>, 1, {TRUE}, {"c1"}) : r \in {Plain(cmd) : cmd \in {"set", "get", "iqincr", "stats"}}
                                                \cup {Req("set", FALSE, 0, {"stale"})}}
    \* Two connections of one worker; two workers with one descriptor left.
    \cup {Setup(<<Plain("get")>>, <<Plain("delete")>>, 1, 1, 2, {TRUE}, {}),
          Setup(<<Plain("delete")>>, <<Plain("quit")>>, 2, 1, 1, {TRUE}, {"c1"})}
=============================================================================
