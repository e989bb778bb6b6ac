------------------------------- MODULE Server -------------------------------
(***************************************************************************)
(* The event loops of a cache server: the dispatcher accepts connections    *)
(* and hands them to worker threads, and a worker drives the state machine  *)
(* of its connections (core_drive_machine) each time libevent reports one   *)
(* of them ready.  Clients send requests without waiting for replies, read  *)
(* replies late, and may go away at any time.                               *)
(***************************************************************************)
EXTENDS Connection, SequencesExt

CONSTANTS
    Clients,        \* each connects once
    MaxWorkers,     \* bound on settings.num_workers
    SndBuf,         \* units a socket holds for a client that does not read
    Setups          \* [script: client -> requests, workers: settings.num_workers,
                    \*  reqs: settings.reqs_per_event,
                    \*  fds: connections the process may have open,
                    \*  alloc: may item_alloc succeed and may it fail?,
                    \*  leave: clients that may close at any time]

VARIABLES
    client,         \* [Clients -> [state, sent, got]]
    sock,           \* [Clients -> [in, out]]: units the server has to read, the client to read
    conn,           \* [Clients -> struct conn]
    thread,         \* [Clients -> worker of the connection]
    new_cq,         \* [Workers -> connections not yet taken over; a byte in the pipe for each]
    active,         \* [Workers -> [c, nreqs]]: the connection a worker drives
    main,           \* "loop", or "full": accept() has just failed with EMFILE
    accepting,      \* settings.accepting_conns
    last_thread,
    free_connq,     \* sizes of the read buffers of the free connections
    setup

vars == <<client, sock, conn, thread, new_cq, active, main, accepting, last_thread,
          free_connq, setup>>
network == <<client, sock>>
threads == <<thread, new_cq, main, accepting, last_thread, free_connq, setup>>

Workers == 0..(MaxWorkers - 1)
None == [c |-> "none", nreqs |-> 0]

Stream(c) == FlattenSeq([n \in DOMAIN setup.script[c] |-> Units(n, setup.script[c][n])])

Open(c) == conn[c].state # "CLOSED"
States == {"NEW_CMD", "WAIT", "READ", "PARSE", "NREAD", "SWALLOW", "WRITE", "MWRITE", "CLOSE",
           "CLOSED"}

Init ==
    /\ setup \in Setups
    /\ client = [c \in Clients |-> [state |-> "idle", sent |-> 0, got |-> <<>>]]
    /\ sock = [c \in Clients |-> [in |-> <<>>, out |-> <<>>]]
    /\ conn = [c \in Clients |-> Closed]
    /\ thread = [c \in Clients |-> 0]
    /\ new_cq = [w \in Workers |-> <<>>]
    /\ active = [w \in Workers |-> None]
    /\ main = "loop"
    /\ accepting = TRUE
    /\ last_thread = setup.workers - 1
    /\ free_connq = <<>>

----------------------------------------------------------------------------
(* The clients and the network.                                            *)

Connect(c) ==
    /\ client[c].state = "idle"
    /\ setup.script[c] # <<>>
    /\ client' = [client EXCEPT ![c].state = "backlog"]
    /\ UNCHANGED <<sock, conn, active, threads>>

\* The next piece of what the client has to say reaches the server.
Deliver(c) ==
    /\ client[c].state = "backlog" \/ (client[c].state = "open" /\ Open(c))
    /\ client[c].sent < Len(Stream(c))
    /\ client' = [client EXCEPT ![c].sent = @ + 1]
    /\ sock' = [sock EXCEPT ![c].in = Append(@, Stream(c)[client[c].sent + 1])]
    /\ UNCHANGED <<conn, active, threads>>

Receive(c) ==
    /\ client[c].state = "open"
    /\ sock[c].out # <<>>
    /\ client' = [client EXCEPT ![c].got = Append(@, Head(sock[c].out))]
    /\ sock' = [sock EXCEPT ![c].out = Tail(@)]
    /\ UNCHANGED <<conn, active, threads>>

Leave(c) ==
    /\ c \in setup.leave
    /\ client[c].state = "open"
    /\ client' = [client EXCEPT ![c].state = "gone"]
    /\ UNCHANGED <<sock, conn, active, threads>>

Eof(c) == client[c].state = "gone" /\ sock[c].in = <<>>

----------------------------------------------------------------------------
(* The dispatcher.                                                         *)

thread_dispatch(c) ==
    LET w == (last_thread + 1) % setup.workers
        rsize == IF free_connq = <<>> THEN TCP_BUFFER_SIZE ELSE Head(free_connq)
    IN  /\ conn' = [conn EXCEPT ![c] = conn_get(rsize)]
        /\ free_connq' = IF free_connq = <<>> THEN <<>> ELSE Tail(free_connq)
        /\ new_cq' = [new_cq EXCEPT ![w] = Append(@, c)]
        /\ thread' = [thread EXCEPT ![c] = w]
        /\ last_thread' = w

core_accept(c) ==
    /\ main = "loop" /\ accepting
    /\ client[c].state = "backlog"
    /\ IF Cardinality({d \in Clients : Open(d)}) < setup.fds
       THEN /\ thread_dispatch(c)
            /\ client' = [client EXCEPT ![c].state = "open"]
            /\ UNCHANGED main
       ELSE /\ main' = "full"
            /\ UNCHANGED <<client, conn, free_connq, new_cq, thread, last_thread>>
    /\ UNCHANGED <<sock, active, accepting, setup>>

\* core_accept_conns(false), after a close may already have accepted again.
StopAccepting ==
    /\ main = "full"
    /\ main' = "loop"
    /\ accepting' = FALSE
    /\ UNCHANGED <<network, conn, active, thread, new_cq, last_thread, free_connq, setup>>

----------------------------------------------------------------------------
(* A worker takes over a connection, and is told that one is ready.        *)

Idle(w) == active[w] = None
Watched(w) == {c \in Clients : /\ Open(c) /\ thread[c] = w
                              /\ \A i \in 1..Len(new_cq[w]) : new_cq[w][i] # c}

thread_libevent_process(w) ==
    /\ Idle(w)
    /\ new_cq[w] # <<>>
    /\ new_cq' = [new_cq EXCEPT ![w] = Tail(@)]
    /\ UNCHANGED <<network, conn, active, thread, main, accepting, last_thread, free_connq, setup>>

Ready(c) ==
    \/ conn[c].ev = "READ" /\ (sock[c].in # <<>> \/ client[c].state = "gone")
    \/ conn[c].ev = "WRITE" /\ (Len(sock[c].out) < SndBuf \/ client[c].state = "gone")

core_event_handler(w, c) ==
    /\ Idle(w)
    /\ c \in Watched(w)
    /\ Ready(c)
    /\ active' = [active EXCEPT ![w] = [c |-> c, nreqs |-> setup.reqs]]
    /\ UNCHANGED <<network, conn, threads>>

----------------------------------------------------------------------------
(* The state machine, a round of its loop at a time.                       *)

Drives(w, c, state) == active[w].c = c /\ conn[c].state = state
Continue == UNCHANGED active
Stop(w) == active' = [active EXCEPT ![w] = None]
core_update(c, ev) == [c EXCEPT !.ev = ev]

Wait(w, c) ==
    /\ Drives(w, c, "WAIT")
    /\ conn' = [conn EXCEPT ![c] = conn_set_state(core_update(@, "READ"), "READ")]
    /\ Stop(w)
    /\ UNCHANGED <<network, threads>>

\* Reads until the socket is empty or the buffer has grown four times.  The
\* buffer grows when it is full, and the end of the stream counts even when
\* something was read before it.
core_read_tcp(c) ==
    LET rsize == conn[c].rsize
        size(j) == rsize * 2^j
        room == size(4) - Len(conn[c].rbuf)
        n == IF Len(sock[c].in) < room THEN Len(sock[c].in) ELSE room
        rbuf == conn[c].rbuf \o SubSeq(sock[c].in, 1, n)
        fits == {j \in 0..4 : Len(rbuf) < size(j)}
        j == IF fits = {} THEN 4 ELSE CHOOSE k \in fits : \A l \in fits : k <= l
        again == n = 0 \/ Len(rbuf) \in {size(k) : k \in 0..3}
        left == SubSeq(sock[c].in, n + 1, Len(sock[c].in))
        result == IF client[c].state = "gone" /\ left = <<>> /\ again THEN "CLOSE"
                  ELSE IF n = 0 THEN "WAIT" ELSE "PARSE"
    IN  /\ conn' = [conn EXCEPT ![c].rbuf = rbuf, ![c].rsize = size(j), ![c].state = result]
        /\ sock' = [sock EXCEPT ![c].in = left]

core_read(w, c) ==
    /\ Drives(w, c, "READ")
    /\ core_read_tcp(c)
    /\ Continue
    /\ UNCHANGED <<client, threads>>

core_parse(w, c) ==
    /\ Drives(w, c, "PARSE")
    /\ \E d \in asc_parse(conn[c], setup.alloc) : conn' = [conn EXCEPT ![c] = d]
    /\ Continue
    /\ UNCHANGED <<network, threads>>

core_reset_cmd_handler(c) ==
    LET d == conn_shrink([c EXCEPT !.item = FALSE])
    IN  conn_set_state(d, IF d.rbuf # <<>> THEN "PARSE" ELSE "WAIT")

\* Mutant: the worker turns away from a connection without asking to come back.
NewCmdUnwatched(w, c) ==
    /\ Drives(w, c, "NEW_CMD")
    /\ IF active[w].nreqs > 0
       THEN /\ active' = [active EXCEPT ![w].nreqs = @ - 1]
            /\ conn' = [conn EXCEPT ![c] = core_reset_cmd_handler(@)]
       ELSE /\ Stop(w)
            /\ UNCHANGED conn
    /\ UNCHANGED <<network, threads>>

\* After reqs requests the worker turns to its other connections; what is left
\* in the buffer is no event, so it waits to be able to write instead.
NewCmd(w, c) ==
    /\ Drives(w, c, "NEW_CMD")
    /\ IF active[w].nreqs > 0
       THEN /\ active' = [active EXCEPT ![w].nreqs = @ - 1]
            /\ conn' = [conn EXCEPT ![c] = core_reset_cmd_handler(@)]
       ELSE /\ Stop(w)
            /\ conn' = [conn EXCEPT ![c] = IF @.rbuf # <<>> THEN core_update(@, "WRITE") ELSE @]
    /\ UNCHANGED <<network, threads>>

CompleteNread(w, c) ==
    /\ Drives(w, c, "NREAD")
    /\ conn[c].rlbytes = 0
    /\ \E d \in asc_complete_nread(conn[c], setup.script[c][conn[c].req]) :
            conn' = [conn EXCEPT ![c] = d]
    /\ Continue
    /\ UNCHANGED <<network, threads>>

\* The value: what the buffer holds of it, then what the socket has.
Nread(w, c) ==
    /\ Drives(w, c, "NREAD")
    /\ conn[c].rlbytes > 0
    /\ LET rbytes == Len(conn[c].rbuf)
           copy == IF rbytes > conn[c].rlbytes THEN conn[c].rlbytes ELSE rbytes
           rest == conn[c].rlbytes - copy
           n == IF Len(sock[c].in) < rest THEN Len(sock[c].in) ELSE rest
           d == [conn[c] EXCEPT !.rbuf = SubSeq(@, copy + 1, rbytes), !.rlbytes = rest - n]
       IN  /\ sock' = [sock EXCEPT ![c].in = SubSeq(@, n + 1, Len(@))]
           /\ IF rest = 0 \/ n > 0
              THEN conn' = [conn EXCEPT ![c] = d] /\ Continue
              ELSE IF Eof(c)
              THEN conn' = [conn EXCEPT ![c] = conn_set_state(d, "CLOSE")] /\ Continue
              ELSE conn' = [conn EXCEPT ![c] = core_update(d, "READ")] /\ Stop(w)
    /\ UNCHANGED <<client, threads>>

\* The value of a refused request: skipped.
Swallow(w, c) ==
    /\ Drives(w, c, "SWALLOW")
    /\ LET rbytes == Len(conn[c].rbuf)
           sbytes == conn[c].sbytes
           copy == IF rbytes > sbytes THEN sbytes ELSE rbytes
           most == IF conn[c].rsize > sbytes THEN sbytes ELSE conn[c].rsize
           n == IF Len(sock[c].in) < most THEN Len(sock[c].in) ELSE most
       IN  \/ /\ sbytes = 0
              /\ conn' = [conn EXCEPT ![c] = conn_set_state(@, "NEW_CMD")]
              /\ Continue /\ UNCHANGED sock
           \/ /\ sbytes > 0 /\ rbytes > 0
              /\ conn' = [conn EXCEPT ![c].rbuf = SubSeq(@, copy + 1, rbytes), ![c].sbytes = @ - copy]
              /\ Continue /\ UNCHANGED sock
           \/ /\ sbytes > 0 /\ rbytes = 0 /\ n > 0
              /\ conn' = [conn EXCEPT ![c].sbytes = @ - n]
              /\ sock' = [sock EXCEPT ![c].in = SubSeq(@, n + 1, Len(@))]
              /\ Continue
           \/ /\ sbytes > 0 /\ rbytes = 0 /\ Eof(c)
              /\ conn' = [conn EXCEPT ![c] = conn_set_state(@, "CLOSE")]
              /\ Continue /\ UNCHANGED sock
           \/ /\ sbytes > 0 /\ rbytes = 0 /\ n = 0 /\ ~Eof(c)
              /\ conn' = [conn EXCEPT ![c] = core_update(@, "READ")]
              /\ Stop(w) /\ UNCHANGED sock
    /\ UNCHANGED <<client, threads>>

\* All written: the references and suffixes of a vector are given back.
Transmitted(c) ==
    IF c.state = "MWRITE"
    THEN [c EXCEPT !.refs = @ - c.ileft, !.ileft = 0, !.slist = @ - c.sleft, !.sleft = 0,
                   !.state = "NEW_CMD"]
    ELSE [c EXCEPT !.free = FALSE, !.state = c.go]

\* Sends what the socket takes of the vector d.iov.
core_transmit(w, c, d) ==
    LET room == SndBuf - Len(sock[c].out)
        n == IF Len(d.iov) < room THEN Len(d.iov) ELSE room
    IN  \/ /\ d.iov = <<>>
           /\ conn' = [conn EXCEPT ![c] = Transmitted(d)]
           /\ Continue /\ UNCHANGED sock
        \/ /\ d.iov # <<>> /\ client[c].state = "gone"
           /\ conn' = [conn EXCEPT ![c] = conn_set_state(d, "CLOSE")]
           /\ Continue /\ UNCHANGED sock
        \/ /\ d.iov # <<>> /\ n > 0
           /\ conn' = [conn EXCEPT ![c] = [d EXCEPT !.iov = SubSeq(@, n + 1, Len(@))]]
           /\ sock' = [sock EXCEPT ![c].out = @ \o SubSeq(d.iov, 1, n)]
           /\ Continue
        \/ /\ d.iov # <<>> /\ client[c].state # "gone" /\ n = 0
           /\ conn' = [conn EXCEPT ![c] = core_update(d, "WRITE")]
           /\ Stop(w) /\ UNCHANGED sock

\* A single line is put into the vector first, unless something is there.
Write(w, c) ==
    /\ \E state \in {"WRITE", "MWRITE"} : Drives(w, c, state)
    /\ LET single == conn[c].state = "WRITE" /\ ~conn[c].iov_used
       IN  core_transmit(w, c, IF single THEN [conn[c] EXCEPT !.iov = conn[c].wbuf, !.iov_used = TRUE]
                                         ELSE conn[c])
    /\ UNCHANGED <<client, threads>>

\* A record with a large read buffer is freed, another one kept for reuse.
conn_put(c) ==
    free_connq' = IF c.rsize > RSIZE_HIGHWAT THEN free_connq ELSE Append(free_connq, c.rsize)

conn_close(w, c) ==
    /\ Drives(w, c, "CLOSE")
    /\ accepting' = TRUE
    /\ conn' = [conn EXCEPT ![c] = Closed]
    /\ conn_put(conn_cleanup(conn[c]))
    /\ Stop(w)
    /\ UNCHANGED <<network, thread, new_cq, main, last_thread, setup>>

Drive(w, c) ==
    \/ Wait(w, c) \/ core_read(w, c) \/ core_parse(w, c) \/ NewCmd(w, c)
    \/ CompleteNread(w, c) \/ Nread(w, c) \/ Swallow(w, c)
    \/ Write(w, c) \/ conn_close(w, c)

Next ==
    \/ \E c \in Clients : Connect(c) \/ Deliver(c) \/ Receive(c) \/ Leave(c) \/ core_accept(c)
    \/ StopAccepting
    \/ \E w \in Workers : thread_libevent_process(w)
    \/ \E w \in Workers, c \in Clients : core_event_handler(w, c) \/ Drive(w, c)

Spec == Init /\ [][Next]_vars

\* The network delivers, the client reads, threads run, and an event loop gets
\* to every event that keeps being reported, whatever else is ready.
Fairness ==
    /\ \A c \in Clients : WF_vars(Connect(c)) /\ WF_vars(Deliver(c)) /\ WF_vars(Receive(c))
    /\ \A c \in Clients : WF_vars(core_accept(c))
    /\ WF_vars(StopAccepting)
    /\ \A w \in Workers : SF_vars(thread_libevent_process(w))
    /\ \A w \in Workers, c \in Clients : SF_vars(core_event_handler(w, c)) /\ WF_vars(Drive(w, c))

FairSpec == Spec /\ Fairness

----------------------------------------------------------------------------
TypeOK ==
    /\ setup \in Setups
    /\ \A c \in Clients :
         /\ client[c].state \in {"idle", "backlog", "open", "gone"}
         /\ conn[c].state \in States
         /\ Open(c) => /\ conn[c].ev \in {"READ", "WRITE"}
                       /\ conn[c].rsize >= Len(conn[c].rbuf)
                       /\ {conn[c].refs, conn[c].lost, conn[c].ileft, conn[c].slist, conn[c].sleft} \subseteq Nat
                       /\ conn[c].rlbytes \in 0..DataUnits /\ conn[c].sbytes \in 0..DataUnits
    /\ \A w \in Workers : active[w] = None \/ active[w].c \in Watched(w)
    /\ main \in {"loop", "full"} /\ accepting \in BOOLEAN
    /\ \A i \in DOMAIN free_connq : free_connq[i] \in 1..RSIZE_HIGHWAT

\* Replies that are complete, by the number of the request they answer; 0 is a
\* reply to something that was no request.
Replies(c) ==
    LET ends == SelectSeq(client[c].got, LAMBDA u : u.t \in {"line", "end"})
    IN  [i \in DOMAIN ends |-> ends[i].n]

\* A get that ends at an over-long key after it has found something: what it has
\* found is sent, and neither END nor an error.
CutShort(r) == r.cmd = "get" /\ "key" \in r.bad /\ r.hits > 0
Wanted(c) ==
    LET r(n) == setup.script[c][n]
    IN  SelectSeq([n \in DOMAIN setup.script[c] |-> n],
                  LAMBDA n : ~r(n).noreply /\ r(n).cmd # "quit" /\ ~CutShort(r(n)))
Malformed(r) == r.cmd \in StorageCommands /\ Fails(r, {"tokens", "args", "key", "size", "crlf"})

\* What pipelining needs: the replies a client reads are those to its requests,
\* one to each that asked for one, in the order of the requests.  No other reply
\* gets between a value and its END.  The code makes two exceptions: a get that
\* is CutShort is never answered to the end, and the value of a storage command
\* that is malformed or too large is parsed as requests of its own, the replies
\* to which say 0 here.  One that is stale, or for which there is no memory,
\* must have its value skipped.
RepliesInOrder ==
    \A c \in Clients :
        /\ IsPrefix(SelectSeq(Replies(c), LAMBDA n : n # 0), Wanted(c))
        /\ 0 \in Range(Replies(c)) => \E n \in DOMAIN setup.script[c] : Malformed(setup.script[c][n])
        /\ \A i \in 1..(Len(client[c].got) - 1) :
                LET u == client[c].got[i]
                IN  u.t \in {"value", "lease", "none"} /\ ~CutShort(setup.script[c][u.n])
                    => client[c].got[i + 1] = [n |-> u.n, t |-> "end"]

\* A reference a handler takes to an item lasts as long as its reply: none is
\* left between requests, and a connection that closes gives all of them back,
\* but for those of a get that is CutShort, which stay for ever.
RefsReleased ==
    \A c \in Clients : Open(c) =>
        /\ conn[c].state \in {"NEW_CMD", "WAIT", "READ", "PARSE"}
           => conn[c].refs = conn[c].lost /\ ~conn[c].item
        /\ conn[c].state = "CLOSE" => conn_cleanup(conn[c]).refs = conn[c].lost
        /\ conn[c].lost > 0 => \E n \in DOMAIN setup.script[c] : CutShort(setup.script[c][n])

\* A value that is still to be sent is kept by a reference of the reply.  The key
\* in the lease replies of iqget and ciget is not: its reference is gone already.
ValuesHeld ==
    \A c \in Clients : Open(c) =>
        \A i \in DOMAIN conn[c].iov : conn[c].iov[i].t = "value"
            => \/ conn[c].refs - conn[c].lost = conn[c].ileft /\ conn[c].ileft > 0
               \/ CutShort(setup.script[c][conn[c].req])

\* Nothing is given back twice: what a connection is about to release, it has.
ReleasesOwned ==
    \A c \in Clients : Open(c) =>
        conn[c].ileft <= conn[c].refs /\ conn[c].sleft <= conn[c].slist

\* A reference to an item is given back, once and not too early (RefsReleased,
\* ReleasesOwned, ValuesHeld), with every variable of its type.
RefsConsistent == TypeOK /\ RefsReleased /\ ReleasesOwned /\ ValuesHeld

\* Everything a client sent was consumed, and every reply has reached it.
Served(c) ==
    /\ client[c].sent = Len(Stream(c))
    /\ sock[c] = [in |-> <<>>, out |-> <<>>]
    /\ conn[c].state \in {"READ", "NEW_CMD"} /\ conn[c].rbuf = <<>>

Opened == {c \in Clients : Open(c)}

\* The listener has stopped when the last connection was already closed: no close
\* is to come that starts it again.
StoppedForGood == ~accepting /\ Opened = {}

\* No connection is forgotten: a client that waits is accepted, unless every
\* descriptor stays in use or the listener has StoppedForGood, and then served to
\* the end of what it sends, unless the connection closes, however the reads and
\* writes of both sides interleave and however often the worker turns away.
EveryoneServed ==
    \A c \in Clients :
        /\ client[c].state = "backlog"
           ~> (client[c].state # "backlog" \/ StoppedForGood \/ [](Cardinality(Opened) = setup.fds))
        /\ Open(c) ~> (Served(c) \/ ~Open(c) \/ client[c].state = "gone")
=============================================================================
