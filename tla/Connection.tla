----------------------------- MODULE Connection -----------------------------
(***************************************************************************)
(* One TCP connection of a cache server: its record (struct conn), the     *)
(* replies the handlers of mc_ascii.c build in it, and what a handler does *)
(* with the data block of a storage command it refuses.                    *)
(*                                                                         *)
(* A request is a header line, in one or two pieces, and for a storage     *)
(* command a value and its line end: units of the stream.  A handler is    *)
(* the set of records it may leave behind; what it does to the items is    *)
(* the subject of IQItems, COItems and Storage, here it is only an outcome. *)
(***************************************************************************)
EXTENDS Naturals, Sequences, FiniteSets

CONSTANTS
    TCP_BUFFER_SIZE,        \* first size of a read buffer, in units
    RSIZE_HIGHWAT           \* a read buffer above it is given up

ASSUME BufferAssumption ==
    /\ TCP_BUFFER_SIZE \in Nat \ {0}
    /\ RSIZE_HIGHWAT \in Nat /\ TCP_BUFFER_SIZE <= RSIZE_HIGHWAT

\* A request: its command, whether the line ends in noreply, the number of
\* items a get finds, and the checks it fails ("tokens", "args", "key",
\* "stale", "size": parse errors and refusals; "crlf": the value is longer than
\* announced; "long": a header of more than 1024 bytes).
StorageCommands == {"set", "sar", "swap", "iqappend"}
Units(n, r) ==
    LET Unit(part) == [n |-> n, part |-> part, r |-> r]
        head == IF "long" \in r.bad THEN <<Unit("head"), Unit("more"), Unit("eol")>>
                                    ELSE <<Unit("head"), Unit("eol")>>
        data == IF "crlf" \in r.bad THEN <<Unit("data"), Unit("data"), Unit("crlf")>>
                                    ELSE <<Unit("data"), Unit("crlf")>>
    IN  IF r.cmd \in StorageCommands THEN head \o data ELSE head
Newline == {"eol", "crlf"}
\* vlen + CRLF_LEN
DataUnits == 2

Closed == [state |-> "CLOSED"]

\* A free record keeps its read buffer; everything else is set anew.  refs and
\* lost are histories: the references to items the connection has, and those
\* of them that no list notes any more.
conn_get(rsize) ==
    [state |-> "NEW_CMD", ev |-> "READ", rbuf |-> <<>>, rsize |-> rsize,
     req |-> 0, noreply |-> FALSE, go |-> "NEW_CMD", free |-> FALSE,
     item |-> FALSE, crlf |-> FALSE, rlbytes |-> 0, sbytes |-> 0,
     wbuf |-> <<>>, iov |-> <<>>, iov_used |-> FALSE,
     refs |-> 0, lost |-> 0, ileft |-> 0, slist |-> 0, sleft |-> 0]

conn_set_state(c, s) == [c EXCEPT !.state = s]

conn_shrink(c) ==
    IF c.rsize > RSIZE_HIGHWAT /\ Len(c.rbuf) < TCP_BUFFER_SIZE
    THEN [c EXCEPT !.rsize = TCP_BUFFER_SIZE] ELSE c

\* Mutant: the references of a reply that is cut short stay behind.
conn_cleanup_partly(c) ==
    [c EXCEPT !.item = FALSE, !.ileft = 0, !.slist = @ - c.sleft, !.sleft = 0, !.free = FALSE]

\* References and buffers a connection still has go back when it is closed.
conn_cleanup(c) ==
    [c EXCEPT !.item = FALSE, !.refs = @ - c.ileft, !.ileft = 0,
              !.slist = @ - c.sleft, !.sleft = 0, !.free = FALSE]

\* The handler gives back a reference it took.
item_remove(c) == [c EXCEPT !.refs = @ - 1]

conn_add_iov(c, t) ==
    [c EXCEPT !.iov = Append(@, [n |-> c.req, t |-> t]), !.iov_used = TRUE]

----------------------------------------------------------------------------
(* Replies.  A line ends a reply, and so does END.  Before END, a "value"   *)
(* is sent from an item, a "lease" is the key of a lease item and "none"    *)
(* refers to no item.                                                       *)

asc_write_string(c) ==
    IF c.noreply
    THEN [c EXCEPT !.noreply = FALSE, !.state = "NEW_CMD"]
    ELSE [c EXCEPT !.wbuf = <<[n |-> c.req, t |-> "line"]>>, !.state = "WRITE", !.go = "NEW_CMD"]

asc_write_crash(c) == asc_write_string(c)
asc_write_client_error(c) == asc_write_string(c)
asc_write_server_error(c) == asc_write_string(c)

\* Takes a suffix from the cache of the worker and notes it in a slot of slist.
asc_create_suffix(c, slot) == [c EXCEPT !.slist = slot]

\* The values found, each in a slot of ilist and with a suffix of its own.
asc_respond_get(c, hits) ==
    IF hits = 0 THEN c ELSE asc_create_suffix(conn_add_iov(c, "value"), hits)

Mwrite(c) == conn_set_state(conn_add_iov(c, "end"), "MWRITE")

asc_write_novalue(c) ==
    [Mwrite(asc_create_suffix(conn_add_iov(c, "none"), 1)) EXCEPT !.sleft = 1]

asc_write_iqget_value(c) ==
    [Mwrite(asc_create_suffix(conn_add_iov(c, "value"), 1)) EXCEPT !.ileft = 1, !.sleft = 1]

asc_write_ciget_value(c) ==
    [Mwrite(asc_create_suffix(conn_add_iov(c, "value"), 1)) EXCEPT !.ileft = 1, !.sleft = 1]

asc_write_iqget_lease(c) ==
    [Mwrite(asc_create_suffix(conn_add_iov(c, "lease"), 1)) EXCEPT !.sleft = 1]

\* The suffix is not noted in sleft, and the lease item is given back at once.
asc_write_ciget_lease(c) ==
    item_remove(Mwrite(asc_create_suffix(conn_add_iov(c, "lease"), 1)))

asc_write_qaread(c, hit) ==
    [Mwrite(asc_create_suffix(conn_add_iov(c, IF hit THEN "value" ELSE "none"), 1)) EXCEPT
        !.ileft = IF hit THEN 1 ELSE @, !.sleft = 1]

\* A line from the vector: CONN_WRITE, which does not return the suffix.
asc_write_ok_pending(c) ==
    [asc_create_suffix(conn_add_iov(c, "line"), 1) EXCEPT
        !.state = "WRITE", !.go = "NEW_CMD", !.sleft = 1]

asc_write_ok_novalue_pending(c) ==
    [asc_create_suffix(conn_add_iov(c, "line"), 1) EXCEPT !.state = "MWRITE", !.sleft = 1]

core_write_and_free(c) ==
    [c EXCEPT !.free = TRUE, !.wbuf = <<[n |-> c.req, t |-> "line"]>>,
              !.state = "WRITE", !.go = "NEW_CMD"]

----------------------------------------------------------------------------
(* Handlers: the checks in their order, then the outcomes.                 *)

asc_set_noreply_maybe(c, r) == IF r.noreply THEN [c EXCEPT !.noreply = TRUE] ELSE c

\* References to items that a handler takes for the connection.
Take(c, k) == [c EXCEPT !.refs = @ + k]

Fails(r, checks) == r.bad \cap checks # {}

\* The value is read into a new item next, or the reply is followed by skipping it.
NextData(c, r) ==
    [c EXCEPT !.item = TRUE, !.crlf = "crlf" \notin r.bad, !.rlbytes = DataUnits, !.state = "NREAD"]
SwallowData(c) == [c EXCEPT !.go = "SWALLOW", !.sbytes = DataUnits]

\* Mutant: the value of a request with an old configuration is not skipped.
asc_process_update_unskipped(c, r, alloc) ==
    LET d == asc_set_noreply_maybe(c, r)
    IN  IF Fails(r, {"tokens", "args", "key"}) THEN {asc_write_client_error(d)}
        ELSE IF "stale" \in r.bad THEN {asc_write_crash(d)}
        ELSE IF "size" \in r.bad THEN {asc_write_client_error(d)}
        ELSE {IF ok THEN NextData(d, r) ELSE SwallowData(asc_write_server_error(d)) : ok \in alloc}

asc_process_update(c, r, alloc) ==
    LET d == asc_set_noreply_maybe(c, r)
    IN  IF Fails(r, {"tokens", "args", "key"}) THEN {asc_write_client_error(d)}
        ELSE IF "stale" \in r.bad THEN {SwallowData(asc_write_crash(d))}
        ELSE IF "size" \in r.bad THEN {asc_write_client_error(d)}
        ELSE {IF ok THEN NextData(d, r) ELSE SwallowData(asc_write_server_error(d)) : ok \in alloc}

asc_process_swap(c, r, alloc) ==
    LET d == asc_set_noreply_maybe(c, r)
    IN  IF Fails(r, {"tokens", "args", "key"}) THEN {asc_write_client_error(d)}
        ELSE IF "stale" \in r.bad THEN {SwallowData(asc_write_crash(d))}
        ELSE IF "size" \in r.bad THEN {asc_write_client_error(d)}
        ELSE {IF ok THEN NextData(d, r) ELSE SwallowData(asc_write_server_error(d)) : ok \in alloc}

\* The configuration is checked before the length of the value is known, and
\* the value of a request that fails the check is not skipped.
asc_process_sar(c, r, alloc) ==
    LET d == asc_set_noreply_maybe(c, r)
    IN  IF "tokens" \in r.bad THEN {asc_write_client_error(d)}
        ELSE IF "stale" \in r.bad THEN {asc_write_crash(d)}
        ELSE IF Fails(r, {"args", "key", "size"}) THEN {asc_write_client_error(d)}
        ELSE {IF ok THEN NextData(d, r) ELSE SwallowData(asc_write_server_error(d)) : ok \in alloc}

asc_process_iqappend_iqprepend(c, r, alloc) ==
    LET d == asc_set_noreply_maybe(c, r)
    IN  IF Fails(r, {"tokens", "args", "key"}) THEN {asc_write_client_error(d)}
        ELSE IF "stale" \in r.bad THEN {SwallowData(asc_write_crash(d))}
        ELSE {IF ok THEN NextData(d, r) ELSE SwallowData(asc_write_server_error(d)) : ok \in alloc}

\* A get takes a reference to each item it finds.  An over-long key after the
\* hits ends it before the references are noted in ileft, and the error line
\* is never sent: the vector has the values already.
asc_process_read(c, r) ==
    LET found == asc_respond_get(Take(c, r.hits), r.hits)
    IN  IF Fails(r, {"tokens", "args"}) THEN {asc_write_client_error(c)}
        ELSE IF "stale" \in r.bad THEN {asc_write_crash(c)}
        ELSE IF "key" \in r.bad THEN {asc_write_client_error([found EXCEPT !.lost = @ + r.hits])}
        ELSE {Mwrite([found EXCEPT !.ileft = r.hits, !.sleft = r.hits])}

\* The lease item is given back before its key is sent.
asc_process_iqget(c, r, alloc) ==
    LET d == asc_set_noreply_maybe(c, r)
    IN  IF Fails(r, {"tokens"}) THEN {asc_write_client_error(d)}
        ELSE IF "stale" \in r.bad THEN {asc_write_crash(d)}
        ELSE IF Fails(r, {"args", "key"}) THEN {asc_write_client_error(d)}
        ELSE {asc_write_iqget_value(Take(d, 1)), asc_write_novalue(d),
              item_remove(asc_write_iqget_lease(Take(d, 1)))}
             \cup {asc_write_server_error(d) : ok \in alloc \ {TRUE}}

asc_process_ciget(c, r) ==
    LET d == asc_set_noreply_maybe(c, r)
    IN  IF Fails(r, {"tokens", "args", "key"}) THEN {asc_write_client_error(d)}
        ELSE {asc_write_ciget_value(Take(d, 1)), asc_write_ciget_lease(Take(d, 1)), asc_write_novalue(d),
              asc_write_string(d)}

\* Quarantines the key; r.hits says whether the client asks for the value.
asc_process_qaread(c, r) ==
    LET d == asc_set_noreply_maybe(c, r)
    IN  IF Fails(r, {"tokens"}) THEN {asc_write_client_error(d)}
        ELSE IF "stale" \in r.bad THEN {asc_write_crash(d)}
        ELSE IF Fails(r, {"args", "key"}) THEN {asc_write_client_error(d)}
        ELSE {asc_write_qaread(Take(d, 1), r.hits > 0), asc_write_qaread(d, FALSE), asc_write_string(d)}

asc_process_iqincr_iqdecr(c, r) ==
    LET d == asc_set_noreply_maybe(c, r)
    IN  IF Fails(r, {"tokens"}) THEN {asc_write_client_error(d)}
        ELSE IF "stale" \in r.bad THEN {asc_write_crash(d)}
        ELSE IF Fails(r, {"args", "key"}) THEN {asc_write_client_error(d)}
        ELSE {asc_write_ok_pending(d), asc_write_ok_novalue_pending(d), asc_write_string(d)}

\* incr and decr, and the other handlers that answer one line.
asc_process_arithmetic(c, r) ==
    {asc_write_string(asc_set_noreply_maybe(c, r))}

asc_process_delete(c, r) ==
    {asc_write_string(asc_set_noreply_maybe(c, r))}

asc_process_stats(c, r) ==
    IF "tokens" \in r.bad THEN {asc_write_client_error(c)}
    ELSE {asc_write_server_error(c), core_write_and_free(c)}

\* The message under way is forgotten, then the handler of the command runs.
asc_dispatch(c, u, alloc) ==
    LET d == [c EXCEPT !.iov = <<>>, !.iov_used = FALSE,
                       !.req = IF u.part = "head" THEN u.n ELSE 0]
        r == u.r
    IN  IF u.part # "head" THEN {asc_write_client_error(d)}
        ELSE CASE r.cmd = "get" -> asc_process_read(d, r)
               [] r.cmd = "set" -> asc_process_update(d, r, alloc)
               [] r.cmd = "sar" -> asc_process_sar(d, r, alloc)
               [] r.cmd = "swap" -> asc_process_swap(d, r, alloc)
               [] r.cmd = "iqappend" -> asc_process_iqappend_iqprepend(d, r, alloc)
               [] r.cmd = "iqget" -> asc_process_iqget(d, r, alloc)
               [] r.cmd = "ciget" -> asc_process_ciget(d, r)
               [] r.cmd = "qaread" -> asc_process_qaread(d, r)
               [] r.cmd = "iqincr" -> asc_process_iqincr_iqdecr(d, r)
               [] r.cmd = "incr" -> asc_process_arithmetic(d, r)
               [] r.cmd = "delete" -> asc_process_delete(d, r)
               [] r.cmd = "stats" -> asc_process_stats(d, r)
               [] r.cmd = "quit" -> {conn_set_state(d, "CLOSE")}

\* A header without line end after more than 1024 bytes is only kept for a get.
asc_parse(c, alloc) ==
    LET ends == {i \in 1..Len(c.rbuf) : c.rbuf[i].part \in Newline}
        el == CHOOSE i \in ends : \A j \in ends : i <= j
        first == c.rbuf[1]
    IN  IF c.rbuf = <<>> THEN {conn_set_state(c, "WAIT")}
        ELSE IF ends = {}
        THEN {conn_set_state(c, IF c.rbuf[Len(c.rbuf)].part = "more" /\ first.r.cmd # "get" THEN "CLOSE" ELSE "WAIT")}
        ELSE {[d EXCEPT !.rbuf = SubSeq(@, el + 1, Len(@))] : d \in asc_dispatch(c, first, alloc)}

\* The value is complete: it is stored, unless it does not end where announced.
\* iqappend answers with the lease it granted, the others with a line.
asc_complete_nread(c, r) ==
    LET done(d) == [d EXCEPT !.item = FALSE]
    IN  IF ~c.crlf \/ r.cmd # "iqappend" THEN {done(asc_write_string(c))}
        ELSE {done(asc_write_string(c)), done(asc_write_ok_pending(c)),
              done(asc_write_ok_novalue_pending(c))}
=============================================================================
