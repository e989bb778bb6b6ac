----------------------------- MODULE SockIOPool -----------------------------
(***************************************************************************)
(* The connection pool of the client (SockIOPool.java): threads check      *)
(* connections out and in, a maintenance thread keeps the pools in size,   *)
(* and somebody may shut the pool down, while cache servers fail and come  *)
(* back.                                                                   *)
(*                                                                         *)
(* A socket that was connected says isConnected for ever, also when the    *)
(* server is gone, and the body of trueClose is commented out: a socket is *)
(* closed by its finalizer when nothing refers to it any more.  So a       *)
(* number in Sockets names a new connection as soon as the old one is out  *)
(* of reach.                                                               *)
(*                                                                         *)
(* Times are compared with limits only: any socket may be longer than      *)
(* maxIdle or maxBusyTime in its pool when maintenance looks, and hostDead *)
(* holds the servers whose hostDeadDur has not passed.                     *)
(*                                                                         *)
(* A thread that gets no socket gives up and may ask again, as set does.   *)
(* getSocket of MemcachedClient, which other commands call, ends the       *)
(* process instead.                                                        *)
(***************************************************************************)
EXTENDS Integers, FiniteSets

LOCAL INSTANCE FiniteSetsExt

CONSTANTS
    Hosts, Threads,
    Maint,                      \* the maintenance thread
    Settings,                   \* what the application has set, whether it calls ciget,
                                \* and failures of servers
    initConn, minConn, maxConn,
    MaxSockets                  \* bound on sockets in reach

ASSUME SettingsAssumption ==
    Settings \subseteq [servers : SUBSET Hosts \ {{}}, threads : SUBSET Threads,
                        aliveCheck : BOOLEAN, ciget : BOOLEAN, failover : BOOLEAN,
                        failback : BOOLEAN, maintSleep : BOOLEAN, outages : Nat]
ASSUME SizesAssumption == initConn \in Nat /\ minConn \in Nat /\ maxConn \in Nat

VARIABLES
    setting,
    up, outages,            \* the servers, and how often something went wrong
    broken,                 \* sockets whose server is gone
    failed,                 \* history: sockets that have failed a command
    availPool, busyPool,    \* sockets of each server
    hosts,                  \* keys of availPool
    deadPool, hostDead,
    th,                     \* where a thread is, and with which server and socket
    need, newSockets,       \* of selfMaint
    stop,                   \* stopThread, and interrupted
    shut                    \* where shutDown is

servVars == <<up, outages, broken>>
poolVars == <<availPool, busyPool, hosts, deadPool>>
maintVars == <<need, newSockets, stop>>
vars == <<setting, servVars, failed, poolVars, hostDead, th, maintVars, shut>>

poolMultiplier == 3
NoHost == CHOOSE h \in Hosts : TRUE  \* of a thread that has none
NoSock == 0
Sockets == 1..MaxSockets
Actors == Threads \cup {Maint}

TypeOK ==
    /\ setting \in Settings
    /\ up \in [Hosts -> BOOLEAN] /\ outages \in 0..setting.outages
    /\ broken \subseteq Sockets /\ failed \subseteq Sockets
    /\ availPool \in [Hosts -> SUBSET Sockets] /\ busyPool \in [Hosts -> SUBSET Sockets]
    /\ hosts \subseteq Hosts /\ deadPool \subseteq Sockets
    /\ hostDead \subseteq Hosts
    /\ th \in [Actors -> [at : {"idle", "conn", "create", "connect", "mark", "add", "alive", "use",
                                "close", "unalive", "off", "start", "sleep", "check", "count",
                                "adjust", "reap", "end"},
                          host : Hosts, tried : SUBSET Hosts, sock : Sockets \cup {NoSock}]]
    /\ need \in [Hosts -> 0..minConn] /\ newSockets \in [Hosts -> SUBSET Sockets]
    /\ stop \in BOOLEAN
    /\ shut \in {"no", "wait", "closing", "done"}

Held(t) == {th[t].sock} \ {NoSock}
InReach == UNION ({Held(a) : a \in Actors}
                  \cup {availPool[h] \cup busyPool[h] \cup newSockets[h] : h \in Hosts}) \cup deadPool

\* synchronized(this): only shutDown keeps the monitor from one step to another.
Unlocked == shut \in {"no", "done"}

\* isInitialized.
Initialized == shut # "done"

\* isRunning of the maintenance thread.
Running == th[Maint].at \notin {"off", "start", "end"}

\* initialize, with every server there or not; one that is not has no entry in
\* availPool.
Init ==
    /\ setting \in Settings
    /\ up \in [Hosts -> BOOLEAN] /\ (\A h \in Hosts \ setting.servers : up[h]) /\ outages = 0
    /\ LET numbered == CHOOSE f \in [Hosts -> 0..(Cardinality(Hosts) - 1)] :
                           \A g, h \in Hosts : f[g] = f[h] => g = h
       IN  availPool = [h \in Hosts |->
              IF h \in setting.servers /\ up[h]
              THEN (initConn * numbered[h] + 1) .. (initConn * (numbered[h] + 1)) ELSE {}]
    /\ hosts = {h \in Hosts : availPool[h] # {}}
    /\ hostDead = {h \in setting.servers : ~up[h] /\ initConn > 0}
    /\ busyPool = [h \in Hosts |-> {}]
    /\ broken = {} /\ failed = {} /\ deadPool = {}
    /\ LET Where(a) == IF a # Maint THEN "idle" ELSE IF setting.maintSleep THEN "start" ELSE "off"
       IN  th = [a \in Actors |-> [at |-> Where(a), host |-> NoHost, tried |-> {}, sock |-> NoSock]]
    /\ need = [h \in Hosts |-> 0] /\ newSockets = [h \in Hosts |-> {}]
    /\ stop = FALSE /\ shut = "no"

\* Nothing refers to a socket any more: its finalizer closes it.
FinalizedWith(failures) ==
    /\ broken' = broken \cap InReach'
    /\ failed' = (failed \cup failures) \cap InReach'
Finalized == FinalizedWith({})

At(a, place) == th[a].at = place
Idle(t) == [th EXCEPT ![t] = [at |-> "idle", host |-> NoHost, tried |-> {}, sock |-> NoSock]]
Goto(a, place) == th' = [th EXCEPT ![a].at = place]

----------------------------------------------------------------------------
(* createSocket, by a thread or by the maintenance thread                   *)

\* Where a goes without a socket for its server: a thread to the next server,
\* chosen by rehashing, if it may, the maintenance thread to its next host.
WithoutSocket(a) ==
    LET tried == th[a].tried \cup {th[a].host}
        left == IF setting.failover THEN setting.servers \ tried ELSE {}
    IN  IF a = Maint THEN th' = [th EXCEPT ![a].at = "create", ![a].sock = NoSock]
        ELSE IF left = {} THEN th' = Idle(a)
        ELSE \E h \in left : th' = [th EXCEPT ![a].at = "conn", ![a].sock = NoSock,
                                              ![a].host = h, ![a].tried = tried]

\* selfMaint leaves the inner loop when createSocket returns null.
NoMoreFor(a) == need' = IF a = Maint THEN [need EXCEPT ![th[a].host] = 0] ELSE need

\* A server that is dead for now is not tried.
CreateSocket(a) ==
    /\ At(a, "create") /\ Initialized
    /\ a = Maint => need[th[a].host] > 0
    /\ LET skip == setting.failover /\ setting.failback /\ th[a].host \in hostDead
       IN  \/ skip /\ WithoutSocket(a) /\ NoMoreFor(a)
           \/ ~skip /\ Goto(a, "connect") /\ UNCHANGED need
    /\ UNCHANGED <<setting, servVars, failed, poolVars, hostDead, newSockets, stop, shut>>

\* new SockIO.  An interrupt ends the attempt of the maintenance thread.
Connect(a) ==
    /\ At(a, "connect")
    /\ LET s == Min(Sockets \ InReach)
       IN  \/ /\ up[th[a].host] /\ ~(a = Maint /\ stop)
              /\ Sockets \ InReach # {}
              /\ th' = [th EXCEPT ![a].at = "mark", ![a].sock = s]
           \/ /\ ~up[th[a].host] \/ (a = Maint /\ stop)
              /\ Goto(a, "mark")
    /\ UNCHANGED <<setting, servVars, failed, poolVars, hostDead, maintVars, shut>>

\* Under hostDeadLock, not under the monitor: a server that cannot be reached
\* loses its available sockets.
MarkHost(a) ==
    /\ At(a, "mark") /\ Initialized
    /\ LET h == th[a].host
           s == th[a].sock
       IN  \/ /\ s = NoSock
              /\ hostDead' = hostDead \cup {h}
              /\ availPool' = [availPool EXCEPT ![h] = {}]
              /\ WithoutSocket(a) /\ NoMoreFor(a)
              /\ UNCHANGED newSockets
           \/ /\ s # NoSock /\ a # Maint
              /\ hostDead' = hostDead \ {h}
              /\ Goto(a, "add")
              /\ UNCHANGED <<availPool, need, newSockets>>
           \/ /\ s # NoSock /\ a = Maint
              /\ hostDead' = hostDead \ {h}
              /\ need' = [need EXCEPT ![h] = @ - 1]
              /\ newSockets' = [newSockets EXCEPT ![h] = @ \cup {s}]
              /\ th' = [th EXCEPT ![a].at = "create", ![a].sock = NoSock]
              /\ UNCHANGED availPool
    /\ UNCHANGED <<setting, up, outages, busyPool, hosts, deadPool, stop, shut>>
    /\ Finalized

----------------------------------------------------------------------------
(* Threads of the application                                               *)

\* getSock takes the server its key hashes to.
GetSock(t) ==
    /\ At(t, "idle") /\ t \in setting.threads /\ Initialized
    /\ \E h \in setting.servers : th' = [th EXCEPT ![t].at = "conn", ![t].host = h]
    /\ UNCHANGED <<setting, servVars, failed, poolVars, hostDead, maintVars, shut>>

\* Where a thread goes with a socket.
Got == IF setting.aliveCheck THEN "alive" ELSE "use"

\* The first half of getConnection, under the monitor.
GetConnection(t) ==
    /\ At(t, "conn") /\ shut = "no"
    /\ \/ \E s \in availPool[th[t].host] :
              /\ availPool' = [availPool EXCEPT ![th[t].host] = @ \ {s}]
              /\ busyPool' = [busyPool EXCEPT ![th[t].host] = @ \cup {s}]
              /\ th' = [th EXCEPT ![t].at = Got, ![t].sock = s]
       \/ /\ availPool[th[t].host] = {} /\ Goto(t, "create")
          /\ UNCHANGED <<availPool, busyPool>>
    /\ UNCHANGED <<setting, servVars, failed, hosts, deadPool, hostDead, maintVars, shut>>

\* Its end, under the monitor again.
AddBusy(t) ==
    /\ At(t, "add") /\ shut = "no"
    /\ busyPool' = [busyPool EXCEPT ![th[t].host] = @ \cup {th[t].sock}]
    /\ Goto(t, Got)
    /\ UNCHANGED <<setting, servVars, failed, availPool, hosts, deadPool, hostDead,
                   maintVars, shut>>

\* The aliveCheck of getSock.
IsAlive(t) ==
    /\ At(t, "alive")
    /\ Goto(t, IF th[t].sock \in broken THEN "unalive" ELSE "use")
    /\ UNCHANGED <<setting, servVars, failed, poolVars, hostDead, maintVars, shut>>

\* Mutant: every command closes a socket after an IOException.
UseCloses(t) ==
    /\ At(t, "use")
    /\ Goto(t, "close")
    /\ failed' = failed \cup (Held(t) \cap broken)
    /\ UNCHANGED <<setting, servVars, poolVars, hostDead, maintVars, shut>>

\* A command, as set sends it and all others but ciget.  After an IOException
\* the client calls trueClose, which does nothing, and forgets the socket.
Use(t) ==
    /\ At(t, "use")
    /\ UNCHANGED <<setting, up, outages, poolVars, hostDead, maintVars, shut>>
    /\ \/ th[t].sock \notin broken /\ Goto(t, "close") /\ UNCHANGED <<broken, failed>>
       \/ th[t].sock \in broken /\ th' = Idle(t) /\ FinalizedWith(Held(t))

\* A socket that works is forgotten as well: no reply came within socketTO (and
\* it may come later), or an iqset had no token to send.
Abandon(t) ==
    /\ At(t, "use") /\ th[t].sock \notin broken
    /\ outages < setting.outages /\ outages' = outages + 1
    /\ th' = Idle(t)
    /\ UNCHANGED <<setting, up, poolVars, hostDead, maintVars, shut>>
    /\ FinalizedWith(Held(t))

\* ciget throws the IOException on, of a broken socket or of a reply that did
\* not come within socketTO, and its finally closes the socket all the same.
UseForCiGet(t) ==
    /\ At(t, "use") /\ setting.ciget
    /\ \/ failed' = failed \cup (Held(t) \cap broken) /\ UNCHANGED outages
       \/ /\ outages < setting.outages /\ outages' = outages + 1
          /\ failed' = failed \cup Held(t)
    /\ Goto(t, "close")
    /\ UNCHANGED <<setting, up, broken, poolVars, hostDead, maintVars, shut>>

\* close, after a command or after isAlive has said no.
CheckIn(t) ==
    /\ th[t].at \in {"close", "unalive"} /\ shut = "no"
    /\ LET h == th[t].host
       IN  /\ busyPool' = [busyPool EXCEPT ![h] = @ \ Held(t)]
           /\ availPool' = [availPool EXCEPT ![h] = @ \cup Held(t)]
           /\ hosts' = hosts \cup {h}
    /\ \/ At(t, "unalive") /\ WithoutSocket(t)
       \/ At(t, "close") /\ th' = Idle(t)
    /\ UNCHANGED <<setting, servVars, failed, deadPool, hostDead, maintVars, shut>>

\* What is left of these calls when the pool has been shut down meanwhile:
\* null, or a NullPointerException on one of the maps.
PoolGone(t) ==
    /\ th[t].at \in {"conn", "create", "mark", "add", "unalive", "close"} /\ shut = "done"
    /\ th' = Idle(t)
    /\ UNCHANGED <<setting, up, outages, poolVars, hostDead, maintVars, shut>>
    /\ Finalized

----------------------------------------------------------------------------
(* The maintenance thread                                                   *)

NextRound == IF stop THEN "end" ELSE "sleep"

\* Mutant: an interrupted sleep is a sleep that is over.
WakeUninterrupted ==
    /\ \/ At(Maint, "start") /\ Goto(Maint, NextRound)
       \/ At(Maint, "sleep") /\ Goto(Maint, "check")
       \/ At(Maint, "check") /\ Goto(Maint, IF Initialized THEN "count" ELSE NextRound)
    /\ UNCHANGED <<setting, servVars, failed, poolVars, hostDead, maintVars, shut>>

\* run: an interrupted sleep ends the thread.
Wake ==
    /\ \/ At(Maint, "start") /\ Goto(Maint, NextRound)
       \/ At(Maint, "sleep") /\ Goto(Maint, IF stop THEN "end" ELSE "check")
       \/ At(Maint, "check") /\ Goto(Maint, IF Initialized THEN "count" ELSE NextRound)
    /\ UNCHANGED <<setting, servVars, failed, poolVars, hostDead, maintVars, shut>>

\* needSockets of a server.
Shortage(h) ==
    LET size == Cardinality(availPool[h])
    IN  IF h \in hosts /\ size < minConn THEN minConn - size ELSE 0

\* The first part of selfMaint; without maps it throws, which ends the thread.
Count ==
    /\ At(Maint, "count") /\ Unlocked
    /\ \/ /\ shut = "no"
          /\ need' = [h \in Hosts |-> Shortage(h)]
          /\ Goto(Maint, "create")
       \/ shut = "done" /\ Goto(Maint, "end") /\ UNCHANGED need
    /\ UNCHANGED <<setting, servVars, failed, poolVars, hostDead, newSockets, stop, shut>>

\* The next server to create sockets for.
NextHost ==
    /\ At(Maint, "create") /\ need[th[Maint].host] = 0
    /\ \/ \E h \in Hosts : need[h] > 0 /\ th' = [th EXCEPT ![Maint].host = h]
       \/ (\A h \in Hosts : need[h] = 0) /\ th' = [th EXCEPT ![Maint].at = "adjust", ![Maint].host = NoHost]
    /\ UNCHANGED <<setting, servVars, failed, poolVars, hostDead, maintVars, shut>>

\* needToClose of a server.
Excess(sockets) ==
    LET diff == Cardinality(sockets) - maxConn
    IN  IF diff <= 0 THEN 0 ELSE IF diff <= poolMultiplier THEN diff ELSE diff \div poolMultiplier

\* Mutant: a socket that seems to hang is available again.
AdjustRecycles ==
    /\ At(Maint, "adjust") /\ shut = "no"
    /\ \E hung \in SUBSET UNION {busyPool[h] : h \in Hosts} :
          /\ availPool' = [h \in Hosts |-> availPool[h] \cup newSockets[h] \cup (busyPool[h] \cap hung)]
          /\ busyPool' = [h \in Hosts |-> busyPool[h] \ hung]
    /\ hosts' = hosts \cup {h \in Hosts : newSockets[h] # {}}
    /\ newSockets' = [h \in Hosts |-> {}]
    /\ Goto(Maint, "reap")
    /\ UNCHANGED <<setting, servVars, failed, deadPool, hostDead, need, stop, shut>>

\* Mutant: the busy pool is not looked at.
AdjustAvail ==
    /\ At(Maint, "adjust") /\ shut = "no"
    /\ availPool' = [h \in Hosts |-> availPool[h] \cup newSockets[h]]
    /\ hosts' = hosts \cup {h \in Hosts : newSockets[h] # {}}
    /\ newSockets' = [h \in Hosts |-> {}]
    /\ Goto(Maint, "reap")
    /\ UNCHANGED <<setting, servVars, failed, busyPool, deadPool, hostDead, need, stop, shut>>

\* The second part of selfMaint: the new sockets are available, idle ones too
\* many and busy ones that seem to hang are dead.
Adjust ==
    /\ At(Maint, "adjust") /\ shut = "no"
    /\ LET avail == [h \in Hosts |-> availPool[h] \cup newSockets[h]]
       IN  \E idle \in SUBSET UNION {avail[h] : h \in Hosts},
              hung \in SUBSET UNION {busyPool[h] : h \in Hosts} :
              /\ \A h \in Hosts : Cardinality(idle \cap avail[h]) <= Excess(avail[h])
              /\ availPool' = [h \in Hosts |-> avail[h] \ idle]
              /\ busyPool' = [h \in Hosts |-> busyPool[h] \ hung]
              /\ deadPool' = deadPool \cup idle \cup hung
    /\ hosts' = hosts \cup {h \in Hosts : newSockets[h] # {}}
    /\ newSockets' = [h \in Hosts |-> {}]
    /\ Goto(Maint, "reap")
    /\ UNCHANGED <<setting, servVars, failed, hostDead, need, stop, shut>>

\* Its end: trueClose does nothing, but the sockets are out of the pool.
Reap ==
    /\ At(Maint, "reap")
    /\ deadPool' = {}
    /\ Goto(Maint, NextRound)
    /\ UNCHANGED <<setting, up, outages, availPool, busyPool, hosts, hostDead, maintVars, shut>>
    /\ Finalized

----------------------------------------------------------------------------
(* shutDown, which keeps the monitor                                        *)

ShutDown ==
    /\ shut = "no"
    /\ shut' = IF Running THEN "wait" ELSE "closing"
    /\ stop' = Running
    /\ UNCHANGED <<setting, servVars, failed, poolVars, hostDead, th, need, newSockets>>

Finished ==
    /\ shut = "wait" /\ ~Running
    /\ shut' = "closing"
    /\ UNCHANGED <<setting, servVars, failed, poolVars, hostDead, th, maintVars>>

ClosePools ==
    /\ shut = "closing"
    /\ shut' = "done"
    /\ availPool' = [h \in Hosts |-> {}] /\ busyPool' = [h \in Hosts |-> {}]
    /\ hosts' = {} /\ hostDead' = {}
    /\ UNCHANGED <<setting, up, outages, deadPool, th, maintVars>>
    /\ Finalized

----------------------------------------------------------------------------
(* Servers and time                                                         *)

SockOf(h) == availPool[h] \cup busyPool[h] \cup newSockets[h]
                \cup UNION {Held(a) : a \in {a \in Actors : th[a].host = h}}

\* Every connection to the server breaks.
Fail(h) ==
    /\ up[h] /\ outages < setting.outages /\ h \in setting.servers
    /\ up' = [up EXCEPT ![h] = FALSE] /\ outages' = outages + 1
    /\ broken' = broken \cup SockOf(h)
    /\ UNCHANGED <<setting, failed, poolVars, hostDead, th, maintVars, shut>>

Recover(h) ==
    /\ ~up[h] /\ up' = [up EXCEPT ![h] = TRUE]
    /\ UNCHANGED <<setting, outages, broken, failed, poolVars, hostDead, th, maintVars, shut>>

\* Mutant: the comparison is never true.
DeadTimeNever(h) ==
    /\ h \in hostDead /\ h \notin Hosts
    /\ UNCHANGED vars

\* store.getTime() + expire is over.
DeadTimePasses(h) ==
    /\ h \in hostDead /\ hostDead' = hostDead \ {h}
    /\ UNCHANGED <<setting, servVars, failed, poolVars, th, maintVars, shut>>

----------------------------------------------------------------------------
Creates(a) == CreateSocket(a) \/ Connect(a) \/ MarkHost(a)
Step(t) == GetConnection(t) \/ AddBusy(t) \/ IsAlive(t) \/ Use(t) \/ UseForCiGet(t)
              \/ CheckIn(t) \/ PoolGone(t) \/ Creates(t)
Maintains == Wake \/ Count \/ NextHost \/ Adjust \/ Reap \/ Creates(Maint)
Closes == Finished \/ ClosePools

Next ==
    \/ \E t \in Threads : GetSock(t) \/ Step(t) \/ Abandon(t)
    \/ Maintains
    \/ ShutDown \/ Closes
    \/ \E h \in Hosts : Fail(h) \/ Recover(h) \/ DeadTimePasses(h)

Spec == Init /\ [][Next]_vars

Forgotten == failed \cap UNION {busyPool[h] : h \in Hosts}

\* What maintenance does once maxBusyTime is over for all of these.
AdjustTakesForgotten == Adjust /\ Forgotten \subseteq deadPool'

\* Threads get to run, commands end (socketTO), time passes and servers come
\* back.  Nobody has to ask for a socket or to shut the pool down.
FairSpec ==
    /\ Spec
    /\ \A t \in Threads : WF_vars(Step(t))
    /\ WF_vars(Maintains) /\ WF_vars(Closes)
    /\ \A h \in Hosts : WF_vars(Recover(h)) /\ WF_vars(DeadTimePasses(h))
    /\ SF_vars(AdjustTakesForgotten)

----------------------------------------------------------------------------
(* Properties                                                               *)

\* A connection serves one command at a time: no two threads have the same
\* socket, and what getConnection may hand out next is in no thread's hands,
\* also if maintenance took it for hung while a thread was using it.
NotShared ==
    /\ \A a, b \in Actors : a # b => Held(a) \cap Held(b) = {}
    /\ \A a \in Actors, h \in Hosts : Held(a) \cap (availPool[h] \cup newSockets[h]) = {}
    /\ \A g, h \in Hosts : g # h => SockOf(g) \cap SockOf(h) = {}

\* Nobody checks a socket in that has failed: getSock does after aliveCheck has
\* met no answer, and ciget whatever has happened.
RetiresFailed == ~setting.aliveCheck /\ ~setting.ciget

\* A socket that is broken or on which a late reply may be waiting for the wrong
\* reader is never handed out again once a command has met that, in a client
\* that RetiresFailed; in others it is.
FailedRetired ==
    RetiresFailed =>
        failed \cap UNION ({availPool[h] : h \in Hosts} \cup {Held(t) : t \in Threads}) = {}

\* Threads and maintenance create sockets on what they saw earlier, but never
\* more than the larger of initConn and minConn for spare and one per thread.
PoolBounded ==
    \A h \in Hosts :
        LET using == {t \in Threads : th[t].host = h /\ th[t].at \notin {"idle", "conn"}}
        IN  Cardinality(availPool[h]) + Cardinality(newSockets[h]) + need[h] + Cardinality(using)
                <= Max({initConn, minConn}) + Cardinality(setting.threads)

\* The pools, the threads and maintenance agree about every socket: NotShared and
\* PoolBounded, with every variable of its type and the bound MaxSockets never met.
PoolConsistent == TypeOK /\ NotShared /\ PoolBounded /\ Sockets \ InReach # {}

\* A thread that keeps asking is served in the end, whatever servers fail and
\* come back: broken sockets and the time a server counts as dead run out, in a
\* client that RetiresFailed.
Recovers ==
    \A t \in Threads :
        []<>At(t, "conn") /\ [](RetiresFailed /\ shut = "no") => []<>At(t, "close")

\* Sockets that clients forgot do not stay in the busy
\* pool, where nothing else would find them, if there is a maintenance thread.
ForgottenReaped ==
    setting.maintSleep /\ Forgotten # {} ~> Forgotten = {} \/ shut # "no"

\* shutDown comes to an end if the maintenance thread was asleep or past the
\* monitor when it began.  (If not, the thread waits for the monitor and
\* shutDown, which has it, for the thread.)
ShutDownEnds ==
    shut = "closing" \/ (shut = "wait" /\ th[Maint].at \in {"sleep", "reap", "end"}) ~> shut = "done"
=============================================================================
