-------------------------------- MODULE Rejig --------------------------------
(***************************************************************************)
(* Online reconfiguration of the caching layer: the coordinator, the cache *)
(* servers and the clients that send them get, set and delete.             *)
(*                                                                         *)
(* The coordinator first raises configuration_number at every server, one  *)
(* at a time and in any order, and only then publishes the configuration   *)
(* (CacheStateSimulator.call).  A client sends the number of the           *)
(* configuration it holds with every command.  The server compares the two *)
(* under configuration_lock (asc_check_config) and executes the command    *)
(* later under cache_lock, so any number of reconfigurations may fall      *)
(* between the check and its effect.  An item is stamped with the number   *)
(* its command was checked with, and a client rejects a value whose stamp  *)
(* predates the ownership of its fragment (InvalidValueException).         *)
(*                                                                         *)
(* The value of an item is reduced to where it comes from: the             *)
(* configuration that the client that set it held.                         *)
(***************************************************************************)
EXTENDS Coordinator

CONSTANT Clients      \* instances of MemcachedClient, one session at a time

VARIABLES
    item,                  \* item[s][f]: the item of fragment f at server s
    local,                 \* localConfigurationNumber of each client
    fetched,               \* the number of the last readConfig response
    pc,                    \* of each client's current call
    req                    \* of each client: its command at the server

serverVars == <<configuration_number, item>>
clientVars == <<local, fetched, pc, req>>
vars == <<allConfigurations, currentConfigNumber, phase, toUpdate,
          configuration_number, item, local, fetched, pc, req>>

NoItem == [config_number |-> NoConfig, value |-> NoConfig]

Items == [config_number : Numbers, value : Numbers]
Requests == [op     : {"get", "set", "delete"},
             frag   : Frags,
             server : Servers,
             stamp  : Numbers,   \* server_config, once the check has passed
             reply  : Items]     \* the item returned to a get

TypeOK ==
    /\ CoordinatorTypeOK
    /\ item \in [Servers -> [Frags -> Items]]
    /\ local \in [Clients -> Numbers]
    /\ fetched \in [Clients -> Numbers]
    /\ pc \in [Clients -> {"stale", "fetched", "idle", "sent", "checked", "replied"}]
    /\ req \in [Clients -> Requests]

Init ==
    /\ CoordinatorInit
    /\ item = [s \in Servers |-> [f \in Frags |-> NoItem]]
    /\ local = [c \in Clients |-> NoConfig]
    /\ fetched = [c \in Clients |-> NoConfig]
    /\ pc = [c \in Clients |-> "stale"]
    /\ \E r \in [op : {"get"}, frag : Frags, server : Servers,
                 stamp : {NoConfig}, reply : {NoItem}] :
          req = [c \in Clients |-> r]

------------------------------------------------------------------------------
(* A client and the server that executes its command *)

\* CacheCoordinatorService.readConfig.  The client asks when it holds no
\* configuration and after a StaleConfigurationException.
ReadConfig(c) ==
    /\ phase \in {"running", "updating"}
    /\ pc[c] = "stale"
    /\ pc' = [pc EXCEPT ![c] = "fetched"]
    /\ fetched' = [fetched EXCEPT ![c] = currentConfigNumber]
    /\ UNCHANGED <<coordinatorVars, serverVars, local, req>>

\* Mutant: only the first response is adopted.
UpdateLocalConfigurationNumberOnce(c) ==
    /\ pc[c] = "fetched"
    /\ local' = [local EXCEPT ![c] = IF @ = NoConfig THEN fetched[c] ELSE @]
    /\ pc' = [pc EXCEPT ![c] = "idle"]
    /\ UNCHANGED <<coordinatorVars, serverVars, fetched, req>>

\* The response arrives, possibly when a newer configuration is published.
UpdateLocalConfigurationNumber(c) ==
    /\ pc[c] = "fetched"
    /\ local' = [local EXCEPT ![c] = fetched[c]]
    /\ pc' = [pc EXCEPT ![c] = "idle"]
    /\ UNCHANGED <<coordinatorVars, serverVars, fetched, req>>

\* get, set and delete of MemcachedClient, to the owner the client knows.
Send(c, op, f) ==
    /\ pc[c] = "idle"
    /\ pc' = [pc EXCEPT ![c] = "sent"]
    /\ req' = [req EXCEPT ![c] = [op     |-> op,
                                  frag   |-> f,
                                  server |-> Owner(local[c], f),
                                  stamp  |-> NoConfig,
                                  reply  |-> NoItem]]
    /\ UNCHANGED <<coordinatorVars, serverVars, local, fetched>>

\* asc_check_config writes FAIL; the client throws StaleConfigurationException.
CheckFails(c) ==
    /\ pc[c] = "sent"
    /\ local[c] # configuration_number[req[c].server]
    /\ pc' = [pc EXCEPT ![c] = "stale"]
    /\ UNCHANGED <<coordinatorVars, serverVars, local, fetched, req>>

\* The number that a command checked now stamps its item with: the
\* server's, unless the client names the next id of the fragment.
CheckedStamp(c) ==
    LET next == Config(local[c])[req[c].frag].nextFragmentCfgId
    IN  IF req[c].op = "set" /\ next # -1
        THEN next
        ELSE configuration_number[req[c].server]

\* Mutant: a client that is behind is let through.
CheckPassesBehind(c) ==
    /\ pc[c] = "sent"
    /\ local[c] <= configuration_number[req[c].server]
    /\ pc' = [pc EXCEPT ![c] = "checked"]
    /\ req' = [req EXCEPT ![c].stamp = CheckedStamp(c)]
    /\ UNCHANGED <<coordinatorVars, serverVars, local, fetched>>

\* asc_check_config, for a client that does hold a configuration.
CheckPasses(c) ==
    /\ pc[c] = "sent"
    /\ local[c] = configuration_number[req[c].server]
    /\ pc' = [pc EXCEPT ![c] = "checked"]
    /\ req' = [req EXCEPT ![c].stamp = CheckedStamp(c)]
    /\ UNCHANGED <<coordinatorVars, serverVars, local, fetched>>

\* asc_process_read: item_get, and the value travels back with its stamp.
ProcessRead(c) ==
    /\ pc[c] = "checked"
    /\ req[c].op = "get"
    /\ pc' = [pc EXCEPT ![c] = "replied"]
    /\ req' = [req EXCEPT ![c].reply = item[req[c].server][req[c].frag]]
    /\ UNCHANGED <<coordinatorVars, serverVars, local, fetched>>

\* Mutant: the item is stamped when it is stored, not when it was checked.
CompleteNreadRestamped(c) ==
    /\ pc[c] = "checked"
    /\ req[c].op = "set"
    /\ item' = [item EXCEPT ![req[c].server][req[c].frag] =
                   [config_number |-> configuration_number[req[c].server],
                    value |-> local[c]]]
    /\ pc' = [pc EXCEPT ![c] = "replied"]
    /\ UNCHANGED <<coordinatorVars, configuration_number, local, fetched, req>>

\* asc_complete_nread: the body has arrived, item_store links the item.
CompleteNread(c) ==
    /\ pc[c] = "checked"
    /\ req[c].op = "set"
    /\ item' = [item EXCEPT ![req[c].server][req[c].frag] =
                   [config_number |-> req[c].stamp, value |-> local[c]]]
    /\ pc' = [pc EXCEPT ![c] = "replied"]
    /\ UNCHANGED <<coordinatorVars, configuration_number, local, fetched, req>>

\* asc_process_delete: item_get_and_delete.
ProcessDelete(c) ==
    /\ pc[c] = "checked"
    /\ req[c].op = "delete"
    /\ item' = [item EXCEPT ![req[c].server][req[c].frag] = NoItem]
    /\ pc' = [pc EXCEPT ![c] = "replied"]
    /\ UNCHANGED <<coordinatorVars, configuration_number, local, fetched, req>>

\* get hands the value to the application: no InvalidValueException.
Accepts(c) ==
    /\ pc[c] = "replied"
    /\ req[c].op = "get"
    /\ req[c].reply # NoItem
    /\ CfgId(local[c], req[c].frag) <= req[c].reply.config_number

\* The call returns, with a value, an InvalidValueException or a status.
Return(c) ==
    /\ pc[c] = "replied"
    /\ pc' = [pc EXCEPT ![c] = "idle"]
    /\ UNCHANGED <<coordinatorVars, serverVars, local, fetched, req>>

\* The server loses its cache and starts with configuration_number 0; a
\* call in progress there ends with an IOException, which the client swallows.
ServerRestart(s) ==
    /\ "server_restart" \in Faults
    /\ configuration_number' = [configuration_number EXCEPT ![s] = 0]
    /\ item' = [item EXCEPT ![s] = [f \in Frags |-> NoItem]]
    /\ pc' = [c \in Clients |->
                IF pc[c] \in {"sent", "checked"} /\ req[c].server = s
                THEN "idle" ELSE pc[c]]
    /\ UNCHANGED <<coordinatorVars, local, fetched, req>>

------------------------------------------------------------------------------
Coordinate ==
    \/ CoordinatorNext /\ UNCHANGED <<item, clientVars>>
    \/ \E s \in Servers : ServerRestart(s)

Call(c) ==
    \/ ReadConfig(c) \/ UpdateLocalConfigurationNumber(c)
    \/ \E op \in {"get", "set", "delete"}, f \in Frags : Send(c, op, f)
    \/ CheckFails(c) \/ CheckPasses(c)
    \/ ProcessRead(c) \/ CompleteNread(c) \/ ProcessDelete(c)
    \/ Return(c)

Next == Coordinate \/ \E c \in Clients : Call(c)

Spec == Init /\ [][Next]_vars

\* The simulator's threads and the servers' workers run, and an application
\* keeps calling.  Reconfiguration itself may never be asked for.
Fairness ==
    /\ WF_vars(Coordinate /\ phase # "running")
    /\ \A c \in Clients : WF_vars(Call(c))

FairSpec == Spec /\ Fairness

------------------------------------------------------------------------------
(* Properties *)

\* While the coordinator works through the servers, each server is at the
\* published configuration or the next one, and no client is ahead of the
\* published one (CacheStateSimulator.call publishes last).
ConfigAgreement ==
    phase \in {"running", "updating"} =>
        /\ \A s \in Servers :
              configuration_number[s] = IF phase = "updating" /\ s \notin toUpdate
                                        THEN currentConfigNumber + 1
                                        ELSE currentConfigNumber
        /\ \A c \in Clients : local[c] <= currentConfigNumber

\* A command passes asc_check_config only while the configuration its client
\* holds is the published one, at every server and at any point of a roll-out:
\* all commands that pass are ordered by publication.
CheckedAtPublication ==
    [][\A c \in Clients :
          pc[c] = "sent" /\ pc'[c] = "checked" => local[c] = currentConfigNumber]_vars

\* The value a get accepts was set by a client for which this server owned the
\* fragment, and the server has owned it in every configuration from the
\* writer's to the reader's: no value survives a fragment that left and came
\* back, however late its set completed (get's fragmentCfgId > configNumber).
AcceptedInOwnership ==
    \A c \in Clients : Accepts(c) =>
        /\ Owner(req[c].reply.value, req[c].frag) = req[c].server
        /\ \A n \in req[c].reply.value .. local[c] :
               Owner(n, req[c].frag) = req[c].server

\* A client that is told its configuration is stale gets a newer one in the
\* end: the retries of StaleConfigurationException do not go on for ever.
CatchesUp ==
    \A c \in Clients : \A n \in 0 .. MaxConfig :
        (pc[c] = "stale" /\ local[c] = n) ~> (local[c] > n)
==============================================================================
