----------------------------- MODULE Coordinator -----------------------------
(***************************************************************************)
(* The coordinator of a Rejig deployment: it populates the list of         *)
(* configurations, and for each reconfiguration raises                     *)
(* configuration_number at every cache server, one at a time and in any    *)
(* order, and only then publishes the configuration to the clients         *)
(* (CacheStateSimulator.call).                                             *)
(***************************************************************************)
EXTENDS ConfigurationManagement, Sequences

CONSTANTS
    MaxConfig,        \* number of the last configuration that populate builds
    EnableMigration,  \* staticConfiguration.enableMigration
    Faults            \* which of the failures below may happen

ASSUME MaxConfigAssumption == MaxConfig \in Nat
ASSUME EnableMigrationAssumption == EnableMigration \in BOOLEAN
ASSUME FaultsAssumption ==
    Faults \subseteq {"update_fails", "server_restart", "coordinator_restart", "crash", "abort",
                "no_memory"}

VARIABLES
    allConfigurations,     \* the list, configuration n at index n + 1
    currentConfigNumber,   \* what getConfig publishes
    phase,                 \* of the coordinator
    toUpdate,              \* servers whose updateconf call has not returned
    configuration_number   \* of each server

coordinatorVars == <<allConfigurations, currentConfigNumber, phase, toUpdate>>

NoConfig == -1
Numbers == Nat \cup {NoConfig}

Config(n) == allConfigurations[n + 1]
Owner(n, f) == Config(n)[f].physicalServer
CfgId(n, f) == Config(n)[f].fragmentCfgId

CoordinatorTypeOK ==
    /\ allConfigurations \in Seq(Configuration)
    /\ currentConfigNumber \in Nat
    /\ phase \in {"populating", "booting", "running", "updating"}
    /\ toUpdate \in SUBSET Servers
    /\ configuration_number \in [Servers -> Nat]

CoordinatorInit ==
    /\ allConfigurations = <<>>
    /\ currentConfigNumber = 0
    /\ phase = "populating"
    /\ toUpdate = {}
    /\ configuration_number = [s \in Servers |-> 0]

\* populate adds one configuration at a time; the owners are those that
\* ConfigurationAssignment computes, here any.
PopulateConfig(owner) ==
    LET n == Len(allConfigurations)
    IN  IF n = 0 THEN BuildInitConfig(owner)
        ELSE IF EnableMigration THEN BuildNextConfig(Config(n - 1), owner, n)
        ELSE BuildNextNormalConfig(Config(n - 1), owner, n)

Populate ==
    /\ phase = "populating"
    /\ Len(allConfigurations) <= MaxConfig
    /\ \E owner \in Assignment :
          allConfigurations' = Append(allConfigurations, PopulateConfig(owner))
    /\ UNCHANGED <<currentConfigNumber, phase, toUpdate, configuration_number>>

\* The constructor of CacheStateSimulator sends every server number 0.
StartSimulator ==
    /\ phase = "populating"
    /\ Len(allConfigurations) = MaxConfig + 1
    /\ phase' = "booting"
    /\ toUpdate' = Servers
    /\ UNCHANGED <<allConfigurations, currentConfigNumber, configuration_number>>

\* call: the time of the next configuration has come.  configurationUpdateTime
\* lists one time for each configuration after the first; the code takes the
\* static configuration on trust for that.
DetectNewConfig ==
    /\ phase = "running"
    /\ currentConfigNumber < MaxConfig
    /\ phase' = "updating"
    /\ toUpdate' = Servers
    /\ UNCHANGED <<allConfigurations, currentConfigNumber, configuration_number>>

NextConfigNumber == IF phase = "booting" THEN 0 ELSE currentConfigNumber + 1

\* updateServerConfigurationNumber at the coordinator, and
\* asc_process_update_configuration at the server.
UpdateServerConfigurationNumber(s) ==
    /\ s \in toUpdate
    /\ configuration_number' = [configuration_number EXCEPT ![s] = NextConfigNumber]
    /\ toUpdate' = toUpdate \ {s}
    /\ UNCHANGED <<allConfigurations, currentConfigNumber, phase>>

\* The call throws or returns false; the exception is printed and dropped.
UpdateServerFails(s) ==
    /\ "update_fails" \in Faults
    /\ s \in toUpdate
    /\ toUpdate' = toUpdate \ {s}
    /\ UNCHANGED <<allConfigurations, currentConfigNumber, phase, configuration_number>>

\* Mutant: the futures are not waited for.
PublishEarly ==
    /\ phase = "updating"
    /\ currentConfigNumber' = currentConfigNumber + 1
    /\ phase' = "running"
    /\ UNCHANGED <<allConfigurations, toUpdate, configuration_number>>

\* Every future has returned: incrementCfgId publishes.
Publish ==
    /\ phase = "updating"
    /\ toUpdate = {}
    /\ currentConfigNumber' = currentConfigNumber + 1
    /\ phase' = "running"
    /\ UNCHANGED <<allConfigurations, toUpdate, configuration_number>>

\* The constructors have returned: CacheCoordinator.start serves readConfig.
StartService ==
    /\ phase = "booting"
    /\ toUpdate = {}
    /\ phase' = "running"
    /\ UNCHANGED <<allConfigurations, currentConfigNumber, toUpdate, configuration_number>>

\* A new process populates the same list from the static configuration.
CoordinatorRestart ==
    /\ "coordinator_restart" \in Faults
    /\ phase \in {"running", "updating"}
    /\ currentConfigNumber' = 0
    /\ phase' = "booting"
    /\ toUpdate' = Servers
    /\ UNCHANGED <<allConfigurations, configuration_number>>

CoordinatorNext ==
    \/ Populate \/ StartSimulator \/ StartService
    \/ DetectNewConfig \/ Publish \/ CoordinatorRestart
    \/ \E s \in Servers : \/ UpdateServerConfigurationNumber(s)
                          \/ UpdateServerFails(s)
==============================================================================
