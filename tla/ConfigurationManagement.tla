----------------------- MODULE ConfigurationManagement -----------------------
(***************************************************************************)
(* The assignment configurations the coordinator publishes                 *)
(* (NVCacheCoordinator, ConfigurationManagement.java).  A configuration    *)
(* maps every fragment of the key space to the server that owns it and to  *)
(* the number of the configuration in which that ownership began, its      *)
(* fragmentCfgId.  A client believes a cached value only if the value was  *)
(* stamped with that number or a later one.                                *)
(***************************************************************************)
EXTENDS Integers

CONSTANTS
    Servers,      \* cache servers ("host:port" in the code)
    Frags,        \* fragment ids
    NoServer      \* the migrate server "-1"

ASSUME NoServerAssumption == NoServer \notin Servers

Fragment ==
    [physicalServer    : Servers,
     migrateServer     : Servers \cup {NoServer},
     fragmentCfgId     : Nat,
     prevFragmentCfgId : Nat \cup {-1},
     nextFragmentCfgId : Nat \cup {-1},
     state             : {"NORMAL", "MIGRATE"}]

\* Who owns which fragment: what ConfigurationAssignment hands over.
Assignment == [Frags -> Servers]

\* The configuration list holds one function per configuration.
Configuration == [Frags -> Fragment]

BuildInitConfig(owner) ==
    [f \in Frags |->
        [physicalServer    |-> owner[f],
         migrateServer     |-> NoServer,
         fragmentCfgId     |-> 0,
         prevFragmentCfgId |-> -1,
         nextFragmentCfgId |-> -1,
         state             |-> "NORMAL"]]

\* enableMigration: a fragment that changes hands remembers its old owner.
BuildNextConfig(prev, owner, newConfigId) ==
    [f \in Frags |->
        IF prev[f].physicalServer = owner[f]
        THEN prev[f]
        ELSE [physicalServer    |-> owner[f],
              migrateServer     |-> prev[f].physicalServer,
              fragmentCfgId     |-> IF prev[f].nextFragmentCfgId # -1
                                    THEN prev[f].nextFragmentCfgId
                                    ELSE newConfigId,
              prevFragmentCfgId |-> prev[f].fragmentCfgId,
              nextFragmentCfgId |-> -1,
              state             |-> "MIGRATE"]]

\* Mutant: the id is taken from the field beside it.
NextNormalConfigPrevId(prev, owner, newConfigId) ==
    [f \in Frags |->
        [prev[f] EXCEPT !.physicalServer = owner[f],
                        !.fragmentCfgId = IF prev[f].physicalServer = owner[f]
                                          THEN prev[f].prevFragmentCfgId
                                          ELSE newConfigId]]

\* Without migration only the owner and its id move on.
BuildNextNormalConfig(prev, owner, newConfigId) ==
    [f \in Frags |->
        [physicalServer    |-> owner[f],
         migrateServer     |-> NoServer,
         fragmentCfgId     |-> IF prev[f].physicalServer = owner[f]
                               THEN prev[f].fragmentCfgId
                               ELSE newConfigId,
         prevFragmentCfgId |-> -1,
         nextFragmentCfgId |-> -1,
         state             |-> "NORMAL"]]
==============================================================================
