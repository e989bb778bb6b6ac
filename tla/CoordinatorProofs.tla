-------------------------- MODULE CoordinatorProofs --------------------------
(***************************************************************************)
(* Proofs about the configurations that the coordinator populates and      *)
(* publishes, for any sets of servers and fragments, any number of         *)
(* configurations and either kind of migration.  They are used by the      *)
(* proofs about the modules that extend Coordinator.                       *)
(***************************************************************************)
EXTENDS Coordinator, TLAPS

\* Every configuration populate has built: an id never exceeds the number of
\* its configuration, a fragment never names a next id, the owner has not
\* changed since the configuration the id names, and a fragment that stays
\* where it was keeps its id.
PeriodsInv ==
    \A n \in 0 .. Len(allConfigurations) - 1, f \in Frags :
        /\ CfgId(n, f) <= n
        /\ Config(n)[f].nextFragmentCfgId = -1
        /\ \A m \in CfgId(n, f) .. n : Owner(m, f) = Owner(n, f)
        /\ \/ CfgId(n, f) = n
           \/ CfgId(n, f) = CfgId(n - 1, f) /\ Owner(n, f) = Owner(n - 1, f)

Known == 0 .. Len(allConfigurations) - 1

\* The coordinator publishes only configurations that it has built.
PublishedInv ==
    /\ phase # "populating" => Len(allConfigurations) = MaxConfig + 1
    /\ currentConfigNumber <= MaxConfig
    /\ phase = "updating" => currentConfigNumber < MaxConfig
    /\ phase = "populating" => Len(allConfigurations) <= MaxConfig + 1

CoordinatorInv == CoordinatorTypeOK /\ PeriodsInv /\ PublishedInv

\* Before it publishes the next configuration the coordinator has brought
\* every server there; it publishes number 0 first.
RolloutInv ==
    /\ \A s \in Servers :
          configuration_number[s] = IF phase = "updating" /\ s \notin toUpdate
                                    THEN currentConfigNumber + 1
                                    ELSE currentConfigNumber
    /\ phase \in {"populating", "booting"} => currentConfigNumber = 0
    /\ phase \in {"populating", "running"} => toUpdate = {}

------------------------------------------------------------------------------
(* What populate builds *)

\* The configuration populate adds is a configuration.
LEMMA PopulateType ==
    ASSUME CoordinatorTypeOK, NEW owner \in Assignment
    PROVE  PopulateConfig(owner) \in Configuration
<1> DEFINE n == Len(allConfigurations)
<1>1. n \in Nat
  BY DEF CoordinatorTypeOK
<1>2. CASE n = 0
  BY <1>2 DEF PopulateConfig, BuildInitConfig, Configuration, Fragment, Assignment
<1>3. CASE n # 0
  <2>1. Config(n - 1) \in Configuration
    BY <1>1, <1>3 DEF CoordinatorTypeOK, Config
  <2>2. BuildNextConfig(Config(n - 1), owner, n) \in Configuration
    <3>1. ASSUME NEW f \in Frags
          PROVE  BuildNextConfig(Config(n - 1), owner, n)[f] \in Fragment
      <4>1. Config(n - 1)[f] \in Fragment /\ owner[f] \in Servers
        BY <2>1 DEF Configuration, Assignment
      <4>2. CASE Config(n - 1)[f].physicalServer = owner[f]
        BY <4>1, <4>2 DEF BuildNextConfig
      <4>3. CASE Config(n - 1)[f].physicalServer # owner[f]
        <5> DEFINE old == Config(n - 1)[f]
                   id == IF old.nextFragmentCfgId # -1 THEN old.nextFragmentCfgId ELSE n
        <5>1. BuildNextConfig(Config(n - 1), owner, n)[f] =
                [physicalServer |-> owner[f], migrateServer |-> old.physicalServer,
                 fragmentCfgId |-> id, prevFragmentCfgId |-> old.fragmentCfgId,
                 nextFragmentCfgId |-> -1, state |-> "MIGRATE"]
          BY <4>3 DEF BuildNextConfig
        <5>2. id \in Nat
          BY <1>1, <4>1 DEF Fragment
        <5>3. old.physicalServer \in Servers /\ old.fragmentCfgId \in Int
          BY <4>1 DEF Fragment
        <5> QED
          BY <4>1, <5>1, <5>2, <5>3 DEF Fragment
      <4> QED
        BY <4>2, <4>3
    <3> QED
      BY <3>1 DEF BuildNextConfig, Configuration
  <2>3. BuildNextNormalConfig(Config(n - 1), owner, n) \in Configuration
    BY <1>1, <2>1 DEF BuildNextNormalConfig, Configuration, Fragment, Assignment
  <2> QED
    BY <1>3, <2>2, <2>3 DEF PopulateConfig
<1> QED
  BY <1>2, <1>3

\* Adding a configuration leaves the ones before it as they were.
LEMMA AppendKeeps ==
    ASSUME CoordinatorTypeOK, NEW cfg \in Configuration,
           allConfigurations' = Append(allConfigurations, cfg)
    PROVE  /\ allConfigurations' \in Seq(Configuration)
           /\ Len(allConfigurations') = Len(allConfigurations) + 1
           /\ allConfigurations'[Len(allConfigurations) + 1] = cfg
           /\ \A m \in Known : Config(m)' = Config(m)
           /\ \A m \in Known : Config(m) \in Configuration
<1> DEFINE n == Len(allConfigurations)
<1>1. allConfigurations \in Seq(Configuration) /\ n \in Nat
  BY DEF CoordinatorTypeOK
<1>2. /\ allConfigurations' \in Seq(Configuration)
      /\ Len(allConfigurations') = n + 1
      /\ allConfigurations'[n + 1] = cfg
      /\ \A i \in 1 .. n : allConfigurations'[i] = allConfigurations[i]
  BY <1>1
<1>3. ASSUME NEW m \in Known
      PROVE  Config(m)' = Config(m) /\ Config(m) \in Configuration
  <2>1. m + 1 \in 1 .. n
    BY <1>1 DEF Known
  <2> QED
    BY <1>1, <1>2, <2>1 DEF Config
<1> QED
  BY <1>2, <1>3

\* The new owner of a fragment, and since when it counts as its owner.
LEMMA PopulatePeriod ==
    ASSUME CoordinatorTypeOK, PeriodsInv, NEW owner \in Assignment, NEW f \in Frags
    PROVE  LET n == Len(allConfigurations)
               P == PopulateConfig(owner)[f]
           IN  /\ P.physicalServer = owner[f]
               /\ P.nextFragmentCfgId = -1
               /\ \/ P.fragmentCfgId = n
                  \/ /\ n > 0
                     /\ P.fragmentCfgId = CfgId(n - 1, f)
                     /\ owner[f] = Owner(n - 1, f)
<1> DEFINE n == Len(allConfigurations)
<1>1. n \in Nat
  BY DEF CoordinatorTypeOK
<1>2. CASE n = 0
  BY <1>2 DEF PopulateConfig, BuildInitConfig
<1>3. CASE n # 0
  <2> DEFINE old == Config(n - 1)[f]
  <2>1. n > 0 /\ n - 1 \in 0 .. n - 1
    BY <1>1, <1>3
  <2>2. old.nextFragmentCfgId = -1
    BY <2>1 DEF PeriodsInv
  <2>3. CASE EnableMigration
    <3>1. PopulateConfig(owner) = BuildNextConfig(Config(n - 1), owner, n)
      BY <1>3, <2>3 DEF PopulateConfig
    <3>2. CASE old.physicalServer = owner[f]
      BY <2>1, <2>2, <3>1, <3>2 DEF BuildNextConfig, CfgId, Owner
    <3>3. CASE old.physicalServer # owner[f]
      BY <2>2, <3>1, <3>3 DEF BuildNextConfig
    <3> QED
      BY <3>2, <3>3
  <2>4. CASE ~EnableMigration
    <3>1. PopulateConfig(owner) = BuildNextNormalConfig(Config(n - 1), owner, n)
      BY <1>3, <2>4 DEF PopulateConfig
    <3>2. CASE old.physicalServer = owner[f]
      BY <2>1, <3>1, <3>2 DEF BuildNextNormalConfig, CfgId, Owner
    <3>3. CASE old.physicalServer # owner[f]
      BY <3>1, <3>3 DEF BuildNextNormalConfig
    <3> QED
      BY <3>2, <3>3
  <2> QED
    BY <2>3, <2>4
<1> QED
  BY <1>2, <1>3

\* populate keeps the periods right.
LEMMA PopulatePreservesPeriods ==
    ASSUME CoordinatorTypeOK, PeriodsInv, NEW owner \in Assignment,
           allConfigurations' = Append(allConfigurations, PopulateConfig(owner))
    PROVE  PeriodsInv'
<1> DEFINE n == Len(allConfigurations)
           P == PopulateConfig(owner)
<1>1. n \in Nat
  BY DEF CoordinatorTypeOK
<1>2. P \in Configuration
  BY PopulateType
<1>3. /\ Len(allConfigurations') = n + 1
      /\ allConfigurations'[n + 1] = P
      /\ \A m \in Known : Config(m)' = Config(m)
  BY <1>2, AppendKeeps
<1>4. ASSUME NEW k \in 0 .. n, NEW f \in Frags
      PROVE  /\ CfgId(k, f)' <= k
             /\ Config(k)'[f].nextFragmentCfgId = -1
             /\ \A m \in CfgId(k, f)' .. k : Owner(m, f)' = Owner(k, f)'
             /\ \/ CfgId(k, f)' = k
                \/ CfgId(k, f)' = CfgId(k - 1, f)' /\ Owner(k, f)' = Owner(k - 1, f)'
  <2>1. CASE k < n
    <3>1. k \in Known /\ \A m \in 0 .. k : m \in Known
      BY <1>1, <2>1 DEF Known
    <3>2. Config(k)' = Config(k) /\ CfgId(k, f)' = CfgId(k, f)
      BY <1>3, <3>1 DEF CfgId
    <3>3. /\ CfgId(k, f) <= k
          /\ Config(k)[f].nextFragmentCfgId = -1
          /\ \A m \in CfgId(k, f) .. k : Owner(m, f) = Owner(k, f)
          /\ \/ CfgId(k, f) = k
             \/ CfgId(k, f) = CfgId(k - 1, f) /\ Owner(k, f) = Owner(k - 1, f)
      BY <3>1 DEF PeriodsInv, Known
    <3>4. CfgId(k, f) \in Nat
      BY <3>1, AppendKeeps, <1>2 DEF CfgId, Configuration, Fragment
    <3>5. \A m \in CfgId(k, f) .. k : Owner(m, f)' = Owner(m, f)
      BY <1>3, <3>1, <3>4 DEF Owner
    <3>6. Owner(k, f)' = Owner(k, f)
      BY <3>2 DEF Owner
    <3>7. CfgId(k, f) # k => /\ CfgId(k - 1, f)' = CfgId(k - 1, f)
                            /\ Owner(k - 1, f)' = Owner(k - 1, f)
      <4>1. CfgId(k, f) # k => k - 1 \in Known
        BY <1>1, <3>1, <3>3, <3>4 DEF Known
      <4> QED
        BY <1>3, <4>1 DEF CfgId, Owner
    <3> QED
      BY <3>2, <3>3, <3>5, <3>6, <3>7
  <2>2. CASE k = n
    <3>1. Config(k)' = P
      BY <1>3, <2>2 DEF Config
    <3>2. /\ CfgId(k, f)' = P[f].fragmentCfgId
          /\ Owner(k, f)' = owner[f]
          /\ Config(k)'[f].nextFragmentCfgId = -1
      BY <3>1, PopulatePeriod DEF CfgId, Owner
    <3>3. CASE P[f].fragmentCfgId = n
      <4>1. CfgId(k, f)' = k
        BY <2>2, <3>2, <3>3
      <4> QED
        BY <1>1, <3>2, <4>1
    <3>4. CASE /\ n > 0
               /\ P[f].fragmentCfgId = CfgId(n - 1, f)
               /\ owner[f] = Owner(n - 1, f)
      <4>1. n - 1 \in Known /\ \A m \in 0 .. n - 1 : m \in Known
        BY <1>1, <3>4 DEF Known
      <4>2. CfgId(n - 1, f) \in Nat
        BY <4>1, AppendKeeps, <1>2 DEF CfgId, Configuration, Fragment
      <4>3. /\ CfgId(n - 1, f) <= n - 1
            /\ \A m \in CfgId(n - 1, f) .. n - 1 : Owner(m, f) = owner[f]
        BY <3>4, <4>1 DEF PeriodsInv, Known
      <4>4. ASSUME NEW m \in CfgId(n - 1, f) .. n
            PROVE  Owner(m, f)' = owner[f]
        <5>1. CASE m = n
          BY <2>2, <3>2, <5>1
        <5>2. CASE m # n
          <6>1. m \in CfgId(n - 1, f) .. n - 1 /\ m \in Known
            BY <1>1, <4>1, <4>2, <5>2
          <6> QED
            BY <1>3, <4>3, <6>1 DEF Owner
        <5> QED
          BY <5>1, <5>2
      <4>5. CfgId(k - 1, f)' = CfgId(k - 1, f) /\ Owner(k - 1, f)' = Owner(k - 1, f)
        BY <1>3, <2>2, <4>1 DEF CfgId, Owner
      <4> QED
        BY <1>1, <2>2, <3>2, <3>4, <4>2, <4>3, <4>4, <4>5
    <3> QED
      BY <3>3, <3>4, PopulatePeriod
  <2> QED
    BY <1>1, <2>1, <2>2
<1> QED
  BY <1>1, <1>3, <1>4 DEF PeriodsInv

\* In a known configuration a fragment has an owner and an id.
LEMMA KnownConfig ==
    ASSUME CoordinatorTypeOK, NEW n \in Known, NEW f \in Frags
    PROVE  /\ Config(n)[f] \in Fragment
           /\ Owner(n, f) \in Servers
           /\ CfgId(n, f) \in Nat
<1>1. n + 1 \in 1 .. Len(allConfigurations)
  BY DEF Known, CoordinatorTypeOK
<1>2. Config(n) \in Configuration
  BY <1>1 DEF CoordinatorTypeOK, Config
<1> QED
  BY <1>2 DEF Configuration, Fragment, Owner, CfgId

\* Steps that leave the list of configurations alone keep what it says.
LEMMA SameConfigs ==
    ASSUME UNCHANGED allConfigurations
    PROVE  /\ Known' = Known
           /\ PeriodsInv => PeriodsInv'
           /\ \A n \in Known, f \in Frags : /\ Owner(n, f)' = Owner(n, f)
                                           /\ CfgId(n, f)' = CfgId(n, f)
<1>1. Known' = Known /\ \A n : Config(n)' = Config(n)
  BY DEF Known, Config
<1>2. \A n, f : Owner(n, f)' = Owner(n, f) /\ CfgId(n, f)' = CfgId(n, f)
  BY <1>1 DEF Owner, CfgId
<1> QED
  BY <1>1, <1>2 DEF PeriodsInv, Known

------------------------------------------------------------------------------
(* The steps of the coordinator *)

\* Nothing is populated or published at first.
LEMMA CoordinatorInitInv ==
    CoordinatorInit => CoordinatorInv
BY MaxConfigAssumption
   DEF CoordinatorInit, CoordinatorInv, CoordinatorTypeOK, PeriodsInv, PublishedInv

\* Steps of clients and servers that leave the coordinator alone.
LEMMA CoordinatorSame ==
    ASSUME CoordinatorInv, UNCHANGED <<coordinatorVars, configuration_number>>
    PROVE  CoordinatorInv'
<1>1. PeriodsInv'
  BY SameConfigs DEF CoordinatorInv, coordinatorVars
<1> QED
  BY <1>1 DEF CoordinatorInv, CoordinatorTypeOK, PublishedInv, coordinatorVars

\* Every step of the coordinator, whatever fails, keeps the list and the
\* published number right, and what the list says of earlier configurations.
LEMMA CoordinatorStepInv ==
    ASSUME CoordinatorInv, CoordinatorNext
    PROVE  /\ CoordinatorInv'
           /\ Known \subseteq Known'
           /\ \A n \in Known, f \in Frags : Owner(n, f)' = Owner(n, f) /\ CfgId(n, f)' = CfgId(n, f)
<1> USE DEF CoordinatorInv
<1>1. CASE Populate
  <2>1. PICK owner \in Assignment :
          allConfigurations' = Append(allConfigurations, PopulateConfig(owner))
    BY <1>1 DEF Populate
  <2>2. PopulateConfig(owner) \in Configuration
    BY PopulateType
  <2>3. UNCHANGED <<currentConfigNumber, phase, toUpdate, configuration_number>>
    BY <1>1 DEF Populate
  <2>4. /\ allConfigurations' \in Seq(Configuration)
        /\ Len(allConfigurations') = Len(allConfigurations) + 1
        /\ \A m \in Known : Config(m)' = Config(m)
    BY <2>1, <2>2, AppendKeeps
  <2>5. CoordinatorTypeOK'
    BY <2>3, <2>4 DEF CoordinatorTypeOK
  <2>6. PublishedInv'
    BY <1>1, <2>3, <2>4, MaxConfigAssumption DEF Populate, PublishedInv, CoordinatorTypeOK
  <2>7. PeriodsInv'
    BY <2>1, PopulatePreservesPeriods
  <2>8. Known \subseteq Known'
    BY <2>4 DEF Known, CoordinatorTypeOK
  <2> QED
    BY <2>4, <2>5, <2>6, <2>7, <2>8 DEF Owner, CfgId
<1>2. CASE \/ StartSimulator \/ StartService \/ DetectNewConfig \/ Publish
           \/ CoordinatorRestart
           \/ \E s \in Servers : \/ UpdateServerConfigurationNumber(s)
                                 \/ UpdateServerFails(s)
  <2>1. UNCHANGED allConfigurations
    BY <1>2 DEF StartSimulator, StartService, DetectNewConfig, Publish, CoordinatorRestart,
                UpdateServerConfigurationNumber, UpdateServerFails
  <2>2. NextConfigNumber \in Nat
    BY DEF NextConfigNumber, CoordinatorTypeOK
  <2>3. CoordinatorTypeOK'
    <3>1. /\ currentConfigNumber' \in Nat
          /\ phase' \in {"populating", "booting", "running", "updating"}
          /\ toUpdate' \in SUBSET Servers
          /\ configuration_number' \in [Servers -> Nat]
      BY <1>2, <2>2 DEF CoordinatorTypeOK, StartSimulator, StartService, DetectNewConfig,
           Publish, CoordinatorRestart, UpdateServerConfigurationNumber, UpdateServerFails
    <3> QED
      BY <2>1, <3>1 DEF CoordinatorTypeOK
  <2>4. PublishedInv'
    BY <1>2, <2>1, MaxConfigAssumption
       DEF CoordinatorTypeOK, PublishedInv, StartSimulator, StartService, DetectNewConfig,
           Publish, CoordinatorRestart, UpdateServerConfigurationNumber, UpdateServerFails
  <2> QED
    BY <2>1, <2>3, <2>4, SameConfigs
<1> QED
  BY <1>1, <1>2 DEF CoordinatorNext

\* The roll-out goes by the book when every updateconf call succeeds and the
\* coordinator does not restart, and never takes a number back.
LEMMA RolloutStep ==
    ASSUME CoordinatorTypeOK, RolloutInv, CoordinatorNext,
           "update_fails" \notin Faults, "coordinator_restart" \notin Faults
    PROVE  /\ RolloutInv'
           /\ currentConfigNumber <= currentConfigNumber'
<1> USE DEF RolloutInv
<1>1. CASE Populate \/ StartSimulator \/ StartService
  BY <1>1 DEF Populate, StartSimulator, StartService, CoordinatorTypeOK
<1>2. CASE DetectNewConfig
  BY <1>2 DEF DetectNewConfig, CoordinatorTypeOK
<1>3. CASE Publish
  BY <1>3 DEF Publish, CoordinatorTypeOK
<1>4. ASSUME NEW s \in Servers, UpdateServerConfigurationNumber(s)
      PROVE  RolloutInv' /\ currentConfigNumber <= currentConfigNumber'
  <2>1. phase \in {"booting", "updating"}
    BY <1>4 DEF UpdateServerConfigurationNumber, CoordinatorTypeOK
  <2>2. ASSUME NEW t \in Servers
        PROVE  configuration_number'[t] =
                 IF phase' = "updating" /\ t \notin toUpdate'
                 THEN currentConfigNumber' + 1 ELSE currentConfigNumber'
    BY <1>4, <2>1 DEF UpdateServerConfigurationNumber, NextConfigNumber, CoordinatorTypeOK
  <2> QED
    BY <1>4, <2>1, <2>2 DEF UpdateServerConfigurationNumber, CoordinatorTypeOK
<1>5. ~CoordinatorRestart /\ \A s \in Servers : ~UpdateServerFails(s)
  BY DEF CoordinatorRestart, UpdateServerFails
<1> QED
  BY <1>1, <1>2, <1>3, <1>4, <1>5 DEF CoordinatorNext
==============================================================================
