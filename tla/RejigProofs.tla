----------------------------- MODULE RejigProofs -----------------------------
(***************************************************************************)
(* Proofs about Rejig, for any sets of servers, fragments and clients, any *)
(* number of configurations and either kind of migration.                  *)
(*                                                                         *)
(* TypeCorrect and Ownership hold whatever fails; Agreement needs every    *)
(* updateconf call to succeed and no process to restart.                   *)
(***************************************************************************)
EXTENDS Rejig, CoordinatorProofs

\* Clients get their first configuration once the coordinator serves them.
WaitInv == phase = "populating" => \A c \in Clients : pc[c] = "stale"

\* A client with a command holds a configuration, and the command went to the
\* owner in that configuration; once checked it carries that number.
ClientOK(c) ==
    /\ pc[c] = "fetched" => fetched[c] \in Known
    /\ pc[c] \in {"idle", "sent", "checked", "replied"} => local[c] \in Known
    /\ pc[c] \in {"sent", "checked", "replied"} =>
          req[c].server = Owner(local[c], req[c].frag)
    /\ pc[c] = "checked" => req[c].stamp = local[c]

ClientInv == \A c \in Clients : ClientOK(c)

\* An item of fragment f at server s carries the number its writer held, and
\* s owned f then.
Settled(i, s, f) ==
    i # NoItem => /\ i.value \in Known
                  /\ i.config_number = i.value
                  /\ Owner(i.value, f) = s

ItemInv == \A s \in Servers, f \in Frags : Settled(item[s][f], s, f)

ReplyOK(c) ==
    pc[c] = "replied" /\ req[c].op = "get" =>
        Settled(req[c].reply, req[c].server, req[c].frag)

ReplyInv == \A c \in Clients : ReplyOK(c)

OwnershipInv ==
    /\ TypeOK /\ PeriodsInv /\ PublishedInv
    /\ WaitInv /\ ClientInv /\ ItemInv /\ ReplyInv

------------------------------------------------------------------------------
(* The inductive invariant *)

\* The invariant holds before populate has built anything.
LEMMA OwnershipInit ==
    Init => OwnershipInv
<1> SUFFICES ASSUME Init PROVE OwnershipInv
  OBVIOUS
<1>1. TypeOK
  BY DEF Init, CoordinatorInit, TypeOK, CoordinatorTypeOK, Numbers, Items, Requests, NoItem, NoConfig
<1>2. PeriodsInv /\ ItemInv
  BY DEF Init, CoordinatorInit, PeriodsInv, ItemInv, Settled
<1>3. PublishedInv /\ WaitInv
  BY MaxConfigAssumption DEF Init, CoordinatorInit, PublishedInv, WaitInv
<1>4. ClientInv /\ ReplyInv
  BY DEF Init, CoordinatorInit, ClientInv, ClientOK, ReplyInv, ReplyOK
<1> QED
  BY <1>1, <1>2, <1>3, <1>4 DEF OwnershipInv

\* What is settled stays settled while the list stays.
LEMMA SameSettled ==
    ASSUME UNCHANGED allConfigurations
    PROVE  \A i, s, f : Settled(i, s, f)' = Settled(i, s, f)
BY DEF Settled, Known, Owner, Config

\* The coordinator's steps keep the invariant: they leave the clients and the
\* items alone, and populate runs before any client holds a configuration.
LEMMA OwnershipCoordinate ==
    ASSUME OwnershipInv, CoordinatorNext, UNCHANGED <<item, clientVars>>
    PROVE  OwnershipInv'
<1> USE DEF OwnershipInv
<1>1. UNCHANGED <<item, local, fetched, pc, req>>
  BY DEF clientVars
<1>2. CoordinatorInv
  BY DEF CoordinatorInv, TypeOK
<1>3. /\ CoordinatorInv'
      /\ Known \subseteq Known'
      /\ \A n \in Known, f \in Frags : Owner(n, f)' = Owner(n, f)
  BY <1>2, CoordinatorStepInv
<1>4. TypeOK' /\ PeriodsInv' /\ PublishedInv'
  BY <1>1, <1>3 DEF TypeOK, CoordinatorInv
<1>5. WaitInv'
  <2>1. phase' = "populating" => phase = "populating"
    BY DEF CoordinatorNext, Populate, StartSimulator, StartService, DetectNewConfig, Publish,
           CoordinatorRestart, UpdateServerConfigurationNumber, UpdateServerFails
  <2> QED
    BY <1>1, <2>1 DEF WaitInv
<1>6. ItemInv'
  BY <1>1, <1>3 DEF ItemInv, Settled
<1>7. ClientInv'
  <2> SUFFICES ASSUME NEW c \in Clients PROVE ClientOK(c)'
    BY DEF ClientInv
  <2>1. ClientOK(c) /\ (pc[c] \in {"sent", "checked", "replied"} => req[c].frag \in Frags)
    BY DEF ClientInv, TypeOK, Requests
  <2> QED
    BY <1>1, <1>3, <2>1 DEF ClientOK
<1>8. ReplyInv'
  <2> SUFFICES ASSUME NEW c \in Clients PROVE ReplyOK(c)'
    BY DEF ReplyInv
  <2>1. ReplyOK(c) /\ (pc[c] = "replied" => req[c].frag \in Frags)
    BY DEF ReplyInv, TypeOK, Requests
  <2> QED
    BY <1>1, <1>3, <2>1 DEF ReplyOK, Settled
<1> QED
  BY <1>4, <1>5, <1>6, <1>7, <1>8

\* A restarted server keeps nothing that the invariant speaks of.
LEMMA OwnershipServerRestart ==
    ASSUME OwnershipInv, NEW s \in Servers, ServerRestart(s)
    PROVE  OwnershipInv'
<1> USE DEF OwnershipInv
<1>1. UNCHANGED <<allConfigurations, currentConfigNumber, phase, toUpdate,
                  local, fetched, req>>
  BY DEF ServerRestart, coordinatorVars
<1>2. \A c \in Clients : pc'[c] = pc[c] \/ (pc'[c] = "idle" /\ pc[c] \in {"sent", "checked"})
  BY DEF ServerRestart
<1>3. TypeOK'
  <2>1. configuration_number' \in [Servers -> Nat]
    BY DEF ServerRestart, TypeOK, CoordinatorTypeOK
  <2>2. item' \in [Servers -> [Frags -> Items]]
    BY DEF ServerRestart, TypeOK, CoordinatorTypeOK, Items, NoItem, Numbers, NoConfig
  <2>3. pc' \in [Clients -> {"stale", "fetched", "idle", "sent", "checked", "replied"}]
    BY DEF ServerRestart, TypeOK, CoordinatorTypeOK
  <2> QED
    BY <1>1, <2>1, <2>2, <2>3 DEF TypeOK, CoordinatorTypeOK
<1>4. PublishedInv' /\ WaitInv'
  BY <1>1, <1>2 DEF PublishedInv, WaitInv
<1>5. PeriodsInv' /\ Known' = Known
  BY <1>1, SameConfigs
<1>6. ItemInv'
  <2> SUFFICES ASSUME NEW t \in Servers, NEW f \in Frags
               PROVE  Settled(item[t][f], t, f)'
    BY DEF ItemInv
  <2>1. item'[t][f] = NoItem \/ item'[t][f] = item[t][f]
    BY DEF ServerRestart, TypeOK, CoordinatorTypeOK
  <2> QED
    BY <1>1, <2>1 DEF ItemInv, Settled, Known, Owner, Config
<1>7. ClientInv'
  BY <1>1, <1>2 DEF ClientInv, ClientOK, Known, Owner, Config
<1>8. ReplyInv'
  BY <1>1, <1>2 DEF ReplyInv, ReplyOK, Settled, Known, Owner, Config
<1> QED
  BY <1>3, <1>4, <1>5, <1>6, <1>7, <1>8

\* A client's call, at the client and at the server.
LEMMA OwnershipCall ==
    ASSUME OwnershipInv, NEW c \in Clients, Call(c)
    PROVE  OwnershipInv'
<1> USE DEF OwnershipInv
<1>1. UNCHANGED <<allConfigurations, currentConfigNumber, phase, toUpdate,
                  configuration_number>>
  BY DEF Call, ReadConfig, UpdateLocalConfigurationNumber, Send, CheckFails, CheckPasses,
         ProcessRead, CompleteNread, ProcessDelete, Return, coordinatorVars, serverVars
<1>2. PeriodsInv' /\ Known' = Known
  BY <1>1, SameConfigs
<1>3. \A d \in Clients \ {c} : /\ pc'[d] = pc[d] /\ local'[d] = local[d]
                              /\ fetched'[d] = fetched[d] /\ req'[d] = req[d]
  BY DEF TypeOK, CoordinatorTypeOK, Call, ReadConfig, UpdateLocalConfigurationNumber, Send, CheckFails,
         CheckPasses, ProcessRead, CompleteNread, ProcessDelete, Return
<1>4. phase # "populating"
  BY DEF WaitInv, Call, ReadConfig, UpdateLocalConfigurationNumber, Send, CheckFails,
         CheckPasses, ProcessRead, CompleteNread, ProcessDelete, Return
<1>5. PublishedInv' /\ WaitInv'
  BY <1>1, <1>4 DEF PublishedInv, WaitInv
<1>6. /\ currentConfigNumber \in Known
      /\ \A n \in Known : n \in Nat
  BY <1>4, MaxConfigAssumption DEF PublishedInv, TypeOK, CoordinatorTypeOK, Known
\* Whatever the call does to its client, the others keep their parts.
<1>7. ASSUME ClientOK(c)', ReplyOK(c)'
      PROVE  ClientInv' /\ ReplyInv'
  <2>1. ASSUME NEW d \in Clients, d # c
        PROVE  ClientOK(d)' /\ ReplyOK(d)'
    <3>1. /\ pc'[d] = pc[d] /\ local'[d] = local[d] /\ fetched'[d] = fetched[d] /\ req'[d] = req[d]
          /\ allConfigurations' = allConfigurations
      BY Zenon, <1>1, <1>3, <2>1
    <3>2. ClientOK(d) /\ ReplyOK(d)
      BY Zenon DEF ClientInv, ReplyInv
    <3>3. ClientOK(d)'
      BY Zenon, <1>2, <3>1, <3>2 DEF ClientOK, Owner, Config
    <3>4. ReplyOK(d)'
      BY Zenon, <1>2, <3>1, <3>2 DEF ReplyOK, Settled, Owner, Config
    <3> QED
      BY Zenon, <3>3, <3>4
  <2> QED
    BY <1>7, <2>1 DEF ClientInv, ReplyInv
\* Likewise for the items, where the call leaves them alone.
<1>8. item' = item => ItemInv'
  BY <1>1, SameSettled DEF ItemInv
<1>9. ClientOK(c) /\ ReplyOK(c) /\ c \in DOMAIN pc /\ c \in DOMAIN req
  BY DEF ClientInv, ReplyInv, TypeOK, CoordinatorTypeOK
<1>10. CASE ReadConfig(c)
  <2>1. TypeOK'
    BY <1>10 DEF ReadConfig, TypeOK, CoordinatorTypeOK, Numbers, coordinatorVars, serverVars
  <2>2. ClientOK(c)' /\ ReplyOK(c)'
    BY <1>2, <1>6, <1>10 DEF ReadConfig, TypeOK, CoordinatorTypeOK, ClientOK, ReplyOK
  <2> QED
    BY <1>2, <1>5, <1>7, <1>8, <1>10, <2>1, <2>2 DEF ReadConfig, serverVars
<1>11. CASE UpdateLocalConfigurationNumber(c)
  <2>1. TypeOK'
    BY <1>11 DEF UpdateLocalConfigurationNumber, TypeOK, CoordinatorTypeOK, coordinatorVars, serverVars
  <2>2. ClientOK(c)' /\ ReplyOK(c)'
    BY <1>2, <1>9, <1>11 DEF UpdateLocalConfigurationNumber, TypeOK, CoordinatorTypeOK, ClientOK, ReplyOK
  <2> QED
    BY <1>2, <1>5, <1>7, <1>8, <1>11, <2>1, <2>2
       DEF UpdateLocalConfigurationNumber, serverVars
<1>12. ASSUME NEW op \in {"get", "set", "delete"}, NEW f \in Frags, Send(c, op, f)
       PROVE  OwnershipInv'
  <2>1. local[c] \in Known /\ Owner(local[c], f) \in Servers
    BY <1>9, <1>12, KnownConfig DEF Send, ClientOK, TypeOK
  <2> DEFINE r == [op |-> op, frag |-> f, server |-> Owner(local[c], f),
                   stamp |-> NoConfig, reply |-> NoItem]
  <2>2. r \in Requests
    BY <2>1 DEF Requests, Numbers, Items, NoItem, NoConfig
  <2>3. TypeOK'
    BY <1>12, <2>2 DEF Send, TypeOK, CoordinatorTypeOK, coordinatorVars, serverVars
  <2>4. pc'[c] = "sent" /\ local'[c] = local[c] /\ req'[c] = r
    BY <1>12 DEF Send, TypeOK, CoordinatorTypeOK
  <2>5. req'[c].server = Owner(local'[c], req'[c].frag)
    BY <2>4
  <2>6. ClientOK(c)'
    BY <1>1, <1>2, <2>1, <2>4, <2>5 DEF ClientOK, Owner, Config
  <2>7. ReplyOK(c)'
    BY <2>4 DEF ReplyOK
  <2> QED
    BY <1>2, <1>5, <1>7, <1>8, <1>12, <2>3, <2>6, <2>7 DEF Send, serverVars
<1>13. CASE CheckFails(c)
  <2>1. TypeOK'
    BY <1>13 DEF CheckFails, TypeOK, CoordinatorTypeOK, coordinatorVars, serverVars
  <2>2. ClientOK(c)' /\ ReplyOK(c)'
    BY <1>13 DEF CheckFails, TypeOK, CoordinatorTypeOK, ClientOK, ReplyOK
  <2> QED
    BY <1>2, <1>5, <1>7, <1>8, <1>13, <2>1, <2>2 DEF CheckFails, serverVars
<1>14. CASE CheckPasses(c)
  <2>1. local[c] \in Known /\ req[c] \in Requests
    BY <1>9, <1>14 DEF CheckPasses, ClientOK, TypeOK, CoordinatorTypeOK
  <2>2. CheckedStamp(c) = local[c]
    BY <1>14, <2>1 DEF CheckedStamp, CheckPasses, PeriodsInv, Known, Requests
  <2>3. req'[c] = [req[c] EXCEPT !.stamp = local[c]]
    BY <1>9, <1>14, <2>2 DEF CheckPasses
  <2>4. TypeOK'
    BY <1>6, <1>14, <2>1, <2>2
       DEF CheckPasses, TypeOK, CoordinatorTypeOK, Requests, Numbers, coordinatorVars, serverVars
  <2>5. ClientOK(c)' /\ ReplyOK(c)'
    BY <1>1, <1>2, <1>9, <1>14, <2>1, <2>3
       DEF CheckPasses, TypeOK, CoordinatorTypeOK, Requests, ClientOK, ReplyOK, Owner, Config
  <2> QED
    BY <1>2, <1>5, <1>7, <1>8, <1>14, <2>4, <2>5 DEF CheckPasses, serverVars
<1>15. CASE ProcessRead(c)
  <2> DEFINE it == item[req[c].server][req[c].frag]
  <2>1. local[c] \in Known /\ req[c] \in Requests
    BY <1>9, <1>15 DEF ProcessRead, ClientOK, TypeOK, CoordinatorTypeOK
  <2>2. it \in Items /\ Settled(it, req[c].server, req[c].frag)
    BY <2>1 DEF TypeOK, CoordinatorTypeOK, ItemInv, Requests
  <2>3. req'[c] = [req[c] EXCEPT !.reply = it]
    BY <1>9, <1>15 DEF ProcessRead
  <2>4. TypeOK'
    BY <1>15, <2>1, <2>2
       DEF ProcessRead, TypeOK, CoordinatorTypeOK, Requests, coordinatorVars, serverVars
  <2>5. ClientOK(c)'
    BY <1>1, <1>2, <1>9, <1>15, <2>1, <2>3
       DEF ProcessRead, TypeOK, CoordinatorTypeOK, Requests, ClientOK, Owner, Config
  <2>6. ReplyOK(c)'
    BY <1>1, <2>1, <2>2, <2>3, SameSettled DEF ReplyOK, Requests
  <2> QED
    BY <1>2, <1>5, <1>7, <1>8, <1>15, <2>4, <2>5, <2>6 DEF ProcessRead, serverVars
<1>16. CASE CompleteNread(c)
  <2> DEFINE s == req[c].server
             f == req[c].frag
             new == [config_number |-> req[c].stamp, value |-> local[c]]
  <2>1. /\ local[c] \in Known /\ req[c] \in Requests
        /\ s = Owner(local[c], f) /\ req[c].stamp = local[c]
    BY <1>9, <1>16 DEF CompleteNread, ClientOK, TypeOK, CoordinatorTypeOK
  <2>2. new \in Items /\ Settled(new, s, f)
    BY <1>6, <2>1 DEF Items, Numbers, Settled
  <2>3. TypeOK'
    BY <1>16, <2>1, <2>2 DEF CompleteNread, TypeOK, CoordinatorTypeOK, Requests, coordinatorVars
  <2>4. ClientOK(c)' /\ ReplyOK(c)'
    BY <1>1, <1>2, <1>9, <1>16, <2>1
       DEF CompleteNread, TypeOK, CoordinatorTypeOK, Requests, ClientOK, ReplyOK, Owner, Config
  <2>5. ASSUME NEW t \in Servers, NEW g \in Frags
        PROVE  Settled(item[t][g], t, g)'
    <3>1. item' = [item EXCEPT ![s][f] = new] /\ item \in [Servers -> [Frags -> Items]]
      BY Zenon, <1>16 DEF CompleteNread, TypeOK
    <3> HIDE DEF new, s, f
    <3>2. item'[t][g] = IF t = s /\ g = f THEN new ELSE item[t][g]
      BY <3>1
    <3> QED
      BY <1>1, <2>2, <3>2, SameSettled DEF ItemInv
  <2> QED
    BY <1>2, <1>5, <1>7, <2>3, <2>4, <2>5 DEF ItemInv
<1>17. CASE ProcessDelete(c)
  <2>1. local[c] \in Known /\ req[c] \in Requests
    BY <1>9, <1>17 DEF ProcessDelete, ClientOK, TypeOK, CoordinatorTypeOK
  <2>2. NoItem \in Items
    BY DEF NoItem, Items, Numbers, NoConfig
  <2>3. TypeOK'
    BY <1>17, <2>1, <2>2 DEF ProcessDelete, TypeOK, CoordinatorTypeOK, Requests, coordinatorVars
  <2>4. ClientOK(c)' /\ ReplyOK(c)'
    BY <1>1, <1>2, <1>9, <1>17, <2>1
       DEF ProcessDelete, TypeOK, CoordinatorTypeOK, Requests, ClientOK, ReplyOK, Owner, Config
  <2>5. ASSUME NEW t \in Servers, NEW g \in Frags
        PROVE  Settled(item[t][g], t, g)'
    <3>1. item'[t][g] = NoItem \/ item'[t][g] = item[t][g]
      BY <1>17, <2>1 DEF ProcessDelete, TypeOK, CoordinatorTypeOK, Requests
    <3> QED
      <4>1. Settled(item[t][g], t, g) /\ Settled(NoItem, t, g)
        BY Zenon DEF ItemInv, Settled
      <4>2. allConfigurations' = allConfigurations
        BY Zenon, <1>1
      <4> QED
        BY Zenon, <1>2, <3>1, <4>1, <4>2 DEF Settled, Owner, Config
  <2> QED
    BY <1>2, <1>5, <1>7, <2>3, <2>4, <2>5 DEF ItemInv
<1>18. CASE Return(c)
  <2>1. TypeOK'
    BY <1>18 DEF Return, TypeOK, CoordinatorTypeOK, coordinatorVars, serverVars
  <2>2. ClientOK(c)' /\ ReplyOK(c)'
    BY <1>2, <1>9, <1>18 DEF Return, TypeOK, CoordinatorTypeOK, ClientOK, ReplyOK
  <2> QED
    BY <1>2, <1>5, <1>7, <1>8, <1>18, <2>1, <2>2 DEF Return, serverVars
<1> QED
  BY <1>10, <1>11, <1>12, <1>13, <1>14, <1>15, <1>16, <1>17, <1>18 DEF Call

\* One step of the whole system.
LEMMA OwnershipStep ==
    OwnershipInv /\ [Next]_vars => OwnershipInv'
<1> SUFFICES ASSUME OwnershipInv, [Next]_vars PROVE OwnershipInv'
  OBVIOUS
<1>1. CASE UNCHANGED vars
  <2>1. CoordinatorInv'
    BY <1>1, CoordinatorSame DEF vars, OwnershipInv, TypeOK, CoordinatorInv, coordinatorVars
  <2>2. TypeOK' /\ PeriodsInv' /\ PublishedInv' /\ WaitInv'
    BY <1>1, <2>1 DEF vars, serverVars, clientVars, OwnershipInv, TypeOK, CoordinatorInv,
                      coordinatorVars, WaitInv
  <2>3. ClientInv'
    BY <1>1 DEF vars, OwnershipInv, ClientInv, ClientOK, Known, Owner, Config
  <2>4. ItemInv' /\ ReplyInv'
    BY <1>1 DEF vars, OwnershipInv, ItemInv, ReplyInv, ReplyOK, Settled, Known, Owner, Config
  <2> QED
    BY <2>2, <2>3, <2>4 DEF OwnershipInv
<1>2. CASE Coordinate
  BY <1>2, OwnershipCoordinate, OwnershipServerRestart DEF Coordinate
<1>3. CASE \E c \in Clients : Call(c)
  BY <1>3, OwnershipCall
<1> QED
  BY <1>1, <1>2, <1>3 DEF Next

\* A value accepted in an invariant state was written under the same ownership.
LEMMA OwnershipAccepted ==
    OwnershipInv => AcceptedInOwnership
<1> SUFFICES ASSUME OwnershipInv, NEW c \in Clients, Accepts(c)
             PROVE  /\ Owner(req[c].reply.value, req[c].frag) = req[c].server
                    /\ \A n \in req[c].reply.value .. local[c] :
                           Owner(n, req[c].frag) = req[c].server
  BY DEF AcceptedInOwnership
<1> DEFINE f == req[c].frag
           v == req[c].reply.value
<1>1. /\ f \in Frags
      /\ local[c] \in Known
      /\ req[c].server = Owner(local[c], f)
      /\ Settled(req[c].reply, req[c].server, f)
  BY DEF OwnershipInv, TypeOK, CoordinatorTypeOK, Requests, ClientInv, ClientOK, ReplyInv, ReplyOK, Accepts
<1>2. /\ v \in Known
      /\ req[c].reply.config_number = v
      /\ Owner(v, f) = req[c].server
      /\ CfgId(local[c], f) <= v
  BY <1>1 DEF Settled, Accepts
<1>3. CfgId(local[c], f) \in Nat
  BY <1>1, KnownConfig DEF OwnershipInv, TypeOK
<1>4. \A n \in CfgId(local[c], f) .. local[c] : Owner(n, f) = req[c].server
  BY <1>1 DEF OwnershipInv, PeriodsInv, Known
<1>5. \A n \in v .. local[c] : n \in CfgId(local[c], f) .. local[c]
  BY <1>1, <1>2, <1>3 DEF Known
<1> QED
  BY <1>2, <1>4, <1>5

------------------------------------------------------------------------------
(* The theorems *)

\* Every variable keeps its type, whatever fails.
THEOREM TypeCorrect == Spec => []TypeOK
<1>1. OwnershipInv => TypeOK
  BY DEF OwnershipInv
<1> QED
  BY <1>1, OwnershipInit, OwnershipStep, PTL DEF Spec

\* get never accepts a value from before its server last became the owner of
\* the fragment, however late the set that wrote it completed, and whichever
\* updateconf calls fail and processes restart.
THEOREM Ownership == Spec => []AcceptedInOwnership
BY OwnershipInit, OwnershipStep, OwnershipAccepted, PTL DEF Spec

\* What makes ConfigAgreement inductive: it holds, with number 0, before the
\* coordinator serves clients, a response in flight is not ahead either, and
\* no updateconf call is left over once the simulator waits.
AgreementInv ==
    /\ RolloutInv
    /\ \A c \in Clients : local[c] <= currentConfigNumber
    /\ \A c \in Clients : fetched[c] <= currentConfigNumber

\* The roll-out keeps servers and clients together when nothing fails.
LEMMA AgreementStep ==
    ASSUME Faults = {}, TypeOK, AgreementInv, [Next]_vars
    PROVE  AgreementInv'
<1> USE DEF AgreementInv
<1>1. CASE UNCHANGED vars
  BY <1>1 DEF vars, RolloutInv, coordinatorVars, serverVars, clientVars
<1>2. CASE CoordinatorNext /\ UNCHANGED clientVars
  <2>1. RolloutInv' /\ currentConfigNumber <= currentConfigNumber'
    BY <1>2, RolloutStep DEF TypeOK
  <2>2. currentConfigNumber \in Int /\ currentConfigNumber' \in Int
    BY <1>2 DEF TypeOK, CoordinatorTypeOK, CoordinatorNext, Populate, StartSimulator, StartService,
           DetectNewConfig, Publish, CoordinatorRestart, UpdateServerConfigurationNumber,
           UpdateServerFails
  <2>3. \A c \in Clients : /\ local[c] \in Int /\ fetched[c] \in Int
                           /\ local'[c] = local[c] /\ fetched'[c] = fetched[c]
    BY <1>2 DEF TypeOK, Numbers, NoConfig, clientVars
  <2> QED
    BY <2>1, <2>2, <2>3
<1>3. ASSUME NEW c \in Clients, Call(c)
      PROVE  AgreementInv'
  <2>1. UNCHANGED <<currentConfigNumber, phase, toUpdate, configuration_number>>
    BY <1>3 DEF Call, ReadConfig, UpdateLocalConfigurationNumber, Send, CheckFails,
          CheckPasses, ProcessRead, CompleteNread, ProcessDelete, Return,
          coordinatorVars, serverVars
  <2>2. \A d \in Clients : /\ local'[d] \in {local[d], fetched[d]}
                           /\ fetched'[d] \in {fetched[d], currentConfigNumber}
    BY <1>3 DEF TypeOK, CoordinatorTypeOK, Call, ReadConfig, UpdateLocalConfigurationNumber, Send,
          CheckFails, CheckPasses, ProcessRead, CompleteNread, ProcessDelete, Return
  <2>3. currentConfigNumber \in Nat
    BY DEF TypeOK, CoordinatorTypeOK
  <2> QED
    BY <2>1, <2>2, <2>3 DEF RolloutInv
<1>4. \A s \in Servers : ~ServerRestart(s)
  BY DEF ServerRestart
<1> QED
  BY <1>1, <1>2, <1>3, <1>4 DEF Next, Coordinate

\* Servers are at the published configuration or the next, clients never ahead:
\* the order of CacheStateSimulator.call, update every server and then publish,
\* is enough when every update succeeds and nothing restarts.
THEOREM Agreement == ASSUME Faults = {} PROVE Spec => []ConfigAgreement
<1>1. Init => AgreementInv
  BY DEF Init, CoordinatorInit, AgreementInv, RolloutInv, NoConfig
<1>2. TypeOK /\ AgreementInv /\ [Next]_vars => AgreementInv'
  BY AgreementStep
<1>3. AgreementInv => ConfigAgreement
  BY DEF AgreementInv, RolloutInv, ConfigAgreement
<1> QED
  BY <1>1, <1>2, <1>3, TypeCorrect, PTL DEF Spec

\* A command that passes asc_check_config was sent under the published
\* configuration: the check at one server speaks for all of them.
THEOREM PassesAtPublication == ASSUME Faults = {} PROVE Spec => CheckedAtPublication
<1>1. Init => AgreementInv
  BY DEF Init, CoordinatorInit, AgreementInv, RolloutInv, NoConfig
<1>2. TypeOK /\ AgreementInv /\ [Next]_vars => AgreementInv'
  BY AgreementStep
<1>3. ASSUME TypeOK, AgreementInv, [Next]_vars
      PROVE  [\A c \in Clients : pc[c] = "sent" /\ pc'[c] = "checked" =>
                 local[c] = currentConfigNumber]_vars
  <2> SUFFICES ASSUME Next, NEW c \in Clients, pc[c] = "sent", pc'[c] = "checked"
               PROVE  local[c] = currentConfigNumber
    BY <1>3
  <2>1. CheckPasses(c)
    <3>1. ASSUME NEW d \in Clients, Call(d) PROVE d = c /\ CheckPasses(c)
      BY <1>3, <3>1 DEF TypeOK, CoordinatorTypeOK, Call, ReadConfig, UpdateLocalConfigurationNumber, Send,
            CheckFails, CheckPasses, ProcessRead, CompleteNread, ProcessDelete, Return
    <3>2. ~Coordinate
      BY DEF Coordinate, ServerRestart, clientVars
    <3> QED
      BY <3>1, <3>2 DEF Next
  <2>2. /\ req[c].server \in Servers
        /\ local[c] = configuration_number[req[c].server]
        /\ local[c] <= currentConfigNumber /\ currentConfigNumber \in Nat
    BY <1>3, <2>1 DEF TypeOK, CoordinatorTypeOK, Requests, CheckPasses, AgreementInv
  <2> QED
    BY <1>3, <2>2 DEF AgreementInv, RolloutInv
<1> QED
  BY <1>1, <1>2, <1>3, TypeCorrect, PTL DEF Spec, CheckedAtPublication
==============================================================================
