-------------------------- MODULE Deployment_proofs --------------------------
(***************************************************************************)
(* Proofs about Deployment, for all sets of commands and of sessions       *)
(* started by hand.                                                        *)
(*                                                                         *)
(* The first part needs no bound on how many commands run at once: the     *)
(* name admits one install at a time from its planning to its release, so  *)
(* what it publishes and rolls back is its own.  The second part is about  *)
(* commands that run one at a time.                                        *)
(***************************************************************************)
EXTENDS Deployment, FiniteSetTheorems, TLAPS

AllSteps == InstallSteps \cup InstallOutcomes
                \cup UninstallSteps \cup UninstallOutcomes

(* The steps of an install that has the name.                              *)
Holding == InstallSteps \ {"idle", "exists", "acquire", "start", "state"}

(* The steps of an install that has published nothing.                     *)
Unpublished == {"idle", "exists", "acquire", "plan", "check_rule", "create",
                "failed"}

(* The steps of an install between its two publications.                   *)
HalfPublished == {"publish", "rollback"}

-----------------------------------------------------------------------------
(* What one step of a command may do to its place, to the name and to the  *)
(* artifacts.                                                              *)

OthersWait(c) ==
    /\ \A d \in Commands \ {c} : step'[d] = step[d]
    /\ step' = [d \in Commands |-> step'[d]]

NameEffect(i) ==
    \/ /\ step[i] \in Holding <=> step'[i] \in Holding
       /\ name_owner' = name_owner
    \/ /\ step[i] = "acquire"
       /\ name_owner = None
       /\ step'[i] = "plan"
       /\ name_owner' = i
    \/ /\ step'[i] \notin Holding
       /\ name_owner' = ReleasedBy(i)

ArtifactEffect(i) ==
    \/ /\ UNCHANGED artifact_vars
       /\ step'[i] \in Unpublished => step[i] \in Unpublished
       /\ step'[i] \in HalfPublished => step[i] = "publish"
    \/ /\ step[i] = "create" /\ step'[i] \in {"publish", "enable"}
       /\ response = None /\ response' = i /\ rule' = rule
    \/ /\ step[i] = "publish" /\ step'[i] = "reload"
       /\ rule = None /\ rule' = i /\ response' = response
    \/ /\ step[i] = "rollback" /\ step'[i] = "failed"
       /\ response' = None /\ rule' = rule

InstallEffect(i) ==
    /\ step'[i] \in InstallSteps \cup InstallOutcomes
    /\ OthersWait(i)
    /\ NameEffect(i)
    /\ ArtifactEffect(i)
    /\ \/ UNCHANGED <<unit, service_step>>
       \/ unit # "active" /\ unit' = "active" /\ service_step' = "read"

UninstallEffect(u) ==
    /\ step'[u] \in UninstallSteps \cup UninstallOutcomes
    /\ OthersWait(u)
    /\ response' \in {response, None}
    /\ rule' \in {rule, None}
    /\ \/ UNCHANGED <<unit, service_step, name_owner>>
       \/ /\ unit' # "active" /\ service_step' = "none"
          /\ name_owner' = ReleasedBy(Service)

EnvironmentEffect ==
    /\ UNCHANGED <<step, artifact_vars, enabled>>
    /\ \/ UNCHANGED name_owner
       \/ name_owner = None /\ name_owner' \in ManualRuns \cup {Service}
       \/ name_owner \in ManualRuns \cup {Service} /\ name_owner' = None

(* An install moves only itself, takes the name only when it is free,      *)
(* gives it back only when it needs it no more, and publishes and rolls    *)
(* back only at the steps named for it.                                    *)
LEMMA InstallStep ==
    ASSUME DeploymentTypeOK, NEW i \in Installers,
           BeginInstall(i) \/ Install(i) \/ InstallCrashes(i)
    PROVE  InstallEffect(i)
<1>1. /\ i \in Commands
      /\ step \in [Commands -> AllSteps]
  BY DEF Commands, DeploymentTypeOK, AllSteps
<1> USE <1>1 DEF InstallEffect, OthersWait, NameEffect, ArtifactEffect,
        Holding, Unpublished, HalfPublished, InstallSteps, InstallOutcomes,
        Goto, artifact_vars, unit_vars
<1>2. CASE BeginInstall(i)
  BY <1>2 DEF BeginInstall
<1>3. CASE CheckExists(i)
  BY <1>3 DEF CheckExists
<1>4. CASE AcquireName(i)
  BY <1>4 DEF AcquireName
<1>5. CASE ResolvePlan(i)
  BY <1>5 DEF ResolvePlan, InstallEnds
<1>6. CASE CheckRule(i)
  BY <1>6 DEF CheckRule, InstallEnds
<1>7. CASE CreateResponse(i)
  BY <1>7 DEF CreateResponse, InstallEnds, Created
<1>8. CASE PublishRule(i)
  BY <1>8 DEF PublishRule
<1>9. CASE Rollback(i)
  BY <1>9 DEF Rollback, InstallEnds
<1>10. CASE ReloadUdev(i)
  BY <1>10 DEF ReloadUdev, InstallEnds
<1>11. CASE TriggerUdev(i)
  BY <1>11 DEF TriggerUdev, InstallEnds
<1>12. CASE SettleUdev(i)
  BY <1>12 DEF SettleUdev, InstallEnds
<1>13. CASE VerifyLibinputIgnore(i)
  BY <1>13 DEF VerifyLibinputIgnore, InstallEnds
<1>14. CASE EnableService(i)
  BY <1>14 DEF EnableService, InstallEnds
<1>15. CASE ReleaseName(i)
  BY <1>15 DEF ReleaseName, ReleasedBy
<1>16. CASE StartService(i)
  BY <1>16 DEF StartService, InstallEnds, StartUnit
<1>17. CASE CheckServiceState(i)
  BY <1>17 DEF CheckServiceState, InstallEnds
<1>18. CASE InstallCrashes(i)
  BY <1>18 DEF InstallCrashes, InstallEnds
<1> QED
  BY <1>2, <1>3, <1>4, <1>5, <1>6, <1>7, <1>8, <1>9, <1>10, <1>11, <1>12, <1>13, <1>14, <1>15, <1>16, <1>17, <1>18 DEF Install

(* An install keeps the types of what it changes.                          *)
LEMMA InstallTypes ==
    ASSUME DeploymentTypeOK, NEW i \in Installers,
           BeginInstall(i) \/ Install(i) \/ InstallCrashes(i)
    PROVE  HostTypeOK' /\ InstallTypeOK'
<1> USE DEF DeploymentTypeOK, HostTypeOK, InstallTypeOK, artifact_vars,
        udev_vars, unit_vars, ReleasedBy
<1>1. CASE BeginInstall(i)
  BY <1>1 DEF BeginInstall
<1>2. CASE CheckExists(i)
  BY <1>2 DEF CheckExists
<1>3. CASE AcquireName(i)
  BY <1>3 DEF AcquireName
<1>4. CASE ResolvePlan(i)
  BY <1>4 DEF ResolvePlan, InstallEnds
<1>5. CASE CheckRule(i)
  BY <1>5 DEF CheckRule, InstallEnds
<1>6. CASE CreateResponse(i)
  BY <1>6 DEF CreateResponse, InstallEnds, Created
<1>7. CASE PublishRule(i)
  BY <1>7 DEF PublishRule
<1>8. CASE Rollback(i)
  BY <1>8 DEF Rollback, InstallEnds
<1>9. CASE ReloadUdev(i)
  BY <1>9 DEF ReloadUdev, InstallEnds, ReloadRules
<1>10. CASE TriggerUdev(i)
  BY <1>10 DEF TriggerUdev, InstallEnds, TriggerSource
<1>11. CASE SettleUdev(i)
  BY <1>11 DEF SettleUdev, InstallEnds
<1>12. CASE VerifyLibinputIgnore(i)
  BY <1>12 DEF VerifyLibinputIgnore, InstallEnds
<1>13. CASE EnableService(i)
  BY <1>13 DEF EnableService, InstallEnds
<1>14. CASE ReleaseName(i)
  BY <1>14 DEF ReleaseName
<1>15. CASE StartService(i)
  BY <1>15 DEF StartService, InstallEnds, StartUnit, UnitStates, ServiceSteps
<1>16. CASE CheckServiceState(i)
  BY <1>16 DEF CheckServiceState, InstallEnds
<1>17. CASE InstallCrashes(i)
  BY <1>17 DEF InstallCrashes, InstallEnds
<1> QED
  BY <1>1, <1>2, <1>3, <1>4, <1>5, <1>6, <1>7, <1>8, <1>9, <1>10, <1>11, <1>12, <1>13, <1>14, <1>15, <1>16, <1>17 DEF Install

(* An uninstall moves only itself; it removes artifacts and takes the name *)
(* from nobody but the service it stops.                                   *)
LEMMA UninstallStep ==
    ASSUME DeploymentTypeOK, NEW u \in Uninstallers,
           BeginUninstall(u) \/ Uninstall(u) \/ UninstallCrashes(u)
    PROVE  UninstallEffect(u)
<1>1. /\ u \in Commands
      /\ step \in [Commands -> AllSteps]
  BY DEF Commands, DeploymentTypeOK, AllSteps
<1> USE <1>1 DEF UninstallEffect, OthersWait, UninstallSteps,
        UninstallOutcomes, Goto, artifact_vars, unit_vars
<1>2. CASE BeginUninstall(u)
  BY <1>2 DEF BeginUninstall
<1>3. CASE SelectInstance(u)
  BY <1>3 DEF SelectInstance
<1>4. CASE CheckActive(u)
  BY <1>4 DEF CheckActive, StageFailed
<1>5. CASE StopService(u)
  BY <1>5 DEF StopService, StageFailed, StopUnit
<1>6. CASE CheckEnabled(u)
  BY <1>6 DEF CheckEnabled, StageFailed
<1>7. CASE DisableService(u)
  BY <1>7 DEF DisableService, StageFailed
<1>8. CASE ReadResponse(u)
  BY <1>8 DEF ReadResponse
<1>9. CASE RemoveRule(u)
  BY <1>9 DEF RemoveRule, StageFailed
<1>10. CASE ReloadRemoved(u)
  BY <1>10 DEF ReloadRemoved, StageFailed
<1>11. CASE SourcePresent(u)
  BY <1>11 DEF SourcePresent
<1>12. CASE TriggerRemoved(u)
  BY <1>12 DEF TriggerRemoved, StageFailed
<1>13. CASE SettleRemoved(u)
  BY <1>13 DEF SettleRemoved, StageFailed
<1>14. CASE RemoveResponse(u)
  BY <1>14 DEF RemoveResponse
<1>15. CASE UninstallCrashes(u)
  BY <1>15 DEF UninstallCrashes
<1> QED
  BY <1>2, <1>3, <1>4, <1>5, <1>6, <1>7, <1>8, <1>9, <1>10, <1>11, <1>12, <1>13, <1>14, <1>15 DEF Uninstall

(* An uninstall keeps the types of what it changes.                        *)
LEMMA UninstallTypes ==
    ASSUME DeploymentTypeOK, NEW u \in Uninstallers,
           BeginUninstall(u) \/ Uninstall(u) \/ UninstallCrashes(u)
    PROVE  HostTypeOK' /\ UninstallTypeOK'
<1> USE DEF DeploymentTypeOK, HostTypeOK, UninstallTypeOK, artifact_vars,
        udev_vars, unit_vars
<1>1. CASE BeginUninstall(u)
  BY <1>1 DEF BeginUninstall
<1>2. CASE SelectInstance(u)
  BY <1>2 DEF SelectInstance
<1>3. CASE CheckActive(u)
  BY <1>3 DEF CheckActive, StageFailed
<1>4. CASE StopService(u)
  BY <1>4 DEF StopService, StageFailed, StopUnit, UnitStates, ServiceSteps, ReleasedBy
<1>5. CASE CheckEnabled(u)
  BY <1>5 DEF CheckEnabled, StageFailed
<1>6. CASE DisableService(u)
  <2>1. CASE enabled' = FALSE
    BY <1>6, <2>1 DEF DisableService, StageFailed
  <2>2. CASE enabled' # FALSE
    <3>1. enabled' = enabled /\ StageFailed(u, "read")
      BY <1>6, <2>2 DEF DisableService
    <3> QED
      BY <1>6, <3>1 DEF DisableService, StageFailed
  <2> QED
    BY <2>1, <2>2
<1>7. CASE ReadResponse(u)
  BY <1>7 DEF ReadResponse
<1>8. CASE RemoveRule(u)
  BY <1>8 DEF RemoveRule, StageFailed
<1>9. CASE ReloadRemoved(u)
  BY <1>9 DEF ReloadRemoved, StageFailed, ReloadRules
<1>10. CASE SourcePresent(u)
  BY <1>10 DEF SourcePresent
<1>11. CASE TriggerRemoved(u)
  BY <1>11 DEF TriggerRemoved, StageFailed, TriggerSource
<1>12. CASE SettleRemoved(u)
  BY <1>12 DEF SettleRemoved, StageFailed
<1>13. CASE RemoveResponse(u)
  BY <1>13 DEF RemoveResponse
<1>14. CASE UninstallCrashes(u)
  BY <1>14 DEF UninstallCrashes
<1> QED
  BY <1>1, <1>2, <1>3, <1>4, <1>5, <1>6, <1>7, <1>8, <1>9, <1>10, <1>11, <1>12, <1>13, <1>14 DEF Uninstall

(* The service, sessions started by hand, udev and the device leave        *)
(* commands, artifacts and enablement alone.                               *)
LEMMA EnvironmentStep ==
    ASSUME DeploymentTypeOK, Environment
    PROVE  /\ EnvironmentEffect
           /\ HostTypeOK'
           /\ UNCHANGED <<install_vars, uninstall_vars>>
<1> USE DEF EnvironmentEffect, DeploymentTypeOK, HostTypeOK, UnitStates,
        ServiceSteps, ReleasedBy, artifact_vars, udev_vars, unit_vars
<1>1. CASE ServiceNext /\ UNCHANGED <<install_vars, uninstall_vars>>
  BY <1>1 DEF ServiceNext, ServiceFails, ServiceReads, ServiceAcquires,
      AutoRestart
<1>2. CASE DeviceNext /\ UNCHANGED <<install_vars, uninstall_vars>>
  BY <1>2 DEF DeviceNext, Unplug, Plug, ProcessUevent
<1>3. ASSUME NEW m \in ManualRuns,
             ManualRunAcquires(m) \/ ManualRunExits(m),
             UNCHANGED <<install_vars, uninstall_vars>>
      PROVE  /\ EnvironmentEffect
             /\ HostTypeOK'
             /\ UNCHANGED <<install_vars, uninstall_vars>>
  BY <1>3 DEF ManualRunAcquires, ManualRunExits
<1> QED
  BY <1>1, <1>2, <1>3 DEF Environment

-----------------------------------------------------------------------------
(* Type correctness.                                                       *)

(* The types hold at first.                                                *)
LEMMA TypesInitial == Init => DeploymentTypeOK
  BY DEF Init, HostInit, InstallInit, UninstallInit, DeploymentTypeOK,
      HostTypeOK, InstallTypeOK, UninstallTypeOK, Commands, InstallSteps,
      UninstallSteps, UnitStates, ServiceSteps

(* Next by the command that moves.                                         *)
LEMMA StepCases ==
    ASSUME Next
    PROVE  \/ \E i \in Installers :
                  /\ BeginInstall(i) \/ Install(i) \/ InstallCrashes(i)
                  /\ UNCHANGED uninstall_vars
           \/ \E u \in Uninstallers :
                  /\ BeginUninstall(u) \/ Uninstall(u) \/ UninstallCrashes(u)
                  /\ UNCHANGED install_vars
           \/ Reboot
           \/ Environment
  BY DEF Next, Begin, Proceed, Crash

(* Every step keeps the types.                                             *)
LEMMA TypesInductive ==
    ASSUME DeploymentTypeOK, [Next]_vars
    PROVE  DeploymentTypeOK'
<1>1. ASSUME NEW i \in Installers,
             BeginInstall(i) \/ Install(i) \/ InstallCrashes(i),
             UNCHANGED uninstall_vars
      PROVE  DeploymentTypeOK'
  <2>1. HostTypeOK' /\ InstallTypeOK'
    BY <1>1, InstallTypes
  <2>2. UninstallTypeOK'
    BY <1>1 DEF DeploymentTypeOK, UninstallTypeOK, uninstall_vars
  <2>3. InstallEffect(i)
    BY <1>1, InstallStep
  <2>4. \A d \in Commands \ {i} : step'[d] = step[d]
    BY <2>3 DEF InstallEffect, OthersWait
  <2>5. \A j \in Installers : step'[j] \in InstallSteps \cup InstallOutcomes
    BY <2>3, <2>4 DEF InstallEffect, DeploymentTypeOK, Commands
  <2>6. \A u \in Uninstallers :
            step'[u] \in UninstallSteps \cup UninstallOutcomes
    BY <2>4, HostAssumption DEF DeploymentTypeOK, Commands
  <2>7. step' \in [Commands -> InstallSteps \cup InstallOutcomes
                                  \cup UninstallSteps \cup UninstallOutcomes]
    BY <2>3, <2>5, <2>6 DEF InstallEffect, OthersWait, Commands
  <2> QED
    BY <2>1, <2>2, <2>5, <2>6, <2>7 DEF DeploymentTypeOK
<1>2. ASSUME NEW u \in Uninstallers,
             BeginUninstall(u) \/ Uninstall(u) \/ UninstallCrashes(u),
             UNCHANGED install_vars
      PROVE  DeploymentTypeOK'
  <2>1. HostTypeOK' /\ UninstallTypeOK'
    BY <1>2, UninstallTypes
  <2>2. InstallTypeOK'
    BY <1>2 DEF DeploymentTypeOK, InstallTypeOK, install_vars
  <2>3. UninstallEffect(u)
    BY <1>2, UninstallStep
  <2>4. \A d \in Commands \ {u} : step'[d] = step[d]
    BY <2>3 DEF UninstallEffect, OthersWait
  <2>5. \A i \in Installers : step'[i] \in InstallSteps \cup InstallOutcomes
    BY <2>4, HostAssumption DEF DeploymentTypeOK, Commands
  <2>6. \A v \in Uninstallers :
            step'[v] \in UninstallSteps \cup UninstallOutcomes
    BY <2>3, <2>4 DEF UninstallEffect, DeploymentTypeOK, Commands
  <2>7. step' \in [Commands -> InstallSteps \cup InstallOutcomes
                                  \cup UninstallSteps \cup UninstallOutcomes]
    BY <2>3, <2>5, <2>6 DEF UninstallEffect, OthersWait, Commands
  <2> QED
    BY <2>1, <2>2, <2>5, <2>6, <2>7 DEF DeploymentTypeOK
<1>3. CASE Reboot
  BY <1>3 DEF Reboot, Busy, DeploymentTypeOK, HostTypeOK, InstallTypeOK,
      UninstallTypeOK, InstallOutcomes, UninstallOutcomes, UnitStates,
      ServiceSteps, Commands, artifact_vars, install_vars, uninstall_vars
<1>4. CASE Environment
  BY <1>4, EnvironmentStep
  DEF DeploymentTypeOK, InstallTypeOK, UninstallTypeOK, EnvironmentEffect,
      install_vars, uninstall_vars
<1>5. CASE UNCHANGED vars
  BY <1>5 DEF vars, host_vars, artifact_vars, udev_vars, unit_vars,
      install_vars, uninstall_vars, DeploymentTypeOK, HostTypeOK,
      InstallTypeOK, UninstallTypeOK
<1> QED
  BY <1>1, <1>2, <1>3, <1>4, <1>5, StepCases

(* The host's and the commands' variables keep their types.                *)
THEOREM DeploymentTypeCorrect == Spec => []DeploymentTypeOK
  BY TypesInitial, TypesInductive, PTL DEF Spec

-----------------------------------------------------------------------------
(* The name and what is published under it, for any number of commands.    *)

(* An install has the name exactly in the steps that need it.              *)
NameHeld ==
    /\ \A i \in Installers : step[i] \in Holding <=> name_owner = i
    /\ name_owner = Service <=> service_step = "run"
    /\ unit = "active" <=> service_step # "none"

(* Before it publishes, an install has left nothing; between its two       *)
(* publications the response artifact is its own or gone.                  *)
PublishedByHolder ==
    \A i \in Installers :
        /\ step[i] \in Unpublished => response # i /\ rule # i
        /\ step[i] \in HalfPublished => response \in {i, None} /\ rule # i

DeploymentInv == DeploymentTypeOK /\ NameHeld /\ PublishedByHolder

(* The invariant holds at first: nobody has the name or has published.     *)
LEMMA DeploymentInitial == Init => DeploymentInv
<1>1. Init => NameHeld /\ PublishedByHolder
  BY HostAssumption
  DEF Init, HostInit, NameHeld, PublishedByHolder, Holding, HalfPublished,
      InstallSteps, Commands
<1> QED
  BY <1>1, TypesInitial DEF DeploymentInv

(* Every step keeps the name with the process that needs it.               *)
LEMMA NameHeldInductive ==
    ASSUME DeploymentInv, [Next]_vars
    PROVE  NameHeld'
<1> USE HostAssumption
<1>1. ASSUME NEW i \in Installers,
             BeginInstall(i) \/ Install(i) \/ InstallCrashes(i)
      PROVE  NameHeld'
  <2>1. InstallEffect(i)
    BY <1>1, InstallStep DEF DeploymentInv
  <2>2. \A j \in Installers \ {i} : step'[j] = step[j]
    BY <2>1 DEF InstallEffect, OthersWait, Commands
  <2>3. /\ step'[i] \in Holding <=> name_owner' = i
        /\ name_owner' \in {name_owner, i, None}
        /\ name_owner' # name_owner => i \in {name_owner, name_owner'}
        /\ name_owner' # name_owner /\ name_owner' = i => name_owner = None
    <3>1. step[i] \in Holding <=> name_owner = i
      BY DEF DeploymentInv, NameHeld
    <3>2. "plan" \in Holding
      BY DEF Holding, InstallSteps
    <3> QED
      BY <2>1, <3>1, <3>2 DEF InstallEffect, NameEffect, ReleasedBy
  <2>4. \A j \in Installers : step'[j] \in Holding <=> name_owner' = j
    BY <2>2, <2>3 DEF DeploymentInv, NameHeld
  <2>5. /\ name_owner' = Service <=> service_step' = "run"
        /\ unit' = "active" <=> service_step' # "none"
    BY <2>1, <2>3 DEF InstallEffect, DeploymentInv, NameHeld
  <2> QED
    BY <2>4, <2>5 DEF NameHeld
<1>2. ASSUME NEW u \in Uninstallers,
             BeginUninstall(u) \/ Uninstall(u) \/ UninstallCrashes(u)
      PROVE  NameHeld'
  <2>1. UninstallEffect(u)
    BY <1>2, UninstallStep DEF DeploymentInv
  <2>2. \A j \in Installers : step'[j] = step[j]
    BY <2>1 DEF UninstallEffect, OthersWait, Commands
  <2> QED
    BY <2>1, <2>2
    DEF UninstallEffect, ReleasedBy, DeploymentInv, NameHeld
<1>3. CASE Reboot
  <2>1. \A i \in Installers : step'[i] \notin Holding
    BY <1>3 DEF Reboot, Busy, Commands, Holding, InstallSteps,
        InstallOutcomes, UninstallOutcomes
  <2> QED
    BY <1>3, <2>1 DEF Reboot, NameHeld
<1>4. CASE Environment
  <2>1. EnvironmentEffect
    BY <1>4, EnvironmentStep DEF DeploymentInv
  <2>2. \A j \in Installers : step'[j] \in Holding <=> name_owner' = j
    BY <2>1 DEF EnvironmentEffect, DeploymentInv, NameHeld
  <2>3. /\ name_owner' = Service <=> service_step' = "run"
        /\ unit' = "active" <=> service_step' # "none"
    BY <1>4
    DEF DeploymentInv, NameHeld, Environment, ServiceNext, ServiceFails,
        ServiceReads, ServiceAcquires, AutoRestart, DeviceNext, Unplug, Plug,
        ProcessUevent, ManualRunAcquires, ManualRunExits, ReleasedBy,
        unit_vars
  <2> QED
    BY <2>2, <2>3 DEF NameHeld
<1>5. CASE UNCHANGED vars
  BY <1>5 DEF vars, host_vars, unit_vars, DeploymentInv, NameHeld
<1> QED
  BY <1>1, <1>2, <1>3, <1>4, <1>5, StepCases

(* Every step keeps what is published with the install that published it:  *)
(* a publication by another needs the name, which the install has.         *)
LEMMA PublishedInductive ==
    ASSUME DeploymentInv, [Next]_vars
    PROVE  PublishedByHolder'
<1> USE HostAssumption
<1>1. ASSUME NEW i \in Installers,
             BeginInstall(i) \/ Install(i) \/ InstallCrashes(i),
             NEW j \in Installers
      PROVE  /\ step'[j] \in Unpublished => response' # j /\ rule' # j
             /\ step'[j] \in HalfPublished =>
                    response' \in {j, None} /\ rule' # j
  <2>1. InstallEffect(i)
    BY <1>1, InstallStep DEF DeploymentInv
  <2>2. CASE j = i
    <3>1. /\ step[i] \in Unpublished => response # i /\ rule # i
          /\ step[i] \in HalfPublished => response \in {i, None} /\ rule # i
      BY DEF DeploymentInv, PublishedByHolder
    <3> QED
      BY <2>1, <2>2, <3>1
      DEF InstallEffect, ArtifactEffect, Unpublished, HalfPublished,
          artifact_vars
  <2>3. CASE j # i
    <3>1. step'[j] = step[j]
      BY <2>1, <2>3 DEF InstallEffect, OthersWait, Commands
    <3>2. /\ step[j] \in Unpublished => response # j /\ rule # j
          /\ step[j] \in HalfPublished => response \in {j, None} /\ rule # j
      BY DEF DeploymentInv, PublishedByHolder
    <3>3. response' # response => response' \in {i, None}
      BY <2>1 DEF InstallEffect, ArtifactEffect, artifact_vars
    <3>4. rule' # rule => rule' = i
      BY <2>1 DEF InstallEffect, ArtifactEffect, artifact_vars
    <3>5. step[j] \in HalfPublished /\ response' # response => response' = None
      <4>1. HalfPublished \subseteq Holding /\ "create" \in Holding
        BY DEF HalfPublished, Holding, InstallSteps
      <4>2. step[j] \in HalfPublished => step[i] # "create"
        BY <2>3, <4>1 DEF DeploymentInv, NameHeld
      <4> QED
        BY <2>1, <4>2 DEF InstallEffect, ArtifactEffect, artifact_vars
    <3> QED
      BY <2>3, <3>1, <3>2, <3>3, <3>4, <3>5
  <2> QED
    BY <2>2, <2>3
<1>2. ASSUME NEW u \in Uninstallers,
             BeginUninstall(u) \/ Uninstall(u) \/ UninstallCrashes(u)
      PROVE  PublishedByHolder'
  <2>1. UninstallEffect(u)
    BY <1>2, UninstallStep DEF DeploymentInv
  <2>2. \A j \in Installers : step'[j] = step[j]
    BY <2>1 DEF UninstallEffect, OthersWait, Commands
  <2> QED
    BY <2>1, <2>2 DEF UninstallEffect, DeploymentInv, PublishedByHolder
<1>3. CASE Reboot
  <2>1. \A j \in Installers :
            step'[j] \notin HalfPublished
            /\ (step'[j] \in Unpublished => step'[j] = step[j])
    BY <1>3 DEF Reboot, Busy, Commands, HalfPublished, Unpublished,
        InstallOutcomes, UninstallOutcomes
  <2> QED
    BY <1>3, <2>1 DEF Reboot, artifact_vars, DeploymentInv, PublishedByHolder
<1>4. CASE Environment
  BY <1>4, EnvironmentStep
  DEF EnvironmentEffect, artifact_vars, DeploymentInv, PublishedByHolder
<1>5. CASE UNCHANGED vars
  BY <1>5
  DEF vars, host_vars, artifact_vars, DeploymentInv, PublishedByHolder
<1> QED
  BY <1>1, <1>2, <1>3, <1>4, <1>5, StepCases DEF PublishedByHolder

(* The invariant is inductive.                                             *)
LEMMA DeploymentInductive ==
    ASSUME DeploymentInv, [Next]_vars
    PROVE  DeploymentInv'
  BY TypesInductive, NameHeldInductive, PublishedInductive DEF DeploymentInv

(* The invariant of the first part holds in every behaviour.               *)
THEOREM DeploymentInvariant == Spec => []DeploymentInv
  BY DeploymentInitial, DeploymentInductive, PTL DEF Spec

(* One process at a time has the name, in the steps that need it, also     *)
(* when commands run at once, are killed, and the host restarts.           *)
THEOREM NamesExclusive == Spec => []NameExclusive
<1>1. DeploymentInv => NameExclusive
  BY DEF DeploymentInv, NameHeld, NameExclusive, Holding
<1> QED
  BY <1>1, DeploymentInvariant, PTL

(* An install that fails before its commit leaves no artifact of its own,  *)
(* whatever runs beside it.                                                *)
THEOREM FailedInstalls == Spec => []FailedInstallLeavesNothing
<1>1. DeploymentInv => FailedInstallLeavesNothing
  BY DEF DeploymentInv, PublishedByHolder, FailedInstallLeavesNothing,
      Unpublished
<1> QED
  BY <1>1, DeploymentInvariant, PTL

(* A rollback removes the response artifact of its own installation: while *)
(* an install is at it nobody else can have published one.                 *)
THEOREM Rollbacks == Spec => RollbackOwnResponse
<1>1. ASSUME DeploymentInv, [Next]_vars, NEW i \in Installers,
             step[i] = "rollback", response' # response
      PROVE  response = i
  <2>1. response \in {i, None} /\ name_owner = i
    BY <1>1 DEF DeploymentInv, PublishedByHolder, NameHeld, HalfPublished,
        Holding, InstallSteps
  <2>2. response # None
    <3>1. ASSUME NEW j \in Installers, InstallEffect(j), response = None
          PROVE  FALSE
      <4>1. step[j] = "create"
        BY <1>1, <3>1 DEF InstallEffect, ArtifactEffect, artifact_vars
      <4>2. name_owner = j
        BY <1>1, <4>1 DEF DeploymentInv, NameHeld, Holding, InstallSteps
      <4> QED
        BY <1>1, <2>1, <4>1, <4>2
    <3>2. ASSUME NEW u \in Uninstallers, UninstallEffect(u)
          PROVE  response # None
      BY <1>1, <3>2 DEF UninstallEffect
    <3> QED
      BY <1>1, <3>1, <3>2, StepCases, InstallStep, UninstallStep,
         EnvironmentStep
      DEF DeploymentInv, EnvironmentEffect, Reboot, artifact_vars, vars,
          host_vars
  <2> QED
    BY <2>1, <2>2
<1>2. DeploymentInv /\ [Next]_vars =>
          [\A i \in Installers :
              step[i] = "rollback" /\ response' # response => response = i]_vars
  BY <1>1
<1> QED
  BY <1>2, DeploymentInvariant, PTL DEF Spec, RollbackOwnResponse

(* No step replaces an artifact that is published, by whichever command.   *)
THEOREM PublicationsStay == Spec => PublishedNotReplaced
<1>1. ASSUME DeploymentTypeOK, [Next]_vars
      PROVE  /\ response # None => response' \in {response, None}
             /\ rule # None => rule' \in {rule, None}
  <2>1. ASSUME NEW i \in Installers, InstallEffect(i)
        PROVE  /\ response # None => response' \in {response, None}
               /\ rule # None => rule' \in {rule, None}
    BY <2>1 DEF InstallEffect, ArtifactEffect, artifact_vars
  <2>2. ASSUME NEW u \in Uninstallers, UninstallEffect(u)
        PROVE  /\ response # None => response' \in {response, None}
               /\ rule # None => rule' \in {rule, None}
    BY <2>2 DEF UninstallEffect
  <2> QED
    BY <1>1, <2>1, <2>2, StepCases, InstallStep, UninstallStep,
       EnvironmentStep
    DEF EnvironmentEffect, Reboot, artifact_vars, vars, host_vars
<1>2. DeploymentTypeOK /\ [Next]_vars =>
          [/\ response # None => response' \in {response, None}
           /\ rule # None => rule' \in {rule, None}]_vars
  BY <1>1
<1> QED
  BY <1>2, DeploymentTypeCorrect, PTL DEF Spec, PublishedNotReplaced

-----------------------------------------------------------------------------
(* Commands that run one at a time.                                        *)

(* What is left of an installation by the step the command is at.          *)
InstallSoFar(i) ==
    /\ step[i] \in {"acquire", "plan", "check_rule", "create"} =>
           response = None
    /\ step[i] \in HalfPublished =>
           response = i /\ rule = None /\ ~enabled
    /\ step[i] \in {"reload", "trigger", "settle", "verify", "enable"} =>
           response = i

UninstallSoFar(u) ==
    ~failed[u] =>
        /\ step[u] \in {"read", "remove_rule"} => ~enabled
        /\ step[u] \in {"reload", "present", "trigger", "settle",
                        "remove_response"} => ~enabled /\ rule = None

OneRuns == \A c, d \in Running : c = d

RegistryInv ==
    /\ DeploymentTypeOK
    /\ OneRuns
    /\ ArtifactsHaveOwner
    /\ \A i \in Installers : InstallSoFar(i)
    /\ \A u \in Uninstallers : UninstallSoFar(u)

(* A command that waits is at no step that says anything of the host.      *)
LEMMA WaitingSaysNothing ==
    ASSUME NEW c, ~Busy(c)
    PROVE  InstallSoFar(c) /\ UninstallSoFar(c)
  BY DEF Busy, InstallSoFar, UninstallSoFar, HalfPublished, InstallOutcomes,
      UninstallOutcomes

(* A command begins only when no other runs.                               *)
LEMMA NobodyRuns ==
    ASSUME DeploymentTypeOK, MaxCommands = 1,
           Cardinality(Running) < MaxCommands
    PROVE  Running = {}
<1>1. IsFiniteSet(Running)
  BY FS_Subset, DeploymentAssumption DEF Running
<1>2. Cardinality(Running) = 0
  BY <1>1, FS_CardinalityType
<1> QED
  BY <1>1, <1>2, FS_EmptySet

(* The step of an install that runs alone.                                  *)
LEMMA InstallAlone ==
    ASSUME DeploymentTypeOK, ArtifactsHaveOwner,
           NEW i \in Installers, InstallSoFar(i),
           Install(i) \/ InstallCrashes(i)
    PROVE  ArtifactsHaveOwner' /\ InstallSoFar(i)'
<1>1. i \in Commands /\ step \in [Commands -> AllSteps]
  BY DEF Commands, DeploymentTypeOK, AllSteps
<1>2. i # None
  BY HostAssumption
<1> USE <1>1, <1>2 DEF ArtifactsHaveOwner, InstallSoFar, HalfPublished, Goto,
        InstallOutcomes, artifact_vars, unit_vars
<1>3. CASE CheckExists(i)
  BY <1>3 DEF CheckExists
<1>4. CASE AcquireName(i)
  BY <1>4 DEF AcquireName
<1>5. CASE ResolvePlan(i)
  BY <1>5 DEF ResolvePlan, InstallEnds
<1>6. CASE CheckRule(i)
  BY <1>6 DEF CheckRule, InstallEnds
<1>7. CASE CreateResponse(i)
  BY <1>7 DEF CreateResponse, InstallEnds, Created
<1>8. CASE PublishRule(i)
  BY <1>8 DEF PublishRule
<1>9. CASE Rollback(i)
  BY <1>9 DEF Rollback, InstallEnds
<1>10. CASE ReloadUdev(i)
  BY <1>10 DEF ReloadUdev, InstallEnds
<1>11. CASE TriggerUdev(i)
  BY <1>11 DEF TriggerUdev, InstallEnds
<1>12. CASE SettleUdev(i)
  BY <1>12 DEF SettleUdev, InstallEnds
<1>13. CASE VerifyLibinputIgnore(i)
  BY <1>13 DEF VerifyLibinputIgnore, InstallEnds
<1>14. CASE EnableService(i)
  BY <1>14 DEF EnableService, InstallEnds
<1>15. CASE ReleaseName(i)
  BY <1>15 DEF ReleaseName
<1>16. CASE StartService(i)
  BY <1>16 DEF StartService, InstallEnds, StartUnit
<1>17. CASE CheckServiceState(i)
  BY <1>17 DEF CheckServiceState, InstallEnds, UnitStates
<1>18. CASE InstallCrashes(i)
  BY <1>18 DEF InstallCrashes, InstallEnds
<1> QED
  BY <1>3, <1>4, <1>5, <1>6, <1>7, <1>8, <1>9, <1>10, <1>11, <1>12, <1>13, <1>14, <1>15, <1>16, <1>17, <1>18 DEF Install

(* The step of an uninstall that runs alone.                                *)
LEMMA UninstallAlone ==
    ASSUME DeploymentTypeOK, ArtifactsHaveOwner,
           NEW u \in Uninstallers, UninstallSoFar(u),
           Uninstall(u) \/ UninstallCrashes(u)
    PROVE  /\ ArtifactsHaveOwner'
           /\ UninstallSoFar(u)'
           /\ step'[u] = "succeeded" =>
                  response' = None /\ rule' = None /\ ~enabled'
<1>1. /\ u \in Commands /\ step \in [Commands -> AllSteps]
      /\ failed \in [Uninstallers -> BOOLEAN]
  BY DEF Commands, DeploymentTypeOK, UninstallTypeOK, AllSteps
<1> USE <1>1 DEF ArtifactsHaveOwner, UninstallSoFar, Goto, artifact_vars,
        unit_vars
<1>2. CASE SelectInstance(u)
  BY <1>2 DEF SelectInstance
<1>3. CASE CheckActive(u)
  BY <1>3 DEF CheckActive, StageFailed
<1>4. CASE StopService(u)
  BY <1>4 DEF StopService, StageFailed, StopUnit
<1>5. CASE CheckEnabled(u)
  BY <1>5 DEF CheckEnabled, StageFailed
<1>6. CASE DisableService(u)
  <2>1. CASE enabled' = FALSE
    BY <1>6, <2>1 DEF DisableService, StageFailed
  <2>2. CASE enabled' # FALSE
    <3>1. enabled' = enabled /\ StageFailed(u, "read")
      BY <1>6, <2>2 DEF DisableService
    <3> QED
      BY <1>6, <3>1 DEF DisableService, StageFailed
  <2> QED
    BY <2>1, <2>2
<1>7. CASE ReadResponse(u)
  BY <1>7 DEF ReadResponse
<1>8. CASE RemoveRule(u)
  BY <1>8 DEF RemoveRule, StageFailed
<1>9. CASE ReloadRemoved(u)
  BY <1>9 DEF ReloadRemoved, StageFailed
<1>10. CASE SourcePresent(u)
  BY <1>10 DEF SourcePresent
<1>11. CASE TriggerRemoved(u)
  BY <1>11 DEF TriggerRemoved, StageFailed
<1>12. CASE SettleRemoved(u)
  BY <1>12 DEF SettleRemoved, StageFailed
<1>13. CASE RemoveResponse(u)
  BY <1>13 DEF RemoveResponse
<1>14. CASE UninstallCrashes(u)
  BY <1>14 DEF UninstallCrashes
<1> QED
  BY <1>2, <1>3, <1>4, <1>5, <1>6, <1>7, <1>8, <1>9, <1>10, <1>11, <1>12, <1>13, <1>14 DEF Uninstall

(* The invariant of the second part holds at first.                        *)
LEMMA RegistryInitial == Init => RegistryInv
<1>1. Init => /\ \A c \in Commands : step[c] = "idle" /\ ~Busy(c)
              /\ ArtifactsHaveOwner
  BY DEF Init, HostInit, ArtifactsHaveOwner, Busy
<1>2. Init => OneRuns
  BY <1>1 DEF OneRuns, Running
<1> QED
  BY <1>1, <1>2, TypesInitial, WaitingSaysNothing DEF RegistryInv, Commands

(* A command that moves is the only one that runs, and stays it.           *)
LEMMA MovesAlone ==
    ASSUME OneRuns, NEW c \in Commands, Busy(c), OthersWait(c)
    PROVE  /\ OneRuns'
           /\ \A d \in Commands \ {c} : ~Busy(d) /\ ~Busy(d)'
<1>1. \A d \in Commands \ {c} : ~Busy(d)
  BY DEF OneRuns, Running
<1>2. \A d \in Commands \ {c} : ~Busy(d)'
  BY <1>1 DEF Busy, OthersWait
<1> QED
  BY <1>1, <1>2 DEF OneRuns, Running

(* A command that begins keeps the invariant, and is the only one to run.  *)
LEMMA BeginsAlone ==
    ASSUME RegistryInv, MaxCommands = 1, Begin
    PROVE  RegistryInv'
<1>1. Running = {}
  BY NobodyRuns DEF RegistryInv, Begin
<1>2. \A c \in Commands : ~Busy(c)
  BY <1>1 DEF Running
<1>3. PICK c \in Commands :
          /\ OthersWait(c)
          /\ step'[c] \in {"exists", "select"}
  <2>1. ASSUME NEW i \in Installers, BeginInstall(i)
        PROVE  OthersWait(i) /\ step'[i] = "exists"
    BY <2>1 DEF BeginInstall, Goto, OthersWait, Commands, RegistryInv,
        DeploymentTypeOK
  <2>2. ASSUME NEW u \in Uninstallers, BeginUninstall(u)
        PROVE  OthersWait(u) /\ step'[u] = "select"
    BY <2>2 DEF BeginUninstall, Goto, OthersWait, Commands, RegistryInv,
        DeploymentTypeOK
  <2> QED
    BY <2>1, <2>2 DEF Begin, Commands
<1>4. \A d \in Commands \ {c} : ~Busy(d)'
  BY <1>2, <1>3 DEF Busy, OthersWait
<1>5. OneRuns'
  BY <1>4 DEF OneRuns, Running
<1>6. ArtifactsHaveOwner'
  BY DEF RegistryInv, ArtifactsHaveOwner, Begin, BeginInstall,
      BeginUninstall, artifact_vars, unit_vars
<1>7. \A d \in Commands : InstallSoFar(d)' /\ UninstallSoFar(d)'
  <2>1. InstallSoFar(c)' /\ UninstallSoFar(c)'
    BY <1>3 DEF InstallSoFar, UninstallSoFar, HalfPublished
  <2>2. ASSUME NEW d, ~Busy(d)'
        PROVE  InstallSoFar(d)' /\ UninstallSoFar(d)'
    BY <2>2 DEF Busy, InstallSoFar, UninstallSoFar, HalfPublished,
        InstallOutcomes, UninstallOutcomes
  <2> QED
    BY <2>1, <2>2, <1>4
<1>8. DeploymentTypeOK'
  BY TypesInductive DEF RegistryInv, Next
<1> QED
  BY <1>5, <1>6, <1>7, <1>8 DEF RegistryInv, Commands

(* Every step keeps the invariant of the second part, and an uninstall     *)
(* succeeds only when everything is removed.                               *)
LEMMA RegistryInductive ==
    ASSUME RegistryInv, MaxCommands = 1, [Next]_vars
    PROVE  /\ RegistryInv'
           /\ [\A u \in Uninstallers :
                  step[u] # "succeeded" /\ step'[u] = "succeeded" =>
                      response' = None /\ rule' = None /\ ~enabled']_vars
<1> DEFINE Completes ==
        \A u \in Uninstallers :
            step[u] # "succeeded" /\ step'[u] = "succeeded" =>
                response' = None /\ rule' = None /\ ~enabled'
<1>1. DeploymentTypeOK'
  BY TypesInductive DEF RegistryInv
<1>2. ASSUME NEW d, ~Busy(d)'
      PROVE  InstallSoFar(d)' /\ UninstallSoFar(d)'
  BY <1>2 DEF Busy, InstallSoFar, UninstallSoFar, HalfPublished,
      InstallOutcomes, UninstallOutcomes
<1>3. CASE Begin
  <2>1. \A u \in Uninstallers : step'[u] \in {step[u], "exists", "select"}
    BY <1>3 DEF Begin, BeginInstall, BeginUninstall, Goto, RegistryInv,
        DeploymentTypeOK, Commands
  <2> QED
    BY <1>3, <2>1, BeginsAlone
<1>4. ASSUME NEW i \in Installers, Install(i) \/ InstallCrashes(i),
             UNCHANGED uninstall_vars
      PROVE  RegistryInv' /\ Completes
  <2>1. i \in Commands /\ Busy(i)
    BY <1>4 DEF Commands, Busy, Install, CheckExists, AcquireName,
        ResolvePlan, CheckRule, CreateResponse, PublishRule, Rollback,
        ReloadUdev, TriggerUdev, SettleUdev, VerifyLibinputIgnore,
        EnableService, ReleaseName, StartService, CheckServiceState,
        InstallCrashes, InstallSteps, InstallOutcomes, UninstallOutcomes
  <2>2. OthersWait(i)
    BY <1>4, InstallStep DEF RegistryInv, InstallEffect
  <2>3. OneRuns' /\ \A d \in Commands \ {i} : ~Busy(d) /\ ~Busy(d)'
    BY <2>1, <2>2, MovesAlone DEF RegistryInv
  <2>4. ArtifactsHaveOwner' /\ InstallSoFar(i)'
    BY <1>4, InstallAlone DEF RegistryInv
  <2>5. \A u \in Uninstallers : u \in Commands \ {i}
    BY HostAssumption DEF Commands
  <2> QED
    BY <1>1, <1>2, <2>2, <2>3, <2>4, <2>5
    DEF RegistryInv, OthersWait, Commands
<1>5. ASSUME NEW u \in Uninstallers, Uninstall(u) \/ UninstallCrashes(u),
             UNCHANGED install_vars
      PROVE  RegistryInv' /\ Completes
  <2>1. u \in Commands /\ Busy(u)
    BY <1>5 DEF Commands, Busy, Uninstall, SelectInstance, CheckActive,
        StopService, CheckEnabled, DisableService, ReadResponse, RemoveRule,
        ReloadRemoved, SourcePresent, TriggerRemoved, SettleRemoved,
        RemoveResponse, UninstallCrashes, UninstallSteps, InstallOutcomes,
        UninstallOutcomes
  <2>2. OthersWait(u)
    BY <1>5, UninstallStep DEF RegistryInv, UninstallEffect
  <2>3. OneRuns' /\ \A d \in Commands \ {u} : ~Busy(d) /\ ~Busy(d)'
    BY <2>1, <2>2, MovesAlone DEF RegistryInv
  <2>4. /\ ArtifactsHaveOwner'
        /\ UninstallSoFar(u)'
        /\ step'[u] = "succeeded" =>
               response' = None /\ rule' = None /\ ~enabled'
    BY <1>5, UninstallAlone DEF RegistryInv
  <2>5. \A i \in Installers : i \in Commands \ {u}
    BY HostAssumption DEF Commands
  <2> QED
    BY <1>1, <1>2, <2>2, <2>3, <2>4, <2>5
    DEF RegistryInv, OthersWait, Commands
<1>6. CASE Reboot
  <2>1. \A d \in Commands :
            ~Busy(d)' /\ step'[d] \in {step[d], "crashed"}
    BY <1>6 DEF Reboot, Busy, InstallOutcomes, UninstallOutcomes
  <2>2. OneRuns'
    BY <2>1 DEF OneRuns, Running
  <2>3. ArtifactsHaveOwner'
    BY <1>6 DEF Reboot, artifact_vars, RegistryInv, ArtifactsHaveOwner
  <2> QED
    BY <1>1, <1>2, <2>1, <2>2, <2>3 DEF RegistryInv, Commands
<1>7. CASE Environment \/ UNCHANGED vars
  <2>1. UNCHANGED <<step, artifact_vars, enabled, failed>>
    BY <1>7, EnvironmentStep DEF EnvironmentEffect, uninstall_vars, vars,
        host_vars, unit_vars, RegistryInv
  <2> QED
    BY <1>1, <2>1 DEF RegistryInv, OneRuns, Running, Busy, InstallSoFar,
        UninstallSoFar, ArtifactsHaveOwner, artifact_vars
<1> QED
  BY <1>3, <1>4, <1>5, <1>6, <1>7 DEF Next, Proceed, Crash

(* The response artifacts are the registry: a rule or an enablement exists *)
(* only with the response artifact of its installation, whatever fails, is *)
(* killed or restarted, as long as commands run one at a time.             *)
THEOREM RegistryComplete ==
    ASSUME MaxCommands = 1
    PROVE  Spec => []ArtifactsHaveOwner
<1>1. RegistryInv /\ [Next]_vars => RegistryInv'
  BY RegistryInductive
<1>2. RegistryInv => ArtifactsHaveOwner
  BY DEF RegistryInv
<1> QED
  BY <1>1, <1>2, RegistryInitial, PTL DEF Spec

(* An uninstall that reports success has removed both artifacts and the    *)
(* enablement, as long as commands run one at a time.                      *)
THEOREM Uninstalls ==
    ASSUME MaxCommands = 1
    PROVE  Spec => UninstallComplete
<1>1. RegistryInv /\ [Next]_vars => RegistryInv'
  BY RegistryInductive
<1>2. RegistryInv /\ [Next]_vars =>
          [\A u \in Uninstallers :
              step[u] # "succeeded" /\ step'[u] = "succeeded" =>
                  response' = None /\ rule' = None /\ ~enabled']_vars
  BY RegistryInductive
<1> QED
  BY <1>1, <1>2, RegistryInitial, PTL DEF Spec, UninstallComplete

-----------------------------------------------------------------------------
(* The device after the removal of the rule.                               *)

(* What an uninstall that removed the rule has done to udev so far.        *)
RemovedSoFar(u) ==
    /\ step[u] \in {"reload", "present", "trigger", "settle"} => rule = None
    /\ step[u] \in {"present", "trigger", "settle"} => ~rules_loaded
    /\ step[u] = "settle" => udev_queue \/ ~device_ignored

(* A device that is away is not ignored and has no event.                  *)
AbsentForgotten == ~device_present => ~device_ignored /\ ~udev_queue

RemovalInv ==
    /\ RegistryInv
    /\ AbsentForgotten
    /\ \A u \in Uninstallers : RemovedSoFar(u)

(* What RemovalRestoresDevice says of one uninstall.                       *)
Restores(u) ==
    /\ step[u] \in {"reload", "present", "settle"}
    /\ step'[u] = "remove_response"
    /\ ~failed'[u]
    => /\ ~rules_loaded'
       /\ source_read[u] => ~device_ignored'

(* Only a device that is there is triggered, and only an event marks it.   *)
LEMMA AbsentInductive ==
    ASSUME AbsentForgotten, [Next]_vars
    PROVE  AbsentForgotten'
<1>1. ASSUME \/ UNCHANGED udev_vars
             \/ ReloadRules
             \/ TriggerSource
      PROVE  AbsentForgotten'
  BY <1>1 DEF udev_vars, ReloadRules, TriggerSource, AbsentForgotten
<1>2. ASSUME NEW i \in Installers,
             BeginInstall(i) \/ Install(i) \/ InstallCrashes(i)
      PROVE  AbsentForgotten'
  BY <1>1, <1>2
  DEF BeginInstall, Install, CheckExists, AcquireName, ResolvePlan, CheckRule,
      CreateResponse, PublishRule, Rollback, ReloadUdev, TriggerUdev,
      SettleUdev, VerifyLibinputIgnore, EnableService, ReleaseName,
      StartService, CheckServiceState, InstallCrashes
<1>3. ASSUME NEW u \in Uninstallers,
             BeginUninstall(u) \/ Uninstall(u) \/ UninstallCrashes(u)
      PROVE  AbsentForgotten'
  BY <1>1, <1>3
  DEF BeginUninstall, Uninstall, SelectInstance, CheckActive, StopService,
      CheckEnabled, DisableService, ReadResponse, RemoveRule, ReloadRemoved,
      SourcePresent, TriggerRemoved, SettleRemoved, RemoveResponse,
      UninstallCrashes
<1>4. CASE Reboot
  BY <1>4 DEF Reboot, AbsentForgotten
<1>5. CASE Environment
  BY <1>1, <1>5
  DEF Environment, ServiceNext, ServiceFails, ServiceReads, ServiceAcquires,
      AutoRestart, ManualRunAcquires, ManualRunExits, DeviceNext, Unplug, Plug,
      ProcessUevent, AbsentForgotten
<1>6. CASE UNCHANGED vars
  BY <1>1, <1>6 DEF vars, host_vars
<1> QED
  BY <1>2, <1>3, <1>4, <1>5, <1>6 DEF Next, Begin, Proceed, Crash

(* Udev and the device, on their own, make the device ignored only by a    *)
(* rule.                                                                   *)
LEMMA DeviceFollowsRule ==
    ASSUME DeploymentTypeOK, Environment, NEW u, RemovedSoFar(u)
    PROVE  RemovedSoFar(u)'
<1>1. UNCHANGED <<step, artifact_vars>>
  BY EnvironmentStep DEF EnvironmentEffect
<1>2. \/ UNCHANGED udev_vars
      \/ ProcessUevent
      \/ /\ UNCHANGED rules_loaded
         /\ ~device_ignored' \/ udev_queue'
  BY DEF Environment, ServiceNext, ServiceFails, ServiceReads,
      ServiceAcquires, AutoRestart, ManualRunAcquires, ManualRunExits,
      DeviceNext, Unplug, Plug
<1>3. CASE ProcessUevent
  <2>1. rule = None /\ ~rules_loaded => ~rules_loaded'
    BY <1>3 DEF ProcessUevent
  <2>2. ~rules_loaded' => ~device_ignored'
    BY <1>3 DEF ProcessUevent
  <2> QED
    BY <1>1, <2>1, <2>2 DEF RemovedSoFar, artifact_vars
<1>4. CASE UNCHANGED udev_vars
  BY <1>1, <1>4 DEF RemovedSoFar, udev_vars, artifact_vars
<1>5. CASE UNCHANGED rules_loaded /\ (~device_ignored' \/ udev_queue')
  BY <1>1, <1>5 DEF RemovedSoFar, artifact_vars
<1> QED
  BY <1>2, <1>3, <1>4, <1>5

(* The step of an uninstall that runs alone.                               *)
LEMMA RemovalAlone ==
    ASSUME DeploymentTypeOK, NEW u \in Uninstallers, RemovedSoFar(u),
           AbsentForgotten, Uninstall(u) \/ UninstallCrashes(u)
    PROVE  RemovedSoFar(u)' /\ Restores(u)
<1>1. /\ u \in Commands /\ step \in [Commands -> AllSteps]
      /\ failed \in [Uninstallers -> BOOLEAN]
      /\ rules_loaded \in BOOLEAN
  BY DEF Commands, DeploymentTypeOK, UninstallTypeOK, HostTypeOK, AllSteps
<1> USE <1>1 DEF RemovedSoFar, Restores, Goto, StageFailed, artifact_vars,
        udev_vars
<1>2. CASE \/ SelectInstance(u) \/ CheckActive(u) \/ StopService(u)
           \/ CheckEnabled(u) \/ DisableService(u) \/ ReadResponse(u)
           \/ RemoveResponse(u) \/ UninstallCrashes(u)
  BY <1>2 DEF SelectInstance, CheckActive, StopService, CheckEnabled,
      DisableService, ReadResponse, RemoveResponse, UninstallCrashes
<1>3. CASE RemoveRule(u)
  BY <1>3 DEF RemoveRule
<1>4. CASE ReloadRemoved(u)
  BY <1>4 DEF ReloadRemoved, ReloadRules
<1>5. CASE SourcePresent(u)
  BY <1>5 DEF SourcePresent, AbsentForgotten
<1>6. CASE TriggerRemoved(u)
  BY <1>6 DEF TriggerRemoved, TriggerSource
<1>7. CASE SettleRemoved(u)
  BY <1>7 DEF SettleRemoved, Settled
<1> QED
  BY <1>2, <1>3, <1>4, <1>5, <1>6, <1>7 DEF Uninstall

LEMMA RemovalInductive ==
    ASSUME RemovalInv, MaxCommands = 1, [Next]_vars
    PROVE  RemovalInv' /\ \A u \in Uninstallers : Restores(u)
<1> DEFINE Removing == {"reload", "present", "trigger", "settle"}
<1>1. /\ RegistryInv' /\ RegistryInv
      /\ AbsentForgotten' /\ AbsentForgotten
  BY RegistryInductive, AbsentInductive DEF RemovalInv
<1>2. SUFFICES ASSUME NEW u \in Uninstallers
               PROVE  RemovedSoFar(u)' /\ Restores(u)
  BY <1>1 DEF RemovalInv
<1>3. RemovedSoFar(u) /\ DeploymentTypeOK /\ u \in Commands
  BY DEF RemovalInv, RegistryInv, Commands
<1>4. ASSUME step'[u] \notin Removing \cup {"remove_response"}
      PROVE  RemovedSoFar(u)' /\ Restores(u)
  BY <1>4 DEF RemovedSoFar, Restores
<1>5. ASSUME ~Busy(u), step'[u] = step[u]
      PROVE  RemovedSoFar(u)' /\ Restores(u)
  BY <1>5 DEF RemovedSoFar, Restores, Busy, InstallOutcomes, UninstallOutcomes
<1>6. CASE Begin
  <2>1. ~Busy(u)
    BY <1>1, <1>3, <1>6, NobodyRuns DEF Begin, Running
  <2>2. step'[u] \in {step[u], "exists", "select"}
    BY <1>3, <1>6 DEF Begin, BeginInstall, BeginUninstall, Goto,
        DeploymentTypeOK, Commands
  <2> QED
    BY <1>4, <1>5, <2>1, <2>2
<1>7. ASSUME NEW i \in Installers, Install(i) \/ InstallCrashes(i)
      PROVE  RemovedSoFar(u)' /\ Restores(u)
  <2>1. i \in Commands /\ Busy(i) /\ u \in Commands \ {i}
    BY <1>7, HostAssumption
    DEF Commands, Busy, Install, CheckExists, AcquireName, ResolvePlan,
        CheckRule, CreateResponse, PublishRule, Rollback, ReloadUdev,
        TriggerUdev, SettleUdev, VerifyLibinputIgnore, EnableService,
        ReleaseName, StartService, CheckServiceState, InstallCrashes,
        InstallSteps, InstallOutcomes, UninstallOutcomes
  <2>2. OthersWait(i)
    BY <1>3, <1>7, InstallStep DEF InstallEffect
  <2> QED
    BY <1>1, <1>5, <2>1, <2>2, MovesAlone DEF RegistryInv, OthersWait
<1>8. ASSUME NEW v \in Uninstallers, Uninstall(v) \/ UninstallCrashes(v)
      PROVE  RemovedSoFar(u)' /\ Restores(u)
  <2>1. CASE v = u
    BY <1>1, <1>3, <1>8, <2>1, RemovalAlone
  <2>2. CASE v # u
    <3>1. v \in Commands /\ Busy(v) /\ u \in Commands \ {v}
      BY <1>8, <2>2
      DEF Commands, Busy, Uninstall, SelectInstance, CheckActive,
          StopService, CheckEnabled, DisableService, ReadResponse,
          RemoveRule, ReloadRemoved, SourcePresent, TriggerRemoved,
          SettleRemoved, RemoveResponse, UninstallCrashes, UninstallSteps,
          InstallOutcomes, UninstallOutcomes
    <3>2. OthersWait(v)
      BY <1>3, <1>8, UninstallStep DEF UninstallEffect
    <3> QED
      BY <1>1, <1>5, <3>1, <3>2, MovesAlone DEF RegistryInv, OthersWait
  <2> QED
    BY <2>1, <2>2
<1>9. CASE Reboot
  <2>1. step'[u] = IF Busy(u) THEN "crashed" ELSE step[u]
    BY <1>3, <1>9 DEF Reboot
  <2> QED
    BY <1>4, <1>5, <2>1
<1>10. CASE Environment
  <2>1. UNCHANGED step
    BY <1>3, <1>10, EnvironmentStep DEF EnvironmentEffect
  <2> QED
    BY <1>3, <1>10, <2>1, DeviceFollowsRule DEF Restores
<1>11. CASE UNCHANGED vars
  BY <1>3, <1>11 DEF RemovedSoFar, Restores, vars, host_vars, artifact_vars, udev_vars
<1> QED
  BY <1>6, <1>7, <1>8, <1>9, <1>10, <1>11 DEF Next, Proceed, Crash

(* RemovalRestoresDevice: an uninstall that removed the rule, and of which *)
(* no stage failed, leaves a udev without the rule and, when it could read *)
(* the source from the response artifact, a device that is not ignored, as *)
(* long as commands run one at a time.                                     *)
THEOREM RemovalRestores ==
    ASSUME MaxCommands = 1
    PROVE  Spec => RemovalRestoresDevice
<1> DEFINE AllRestore == \A u \in Uninstallers : Restores(u)
<1>1. Init => RemovalInv
  <2>1. Init => /\ AbsentForgotten
                /\ \A u \in Uninstallers : RemovedSoFar(u)
    BY DEF Init, HostInit, AbsentForgotten, RemovedSoFar, Commands
  <2> QED
    BY <2>1, RegistryInitial DEF RemovalInv
<1>2. RemovalInv /\ [Next]_vars => RemovalInv' /\ [AllRestore]_vars
  BY RemovalInductive
<1>3. [AllRestore]_vars => [\A u \in Uninstallers :
           /\ step[u] \in {"reload", "present", "settle"}
           /\ step'[u] = "remove_response"
           /\ ~failed'[u]
           => /\ ~rules_loaded'
              /\ source_read[u] => ~device_ignored']_vars
  BY DEF Restores
<1> QED
  BY <1>1, <1>2, <1>3, PTL DEF Spec, RemovalRestoresDevice

=============================================================================
