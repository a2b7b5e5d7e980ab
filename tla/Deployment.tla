------------------------------ MODULE Deployment ------------------------------
(***************************************************************************)
(* The commands install and uninstall, the service they manage, sessions   *)
(* started by hand, udev and the device, on one host and for one Instance  *)
(* Name.                                                                   *)
(***************************************************************************)
EXTENDS InstallCommand, UninstallCommand, FiniteSets, Naturals

CONSTANTS
    MaxCommands, \* how many commands may run at once
    Crashes      \* whether commands are killed and the host goes down

ASSUME DeploymentAssumption ==
    /\ IsFiniteSet(Commands)
    /\ MaxCommands \in Nat \ {0}
    /\ Crashes \in BOOLEAN

install_vars   == <<libinput_ignore_action>>
uninstall_vars == <<failed, source_read>>

vars == <<host_vars, install_vars, uninstall_vars>>

Busy(c) == step[c] \notin {"idle"} \cup InstallOutcomes \cup UninstallOutcomes

Running == {c \in Commands : Busy(c)}

DeploymentTypeOK ==
    /\ HostTypeOK
    /\ InstallTypeOK
    /\ UninstallTypeOK
    /\ \A i \in Installers : step[i] \in InstallSteps \cup InstallOutcomes
    /\ \A u \in Uninstallers : step[u] \in UninstallSteps \cup UninstallOutcomes
    /\ step \in [Commands -> InstallSteps \cup InstallOutcomes
                                \cup UninstallSteps \cup UninstallOutcomes]

Init ==
    /\ HostInit
    /\ InstallInit
    /\ UninstallInit
    /\ step = [c \in Commands |-> "idle"]

Begin ==
    /\ Cardinality(Running) < MaxCommands
    /\ \/ \E i \in Installers : BeginInstall(i) /\ UNCHANGED uninstall_vars
       \/ \E u \in Uninstallers : BeginUninstall(u) /\ UNCHANGED install_vars

Proceed ==
    \/ \E i \in Installers : Install(i) /\ UNCHANGED uninstall_vars
    \/ \E u \in Uninstallers : Uninstall(u) /\ UNCHANGED install_vars

Crash ==
    /\ Crashes
    /\ \/ \E i \in Installers : InstallCrashes(i) /\ UNCHANGED uninstall_vars
       \/ \E u \in Uninstallers : UninstallCrashes(u) /\ UNCHANGED install_vars

(* Files and enablement survive; udev and systemd start from them.         *)
Reboot ==
    /\ Crashes
    /\ step' = [c \in Commands |-> IF Busy(c) THEN "crashed" ELSE step[c]]
    /\ name_owner' = None
    /\ unit' = IF enabled THEN "active" ELSE "inactive"
    /\ service_step' = IF enabled THEN "read" ELSE "none"
    /\ rules_loaded' = (rule # None)
    /\ udev_queue' = device_present
    /\ device_ignored' = FALSE
    /\ UNCHANGED <<artifact_vars, device_present, enabled, install_vars,
                   uninstall_vars>>

Environment ==
    \/ ServiceNext /\ UNCHANGED <<install_vars, uninstall_vars>>
    \/ DeviceNext /\ UNCHANGED <<install_vars, uninstall_vars>>
    \/ \E m \in ManualRuns :
           /\ ManualRunAcquires(m) \/ ManualRunExits(m)
           /\ UNCHANGED <<install_vars, uninstall_vars>>

Next == Begin \/ Proceed \/ Crash \/ Reboot \/ Environment

Spec == Init /\ [][Next]_vars

-----------------------------------------------------------------------------
(* Properties of commands that run one at a time.                          *)

(* One process at a time has the name: an install exactly from its         *)
(* planning to its release, the service exactly while it runs.  Whoever    *)
(* takes it between the release and the service's bind, no session runs    *)
(* beside another or beside an install that has reserved the name, and     *)
(* nobody keeps it who is dead or done.                                    *)
NameExclusive ==
    /\ \A i \in Installers :
           name_owner = i <=>
               step[i] \in InstallSteps \ {"idle", "exists", "acquire",
                                           "start", "state"}
    /\ name_owner = Service <=> service_step = "run"

(* The response artifacts are the registry: whatever commands fail or are  *)
(* killed, and wherever the host goes down, a rule or an enablement exists *)
(* only together with the response artifact of the same installation, so   *)
(* that uninstall can find it.                                             *)
ArtifactsHaveOwner ==
    /\ rule # None => rule = response
    /\ enabled => response # None

(* An uninstall that reports success leaves neither artifact nor           *)
(* enablement, whatever the stages before it did.                          *)
UninstallComplete ==
    [][\A u \in Uninstallers :
           step[u] # "succeeded" /\ step'[u] = "succeeded" =>
               response' = None /\ rule' = None /\ ~enabled']_vars

(* What holds in place of UninstallRestoresDevice.  An uninstall that      *)
(* removed the rule itself, and of which no stage has failed, leaves a     *)
(* udev without the rule; if it could read the source from the response    *)
(* artifact, it leaves a device that is not ignored either: triggered and  *)
(* settled, or absent, and whatever was replugged meanwhile.               *)
RemovalRestoresDevice ==
    [][\A u \in Uninstallers :
           /\ step[u] \in {"reload", "present", "settle"}
           /\ step'[u] = "remove_response"
           /\ ~failed'[u]
           => /\ ~rules_loaded'
              /\ source_read[u] => ~device_ignored']_vars

-----------------------------------------------------------------------------
(* Properties of commands that run at the same time.                       *)

(* An install that fails before its commit leaves no artifact of its own,  *)
(* unless it says so.                                                      *)
FailedInstallLeavesNothing ==
    \A i \in Installers :
        step[i] \in {"idle", "failed"} => response # i /\ rule # i

(* A rollback removes the response artifact of its own installation, never *)
(* that of another which came in between: the name is held until then.     *)
RollbackOwnResponse ==
    [][\A i \in Installers :
           step[i] = "rollback" /\ response' # response => response = i]_vars

(* An artifact once published is removed, but never replaced.              *)
PublishedNotReplaced ==
    [][/\ response # None => response' \in {response, None}
       /\ rule # None => rule' \in {rule, None}]_vars

-----------------------------------------------------------------------------
(* What the documents say and the code does not do.                        *)

(* ROADMAP.md: uninstall reloads affected services when required, and      *)
(* uninstall itself calls an incomplete removal one that can be retried.   *)
(* Once an uninstall has succeeded, when each could read the source from   *)
(* the response artifact and udev is idle, the device is not ignored.      *)
UninstallRestoresDevice ==
    /\ \E u \in Uninstallers : step[u] = "succeeded"
    /\ \A u \in Uninstallers :
           step[u] \in {"succeeded", "incomplete"} => source_read[u]
    /\ Running = {}
    /\ response = None
    /\ rule = None
    /\ ~udev_queue
    => ~device_ignored

(* ARCHITECTURE.md, Instance-owned artifacts and removal: uninstall stops  *)
(* the service instance.                                                   *)
UninstallStopsService ==
    [][\A u \in Uninstallers :
           step[u] # "succeeded" /\ step'[u] = "succeeded" =>
               name_owner # Service]_vars

=============================================================================
