---------------------------- MODULE InstallCommand ----------------------------
(***************************************************************************)
(* input-proxy install for one Instance Name, by a complete request:       *)
(* planning (src/src/installation_planner.c), persistent application       *)
(* (src/src/installation_application.c) and runtime activation             *)
(* (src/src/installation_activation.c), in the order of                    *)
(* src/src/install_command.c.                                              *)
(*                                                                         *)
(* Each action is a call that reads or changes what others see.  A call    *)
(* that fails ends the command, which releases the name in its cleanup.    *)
(***************************************************************************)
EXTENDS Host

VARIABLE
    libinput_ignore_action  \* the plan of each installer: publish a rule

InstallSteps ==
    {"idle", "exists", "acquire", "plan", "check_rule", "create", "publish",
     "rollback", "reload", "trigger", "settle", "verify", "enable", "release",
     "start", "state"}

(* "failed" is before the commit, "activation_failed" after it.            *)
InstallOutcomes ==
    {"succeeded", "failed", "rollback_failed", "activation_failed", "crashed"}

InstallTypeOK == libinput_ignore_action \in [Installers -> BOOLEAN]

InstallInit == libinput_ignore_action = [i \in Installers |-> FALSE]

InstallEnds(i, outcome) ==
    /\ Goto(i, outcome)
    /\ name_owner' = ReleasedBy(i)

BeginInstall(i) ==
    /\ step[i] = "idle"
    /\ Goto(i, "exists")
    /\ UNCHANGED <<artifact_vars, udev_vars, unit_vars, name_owner,
                   libinput_ignore_action>>

-----------------------------------------------------------------------------
(* Planning.                                                               *)

(* input_proxy_installed_instance_exists                                   *)
CheckExists(i) ==
    /\ step[i] = "exists"
    /\ \/ response = None /\ Goto(i, "acquire")
       \/ Goto(i, "failed")
    /\ UNCHANGED <<artifact_vars, udev_vars, unit_vars, name_owner,
                   libinput_ignore_action>>

(* Faulty: the name is probed and given back.                              *)
ProbeName(i) ==
    /\ step[i] = "acquire"
    /\ IF name_owner = None THEN Goto(i, "plan") ELSE Goto(i, "failed")
    /\ UNCHANGED <<name_owner, artifact_vars, udev_vars, unit_vars,
                   libinput_ignore_action>>

(* input_proxy_instance_name_acquire: the bind of the socket.              *)
AcquireName(i) ==
    /\ step[i] = "acquire"
    /\ \/ name_owner = None /\ name_owner' = i /\ Goto(i, "plan")
       \/ Goto(i, "failed") /\ UNCHANGED name_owner
    /\ UNCHANGED <<artifact_vars, udev_vars, unit_vars,
                   libinput_ignore_action>>

(* assess and resolve: the source has to be there; a rule is offered for a *)
(* device udev does not have libinput ignore, and published by choice.     *)
(* Other blockers, and answers that are missing or wrong, end the command. *)
ResolvePlan(i) ==
    /\ step[i] = "plan"
    /\ \/ /\ device_present
          /\ \E action \in IF device_ignored THEN {FALSE} ELSE BOOLEAN :
                 /\ libinput_ignore_action' =
                        [libinput_ignore_action EXCEPT ![i] = action]
                 /\ Goto(i, IF action THEN "check_rule" ELSE "create")
          /\ UNCHANGED name_owner
       \/ InstallEnds(i, "failed") /\ UNCHANGED libinput_ignore_action
    /\ UNCHANGED <<artifact_vars, udev_vars, unit_vars>>

-----------------------------------------------------------------------------
(* Application: input_proxy_installation_plan_apply.                       *)

(* The lstat of the rule file.                                             *)
CheckRule(i) ==
    /\ step[i] = "check_rule"
    /\ \/ rule = None /\ Goto(i, "create") /\ UNCHANGED name_owner
       \/ InstallEnds(i, "failed")
    /\ UNCHANGED <<artifact_vars, udev_vars, unit_vars,
                   libinput_ignore_action>>

Created(i) ==
    /\ response' = i
    /\ Goto(i, IF libinput_ignore_action[i] THEN "publish" ELSE "enable")
    /\ UNCHANGED name_owner

(* Faulty: rename(2) in the place of link(2).                              *)
CreateResponseReplaces(i) ==
    /\ step[i] = "create"
    /\ Created(i)
    /\ UNCHANGED <<rule, udev_vars, unit_vars, libinput_ignore_action>>

(* input_proxy_installed_instance_create: link fails when the name is      *)
(* taken.                                                                  *)
CreateResponse(i) ==
    /\ step[i] = "create"
    /\ \/ response = None /\ Created(i)
       \/ InstallEnds(i, "failed") /\ UNCHANGED response
    /\ UNCHANGED <<rule, udev_vars, unit_vars, libinput_ignore_action>>

(* publish_rule                                                            *)
PublishRule(i) ==
    /\ step[i] = "publish"
    /\ \/ rule = None /\ rule' = i /\ Goto(i, "reload")
       \/ Goto(i, "rollback") /\ UNCHANGED rule
    /\ UNCHANGED <<response, udev_vars, unit_vars, name_owner,
                   libinput_ignore_action>>

(* Faulty: the response artifact stays when the rule cannot be published.  *)
RollbackForgotten(i) ==
    /\ step[i] = "rollback"
    /\ InstallEnds(i, "failed")
    /\ UNCHANGED <<artifact_vars, udev_vars, unit_vars,
                   libinput_ignore_action>>

(* The rollback removes the response artifact by its name.                 *)
Rollback(i) ==
    /\ step[i] = "rollback"
    /\ \/ response # None /\ response' = None /\ InstallEnds(i, "failed")
       \/ InstallEnds(i, "rollback_failed") /\ UNCHANGED response
    /\ UNCHANGED <<rule, udev_vars, unit_vars, libinput_ignore_action>>

-----------------------------------------------------------------------------
(* Activation: input_proxy_installation_plan_activate.  The committed      *)
(* artifacts stay whatever fails; a tool that fails may have done its      *)
(* work before.                                                            *)

ReloadUdev(i) ==
    /\ step[i] = "reload"
    /\ \/ ReloadRules /\ Goto(i, "trigger") /\ UNCHANGED name_owner
       \/ /\ ReloadRules \/ UNCHANGED udev_vars
          /\ InstallEnds(i, "activation_failed")
    /\ UNCHANGED <<artifact_vars, unit_vars, libinput_ignore_action>>

TriggerUdev(i) ==
    /\ step[i] = "trigger"
    /\ \/ TriggerSource /\ Goto(i, "settle") /\ UNCHANGED name_owner
       \/ /\ TriggerSource \/ UNCHANGED udev_vars
          /\ InstallEnds(i, "activation_failed")
    /\ UNCHANGED <<artifact_vars, unit_vars, libinput_ignore_action>>

SettleUdev(i) ==
    /\ step[i] = "settle"
    /\ \/ Settled /\ Goto(i, "verify") /\ UNCHANGED name_owner
       \/ InstallEnds(i, "activation_failed")
    /\ UNCHANGED <<artifact_vars, udev_vars, unit_vars,
                   libinput_ignore_action>>

VerifyLibinputIgnore(i) ==
    /\ step[i] = "verify"
    /\ \/ /\ device_present /\ device_ignored
          /\ Goto(i, "enable")
          /\ UNCHANGED name_owner
       \/ InstallEnds(i, "activation_failed")
    /\ UNCHANGED <<artifact_vars, udev_vars, unit_vars,
                   libinput_ignore_action>>

EnableService(i) ==
    /\ step[i] = "enable"
    /\ \/ enabled' = TRUE /\ Goto(i, "release") /\ UNCHANGED name_owner
       \/ /\ enabled' \in {enabled, TRUE}
          /\ InstallEnds(i, "activation_failed")
    /\ UNCHANGED <<unit, service_step, artifact_vars, udev_vars,
                   libinput_ignore_action>>

(* input_proxy_installation_plan_release_runtime_name                      *)
ReleaseName(i) ==
    /\ step[i] = "release"
    /\ name_owner' = ReleasedBy(i)
    /\ Goto(i, "start")
    /\ UNCHANGED <<artifact_vars, udev_vars, unit_vars,
                   libinput_ignore_action>>

StartService(i) ==
    /\ step[i] = "start"
    /\ \/ StartUnit /\ Goto(i, "state") /\ UNCHANGED name_owner
       \/ /\ StartUnit \/ UNCHANGED unit_vars
          /\ InstallEnds(i, "activation_failed")
    /\ UNCHANGED <<artifact_vars, udev_vars, libinput_ignore_action>>

(* "active" and "running", which a simple service is from its fork on; the *)
(* question itself may fail as well.                                       *)
CheckServiceState(i) ==
    /\ step[i] = "state"
    /\ \/ unit = "active" /\ InstallEnds(i, "succeeded")
       \/ InstallEnds(i, "activation_failed")
    /\ UNCHANGED <<artifact_vars, udev_vars, unit_vars,
                   libinput_ignore_action>>

InstallCrashes(i) ==
    /\ step[i] \in InstallSteps \ {"idle"}
    /\ InstallEnds(i, "crashed")
    /\ UNCHANGED <<artifact_vars, udev_vars, unit_vars,
                   libinput_ignore_action>>

Install(i) ==
    \/ CheckExists(i) \/ AcquireName(i) \/ ResolvePlan(i)
    \/ CheckRule(i) \/ CreateResponse(i) \/ PublishRule(i) \/ Rollback(i)
    \/ ReloadUdev(i) \/ TriggerUdev(i) \/ SettleUdev(i)
    \/ VerifyLibinputIgnore(i) \/ EnableService(i) \/ ReleaseName(i)
    \/ StartService(i) \/ CheckServiceState(i)

=============================================================================
