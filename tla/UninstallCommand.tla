--------------------------- MODULE UninstallCommand ---------------------------
(***************************************************************************)
(* input-proxy uninstall of one Instance Name                              *)
(* (src/src/uninstall_command.c).  It takes no lock: the response artifact *)
(* it looks for at first is all that admits it.  A stage that fails is     *)
(* reported and remembered; the later ones are still attempted, and the    *)
(* response artifact goes only when none has failed.                       *)
(***************************************************************************)
EXTENDS Host

VARIABLES
    failed,      \* some stage of the uninstaller failed
    source_read  \* the uninstaller read the source from the response

UninstallSteps ==
    {"idle", "select", "check_active", "stop", "check_enabled", "disable",
     "read", "remove_rule", "reload", "present", "trigger", "settle",
     "remove_response"}

(* "refused": there was nothing to uninstall.                              *)
UninstallOutcomes == {"succeeded", "refused", "incomplete", "crashed"}

UninstallTypeOK ==
    /\ failed \in [Uninstallers -> BOOLEAN]
    /\ source_read \in [Uninstallers -> BOOLEAN]

UninstallInit ==
    /\ failed = [u \in Uninstallers |-> FALSE]
    /\ source_read = [u \in Uninstallers |-> FALSE]

(* Faulty: the failure of a stage is reported and forgotten.               *)
StageFailedForgotten(u, next) ==
    /\ Goto(u, next)
    /\ UNCHANGED failed

StageFailed(u, next) ==
    /\ failed' = [failed EXCEPT ![u] = TRUE]
    /\ Goto(u, next)

BeginUninstall(u) ==
    /\ step[u] = "idle"
    /\ Goto(u, "select")
    /\ UNCHANGED <<artifact_vars, udev_vars, unit_vars, name_owner, failed,
                   source_read>>

(* By name, or chosen from the list of response artifacts.                 *)
SelectInstance(u) ==
    /\ step[u] = "select"
    /\ \/ response # None /\ Goto(u, "check_active")
       \/ Goto(u, "refused")
    /\ UNCHANGED <<artifact_vars, udev_vars, unit_vars, name_owner, failed,
                   source_read>>

-----------------------------------------------------------------------------
(* default_stop and default_disable: look, then act.  A tool that fails    *)
(* may have done its work before.                                          *)

CheckActive(u) ==
    /\ step[u] = "check_active"
    /\ \/ /\ Goto(u, IF IsActive THEN "stop" ELSE "check_enabled")
          /\ UNCHANGED failed
       \/ StageFailed(u, "check_enabled")
    /\ UNCHANGED <<artifact_vars, udev_vars, unit_vars, name_owner,
                   source_read>>

StopService(u) ==
    /\ step[u] = "stop"
    /\ \/ StopUnit /\ Goto(u, "check_enabled") /\ UNCHANGED failed
       \/ /\ StopUnit \/ UNCHANGED <<unit_vars, name_owner>>
          /\ StageFailed(u, "check_enabled")
    /\ UNCHANGED <<artifact_vars, udev_vars, source_read>>

CheckEnabled(u) ==
    /\ step[u] = "check_enabled"
    /\ \/ /\ Goto(u, IF enabled THEN "disable" ELSE "read")
          /\ UNCHANGED failed
       \/ StageFailed(u, "read")
    /\ UNCHANGED <<artifact_vars, udev_vars, unit_vars, name_owner,
                   source_read>>

DisableService(u) ==
    /\ step[u] = "disable"
    /\ \/ enabled' = FALSE /\ Goto(u, "read") /\ UNCHANGED failed
       \/ enabled' \in {enabled, FALSE} /\ StageFailed(u, "read")
    /\ UNCHANGED <<unit, service_step, artifact_vars, udev_vars, name_owner,
                   source_read>>

-----------------------------------------------------------------------------
(* The rule and udev.                                                      *)

(* input_proxy_response_file_read; its failure is not looked at.           *)
ReadResponse(u) ==
    /\ step[u] = "read"
    /\ \E read \in IF response # None THEN BOOLEAN ELSE {FALSE} :
           source_read' = [source_read EXCEPT ![u] = read]
    /\ Goto(u, "remove_rule")
    /\ UNCHANGED <<artifact_vars, udev_vars, unit_vars, name_owner, failed>>

(* udev is told of a removed rule only: no rule, no activation.            *)
RemoveRule(u) ==
    /\ step[u] = "remove_rule"
    /\ \/ rule # None /\ rule' = None /\ Goto(u, "reload") /\ UNCHANGED failed
       \/ /\ rule = None
          /\ Goto(u, "remove_response")
          /\ UNCHANGED <<rule, failed>>
       \/ StageFailed(u, "remove_response") /\ UNCHANGED rule
    /\ UNCHANGED <<response, udev_vars, unit_vars, name_owner, source_read>>

ReloadRemoved(u) ==
    /\ step[u] = "reload"
    /\ \/ /\ ReloadRules
          /\ Goto(u, IF source_read[u] THEN "present" ELSE "remove_response")
          /\ UNCHANGED failed
       \/ /\ ReloadRules \/ UNCHANGED udev_vars
          /\ StageFailed(u, "remove_response")
    /\ UNCHANGED <<artifact_vars, unit_vars, name_owner, source_read>>

SourcePresent(u) ==
    /\ step[u] = "present"
    /\ Goto(u, IF device_present THEN "trigger" ELSE "remove_response")
    /\ UNCHANGED <<artifact_vars, udev_vars, unit_vars, name_owner, failed,
                   source_read>>

TriggerRemoved(u) ==
    /\ step[u] = "trigger"
    /\ \/ TriggerSource /\ Goto(u, "settle") /\ UNCHANGED failed
       \/ /\ TriggerSource \/ UNCHANGED udev_vars
          /\ StageFailed(u, "remove_response")
    /\ UNCHANGED <<artifact_vars, unit_vars, name_owner, source_read>>

(* Faulty: the end of the events is not waited for.                        *)
SettleRemovedAtOnce(u) ==
    /\ step[u] = "settle"
    /\ Goto(u, "remove_response")
    /\ UNCHANGED <<failed, artifact_vars, udev_vars, unit_vars, name_owner,
                   source_read>>

SettleRemoved(u) ==
    /\ step[u] = "settle"
    /\ \/ Settled /\ Goto(u, "remove_response") /\ UNCHANGED failed
       \/ StageFailed(u, "remove_response")
    /\ UNCHANGED <<artifact_vars, udev_vars, unit_vars, name_owner,
                   source_read>>

-----------------------------------------------------------------------------

(* Faulty: the response artifact goes whatever failed before.              *)
RemoveResponseAnyway(u) ==
    /\ step[u] = "remove_response"
    /\ response' = None
    /\ Goto(u, IF failed[u] THEN "incomplete" ELSE "succeeded")
    /\ UNCHANGED <<rule, udev_vars, unit_vars, name_owner, failed,
                   source_read>>

(* Retained for a retry when a stage failed, and removed otherwise.        *)
RemoveResponse(u) ==
    /\ step[u] = "remove_response"
    /\ \/ /\ ~failed[u]
          /\ response # None
          /\ response' = None
          /\ Goto(u, "succeeded")
       \/ Goto(u, "incomplete") /\ UNCHANGED response
    /\ UNCHANGED <<rule, udev_vars, unit_vars, name_owner, failed,
                   source_read>>

UninstallCrashes(u) ==
    /\ step[u] \in UninstallSteps \ {"idle"}
    /\ Goto(u, "crashed")
    /\ UNCHANGED <<artifact_vars, udev_vars, unit_vars, name_owner, failed,
                   source_read>>

Uninstall(u) ==
    \/ SelectInstance(u) \/ CheckActive(u) \/ StopService(u)
    \/ CheckEnabled(u) \/ DisableService(u) \/ ReadResponse(u)
    \/ RemoveRule(u) \/ ReloadRemoved(u) \/ SourcePresent(u)
    \/ TriggerRemoved(u) \/ SettleRemoved(u) \/ RemoveResponse(u)

=============================================================================
