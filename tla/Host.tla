--------------------------------- MODULE Host ---------------------------------
(***************************************************************************)
(* What the commands install and uninstall share about one Instance Name   *)
(* and its Physical Source: the response artifact, the udev rule, udev's   *)
(* rules and record of the device, the systemd unit, and the abstract      *)
(* socket that owns the name (src/src/installed_instance.c,                *)
(* src/src/instance_name.c, the units and tools the commands call).        *)
(*                                                                         *)
(* Every call of a tool may fail.  Files are written under a temporary     *)
(* name and appear with link(2), whole or not at all.                      *)
(***************************************************************************)
CONSTANTS
    Installers,    \* one member for each execution of install
    Uninstallers,  \* one member for each execution of uninstall
    ManualRuns,    \* input-proxy run, started by hand with the same name
    Service,       \* input-proxy run, started by systemd
    None

ASSUME HostAssumption ==
    /\ Installers \cap Uninstallers = {}
    /\ Installers \cap ManualRuns = {}
    /\ Service \notin Installers \cup ManualRuns
    /\ None \notin Installers \cup ManualRuns \cup {Service}

VARIABLES
    response,       \* the response artifact: who published it, or None
    rule,           \* the instance-owned rule file: who published it, or None
    rules_loaded,   \* udev's rules in memory hold the rule
    udev_queue,     \* udev has an event of the source to process
    device_present,
    device_ignored, \* LIBINPUT_IGNORE_DEVICE=1 in udev's record of the source
    enabled,        \* the unit's enablement
    unit,           \* the unit's state as systemctl names it
    service_step,   \* the call the unit's process makes next, see ServiceSteps
    name_owner,     \* the process whose socket is bound to the name, or None
    step            \* the call each command makes next, or how it ended

artifact_vars == <<response, rule>>
udev_vars     == <<rules_loaded, udev_queue, device_present, device_ignored>>
unit_vars     == <<enabled, unit, service_step>>
host_vars     == <<artifact_vars, udev_vars, unit_vars, name_owner, step>>

Commands == Installers \cup Uninstallers

UnitStates == {"inactive", "active", "auto-restart", "failed"}

ServiceSteps == {"none", "read", "acquire", "run"}

HostTypeOK ==
    /\ response \in Installers \cup {None}
    /\ rule \in Installers \cup {None}
    /\ rules_loaded \in BOOLEAN
    /\ udev_queue \in BOOLEAN
    /\ device_present \in BOOLEAN
    /\ device_ignored \in BOOLEAN
    /\ enabled \in BOOLEAN
    /\ unit \in UnitStates
    /\ service_step \in ServiceSteps
    /\ name_owner \in Installers \cup ManualRuns \cup {Service, None}

HostInit ==
    /\ response = None
    /\ rule = None
    /\ rules_loaded = FALSE
    /\ udev_queue = FALSE
    /\ device_present \in BOOLEAN
    /\ device_ignored = FALSE
    /\ enabled = FALSE
    /\ unit = "inactive"
    /\ service_step = "none"
    /\ name_owner = None

-----------------------------------------------------------------------------
(* The commands' steps.                                                    *)

Goto(c, next) == step' = [step EXCEPT ![c] = next]

(* The socket is closed by the command or, when it dies, by the kernel.    *)
ReleasedBy(c) == IF name_owner = c THEN None ELSE name_owner

-----------------------------------------------------------------------------
(* udevadm.                                                                *)

ReloadRules ==
    /\ rules_loaded' = (rule # None)
    /\ UNCHANGED <<udev_queue, device_present, device_ignored>>

(* Only a device that is there has a sysfs path to trigger.                *)
TriggerSource ==
    /\ device_present
    /\ udev_queue' = TRUE
    /\ UNCHANGED <<rules_loaded, device_present, device_ignored>>

Settled == ~udev_queue

-----------------------------------------------------------------------------
(* The unit: Type=simple, Restart=on-failure.                              *)

StartUnit ==
    /\ IF unit = "active"
       THEN UNCHANGED <<unit, service_step>>
       ELSE unit' = "active" /\ service_step' = "read"
    /\ UNCHANGED enabled

(* Waits until the process has exited; a failed unit stays failed.         *)
StopUnit ==
    /\ unit' = IF unit = "failed" THEN "failed" ELSE "inactive"
    /\ service_step' = "none"
    /\ name_owner' = ReleasedBy(Service)
    /\ UNCHANGED enabled

(* systemctl is-active succeeds for a unit that is active, and for no      *)
(* other.                                                                  *)
IsActive == unit = "active"

(* The process exits with failure; systemd starts it again or gives up.    *)
ServiceFails ==
    /\ service_step # "none"
    /\ service_step' = "none"
    /\ unit' \in {"auto-restart", "failed"}
    /\ name_owner' = ReleasedBy(Service)
    /\ UNCHANGED <<enabled, artifact_vars, udev_vars, step>>

(* run @file: the arguments are read from the response artifact.           *)
ServiceReads ==
    /\ service_step = "read"
    /\ response # None
    /\ service_step' = "acquire"
    /\ UNCHANGED <<enabled, unit, artifact_vars, udev_vars, name_owner, step>>

(* Faulty: the name is believed to be kept for the service by its install. *)
ServiceRunsUnowned ==
    /\ service_step = "acquire"
    /\ service_step' = "run"
    /\ name_owner' = IF name_owner = None THEN Service ELSE name_owner
    /\ UNCHANGED <<enabled, unit, artifact_vars, udev_vars, step>>

(* input_proxy_session_create acquires the name before anything else.      *)
ServiceAcquires ==
    /\ service_step = "acquire"
    /\ name_owner = None
    /\ name_owner' = Service
    /\ service_step' = "run"
    /\ UNCHANGED <<enabled, unit, artifact_vars, udev_vars, step>>

AutoRestart ==
    /\ unit = "auto-restart"
    /\ unit' = "active"
    /\ service_step' = "read"
    /\ UNCHANGED <<enabled, artifact_vars, udev_vars, name_owner, step>>

ServiceNext == ServiceFails \/ ServiceReads \/ ServiceAcquires \/ AutoRestart

-----------------------------------------------------------------------------
(* Sessions started by hand.                                               *)

ManualRunAcquires(m) ==
    /\ name_owner = None
    /\ name_owner' = m
    /\ UNCHANGED <<artifact_vars, udev_vars, unit_vars, step>>

ManualRunExits(m) ==
    /\ name_owner = m
    /\ name_owner' = None
    /\ UNCHANGED <<artifact_vars, udev_vars, unit_vars, step>>

-----------------------------------------------------------------------------
(* The device and udev.                                                    *)

Unplug ==
    /\ device_present
    /\ device_present' = FALSE
    /\ device_ignored' = FALSE
    /\ udev_queue' = FALSE
    /\ UNCHANGED <<rules_loaded, artifact_vars, unit_vars, name_owner, step>>

Plug ==
    /\ ~device_present
    /\ device_present' = TRUE
    /\ udev_queue' = TRUE
    /\ UNCHANGED <<rules_loaded, device_ignored, artifact_vars, unit_vars,
                   name_owner, step>>

(* udev applies the rules in memory to the device; it may have looked at   *)
(* the rule directory before, as it does from time to time.                *)
ProcessUevent ==
    /\ udev_queue
    /\ udev_queue' = FALSE
    /\ rules_loaded' \in {rules_loaded, rule # None}
    /\ device_ignored' = rules_loaded'
    /\ UNCHANGED <<device_present, artifact_vars, unit_vars, name_owner, step>>

DeviceNext == Unplug \/ Plug \/ ProcessUevent

=============================================================================
