---------------------------- MODULE ProxySession ----------------------------
(***************************************************************************)
(* One run of a proxy session (src/src/proxy_session.c, session_create to  *)
(* session_run) with the source device, the virtual device, the runtime    *)
(* control and the world around them: the device node at the configured    *)
(* path, the bus clients, signals and time.                                *)
(*                                                                         *)
(* The session is one thread.  pc names the call it makes next; an action  *)
(* is one call that can observe or change what others see, so the          *)
(* environment interleaves between any two of them.                        *)
(*                                                                         *)
(* The state of a device is the set of its controls that are active: a     *)
(* key, button or contact that is down, a switch that is on, an axis away  *)
(* from its resting value.                                                 *)
(***************************************************************************)
EXTENDS RuntimeControl

CONSTANTS
    Keys,       \* EV_KEY controls and Type-B contacts: momentary
    Switches,   \* EV_SW controls
    Axes,       \* EV_ABS controls other than Type-B slot values
    Kinds,      \* identity and capabilities, as compared on reconnection
    NoDevice,   \* no kind
    SettlingWindow,         \* RECONNECT_SETTLING_WINDOW_SECONDS, in ticks
    RunningMotionActivity,  \* --running-motion-activity
    PausedMotionActivity    \* --paused-motion-activity

ASSUME SessionAssumption ==
    /\ NoDevice \notin Kinds
    /\ Keys \cap (Switches \cup Axes) = {}
    /\ Switches \cap Axes = {}
    /\ SettlingWindow \in Nat \ {0}
    /\ RunningMotionActivity \in BOOLEAN
    /\ PausedMotionActivity \in BOOLEAN

VARIABLES
    pc,
    phase,               \* the function the loop is in, see Phases
    shutdown_requested,
    fatal_result,
    result,
    source_opened_successfully,
    permission_deadline, \* local to create_active_devices
    source_device,       \* the open descriptor, see SourceStates
    source_kind,
    tracked,             \* libevdev's record of the source state
    virtual_device,      \* the kind of the virtual device, or NoDevice
    virtual_state,       \* the kernel's state of the virtual device
    consumer_state,      \* what its readers saw at the last SYN_REPORT
    source_path          \* the device node, see PathStates

control_vars == <<pc, phase, result>>
source_vars  == <<source_device, source_kind, tracked>>
virtual_vars == <<virtual_device, virtual_state, consumer_state>>
flag_vars    == <<fatal_result, source_opened_successfully,
                  permission_deadline>>
world_vars   == <<shutdown_requested, source_path>>

vars == <<rc_vars, control_vars, source_vars, virtual_vars, flag_vars,
          world_vars>>

-----------------------------------------------------------------------------

Controls == Keys \cup Switches \cup Axes

Momentary == Keys

(* Events that carry no control state here.  "EV_MSC" stands for every     *)
(* type the code does not name.                                            *)
Stateless == {"EV_REL", "ABS_MT_SLOT", "EV_SYN", "EV_MSC"}

(* "acquire" is create_active_devices, "forward" the inner loop of         *)
(* session_run.                                                            *)
Phases == {"acquire", "forward"}

SourceStates == {"null", "live", "dead"}

PathStates == {"absent", "denied", "present"}

Failures == {"INVALID_ARGUMENT", "SOURCE_PERMISSION_DENIED",
             "SOURCE_OPEN_FAILED", "SOURCE_DISCONNECTED",
             "UINPUT_UNAVAILABLE", "VIRTUAL_DEVICE_CREATE_FAILED",
             "EVENT_READ_FAILED", "EVENT_WRITE_FAILED"}

Results == {"SUCCESS"} \cup Failures

(* The calls of the two loops and of wait_with_activity_timer, in order.   *)
Following == [process |-> "recovery", recovery |-> "timers", timers |-> "act",
              idle |-> "idle_process", idle_process |-> "idle_timers",
              idle_timers |-> "idle_recovery", idle_recovery |-> "head"]

Steps == DOMAIN Following \cup
    {"head", "act", "adopt", "synchronize", "lost", "neutralize",
     "cleanup", "release", "done"}

(* input_proxy_runtime_control_process runs here.                          *)
Processing == pc \in {"process", "idle_process"}

Advance == pc' = Following[pc] /\ UNCHANGED <<phase, result>>

Goto(step) == pc' = step /\ UNCHANGED <<phase, result>>

Terminate(failure) ==
    pc' = "cleanup" /\ result' = failure /\ UNCHANGED phase

TypeOK ==
    /\ RCTypeOK
    /\ pc \in Steps
    /\ phase \in Phases
    /\ shutdown_requested \in BOOLEAN
    /\ fatal_result \in Results
    /\ result \in Results
    /\ source_opened_successfully \in BOOLEAN
    /\ permission_deadline \in Timer(SettlingWindow)
    /\ source_device \in SourceStates
    /\ source_kind \in Kinds \cup {NoDevice}
    /\ tracked \in SUBSET Controls
    /\ virtual_device \in Kinds \cup {NoDevice}
    /\ virtual_state \in SUBSET Controls
    /\ consumer_state \in SUBSET Controls
    /\ source_path \in PathStates

Init ==
    /\ RCInit
    /\ pc = "head"
    /\ phase = "acquire"
    /\ shutdown_requested = FALSE
    /\ fatal_result = "SUCCESS"
    /\ result = "SUCCESS"
    /\ source_opened_successfully = FALSE
    /\ permission_deadline = NoTimer
    /\ source_device = "null"
    /\ source_kind = NoDevice
    /\ tracked = {}
    /\ virtual_device = NoDevice
    /\ virtual_state = {}
    /\ consumer_state = {}
    /\ source_path \in PathStates

-----------------------------------------------------------------------------
(* The source and the virtual device.                                      *)

(* input_proxy_source_device_capture_state reads libevdev's record: every  *)
(* key, switch and axis, and every slot of a Type-B device.                *)
CapturedState == tracked

(* input_proxy_source_device_check_available: an ioctl that any other      *)
(* error may fail as well.                                                 *)
CheckAvailable(outcome) ==
    \/ outcome = "SUCCESS" /\ source_device = "live"
    \/ outcome = "SOURCE_DISCONNECTED" /\ source_device = "dead"
    \/ outcome = "EVENT_READ_FAILED"

(* capabilities_equal compares identity, properties, event codes, axis     *)
(* ranges and repeat values exactly: a kind stands for all of them.        *)
Compatible == virtual_device = source_kind

(* input_proxy_virtual_device_create: a new device starts with every key   *)
(* and switch off; an axis starts with the value in the template that      *)
(* copy_capabilities took from the source.                                 *)
CreatedState == tracked \cap Axes

(* Faulty: no SYN_REPORT ends the releases.                                *)
NeutralizeWithoutBoundary(outcome) ==
    /\ outcome = "SUCCESS"
    /\ virtual_device # NoDevice
    /\ virtual_state' = virtual_state \ Momentary
    /\ UNCHANGED <<virtual_device, consumer_state>>

(* Faulty: only the first active control is released.                      *)
NeutralizeOne(outcome) ==
    /\ outcome = "SUCCESS"
    /\ virtual_device # NoDevice
    /\ IF virtual_state \cap Momentary = {}
       THEN UNCHANGED virtual_state
       ELSE virtual_state' = virtual_state
                \ {CHOOSE key \in virtual_state \cap Momentary : TRUE}
    /\ consumer_state' = virtual_state'
    /\ UNCHANGED virtual_device

(* input_proxy_virtual_device_neutralize: query the kernel's state of the  *)
(* device, release what is momentary and active, and write a SYN_REPORT    *)
(* only when something was released.                                       *)
Neutralize(outcome) ==
    LET active == virtual_state \cap Momentary
    IN  /\ UNCHANGED virtual_device
        /\ \/ /\ virtual_device = NoDevice
              /\ outcome = "INVALID_ARGUMENT"
              /\ UNCHANGED <<virtual_state, consumer_state>>
           \/ /\ virtual_device # NoDevice
              /\ outcome = "EVENT_READ_FAILED"
              /\ UNCHANGED <<virtual_state, consumer_state>>
           \/ /\ virtual_device # NoDevice
              /\ active # {}
              /\ outcome = "EVENT_WRITE_FAILED"
              /\ \E released \in SUBSET active :
                     virtual_state' = virtual_state \ released
              /\ UNCHANGED consumer_state
           \/ /\ virtual_device # NoDevice
              /\ outcome = "SUCCESS"
              /\ virtual_state' = virtual_state \ active
              /\ consumer_state' =
                     IF active # {} THEN virtual_state' ELSE consumer_state

(* Faulty: EV_ABS values are left out of the captured state.               *)
SynchronizeWithoutAxes(outcome) ==
    /\ outcome = "SUCCESS"
    /\ virtual_state' = (virtual_state \cap Axes) \cup (tracked \ Axes)
    /\ consumer_state' = virtual_state'
    /\ UNCHANGED virtual_device

(* Faulty: no SYN_REPORT ends the sequence.                                *)
SynchronizeWithoutBoundary(outcome) ==
    /\ outcome = "SUCCESS"
    /\ source_device = "live"
    /\ virtual_state' = tracked
    /\ UNCHANGED <<virtual_device, consumer_state>>

(* input_proxy_session_synchronize_state: capture the source state, write  *)
(* it and a SYN_REPORT, then look whether the source is still there.       *)
Synchronize(outcome) ==
    /\ UNCHANGED virtual_device
    /\ \/ /\ source_device = "null" \/ virtual_device = NoDevice
          /\ outcome = "INVALID_ARGUMENT"
          /\ UNCHANGED <<virtual_state, consumer_state>>
       \/ /\ source_device # "null" /\ virtual_device # NoDevice
          /\ outcome = "EVENT_READ_FAILED"
          /\ UNCHANGED <<virtual_state, consumer_state>>
       \/ /\ source_device # "null" /\ virtual_device # NoDevice
          /\ outcome = "EVENT_WRITE_FAILED"
          /\ \E written \in SUBSET Controls :
                 virtual_state' =
                     (virtual_state \ written) \cup (CapturedState \cap written)
          /\ UNCHANGED consumer_state
       \/ /\ source_device # "null" /\ virtual_device # NoDevice
          /\ CheckAvailable(outcome)
          /\ virtual_state' = CapturedState
          /\ consumer_state' = CapturedState

-----------------------------------------------------------------------------
(* The top of both loops, and the shared steps of loops and waits.         *)

(* Faulty: the loops do not look at the shutdown request.                  *)
HeadIgnoresShutdown ==
    /\ pc = "head"
    /\ Goto("process")
    /\ UNCHANGED <<rc_vars, source_vars, virtual_vars, flag_vars, world_vars>>

(* A requested shutdown leaves the loops with success.                     *)
Head ==
    /\ pc = "head"
    /\ IF shutdown_requested THEN Terminate("SUCCESS") ELSE Goto("process")
    /\ UNCHANGED <<rc_vars, source_vars, virtual_vars, flag_vars, world_vars>>

(* sd_bus_process has nothing left, or there is no connection, or          *)
(* sd_bus_wait was interrupted.                                            *)
ProcessDone ==
    /\ Processing
    /\ runtime_control \in {"ready", "null"}
    /\ Advance
    /\ UNCHANGED <<rc_vars, source_vars, virtual_vars, flag_vars, world_vars>>

ProcessFails ==
    /\ Processing
    /\ DispatchFails
    /\ Advance
    /\ UNCHANGED <<source_vars, virtual_vars, flag_vars, world_vars>>

ProcessMethod ==
    /\ Processing
    /\ BeginDispatch \/ DispatchReturn
    /\ UNCHANGED <<control_vars, source_vars, virtual_vars, flag_vars,
                   world_vars>>

(* Faulty: a Pause commits without neutralizing.                           *)
RequestPausedUncorrected(pause) ==
    /\ Processing
    /\ runtime_control = "dispatching"
    /\ IF paused = pause THEN AnswerWithoutCommit ELSE CommitPaused(pause)
    /\ UNCHANGED <<control_vars, source_vars, virtual_vars, flag_vars,
                   world_vars>>

(* input_proxy_session_request_paused, as the method handler.              *)
RequestPaused(pause) ==
    /\ Processing
    /\ runtime_control = "dispatching"
    /\ \/ /\ paused = pause
          /\ AnswerWithoutCommit
          /\ UNCHANGED <<virtual_vars, fatal_result>>
       \/ /\ paused # pause
          /\ ~source_available
          /\ CommitPaused(pause)
          /\ UNCHANGED <<virtual_vars, fatal_result>>
       \/ /\ paused # pause
          /\ source_available
          /\ IF pause THEN Neutralize("SUCCESS") ELSE Synchronize("SUCCESS")
          /\ CommitPaused(pause)
          /\ UNCHANGED fatal_result
       \/ /\ paused # pause
          /\ source_available
          /\ \E failure \in Failures :
                 /\ IF pause THEN Neutralize(failure)
                             ELSE Synchronize(failure)
                 /\ fatal_result' = failure
          /\ AnswerWithoutCommit
    /\ UNCHANGED <<control_vars, source_vars, source_opened_successfully,
                   permission_deadline, world_vars>>

(* Faulty: the recovery does not look at the retry deadline.               *)
RecoverControlEagerly ==
    /\ pc \in {"recovery", "idle_recovery"}
    /\ runtime_control' = "ready"
    /\ activity_tracking_available' = TRUE
    /\ runtime_control_retry' = NoTimer
    /\ client_view' = runtime_state
    /\ Advance
    /\ UNCHANGED <<runtime_state, timer_vars, source_vars, virtual_vars,
                   flag_vars, world_vars>>

RecoverControl ==
    /\ pc \in {"recovery", "idle_recovery"}
    /\ Recovery
    /\ Advance
    /\ UNCHANGED <<source_vars, virtual_vars, flag_vars, world_vars>>

ProcessActivityTimers ==
    /\ pc \in {"timers", "idle", "idle_timers"}
    /\ ActivityTimers
    /\ Advance
    /\ UNCHANGED <<source_vars, virtual_vars, flag_vars, world_vars>>

(* A failed state correction ends the loop; a disconnection found by it    *)
(* takes the source-loss path out of the inner loop first.                 *)
FatalCheck ==
    /\ pc = "act"
    /\ fatal_result # "SUCCESS"
    /\ IF phase = "forward" /\ fatal_result = "SOURCE_DISCONNECTED"
       THEN Goto("lost")
       ELSE Terminate(fatal_result)
    /\ UNCHANGED <<rc_vars, source_vars, virtual_vars, flag_vars, world_vars>>

-----------------------------------------------------------------------------
(* create_active_devices.                                                  *)

Acquiring == pc = "act" /\ fatal_result = "SUCCESS" /\ phase = "acquire"

OpenUnavailable ==
    /\ Acquiring
    /\ source_path = "absent"
    /\ Goto("idle")
    /\ UNCHANGED <<rc_vars, source_vars, virtual_vars, flag_vars, world_vars>>

(* Faulty: every denial begins the settling window again.                  *)
OpenDeniedRestartsWindow ==
    /\ Acquiring
    /\ source_path = "denied"
    /\ IF source_opened_successfully
       THEN Goto("idle") /\ permission_deadline' = SettlingWindow
       ELSE /\ Terminate("SOURCE_PERMISSION_DENIED")
            /\ UNCHANGED permission_deadline
    /\ UNCHANGED <<rc_vars, source_vars, virtual_vars, fatal_result,
                   source_opened_successfully, world_vars>>

(* A denial is fatal for a source that was never opened, and otherwise     *)
(* when the settling window, begun at the first denial, has passed.        *)
OpenDenied ==
    /\ Acquiring
    /\ source_path = "denied"
    /\ IF source_opened_successfully /\ permission_deadline # 0
       THEN /\ Goto("idle")
            /\ permission_deadline' = IF permission_deadline = NoTimer
                                      THEN SettlingWindow
                                      ELSE permission_deadline
       ELSE /\ Terminate("SOURCE_PERMISSION_DENIED")
            /\ UNCHANGED permission_deadline
    /\ UNCHANGED <<rc_vars, source_vars, virtual_vars, fatal_result,
                   source_opened_successfully, world_vars>>

OpenFails ==
    /\ Acquiring
    /\ Terminate("SOURCE_OPEN_FAILED")
    /\ UNCHANGED <<rc_vars, source_vars, virtual_vars, flag_vars, world_vars>>

(* Faulty: SourceAvailable is not set for the new source.                  *)
OpenSourceUnannounced(kind, state) ==
    /\ Acquiring
    /\ source_path = "present"
    /\ source_device' = "live"
    /\ source_kind' = kind
    /\ tracked' = state
    /\ source_opened_successfully' = TRUE
    /\ Goto("adopt")
    /\ UNCHANGED <<rc_vars, virtual_vars, fatal_result, permission_deadline,
                   world_vars>>

(* libevdev reads the state the new source is in.                          *)
OpenSource(kind, state) ==
    /\ Acquiring
    /\ source_path = "present"
    /\ source_device' = "live"
    /\ source_kind' = kind
    /\ tracked' = state
    /\ source_opened_successfully' = TRUE
    /\ SetSourceAvailable(TRUE)
    /\ Goto("adopt")
    /\ UNCHANGED <<virtual_vars, fatal_result, permission_deadline, world_vars>>

BeginForwarding ==
    /\ pc' = "head"
    /\ phase' = "forward"
    /\ permission_deadline' = NoTimer
    /\ UNCHANGED result

Adopted ==
    IF paused THEN BeginForwarding
              ELSE Goto("synchronize") /\ UNCHANGED permission_deadline

RetainVirtualDevice ==
    /\ pc = "adopt"
    /\ Compatible
    /\ Adopted
    /\ UNCHANGED <<rc_vars, source_vars, virtual_vars, fatal_result,
                   source_opened_successfully, world_vars>>

(* The old device, if there is one, is destroyed first.                    *)
ReplaceVirtualDevice ==
    /\ pc = "adopt"
    /\ ~Compatible
    /\ virtual_device' = source_kind
    /\ virtual_state' = CreatedState
    /\ consumer_state' = CreatedState
    /\ Adopted
    /\ UNCHANGED <<rc_vars, source_vars, fatal_result,
                   source_opened_successfully, world_vars>>

CloseSource ==
    /\ source_device' = "null"
    /\ source_kind' = NoDevice
    /\ tracked' = {}

(* close_source_device                                                     *)
CloseSourceDevice == CloseSource /\ SetSourceAvailable(FALSE)

DestroyVirtualDevice ==
    /\ virtual_device' = NoDevice
    /\ virtual_state' = {}
    /\ consumer_state' = {}

ReplaceFails ==
    /\ pc = "adopt"
    /\ ~Compatible
    /\ DestroyVirtualDevice
    /\ CloseSourceDevice
    /\ \E failure \in {"UINPUT_UNAVAILABLE", "VIRTUAL_DEVICE_CREATE_FAILED"} :
           Terminate(failure)
    /\ UNCHANGED <<flag_vars, world_vars>>

SynchronizeSource ==
    /\ pc = "synchronize"
    /\ \/ Synchronize("SUCCESS") /\ BeginForwarding
       \/ \E failure \in Failures :
              /\ Synchronize(failure)
              /\ Terminate(failure)
              /\ UNCHANGED permission_deadline
    /\ UNCHANGED <<rc_vars, source_vars, fatal_result,
                   source_opened_successfully, world_vars>>

-----------------------------------------------------------------------------
(* input_proxy_session_process_event.                                      *)

Forwarding == pc = "act" /\ fatal_result = "SUCCESS" /\ phase = "forward"

(* input_proxy_session_event_is_activity.                                  *)
EventIsActivity(event, motion_activity_enabled) ==
    \/ event \in Keys \cup Switches \cup {"EV_MSC"}
    \/ event \in Axes \cup {"EV_REL"} /\ motion_activity_enabled

Applied(state, event, active) ==
    IF active THEN state \cup ({event} \cap Controls) ELSE state \ {event}

(* process_read_event and the write to the virtual device.                 *)
Forward(event, active) ==
    /\ UNCHANGED virtual_device
    /\ IF paused
       THEN UNCHANGED <<virtual_state, consumer_state>>
       ELSE /\ virtual_state' = Applied(virtual_state, event, active)
            /\ consumer_state' =
                   IF event = "EV_SYN" THEN virtual_state ELSE consumer_state

Observe(event) ==
    IF EventIsActivity(event, IF paused THEN PausedMotionActivity
                                        ELSE RunningMotionActivity)
    THEN PhysicalActivity
    ELSE UNCHANGED rc_vars

ProcessEvent(event, active) ==
    /\ Forwarding
    /\ source_device = "live"
    /\ tracked' = Applied(tracked, event, active)
    /\ Observe(event)
    /\ \/ /\ Forward(event, active)
          /\ Goto("head")
       \/ /\ ~paused
          /\ UNCHANGED virtual_vars
          /\ Terminate("EVENT_WRITE_FAILED")
    /\ UNCHANGED <<source_device, source_kind, flag_vars, world_vars>>

EventUnavailable ==
    /\ Forwarding
    /\ source_device = "live"
    /\ Goto("idle")
    /\ UNCHANGED <<rc_vars, source_vars, virtual_vars, flag_vars, world_vars>>

ReadFails ==
    /\ Forwarding
    /\ Terminate("EVENT_READ_FAILED")
    /\ UNCHANGED <<rc_vars, source_vars, virtual_vars, flag_vars, world_vars>>

(* Faulty: ENODEV is taken for EAGAIN.                                     *)
SourceDisconnectedUnnoticed ==
    /\ Forwarding
    /\ source_device = "dead"
    /\ Goto("idle")
    /\ UNCHANGED <<rc_vars, source_vars, virtual_vars, flag_vars, world_vars>>

SourceDisconnected ==
    /\ Forwarding
    /\ source_device = "dead"
    /\ Goto("lost")
    /\ UNCHANGED <<rc_vars, source_vars, virtual_vars, flag_vars, world_vars>>

(* Faulty: the recovered events bypass the pause.                          *)
RecoverSynchronizationUnpaused(state) ==
    /\ Forwarding
    /\ source_device = "live"
    /\ tracked' = state
    /\ virtual_state' = state
    /\ consumer_state' = state
    /\ Goto("head")
    /\ UNCHANGED <<rc_vars, source_device, source_kind, virtual_device,
                   flag_vars, world_vars>>

(* recover_synchronization after SYN_DROPPED: libevdev adopts the state    *)
(* the source is in and hands out the differences and a SYN_REPORT, which  *)
(* count as no activity.                                                   *)
RecoverSynchronization(state) ==
    LET difference == (tracked \ state) \cup (state \ tracked)
    IN  /\ Forwarding
        /\ source_device = "live"
        /\ tracked' = state
        /\ UNCHANGED virtual_device
        /\ \/ /\ paused
              /\ UNCHANGED <<virtual_state, consumer_state>>
              /\ Goto("head")
           \/ /\ ~paused
              /\ virtual_state' = (virtual_state \ difference)
                                     \cup (state \cap difference)
              /\ consumer_state' = IF difference = {} THEN consumer_state
                                                      ELSE virtual_state'
              /\ Goto("head")
           \/ /\ ~paused
              /\ difference # {}
              /\ \E written \in SUBSET difference :
                     virtual_state' = (virtual_state \ written)
                                         \cup (state \cap written)
              /\ UNCHANGED consumer_state
              /\ Terminate("EVENT_WRITE_FAILED")
        /\ UNCHANGED <<rc_vars, source_device, source_kind, flag_vars,
                       world_vars>>

-----------------------------------------------------------------------------
(* Source loss and the end of session_run.                                 *)

LoseSource ==
    /\ pc = "lost"
    /\ SetSourceAvailable(FALSE)
    /\ Goto("neutralize")
    /\ UNCHANGED <<source_vars, virtual_vars, flag_vars, world_vars>>

(* Faulty: cleanup_active_devices where close_source_device belongs.       *)
NeutralizeLostDestroys ==
    /\ pc = "neutralize"
    /\ CloseSourceDevice
    /\ DestroyVirtualDevice
    /\ pc' = "head"
    /\ phase' = "acquire"
    /\ permission_deadline' = NoTimer
    /\ UNCHANGED <<result, fatal_result,
                   source_opened_successfully, world_vars>>

(* Neutralize, close the source and enter create_active_devices again.     *)
NeutralizeLost ==
    /\ pc = "neutralize"
    /\ CloseSourceDevice
    /\ \/ /\ Neutralize("SUCCESS")
          /\ pc' = "head"
          /\ phase' = "acquire"
          /\ permission_deadline' = NoTimer
          /\ UNCHANGED result
       \/ \E failure \in Failures :
              /\ Neutralize(failure)
              /\ Terminate(failure)
              /\ UNCHANGED permission_deadline
    /\ UNCHANGED <<fatal_result, source_opened_successfully, world_vars>>

(* Faulty: the source is left open.                                        *)
CleanupVirtualDeviceOnly ==
    /\ pc = "cleanup"
    /\ DestroyVirtualDevice
    /\ SetSourceAvailable(FALSE)
    /\ Goto("release")
    /\ UNCHANGED <<source_vars, flag_vars, world_vars>>

CleanupActiveDevices ==
    /\ pc = "cleanup"
    /\ DestroyVirtualDevice
    /\ CloseSource
    /\ SetSourceAvailable(FALSE)
    /\ Goto("release")
    /\ UNCHANGED <<flag_vars, world_vars>>

ReleaseControl ==
    /\ pc = "release"
    /\ Release
    /\ Goto("done")
    /\ UNCHANGED <<source_vars, virtual_vars, flag_vars, world_vars>>

-----------------------------------------------------------------------------
(* The world.                                                              *)

(* The signal handler only sets the flag.                                  *)
RequestShutdown ==
    /\ pc # "done"
    /\ ~shutdown_requested
    /\ shutdown_requested' = TRUE
    /\ UNCHANGED <<rc_vars, control_vars, source_vars, virtual_vars,
                   flag_vars, source_path>>

(* Hotplug: the device node goes, comes back with its permissions not yet  *)
(* set, or changes permissions.  An open descriptor outlives all but the   *)
(* removal.                                                                *)
ChangePath(path) ==
    /\ pc # "done"
    /\ source_path # path
    /\ source_path' = path
    /\ source_device' = IF path = "absent" /\ source_device = "live"
                        THEN "dead" ELSE source_device
    /\ UNCHANGED <<rc_vars, control_vars, source_kind, tracked, virtual_vars,
                   flag_vars, shutdown_requested>>

Tick ==
    /\ pc # "done"
    /\ \E timer \in {running_activity_timer, paused_activity_timer,
                     runtime_control_retry, permission_deadline} : timer > 0
    /\ ElapseRC
    /\ permission_deadline' = Elapse(permission_deadline)
    /\ UNCHANGED <<control_vars, source_vars, virtual_vars, fatal_result,
                   source_opened_successfully, world_vars>>

-----------------------------------------------------------------------------

Acquire ==
    \/ OpenUnavailable \/ OpenDenied \/ OpenFails
    \/ \E kind \in Kinds, state \in SUBSET Controls : OpenSource(kind, state)
    \/ RetainVirtualDevice \/ ReplaceVirtualDevice \/ ReplaceFails
    \/ SynchronizeSource

Read ==
    \/ \E event \in Controls \cup Stateless, active \in BOOLEAN :
           ProcessEvent(event, active)
    \/ EventUnavailable \/ ReadFails \/ SourceDisconnected
    \/ \E state \in SUBSET Controls : RecoverSynchronization(state)

Finish == LoseSource \/ NeutralizeLost \/ CleanupActiveDevices \/ ReleaseControl

SessionStep ==
    \/ Head \/ ProcessDone \/ ProcessFails \/ ProcessMethod
    \/ \E pause \in BOOLEAN : RequestPaused(pause)
    \/ RecoverControl \/ ProcessActivityTimers \/ FatalCheck
    \/ Acquire \/ Read \/ Finish

Environment ==
    \/ RequestShutdown
    \/ \E path \in PathStates : ChangePath(path)
    \/ Tick

Next == SessionStep \/ Environment

Spec == Init /\ [][Next]_vars

(* The session's thread runs and time passes.  The queue of the bus is     *)
(* drained at last: sd_bus_process returns 0 when the clients, who are     *)
(* slower than the session, have no call waiting.  Nothing is assumed of   *)
(* signals, hotplug or the bus daemon.                                     *)
Fairness == WF_vars(SessionStep) /\ SF_vars(ProcessDone) /\ WF_vars(Tick)

FairSpec == Spec /\ Fairness

-----------------------------------------------------------------------------
(* The abstract session: a failed correction closes it, wherever the loop  *)
(* is when the failure is noticed.                                         *)
Lifecycle ==
    CASE pc = "done" -> "exit"
      [] pc \in {"cleanup", "release"} -> "closing"
      [] pc \notin {"done", "cleanup", "release"}
            /\ fatal_result # "SUCCESS" -> "closing"
      [] pc \in {"lost", "neutralize"} /\ fatal_result = "SUCCESS"
            -> "source_lost"
      [] pc \in {"adopt", "synchronize"} /\ fatal_result = "SUCCESS"
            -> "creating"
      [] OTHER -> IF phase = "forward" THEN "active" ELSE "waiting"

Contract == INSTANCE SessionContract WITH
    lifecycle <- Lifecycle,
    mode      <- IF paused THEN "paused" ELSE "running",
    device    <- virtual_device,
    held      <- virtual_state \cap Momentary

(* The session keeps the contract of SessionContract: every step of its    *)
(* loops, its method handlers and its environment is a step of the         *)
(* contract or none.                                                       *)
ImplementsContract == Contract!ContractSpec

(* The session calls the runtime control only as RuntimeControl allows,    *)
(* so the properties shown of that module hold in the session.             *)
UsesRuntimeControl == RCSpec

Interface == INSTANCE RuntimeInterface WITH view <- client_view

(* What the clients of the bus see is RuntimeInterface (DBUS_INTERFACE.md, *)
(* section 9), although modes, timers, losses of the source and of the     *)
(* connection, and notifications that fail, meet in any order: a mode and  *)
(* the end of the activity of the mode it leaves come in one notification, *)
(* activity begins only with a source, and a service that returns has none *)
(* from before.                                                            *)
ImplementsInterface == Interface!InterfaceSpec

-----------------------------------------------------------------------------

Trusted == fatal_result = "SUCCESS" /\ result = "SUCCESS"

(* The forwarding invariant: from the first forwarded event on, through    *)
(* event reading, SYN_DROPPED, pauses, resumes and reconnections, the      *)
(* kernel's state of the virtual device is the source state libevdev has   *)
(* handed out.                                                             *)
ForwardingFaithful ==
    Trusted /\ phase = "forward" /\ ~paused /\ source_available =>
        virtual_state = tracked

(* A paused session, and one that waits for its source, holds no key,      *)
(* button or contact down in the kernel's state of the virtual device.     *)
SuppressedIsNeutral ==
    Trusted /\ (paused \/ phase = "acquire") =>
        virtual_state \cap Momentary = {}

(* Whenever a method handler can run, SourceAvailable tells whether there  *)
(* is a source, and the correction it then makes has both devices: no      *)
(* correction ends in INVALID_ARGUMENT.                                    *)
HandlerHasDevices ==
    /\ Processing /\ fatal_result = "SUCCESS" =>
           /\ source_available <=> source_device # "null"
           /\ source_available => virtual_device # NoDevice
    /\ "INVALID_ARGUMENT" \notin {fatal_result, result}

(* A session ends with success only when it was told to stop.              *)
SuccessOnlyOnShutdown ==
    pc = "done" /\ result = "SUCCESS" => shutdown_requested

(* However a session ends, it leaves no device, no open source and no      *)
(* owner of its service name behind.                                       *)
EverythingReleased ==
    pc = "done" =>
        /\ virtual_device = NoDevice
        /\ source_device = "null"
        /\ ~source_available
        /\ runtime_control = "released"

(* The virtual device outlives every loss of its source; it is taken away  *)
(* only by cleanup or to be replaced for an incompatible source.           *)
VirtualDeviceRetained ==
    [][virtual_device # NoDevice /\ virtual_device' # virtual_device =>
           \/ pc = "cleanup"
           \/ pc = "adopt" /\ source_kind # virtual_device]_vars

(* While the session stays paused and no correction has failed, no call    *)
(* changes the device: not an event, not the recovery from SYN_DROPPED,    *)
(* not the loss or return of the source.                                   *)
PausedDeviceUntouched ==
    [][paused /\ paused' /\ Trusted' /\ virtual_device' = virtual_device =>
           UNCHANGED <<virtual_state, consumer_state>>]_vars

(* Forwarding begins, after an acquisition or a resume, only in a step     *)
(* that leaves the readers of the device with the complete state of the    *)
(* source, and never after a failed correction.                            *)
Forwards == phase = "forward" /\ ~paused /\ source_available

ForwardingStartsSynchronized ==
    [][~Forwards /\ Forwards' /\ Trusted =>
           /\ consumer_state' = tracked'
           /\ virtual_state' = tracked'
           /\ source_device = "live"]_vars

(* What holds in place of ConsumerSeesNeutral.  A Pause or a source loss   *)
(* that finds a control held releases every control for the readers of the *)
(* device too, and from then on, through reconnections, replacements and   *)
(* SYN_DROPPED, nothing new appears to them: what they may still see down  *)
(* is a control whose release was forwarded and its SYN_REPORT was not.    *)
Suppressed == paused \/ phase = "acquire"

ReadersSeeRelease ==
    [][Trusted' /\ Suppressed' =>
           /\ consumer_state' \cap Momentary \subseteq consumer_state
           /\ ~Suppressed /\ virtual_state \cap Momentary # {} =>
                  consumer_state' \cap Momentary = {}]_vars

(* The calls that a session which was told to stop may still make.         *)
CallsLeft(step) ==
    CASE step = "done" -> 0
      [] step = "release" -> 1
      [] step = "cleanup" -> 2
      [] step = "head" -> 3
      [] step \in {"idle_recovery", "neutralize", "synchronize"} -> 4
      [] step \in {"idle_timers", "lost", "adopt"} -> 5
      [] step = "idle_process" -> 6
      [] step = "idle" -> 7
      [] step = "act" -> 8
      [] step = "timers" -> 9
      [] step = "recovery" -> 10
      [] step = "process" -> 11

(* A shutdown request is never withdrawn, and each call of the session     *)
(* after it is one less: no retry, wait or reconnection begins again.      *)
ShutdownAdvances ==
    [][shutdown_requested =>
           /\ shutdown_requested'
           /\ pc' = pc \/ CallsLeft(pc') < CallsLeft(pc)]_vars

(* A shutdown request ends the session from any of its steps.              *)
ShutdownCompletes == shutdown_requested ~> pc = "done"

(* A source that is present from some time on is acquired again and again, *)
(* unless the session ends.                                                *)
SourceReacquired ==
    \/ []<>(source_path # "present")
    \/ []<>(source_device = "live" \/ pc = "done")

(* A denial that persists ends the session: no infinite retry.             *)
PersistentDenialEnds ==
    \/ []<>(source_path # "denied" \/ source_device # "null")
    \/ <>(pc = "done")

-----------------------------------------------------------------------------
(* What the documents say and the code does not do.                        *)

(* ARCHITECTURE.md, Source-loss handling: no momentary state stays active  *)
(* for the readers of the device once the source is lost or the session    *)
(* paused.                                                                 *)
ConsumerSeesNeutral ==
    Trusted /\ (paused \/ phase = "acquire") =>
        consumer_state \cap Momentary = {}

(* ARCHITECTURE.md, Lifecycle failure policy: a fatal result always makes  *)
(* the process exit with failure.                                          *)
FatalResultReported ==
    pc = "done" /\ fatal_result # "SUCCESS" => result # "SUCCESS"

=============================================================================
