------------------------- MODULE ProxySession_proofs -------------------------
(***************************************************************************)
(* Proofs about ProxySession, for all sets of controls and of kinds, all   *)
(* durations and both motion policies.                                     *)
(*                                                                         *)
(* The argument has three layers, each inductive only with the one before. *)
(* ControlByStep ties the step the session is at to its connection: the    *)
(* session is a caller RuntimeControl allows, which carries over what is   *)
(* proved of that module.  DeviceInv ties the step to the two devices, to  *)
(* SourceAvailable and to the result.  StateInv ties the states of the two *)
(* devices to each other while no correction and no write has failed.      *)
(***************************************************************************)
EXTENDS ProxySession, RuntimeControl_proofs

-----------------------------------------------------------------------------
(* The mode and SourceAvailable through the calls to the runtime control.  *)

SameMode == paused' <=> paused

SameAvailability == source_available' <=> source_available

(* A commit gives the two properties their new values if it is about them, *)
(* whether or not it can be published, and does not begin or end a         *)
(* dispatch on its own.                                                    *)
LEMMA ApplyChangesFrame ==
    ASSUME NEW mask, NEW values \in SUBSET mask,
           NEW running, NEW throttle, NEW handled,
           ApplyChanges(mask, values, running, throttle, handled)
    PROVE  /\ \A p \in {"paused", "source_available"} :
                  /\ p \in mask => (p \in runtime_state' <=> p \in values)
                  /\ p \notin mask =>
                         (p \in runtime_state' <=> p \in runtime_state)
           /\ \/ runtime_control' = handled
              \/ runtime_control = "dispatching"
                 /\ runtime_control' = "disable_pending"
              \/ runtime_control # "dispatching" /\ runtime_control' = "null"
<1> DEFINE changed == {p \in mask : (p \in values) # (p \in runtime_state)}
           committed == (runtime_state \ changed) \cup (values \cap changed)
<1>1. UpdateControlAvailability(committed, running, throttle)
  BY DEF ApplyChanges
<1>2. runtime_state' \in {committed, committed \ Activity}
  BY <1>1 DEF UpdateControlAvailability
<1>3. \A p \in {"paused", "source_available"} :
          p \in runtime_state' <=> p \in committed
  BY <1>2 DEF Activity
<1>4. \A p \in {"paused", "source_available"} :
          /\ p \in mask => (p \in committed <=> p \in values)
          /\ p \notin mask => (p \in committed <=> p \in runtime_state)
  OBVIOUS
<1>5. \/ runtime_control' = handled
      \/ runtime_control = "dispatching"
         /\ runtime_control' = "disable_pending"
      \/ runtime_control # "dispatching" /\ runtime_control' = "null"
  BY DEF ApplyChanges
<1> QED
  BY <1>3, <1>4, <1>5

(* Outside a dispatch a call leaves the mode alone and the session outside *)
(* a dispatch; only SetSourceAvailable changes SourceAvailable.            *)
LEMMA UndispatchedFrame ==
    ASSUME Undispatched
    PROVE  /\ \A available \in BOOLEAN :
                  SetSourceAvailable(available) =>
                      /\ Undispatched' /\ SameMode
                      /\ source_available' <=> available
           /\ PhysicalActivity \/ ActivityTimers \/ Recovery =>
                  Undispatched' /\ SameMode /\ SameAvailability
<1>2. ASSUME NEW available \in BOOLEAN, SetSourceAvailable(available)
      PROVE  /\ Undispatched' /\ SameMode
             /\ source_available' <=> available
  <2> DEFINE values == IF available THEN {"source_available"} ELSE {}
  <2>1. values \in SUBSET {"source_available"}
    OBVIOUS
  <2>2. ApplyChanges({"source_available"}, values, running_activity_timer,
                     paused_activity_timer, runtime_control)
    BY <1>2 DEF SetSourceAvailable, ApplyChangesUndispatched
  <2>3. /\ Undispatched'
        /\ "source_available" \in runtime_state'
               <=> "source_available" \in values
        /\ "paused" \in runtime_state' <=> "paused" \in runtime_state
    <3> HIDE DEF values
    <3> QED
      BY <2>1, <2>2, ApplyChangesFrame DEF Undispatched
  <2> QED
    BY <2>3 DEF SameMode, paused, source_available
<1>3. ASSUME PhysicalActivity
      PROVE  Undispatched' /\ SameMode /\ SameAvailability
  <2>1. ASSUME NEW p \in Activity, NEW b \in BOOLEAN,
               NEW running, NEW throttle,
               ApplyChanges({p}, IF b THEN {p} ELSE {}, running, throttle,
                            runtime_control)
        PROVE  Undispatched' /\ SameMode /\ SameAvailability
    <3>1. (IF b THEN {p} ELSE {}) \in SUBSET {p}
      OBVIOUS
    <3>2. p \notin {"paused", "source_available"}
      BY <2>1 DEF Activity
    <3>3. /\ Undispatched'
          /\ \A q \in {"paused", "source_available"} :
                 q \in runtime_state' <=> q \in runtime_state
      <4> DEFINE mask == {p}
                 values == IF b THEN {p} ELSE {}
      <4>1. /\ ApplyChanges(mask, values, running, throttle, runtime_control)
            /\ values \in SUBSET mask
            /\ \A q \in {"paused", "source_available"} : q \notin mask
        BY <2>1, <3>1, <3>2
      <4> HIDE DEF mask, values
      <4> QED
        BY <4>1, ApplyChangesFrame DEF Undispatched
    <3> QED
      BY <3>3 DEF SameMode, SameAvailability, paused, source_available
  <2>2. CASE UNCHANGED rc_vars
    BY <2>2 DEF rc_vars, Undispatched, SameMode, SameAvailability, paused,
        source_available
  <2>3. CASE ~UNCHANGED rc_vars
    <3>1. "activity_while_running" \in Activity
          /\ "activity_while_paused" \in Activity
      BY DEF Activity
    <3>2. (ActivityTimeout # 0) \in BOOLEAN /\ (DetectionThrottle # 0) \in BOOLEAN
      OBVIOUS
    <3> QED
      BY <1>3, <2>1, <2>3, <3>1, <3>2
      DEF PhysicalActivity, ApplyChangesUndispatched
  <2> QED
    BY <2>2, <2>3
<1>4. ASSUME ActivityTimers
      PROVE  Undispatched' /\ SameMode /\ SameAvailability
  <2>1. CASE UNCHANGED rc_vars
    BY <2>1 DEF rc_vars, Undispatched, SameMode, SameAvailability, paused,
        source_available
  <2>2. CASE ~UNCHANGED rc_vars
    <3>1. ExpiredActivity \subseteq Activity /\ {} \in SUBSET ExpiredActivity
      BY DEF ExpiredActivity
    <3>2. \A q \in {"paused", "source_available"} : q \notin ExpiredActivity
      BY <3>1 DEF Activity
    <3>3. /\ Undispatched'
          /\ \A q \in {"paused", "source_available"} :
                 q \in runtime_state' <=> q \in runtime_state
      <4>1. ApplyChanges(ExpiredActivity, {},
                         Unexpired(running_activity_timer),
                         Unexpired(paused_activity_timer), runtime_control)
        BY <1>4, <2>2 DEF ActivityTimers, ApplyChangesUndispatched
      <4> QED
        BY <3>1, <3>2, <4>1, ApplyChangesFrame DEF Undispatched
    <3> QED
      BY <3>3 DEF SameMode, SameAvailability, paused, source_available
  <2> QED
    BY <2>1, <2>2
<1>5. ASSUME Recovery
      PROVE  Undispatched' /\ SameMode /\ SameAvailability
  BY <1>5 DEF Recovery, Reconnect, ReconnectFails, rc_vars, Undispatched,
      SameMode, SameAvailability, paused, source_available
<1> QED
  BY <1>2, <1>3, <1>4, <1>5

(* A dispatch and its end leave both alone; a commit changes the mode.     *)
LEMMA DispatchFrame ==
    /\ BeginDispatch \/ AnswerWithoutCommit \/ DispatchReturn \/ DispatchFails =>
           /\ runtime_control' \notin {"released"}
           /\ SameMode /\ SameAvailability
    /\ \A pause \in BOOLEAN :
           CommitPaused(pause) =>
               /\ runtime_control' \in {"returning", "disable_pending"}
               /\ (paused' <=> pause) /\ (paused # pause)
               /\ SameAvailability
<1>1. ASSUME BeginDispatch \/ AnswerWithoutCommit
      PROVE  /\ runtime_control' # "released"
             /\ SameMode /\ SameAvailability
  BY <1>1 DEF BeginDispatch, AnswerWithoutCommit, SameMode,
      SameAvailability, paused, source_available
<1>2. ASSUME DispatchReturn \/ DispatchFails
      PROVE  /\ runtime_control' # "released"
             /\ SameMode /\ SameAvailability
  <2>1. /\ runtime_control' \in {"ready", "null"}
        /\ runtime_state' \in {runtime_state, runtime_state \ Activity}
    BY <1>2 DEF DispatchReturn, DispatchFails, UpdateControlAvailability
  <2> QED
    BY <2>1 DEF Activity, SameMode, SameAvailability, paused,
        source_available
<1>3. ASSUME NEW pause \in BOOLEAN, CommitPaused(pause)
      PROVE  /\ runtime_control' \in {"returning", "disable_pending"}
             /\ (paused' <=> pause) /\ (paused # pause)
             /\ SameAvailability
  <2>1. CASE pause
    <3>1. ApplyChanges({"paused", "activity_while_running"}, {"paused"},
                       NoTimer, paused_activity_timer, "returning")
      BY <1>3, <2>1 DEF CommitPaused
    <3>2. /\ {"paused"} \in SUBSET {"paused", "activity_while_running"}
          /\ "source_available" \notin {"paused", "activity_while_running"}
      OBVIOUS
    <3>3. /\ "paused" \in runtime_state'
          /\ "source_available" \in runtime_state'
                 <=> "source_available" \in runtime_state
      BY <3>1, <3>2, ApplyChangesFrame
    <3>4. runtime_control' \in {"returning", "disable_pending"}
      BY <1>3, <3>1, <3>2, ApplyChangesFrame DEF CommitPaused
    <3> QED
      BY <1>3, <2>1, <3>3, <3>4
      DEF CommitPaused, SameAvailability, paused, source_available
  <2>2. CASE ~pause
    <3>1. ApplyChanges({"paused", "activity_while_paused"}, {},
                       running_activity_timer, NoTimer, "returning")
      BY <1>3, <2>2 DEF CommitPaused
    <3>2. /\ {} \in SUBSET {"paused", "activity_while_paused"}
          /\ "source_available" \notin {"paused", "activity_while_paused"}
      OBVIOUS
    <3>3. /\ "paused" \notin runtime_state'
          /\ "source_available" \in runtime_state'
                 <=> "source_available" \in runtime_state
      BY <3>1, <3>2, ApplyChangesFrame
    <3>4. runtime_control' \in {"returning", "disable_pending"}
      BY <1>3, <3>1, <3>2, ApplyChangesFrame DEF CommitPaused
    <3> QED
      BY <1>3, <2>2, <3>3, <3>4
      DEF CommitPaused, SameAvailability, paused, source_available
  <2> QED
    BY <2>1, <2>2
<1> QED
  BY <1>1, <1>2, <1>3

-----------------------------------------------------------------------------
(* The session as a caller of RuntimeControl.                              *)

(* Only the two calls that process the bus leave a dispatch open, and only *)
(* the end of the session releases the connection.                         *)
ControlByStep ==
    /\ pc = "done" <=> runtime_control = "released"
    /\ ~Processing /\ pc # "done" => Undispatched

(* The actions that make no call to the runtime control.                   *)
Uncontrolled ==
    \/ Head \/ ProcessDone \/ FatalCheck \/ OpenUnavailable \/ OpenDenied
    \/ OpenFails \/ RetainVirtualDevice \/ ReplaceVirtualDevice
    \/ SynchronizeSource \/ EventUnavailable \/ ReadFails
    \/ SourceDisconnected
    \/ \E state \in SUBSET Controls : RecoverSynchronization(state)
    \/ RequestShutdown
    \/ \E path \in PathStates : ChangePath(path)

(* They leave the connection, and its relation to the step, as it is.      *)
LEMMA UncontrolledStep ==
    ASSUME Uncontrolled, ControlByStep
    PROVE  UNCHANGED rc_vars /\ ControlByStep'
<1>1. ASSUME UNCHANGED rc_vars, pc # "done", pc' # "done",
             Undispatched \/ pc' = pc
      PROVE  ControlByStep'
  BY <1>1 DEF ControlByStep, Undispatched, rc_vars, Processing
<1> USE <1>1 DEF Goto, Terminate, Advance, control_vars
<1>2. CASE Head \/ FatalCheck \/ OpenUnavailable \/ OpenDenied \/ OpenFails
           \/ EventUnavailable \/ ReadFails \/ SourceDisconnected
  BY <1>2 DEF Head, FatalCheck, OpenUnavailable, OpenDenied, OpenFails,
      EventUnavailable, ReadFails, SourceDisconnected, Acquiring, Forwarding,
      ControlByStep, Processing
<1>3. CASE ProcessDone
  BY <1>3 DEF ProcessDone, Following, Undispatched, Processing
<1>4. CASE RetainVirtualDevice \/ ReplaceVirtualDevice \/ SynchronizeSource
  BY <1>4 DEF RetainVirtualDevice, ReplaceVirtualDevice, SynchronizeSource,
      Adopted, BeginForwarding, ControlByStep, Processing
<1>5. ASSUME NEW state \in SUBSET Controls, RecoverSynchronization(state)
      PROVE  UNCHANGED rc_vars /\ ControlByStep'
  BY <1>5 DEF RecoverSynchronization, Forwarding, ControlByStep, Processing
<1>6. CASE RequestShutdown \/ \E path \in PathStates : ChangePath(path)
  BY <1>6 DEF RequestShutdown, ChangePath, ControlByStep
<1> QED
  BY <1>2, <1>3, <1>4, <1>5, <1>6 DEF Uncontrolled

(* Outside a dispatch a call to the runtime control keeps the session      *)
(* where it can make the next.                                             *)
LEMMA CallStep ==
    ASSUME ControlByStep, ~Processing, pc # "done", pc' # "done",
           \/ PhysicalActivity \/ ActivityTimers \/ Recovery
           \/ \E available \in BOOLEAN : SetSourceAvailable(available)
    PROVE  [RCNext]_rc_vars /\ ControlByStep'
<1>1. Undispatched
  BY DEF ControlByStep
<1>2. Undispatched'
  BY <1>1, UndispatchedFrame
<1> QED
  BY <1>1, <1>2 DEF RCNext, ControlByStep, Undispatched

(* Every step of the session is one RuntimeControl allows, or none.        *)
LEMMA ControlStep ==
    ASSUME ControlByStep, [Next]_vars
    PROVE  [RCNext]_rc_vars /\ ControlByStep'
<1>1. CASE Uncontrolled
  BY <1>1, UncontrolledStep
<1>2. CASE ProcessFails \/ ProcessMethod
           \/ \E pause \in BOOLEAN : RequestPaused(pause)
  <2>1. \/ BeginDispatch \/ AnswerWithoutCommit \/ DispatchReturn
        \/ DispatchFails /\ runtime_control' = "null"
        \/ \E pause \in BOOLEAN : CommitPaused(pause)
    BY <1>2 DEF ProcessFails, ProcessMethod, RequestPaused, DispatchFails
  <2>2. /\ Processing
        /\ \/ Processing'
           \/ pc' # "done" /\ Undispatched'
    BY <1>2 DEF ProcessFails, ProcessMethod, RequestPaused, DispatchFails,
        Processing, Advance, Following, Undispatched, control_vars
  <2>3. runtime_control' # "released"
    BY <2>1, DispatchFrame
  <2> QED
    BY <2>1, <2>2, <2>3 DEF RCNext, ControlByStep, Processing
<1>3. CASE RecoverControl \/ ProcessActivityTimers \/ LoseSource
           \/ NeutralizeLost \/ CleanupActiveDevices \/ ReplaceFails
           \/ \E kind \in Kinds, state \in SUBSET Controls :
                  OpenSource(kind, state)
  <2> DEFINE Calling ==
             /\ ~Processing /\ pc # "done" /\ pc' # "done"
             /\ \/ Recovery \/ ActivityTimers
                \/ \E available \in BOOLEAN : SetSourceAvailable(available)
  <2> SUFFICES Calling
    BY CallStep
  <2>1. CASE RecoverControl
    <3>1. /\ pc \in {"recovery", "idle_recovery"}
          /\ pc' \in {"timers", "head"}
          /\ Recovery
      BY <2>1 DEF RecoverControl, Advance, Following
    <3> QED
      BY <3>1 DEF Processing
  <2>2. CASE ProcessActivityTimers
    <3>1. /\ pc \in {"timers", "idle", "idle_timers"}
          /\ pc' \in {"act", "idle_process", "idle_recovery"}
          /\ ActivityTimers
      BY <2>2 DEF ProcessActivityTimers, Advance, Following
    <3> QED
      BY <3>1 DEF Processing
  <2>3. CASE \/ LoseSource \/ NeutralizeLost \/ CleanupActiveDevices
             \/ ReplaceFails
    <3>1. /\ pc \in {"lost", "neutralize", "cleanup", "adopt"}
          /\ pc' \in {"neutralize", "head", "cleanup", "release"}
          /\ SetSourceAvailable(FALSE)
      BY <2>3 DEF LoseSource, NeutralizeLost, CleanupActiveDevices,
          ReplaceFails, CloseSourceDevice, Goto, Terminate
    <3> QED
      BY <3>1 DEF Processing
  <2>4. CASE \E kind \in Kinds, state \in SUBSET Controls :
                 OpenSource(kind, state)
    <3>1. pc = "act" /\ pc' = "adopt" /\ SetSourceAvailable(TRUE)
      BY <2>4 DEF OpenSource, Acquiring, Goto
    <3> QED
      BY <3>1 DEF Processing
  <2> QED
    BY <1>3, <2>1, <2>2, <2>3, <2>4
<1>4. ASSUME NEW event \in Controls \cup Stateless, NEW active \in BOOLEAN,
             ProcessEvent(event, active)
      PROVE  [RCNext]_rc_vars /\ ControlByStep'
  <2>1. /\ ~Processing /\ pc # "done" /\ ~Processing' /\ pc' # "done"
        /\ PhysicalActivity \/ UNCHANGED rc_vars
    BY <1>4 DEF ProcessEvent, Observe, Forwarding, Processing, Goto,
        Terminate
  <2>2. CASE UNCHANGED rc_vars
    BY <2>1, <2>2 DEF ControlByStep, Undispatched, rc_vars
  <2> QED
    BY <2>1, <2>2, CallStep
<1>5. CASE ReleaseControl
  BY <1>5 DEF ReleaseControl, Release, Goto, ControlByStep, Processing,
      RCNext
<1>6. CASE Tick
  <2>1. ElapseRC /\ pc' = pc
    BY <1>6 DEF Tick, control_vars
  <2>2. ControlByStep'
    BY <2>1 DEF ElapseRC, ControlByStep, Undispatched, Processing
  <2>3. CASE \E timer \in {running_activity_timer, paused_activity_timer,
                           runtime_control_retry} : timer > 0
    BY <2>1, <2>2, <2>3 DEF RCNext, RCTick
  <2>4. CASE ~\E timer \in {running_activity_timer, paused_activity_timer,
                            runtime_control_retry} : timer > 0
    BY <2>1, <2>2, <2>4 DEF ElapseRC, Elapse, rc_vars
  <2> QED
    BY <2>3, <2>4
<1>7. CASE UNCHANGED vars
  BY <1>7 DEF vars, rc_vars, control_vars, ControlByStep, Undispatched,
      Processing
<1> QED
  BY <1>1, <1>2, <1>3, <1>4, <1>5, <1>6, <1>7
  DEF Next, SessionStep, Environment, Acquire, Read, Finish, Uncontrolled

(* The invariants of the connection hold at first.                         *)
LEMMA ControlInit == Init => RCInv /\ ControlByStep
  BY RCInitInv DEF Init, RCInit, ControlByStep, Undispatched

(* They are inductive, along steps RuntimeControl allows.                  *)
LEMMA ControlNext ==
    RCInv /\ ControlByStep /\ [Next]_vars =>
        RCInv' /\ ControlByStep' /\ [RCNext]_rc_vars
  BY ControlStep, RCNextInv

(* The session is a caller RuntimeControl allows, in every interleaving of  *)
(* its loops, its handlers and its environment.                            *)
THEOREM SessionUsesRuntimeControl == Spec => UsesRuntimeControl
<1>1. Init => RCInit
  BY DEF Init
<1> QED
  BY <1>1, ControlInit, ControlNext, PTL DEF Spec, RCSpec, UsesRuntimeControl

(* What clients of a session were told is what the session holds.          *)
THEOREM SessionClientsCurrent == Spec => []ClientViewCurrent
  BY SessionUsesRuntimeControl, ClientsCurrent DEF UsesRuntimeControl

-----------------------------------------------------------------------------
(* The devices at each step of the session.                                *)

Ending == {"cleanup", "release", "done"}

(* The source is open from OpenSource to the end of the loop it was        *)
(* opened for, and SourceAvailable says so at every step but the one that  *)
(* closes a lost source.                                                   *)
SourceByStep ==
    /\ pc # "neutralize" => (source_available <=> source_device # "null")
    /\ source_device # "null" => source_kind \in Kinds
    /\ pc \in {"adopt", "synchronize"} =>
           phase = "acquire" /\ source_device # "null"
    /\ pc \in {"lost", "neutralize"} => phase = "forward"
    /\ phase = "acquire" /\ pc \notin {"adopt", "synchronize"} \cup Ending =>
           source_device = "null"
    /\ phase = "forward" /\ pc \notin Ending => source_device # "null"
    /\ pc \in {"release", "done"} => source_device = "null"

(* The virtual device exists while events are forwarded, and one that does *)
(* not exist has no state.                                                 *)
VirtualByStep ==
    /\ phase = "forward" /\ pc \notin Ending => virtual_device # NoDevice
    /\ pc = "synchronize" => ~paused /\ virtual_device # NoDevice
    /\ virtual_device = NoDevice => virtual_state = {} /\ consumer_state = {}
    /\ pc \in {"release", "done"} => virtual_device = NoDevice

ResultByStep ==
    /\ pc \notin Ending => result = "SUCCESS"
    /\ pc \in Ending /\ result = "SUCCESS" => shutdown_requested
    /\ pc \in {"adopt", "synchronize"} => fatal_result = "SUCCESS"
    /\ "INVALID_ARGUMENT" \notin {fatal_result, result}

DeviceInv ==
    /\ phase \in Phases
    /\ SourceByStep /\ VirtualByStep /\ ResultByStep

(* The invariant of the devices holds at first.                            *)
LEMMA DeviceInit == Init => DeviceInv
  BY SessionAssumption
  DEF Init, RCInit, DeviceInv, SourceByStep, VirtualByStep, ResultByStep,
      Phases, Ending, source_available

(* Time and the calls of the bus leave devices, step and result alone.     *)
LEMMA DeviceFrame ==
    ASSUME DeviceInv, SameAvailability, SameMode \/ pc' # "synchronize",
           UNCHANGED <<phase, result, source_vars, virtual_vars>>,
           fatal_result' \in {fatal_result} \cup (Failures \ {"INVALID_ARGUMENT"}),
           pc \notin {"adopt", "synchronize"} \/ UNCHANGED fatal_result,
           shutdown_requested => shutdown_requested',
           \/ UNCHANGED pc
           \/ /\ pc \notin Ending \cup {"adopt", "synchronize", "neutralize"}
              /\ pc' \notin Ending \cup {"adopt", "synchronize", "neutralize"}
              /\ pc' = "lost" => phase = "forward"
    PROVE  DeviceInv'
  BY DEF DeviceInv, SourceByStep, VirtualByStep, ResultByStep, Ending,
      source_vars, virtual_vars, SameAvailability, SameMode, Failures

(* A step without a call leaves the mode and SourceAvailable alone.        *)
LEMMA UnchangedFrame ==
    ASSUME UNCHANGED rc_vars
    PROVE  SameMode /\ SameAvailability
  BY DEF rc_vars, SameMode, SameAvailability, paused, source_available

(* The shared steps of the loops.                                          *)
LEMMA DeviceLoop ==
    ASSUME DeviceInv, ControlByStep,
           \/ ProcessDone \/ ProcessFails \/ ProcessMethod
           \/ RecoverControl \/ ProcessActivityTimers
           \/ RequestShutdown \/ Tick
           \/ UNCHANGED vars
    PROVE  DeviceInv'
<1> DEFINE Still ==
        UNCHANGED <<phase, result, source_vars, virtual_vars, fatal_result>>
<1>1. /\ SameMode /\ SameAvailability
      /\ Still /\ (shutdown_requested => shutdown_requested')
  <2>1. CASE ProcessDone \/ RequestShutdown \/ UNCHANGED vars
    BY <2>1, UnchangedFrame
    DEF ProcessDone, RequestShutdown, vars, Advance, control_vars,
        flag_vars, world_vars
  <2>2. CASE ProcessFails \/ ProcessMethod
    BY <2>2, DispatchFrame
    DEF ProcessFails, ProcessMethod, Advance, control_vars, flag_vars,
        world_vars
  <2>3. CASE RecoverControl \/ ProcessActivityTimers
    <3>1. Undispatched
      BY <2>3 DEF RecoverControl, ProcessActivityTimers, ControlByStep,
          Processing
    <3> QED
      BY <2>3, <3>1, UndispatchedFrame
      DEF RecoverControl, ProcessActivityTimers, Advance, flag_vars,
          world_vars
  <2>4. CASE Tick
    BY <2>4 DEF Tick, ElapseRC, SameMode, SameAvailability, paused,
        source_available, control_vars, world_vars
  <2> QED
    BY <2>1, <2>2, <2>3, <2>4
<1>2. \/ UNCHANGED pc
      \/ /\ pc \notin Ending \cup {"adopt", "synchronize", "neutralize"}
         /\ pc' \notin Ending \cup {"adopt", "synchronize", "neutralize",
                                    "lost"}
  <2>1. CASE ProcessDone \/ ProcessFails
    BY <2>1 DEF ProcessDone, ProcessFails, Processing, Advance, Following,
        Ending
  <2>2. CASE RecoverControl \/ ProcessActivityTimers
    BY <2>2 DEF RecoverControl, ProcessActivityTimers, Advance, Following,
        Ending
  <2>3. CASE ProcessMethod \/ RequestShutdown \/ Tick \/ UNCHANGED vars
    BY <2>3 DEF ProcessMethod, RequestShutdown, Tick, vars, control_vars
  <2> QED
    BY <2>1, <2>2, <2>3
<1> QED
  BY <1>1, <1>2, DeviceFrame

(* The steps that leave a loop or begin a wait.                            *)
LEMMA DeviceBranch ==
    ASSUME DeviceInv,
           \/ Head \/ FatalCheck
           \/ OpenUnavailable \/ OpenDenied \/ OpenFails
           \/ EventUnavailable \/ ReadFails \/ SourceDisconnected
    PROVE  DeviceInv'
<1>1. /\ UNCHANGED <<rc_vars, source_vars, virtual_vars, phase, fatal_result,
                     shutdown_requested>>
      /\ pc \in {"head", "act"}
      /\ \/ /\ pc' \in {"process", "idle", "lost"}
            /\ pc' = "lost" => phase = "forward"
            /\ UNCHANGED result
         \/ /\ pc' = "cleanup"
            /\ result' = "SUCCESS" => shutdown_requested
            /\ result' = "INVALID_ARGUMENT" =>
                   fatal_result = "INVALID_ARGUMENT"
  BY DEF Head, FatalCheck, OpenUnavailable, OpenDenied, OpenFails,
      EventUnavailable, ReadFails, SourceDisconnected, Acquiring, Forwarding,
      Goto, Terminate, flag_vars, world_vars
<1>2. SameMode /\ SameAvailability
  BY <1>1, UnchangedFrame
<1> QED
  BY <1>1, <1>2
  DEF DeviceInv, SourceByStep, VirtualByStep, ResultByStep, Ending,
      source_vars, virtual_vars, SameAvailability

(* A state correction changes nothing of the virtual device but its state, *)
(* and has no precondition that fails while there are two devices.         *)
LEMMA CorrectionFrame ==
    ASSUME virtual_device # NoDevice, NEW outcome \in Results
    PROVE  /\ Neutralize(outcome) =>
                  UNCHANGED virtual_device /\ outcome # "INVALID_ARGUMENT"
           /\ source_device # "null" /\ Synchronize(outcome) =>
                  UNCHANGED virtual_device /\ outcome # "INVALID_ARGUMENT"
  BY DEF Neutralize, Synchronize, CheckAvailable

(* A Pause or Resume finds two devices whenever it corrects one.           *)
LEMMA DeviceRequest ==
    ASSUME DeviceInv, NEW pause \in BOOLEAN, RequestPaused(pause)
    PROVE  DeviceInv'
<1>1. /\ UNCHANGED <<pc, phase, result, source_vars, world_vars>>
      /\ pc \in {"process", "idle_process"}
  BY DEF RequestPaused, Processing, control_vars
<1>2. SameAvailability
  BY DispatchFrame DEF RequestPaused
<1>3. CASE UNCHANGED <<virtual_vars, fatal_result>>
  BY <1>1, <1>2, <1>3, DeviceFrame DEF world_vars
<1>4. ASSUME source_available
      PROVE  /\ phase = "forward" /\ source_device # "null"
             /\ virtual_device # NoDevice
  BY <1>1, <1>4 DEF DeviceInv, SourceByStep, VirtualByStep, Ending, Phases
<1>5. ASSUME source_available, UNCHANGED virtual_device,
             fatal_result' \in {fatal_result}
                                  \cup (Failures \ {"INVALID_ARGUMENT"})
      PROVE  DeviceInv'
  BY <1>1, <1>2, <1>4, <1>5
  DEF DeviceInv, SourceByStep, VirtualByStep, ResultByStep, Ending,
      source_vars, world_vars, SameAvailability, Failures
<1>6. CASE /\ source_available
           /\ IF pause THEN Neutralize("SUCCESS") ELSE Synchronize("SUCCESS")
           /\ UNCHANGED fatal_result
  <2>1. Neutralize("SUCCESS") \/ Synchronize("SUCCESS")
    BY <1>6
  <2>2. UNCHANGED virtual_device
    BY <1>4, <1>6, <2>1, CorrectionFrame DEF Results
  <2> QED
    BY <1>5, <1>6, <2>2
<1>7. CASE /\ source_available
           /\ \E failure \in Failures :
                  /\ IF pause THEN Neutralize(failure)
                              ELSE Synchronize(failure)
                  /\ fatal_result' = failure
  <2>1. PICK failure \in Failures :
            /\ Neutralize(failure) \/ Synchronize(failure)
            /\ fatal_result' = failure
    BY <1>7
  <2>2. UNCHANGED virtual_device /\ failure # "INVALID_ARGUMENT"
    BY <1>4, <1>7, <2>1, CorrectionFrame DEF Results
  <2> QED
    BY <1>5, <1>7, <2>1, <2>2
<1> QED
  BY <1>3, <1>6, <1>7 DEF RequestPaused

(* The steps of create_active_devices that have a source.                  *)
LEMMA DeviceAcquire ==
    ASSUME DeviceInv, ControlByStep,
           \/ \E kind \in Kinds, state \in SUBSET Controls :
                  OpenSource(kind, state)
           \/ RetainVirtualDevice \/ ReplaceVirtualDevice \/ ReplaceFails
           \/ SynchronizeSource
    PROVE  DeviceInv'
<1>1. ASSUME NEW kind \in Kinds, NEW state \in SUBSET Controls,
             OpenSource(kind, state)
      PROVE  DeviceInv'
  <2>1. source_available'
    BY <1>1, UndispatchedFrame
    DEF OpenSource, Acquiring, ControlByStep, Processing
  <2> QED
    BY <1>1, <2>1
    DEF OpenSource, Acquiring, Goto, DeviceInv, SourceByStep, VirtualByStep,
        ResultByStep, Ending, Phases, virtual_vars, world_vars
<1>2. CASE RetainVirtualDevice \/ ReplaceVirtualDevice
  <2>1. SameMode /\ SameAvailability
    BY <1>2, UnchangedFrame DEF RetainVirtualDevice, ReplaceVirtualDevice
  <2>2. /\ pc = "adopt" /\ source_device # "null" /\ source_kind \in Kinds
        /\ source_available /\ fatal_result = "SUCCESS"
        /\ phase = "acquire" /\ result = "SUCCESS"
    BY <1>2 DEF RetainVirtualDevice, ReplaceVirtualDevice, DeviceInv,
        SourceByStep, ResultByStep, Ending
  <2>3. /\ UNCHANGED <<source_vars, fatal_result, result, shutdown_requested>>
        /\ virtual_device' = source_kind
        /\ \/ pc' = "head" /\ phase' = "forward"
           \/ pc' = "synchronize" /\ ~paused /\ UNCHANGED phase
    BY <1>2 DEF RetainVirtualDevice, ReplaceVirtualDevice, Compatible,
        Adopted, BeginForwarding, Goto, virtual_vars, world_vars
  <2> QED
    BY <2>1, <2>2, <2>3, SessionAssumption
    DEF DeviceInv, SourceByStep, VirtualByStep, ResultByStep, Ending, Phases,
        source_vars, SameMode, SameAvailability
<1>3. CASE ReplaceFails
  <2>1. ~source_available'
    BY <1>3, UndispatchedFrame
    DEF ReplaceFails, CloseSourceDevice, ControlByStep, Processing
  <2> QED
    BY <1>3, <2>1
    DEF ReplaceFails, CloseSourceDevice, CloseSource, DestroyVirtualDevice,
        Terminate, DeviceInv, SourceByStep, VirtualByStep, ResultByStep,
        Ending, Phases, flag_vars, world_vars
<1>4. CASE SynchronizeSource
  <2>1. SameMode /\ SameAvailability
    BY <1>4, UnchangedFrame DEF SynchronizeSource
  <2>2. /\ pc = "synchronize" /\ source_device # "null"
        /\ virtual_device # NoDevice /\ source_available
        /\ fatal_result = "SUCCESS" /\ phase = "acquire"
        /\ result = "SUCCESS" /\ source_kind \in Kinds
    BY <1>4 DEF SynchronizeSource, DeviceInv, SourceByStep, VirtualByStep,
        ResultByStep, Ending
  <2>3. /\ UNCHANGED <<source_vars, virtual_device, fatal_result,
                       shutdown_requested>>
        /\ \/ pc' = "head" /\ phase' = "forward" /\ UNCHANGED result
           \/ /\ pc' = "cleanup" /\ UNCHANGED phase
              /\ result' \in Failures \ {"INVALID_ARGUMENT"}
    BY <1>4, <2>2, CorrectionFrame
    DEF SynchronizeSource, BeginForwarding, Terminate, world_vars,
        Results
  <2> QED
    BY <2>1, <2>2, <2>3
    DEF DeviceInv, SourceByStep, VirtualByStep, ResultByStep, Ending, Phases,
        source_vars, SameAvailability, Failures
<1> QED
  BY <1>1, <1>2, <1>3, <1>4

(* The reads of the inner loop, and hotplug.                               *)
LEMMA DeviceRead ==
    ASSUME DeviceInv, ControlByStep,
           \/ \E event \in Controls \cup Stateless, active \in BOOLEAN :
                  ProcessEvent(event, active)
           \/ \E state \in SUBSET Controls : RecoverSynchronization(state)
           \/ \E path \in PathStates : ChangePath(path)
    PROVE  DeviceInv'
<1>1. CASE \/ \E event \in Controls \cup Stateless, active \in BOOLEAN :
                  ProcessEvent(event, active)
           \/ \E state \in SUBSET Controls : RecoverSynchronization(state)
  <2>1. /\ pc = "act" /\ phase = "forward"
        /\ UNCHANGED <<source_device, source_kind, virtual_device, phase,
                       fatal_result, shutdown_requested>>
        /\ \/ pc' = "head" /\ UNCHANGED result
           \/ pc' = "cleanup" /\ result' = "EVENT_WRITE_FAILED"
    BY <1>1 DEF ProcessEvent, RecoverSynchronization, Forwarding, Forward,
        Goto, Terminate, virtual_vars, flag_vars, world_vars
  <2>2. SameAvailability
    <3>1. CASE \E state \in SUBSET Controls : RecoverSynchronization(state)
      BY <3>1, UnchangedFrame DEF RecoverSynchronization
    <3>2. ASSUME NEW event, NEW active, ProcessEvent(event, active)
          PROVE  SameAvailability
      <4>1. PhysicalActivity \/ UNCHANGED rc_vars
        BY <3>2 DEF ProcessEvent, Observe
      <4>2. Undispatched
        BY <2>1 DEF ControlByStep, Processing
      <4> QED
        BY <4>1, <4>2, UndispatchedFrame, UnchangedFrame
    <3> QED
      BY <1>1, <3>1, <3>2
  <2> QED
    BY <2>1, <2>2
    DEF DeviceInv, SourceByStep, VirtualByStep, ResultByStep, Ending, Phases,
        SameAvailability
<1>2. ASSUME NEW path \in PathStates, ChangePath(path)
      PROVE  DeviceInv'
  <2>1. SameMode /\ SameAvailability
    BY <1>2, UnchangedFrame DEF ChangePath
  <2>2. /\ UNCHANGED <<pc, phase, result, source_kind, virtual_vars,
                       fatal_result, shutdown_requested>>
        /\ source_device' = "null" <=> source_device = "null"
    BY <1>2 DEF ChangePath, control_vars, flag_vars
  <2> QED
    BY <2>1, <2>2
    DEF DeviceInv, SourceByStep, VirtualByStep, ResultByStep, Ending,
        virtual_vars, SameMode, SameAvailability
<1> QED
  BY <1>1, <1>2

(* Source loss and the end.                                                *)
LEMMA DeviceFinish ==
    ASSUME DeviceInv, ControlByStep, Finish
    PROVE  DeviceInv'
<1>1. CASE LoseSource
  BY <1>1
  DEF LoseSource, Goto, DeviceInv, SourceByStep, VirtualByStep, ResultByStep,
      Ending, source_vars, virtual_vars, flag_vars, world_vars
<1>2. CASE NeutralizeLost
  <2>1. ~source_available'
    BY <1>2, UndispatchedFrame
    DEF NeutralizeLost, CloseSourceDevice, ControlByStep, Processing
  <2>2. /\ pc = "neutralize" /\ virtual_device # NoDevice
        /\ result = "SUCCESS"
    BY <1>2 DEF NeutralizeLost, DeviceInv, SourceByStep, VirtualByStep,
        ResultByStep, Ending
  <2>3. /\ source_device' = "null"
        /\ UNCHANGED <<virtual_device, fatal_result, shutdown_requested>>
        /\ \/ pc' = "head" /\ phase' = "acquire" /\ UNCHANGED result
           \/ /\ pc' = "cleanup" /\ UNCHANGED phase
              /\ result' \in Failures \ {"INVALID_ARGUMENT"}
    <3>1. source_device' = "null" /\ UNCHANGED <<fatal_result, world_vars>>
      BY <1>2 DEF NeutralizeLost, CloseSourceDevice, CloseSource
    <3>2. CASE Neutralize("SUCCESS") /\ pc' = "head" /\ phase' = "acquire"
               /\ UNCHANGED result
      BY <2>2, <3>1, <3>2, CorrectionFrame DEF Results, world_vars
    <3>3. ASSUME NEW failure \in Failures, Neutralize(failure),
                 Terminate(failure)
          PROVE  /\ UNCHANGED <<virtual_device, phase>> /\ pc' = "cleanup"
                 /\ result' \in Failures \ {"INVALID_ARGUMENT"}
      BY <2>2, <3>3, CorrectionFrame DEF Results, Terminate
    <3> QED
      BY <1>2, <3>1, <3>2, <3>3 DEF NeutralizeLost, world_vars
  <2> QED
    BY <2>1, <2>2, <2>3
    DEF DeviceInv, SourceByStep, VirtualByStep, ResultByStep, Ending, Phases,
        Failures
<1>3. CASE CleanupActiveDevices
  <2>1. ~source_available'
    BY <1>3, UndispatchedFrame
    DEF CleanupActiveDevices, ControlByStep, Processing
  <2> QED
    BY <1>3, <2>1
    DEF CleanupActiveDevices, CloseSource, DestroyVirtualDevice, Goto,
        DeviceInv, SourceByStep, VirtualByStep, ResultByStep, Ending,
        flag_vars, world_vars
<1>4. CASE ReleaseControl
  <2>1. SameAvailability
    BY <1>4 DEF ReleaseControl, Release, SameAvailability, source_available
  <2> QED
    BY <1>4, <2>1
    DEF ReleaseControl, Goto, DeviceInv, SourceByStep, VirtualByStep,
        ResultByStep, Ending, source_vars, virtual_vars, flag_vars,
        world_vars, SameAvailability
<1> QED
  BY <1>1, <1>2, <1>3, <1>4 DEF Finish

(* The invariant of the devices is inductive.                              *)
LEMMA DeviceNext == DeviceInv /\ ControlByStep /\ [Next]_vars => DeviceInv'
  BY DeviceLoop, DeviceBranch, DeviceRequest, DeviceAcquire, DeviceRead,
     DeviceFinish
  DEF Next, SessionStep, Environment, Acquire, Read

(* Devices, SourceAvailable, result and step stay tied to each other.      *)
THEOREM DeviceInvariant == Spec => [](DeviceInv /\ ControlByStep)
  BY ControlInit, ControlNext, DeviceInit, DeviceNext, PTL DEF Spec

(* A method handler finds the devices SourceAvailable promises.            *)
THEOREM CorrectionsHaveDevices == Spec => []HandlerHasDevices
<1>1. DeviceInv => HandlerHasDevices
  BY DEF HandlerHasDevices, DeviceInv, SourceByStep, VirtualByStep,
      ResultByStep, Processing, Ending, Phases
<1> QED
  BY <1>1, DeviceInvariant, PTL

(* Success is the answer to a shutdown request.                            *)
THEOREM SuccessRequested == Spec => []SuccessOnlyOnShutdown
<1>1. DeviceInv => SuccessOnlyOnShutdown
  BY DEF SuccessOnlyOnShutdown, DeviceInv, ResultByStep, Ending
<1> QED
  BY <1>1, DeviceInvariant, PTL

(* A session that has ended holds nothing.                                 *)
THEOREM EndReleasesEverything == Spec => []EverythingReleased
<1>1. DeviceInv /\ ControlByStep => EverythingReleased
  BY DEF EverythingReleased, DeviceInv, SourceByStep, VirtualByStep,
      ControlByStep
<1> QED
  BY <1>1, DeviceInvariant, PTL

(* A virtual device that goes away is cleaned up or replaced.              *)
THEOREM DeviceRetained == Spec => VirtualDeviceRetained
<1>1. ASSUME DeviceInv, [Next]_vars, virtual_device # NoDevice,
             virtual_device' # virtual_device
      PROVE  \/ pc = "cleanup"
             \/ pc = "adopt" /\ source_kind # virtual_device
  <2>1. ASSUME UNCHANGED virtual_device
        PROVE  FALSE
    BY <1>1, <2>1
  <2>2. CASE \/ Head \/ ProcessDone \/ ProcessFails \/ ProcessMethod
             \/ RecoverControl \/ ProcessActivityTimers \/ FatalCheck
             \/ LoseSource \/ ReleaseControl \/ RequestShutdown \/ Tick
             \/ \E path \in PathStates : ChangePath(path)
             \/ UNCHANGED vars
    BY <2>1, <2>2
    DEF Head, ProcessDone, ProcessFails, ProcessMethod, RecoverControl,
        ProcessActivityTimers, FatalCheck, LoseSource, ReleaseControl,
        RequestShutdown, Tick, ChangePath, vars, virtual_vars
  <2>3. CASE Read
    BY <2>1, <2>3
    DEF Read, ProcessEvent, Forward, EventUnavailable, ReadFails,
        SourceDisconnected, RecoverSynchronization, virtual_vars
  <2>4. CASE NeutralizeLost \/ \E pause \in BOOLEAN : RequestPaused(pause)
    BY <2>1, <2>4
    DEF NeutralizeLost, RequestPaused, Neutralize, Synchronize, virtual_vars
  <2>5. CASE CleanupActiveDevices
    BY <2>5 DEF CleanupActiveDevices
  <2>6. CASE Acquire
    BY <2>1, <2>6
    DEF Acquire, OpenUnavailable, OpenDenied, OpenFails, OpenSource,
        RetainVirtualDevice, ReplaceVirtualDevice, ReplaceFails,
        SynchronizeSource, Synchronize, Compatible, virtual_vars
  <2> QED
    BY <1>1, <2>2, <2>3, <2>4, <2>5, <2>6
    DEF Next, SessionStep, Environment, Finish
<1>2. DeviceInv /\ [Next]_vars =>
          [virtual_device # NoDevice /\ virtual_device' # virtual_device =>
               \/ pc = "cleanup"
               \/ pc = "adopt" /\ source_kind # virtual_device]_vars
  BY <1>1
<1> QED
  BY <1>2, DeviceInvariant, PTL DEF Spec, VirtualDeviceRetained

-----------------------------------------------------------------------------
(* The states of the two devices.                                          *)

StateInv == ForwardingFaithful /\ SuppressedIsNeutral

(* The invariant of the states holds at first.                             *)
LEMMA StateInit == Init => StateInv
  BY DEF Init, StateInv, ForwardingFaithful, SuppressedIsNeutral

(* Nothing but a new failure or the loss of the source happened.           *)
LEMMA StateFrame ==
    ASSUME StateInv, SameMode,
           UNCHANGED <<phase, virtual_state, tracked>>,
           SameAvailability \/ ~source_available',
           Trusted' => Trusted
    PROVE  StateInv'
  BY DEF StateInv, ForwardingFaithful, SuppressedIsNeutral, SameMode,
      SameAvailability

(* A step that ends with a failure leaves nothing to show.                 *)
LEMMA StateFailed == ~Trusted' => StateInv'
  BY DEF StateInv, ForwardingFaithful, SuppressedIsNeutral

(* The steps that write nothing to a device.                               *)
LEMMA StateLoop ==
    ASSUME StateInv, DeviceInv, ControlByStep,
           \/ Head \/ ProcessDone \/ ProcessFails \/ ProcessMethod
           \/ RecoverControl \/ ProcessActivityTimers \/ FatalCheck
           \/ OpenUnavailable \/ OpenDenied \/ OpenFails
           \/ EventUnavailable \/ ReadFails \/ SourceDisconnected
           \/ LoseSource \/ ReleaseControl
           \/ RequestShutdown \/ Tick \/ UNCHANGED vars
           \/ \E path \in PathStates : ChangePath(path)
    PROVE  StateInv'
<1>1. CASE \/ ProcessDone \/ Head \/ FatalCheck \/ OpenUnavailable
           \/ OpenDenied \/ OpenFails \/ EventUnavailable \/ ReadFails
           \/ SourceDisconnected \/ RequestShutdown \/ UNCHANGED vars
           \/ \E path \in PathStates : ChangePath(path)
  <2>1. UNCHANGED <<rc_vars, phase, virtual_state, tracked, fatal_result>>
    BY <1>1 DEF ProcessDone, Head, FatalCheck, OpenUnavailable, OpenDenied,
        OpenFails, EventUnavailable, ReadFails, SourceDisconnected,
        RequestShutdown, ChangePath, vars, Acquiring, Forwarding, Goto,
        Terminate, Advance, control_vars, source_vars, virtual_vars,
        flag_vars
  <2>2. Trusted' => Trusted
    BY <1>1, <2>1
    DEF ProcessDone, Head, FatalCheck, OpenUnavailable, OpenDenied,
        OpenFails, EventUnavailable, ReadFails, SourceDisconnected,
        RequestShutdown, ChangePath, vars, Acquiring, Forwarding, Goto,
        Terminate, Advance, control_vars, Trusted, DeviceInv, ResultByStep,
        Ending, Processing
  <2> QED
    BY <2>1, <2>2, UnchangedFrame, StateFrame
<1>2. CASE \/ ProcessFails \/ ProcessMethod \/ RecoverControl
           \/ ProcessActivityTimers \/ LoseSource \/ ReleaseControl \/ Tick
  <2>1. UNCHANGED <<phase, result, fatal_result, virtual_state, tracked>>
    BY <1>2 DEF ProcessFails, ProcessMethod, RecoverControl,
        ProcessActivityTimers, LoseSource, ReleaseControl, Tick, Goto,
        Advance, control_vars, source_vars, virtual_vars, flag_vars
  <2>2. SameMode /\ (SameAvailability \/ ~source_available')
    <3>1. CASE ProcessFails \/ ProcessMethod
      BY <3>1, DispatchFrame DEF ProcessFails, ProcessMethod
    <3>2. CASE RecoverControl \/ ProcessActivityTimers \/ LoseSource
      BY <3>2, UndispatchedFrame
      DEF RecoverControl, ProcessActivityTimers, LoseSource, ControlByStep,
          Processing
    <3>3. CASE ReleaseControl \/ Tick
      BY <3>3 DEF ReleaseControl, Release, Tick, ElapseRC, SameMode,
          SameAvailability, paused, source_available
    <3> QED
      BY <1>2, <3>1, <3>2, <3>3
  <2> QED
    BY <2>1, <2>2, StateFrame DEF Trusted
<1> QED
  BY <1>1, <1>2

(* A Pause or Resume that commits has corrected the state, or had no       *)
(* source to correct it for.                                               *)
LEMMA StateRequest ==
    ASSUME StateInv, DeviceInv, NEW pause \in BOOLEAN, RequestPaused(pause)
    PROVE  StateInv'
<1>1. /\ UNCHANGED <<pc, phase, result, source_vars>>
      /\ SameAvailability
      /\ pc \in {"process", "idle_process"}
  BY DispatchFrame DEF RequestPaused, Processing, control_vars
<1>2. source_available <=> phase = "forward"
  BY <1>1 DEF DeviceInv, SourceByStep, Ending, Phases
<1>3. CASE /\ paused = pause
           /\ AnswerWithoutCommit
           /\ UNCHANGED <<virtual_vars, fatal_result>>
  BY <1>1, <1>3, DispatchFrame, StateFrame
  DEF source_vars, virtual_vars, Trusted
<1>4. CASE /\ ~source_available
           /\ CommitPaused(pause)
           /\ UNCHANGED <<virtual_vars, fatal_result>>
  BY <1>1, <1>2, <1>4
  DEF source_vars, virtual_vars, Trusted, StateInv, ForwardingFaithful,
      SuppressedIsNeutral, SameAvailability, DeviceInv, Phases
<1>5. CASE /\ source_available
           /\ IF pause THEN Neutralize("SUCCESS") ELSE Synchronize("SUCCESS")
           /\ CommitPaused(pause)
           /\ UNCHANGED fatal_result
  <2>1. paused' <=> pause
    BY <1>5, DispatchFrame
  <2>2. CASE pause
    <3>1. virtual_state' \cap Momentary = {}
      BY <1>5, <2>2 DEF Neutralize
    <3> QED
      BY <2>1, <2>2, <3>1
      DEF StateInv, ForwardingFaithful, SuppressedIsNeutral
  <2>3. CASE ~pause
    <3>1. virtual_state' = tracked
      BY <1>5, <2>3 DEF Synchronize, CapturedState
    <3> QED
      BY <1>1, <1>2, <1>5, <2>1, <2>3, <3>1
      DEF source_vars, StateInv, ForwardingFaithful, SuppressedIsNeutral
  <2> QED
    BY <2>2, <2>3
<1>6. CASE \E failure \in Failures : fatal_result' = failure
  BY <1>6, StateFailed DEF Failures, Trusted
<1> QED
  BY <1>3, <1>4, <1>5, <1>6 DEF RequestPaused

(* A new device is neutral; forwarding begins with the source state.       *)
LEMMA StateAcquire ==
    ASSUME StateInv, DeviceInv, ControlByStep,
           \/ \E kind \in Kinds, state \in SUBSET Controls :
                  OpenSource(kind, state)
           \/ RetainVirtualDevice \/ ReplaceVirtualDevice \/ ReplaceFails
           \/ SynchronizeSource
    PROVE  StateInv'
<1>1. ASSUME NEW kind \in Kinds, NEW state \in SUBSET Controls,
             OpenSource(kind, state)
      PROVE  StateInv'
  <2>1. /\ phase = "acquire"
        /\ UNCHANGED <<phase, result, fatal_result, virtual_state>>
    BY <1>1 DEF OpenSource, Acquiring, Goto, virtual_vars
  <2> QED
    BY <2>1 DEF StateInv, ForwardingFaithful, SuppressedIsNeutral, Trusted
<1>2. CASE RetainVirtualDevice \/ ReplaceVirtualDevice
  <2>1. SameMode
    BY <1>2, UnchangedFrame DEF RetainVirtualDevice, ReplaceVirtualDevice
  <2>2. /\ phase = "acquire"
        /\ UNCHANGED <<result, fatal_result>>
        /\ virtual_state' \in {virtual_state, CreatedState}
        /\ paused \/ UNCHANGED phase
    BY <1>2 DEF RetainVirtualDevice, ReplaceVirtualDevice, Adopted,
        BeginForwarding, Goto, virtual_vars, DeviceInv, SourceByStep
  <2>3. CreatedState \cap Momentary = {}
    BY SessionAssumption DEF CreatedState, Momentary
  <2> QED
    BY <2>1, <2>2, <2>3
    DEF StateInv, ForwardingFaithful, SuppressedIsNeutral, Trusted, SameMode
<1>3. CASE ReplaceFails
  BY <1>3, StateFailed DEF ReplaceFails, Terminate, Trusted
<1>4. CASE SynchronizeSource
  <2>1. CASE Synchronize("SUCCESS") /\ BeginForwarding
    <3>1. virtual_state' = tracked' /\ phase' = "forward" /\ ~paused'
      BY <1>4, <2>1, UnchangedFrame
      DEF SynchronizeSource, Synchronize, CapturedState, BeginForwarding,
          DeviceInv, VirtualByStep, source_vars, SameMode
    <3> QED
      BY <3>1 DEF StateInv, ForwardingFaithful, SuppressedIsNeutral
  <2>2. CASE \E failure \in Failures : Terminate(failure)
    BY <2>2, StateFailed DEF Terminate, Failures, Trusted
  <2> QED
    BY <1>4, <2>1, <2>2 DEF SynchronizeSource
<1> QED
  BY <1>1, <1>2, <1>3, <1>4

(* A forwarded event changes both devices alike, a suppressed one only the *)
(* record of the source.                                                   *)
LEMMA StateRead ==
    ASSUME StateInv, DeviceInv, ControlByStep,
           \/ \E event \in Controls \cup Stateless, active \in BOOLEAN :
                  ProcessEvent(event, active)
           \/ \E state \in SUBSET Controls : RecoverSynchronization(state)
    PROVE  StateInv'
<1>1. ASSUME NEW event, NEW active, ProcessEvent(event, active)
      PROVE  StateInv'
  <2>1. SameMode /\ SameAvailability
    <3>1. PhysicalActivity \/ UNCHANGED rc_vars
      BY <1>1 DEF ProcessEvent, Observe
    <3>2. Undispatched
      BY <1>1 DEF ProcessEvent, Forwarding, ControlByStep, Processing
    <3> QED
      BY <3>1, <3>2, UndispatchedFrame, UnchangedFrame
  <2>2. CASE Terminate("EVENT_WRITE_FAILED")
    BY <2>2, StateFailed DEF Terminate, Trusted
  <2>3. CASE Forward(event, active) /\ Goto("head")
    <3>1. /\ phase = "forward"
          /\ UNCHANGED <<phase, result, fatal_result>>
          /\ tracked' = Applied(tracked, event, active)
          /\ IF paused
             THEN UNCHANGED virtual_state
             ELSE virtual_state' = Applied(virtual_state, event, active)
      BY <1>1, <2>3
      DEF ProcessEvent, Forwarding, Forward, Goto, flag_vars
    <3> QED
      BY <2>1, <3>1
      DEF StateInv, ForwardingFaithful, SuppressedIsNeutral, Trusted,
          SameMode, SameAvailability
  <2> QED
    BY <1>1, <2>2, <2>3 DEF ProcessEvent
<1>2. ASSUME NEW state \in SUBSET Controls, RecoverSynchronization(state)
      PROVE  StateInv'
  <2> DEFINE difference == (tracked \ state) \cup (state \ tracked)
  <2>1. SameMode /\ SameAvailability
    BY <1>2, UnchangedFrame DEF RecoverSynchronization
  <2>2. CASE Terminate("EVENT_WRITE_FAILED")
    BY <2>2, StateFailed DEF Terminate, Trusted
  <2>3. CASE Goto("head")
    <3>1. /\ phase = "forward"
          /\ UNCHANGED <<phase, result, fatal_result>>
          /\ tracked' = state
          /\ IF paused
             THEN UNCHANGED virtual_state
             ELSE virtual_state' = (virtual_state \ difference)
                                       \cup (state \cap difference)
      BY <1>2, <2>3
      DEF RecoverSynchronization, Forwarding, Goto, Terminate, flag_vars
    <3>2. (tracked \ difference) \cup (state \cap difference) = state
      OBVIOUS
    <3> QED
      BY <2>1, <3>1, <3>2
      DEF StateInv, ForwardingFaithful, SuppressedIsNeutral, Trusted,
          SameMode, SameAvailability
  <2> QED
    BY <1>2, <2>2, <2>3 DEF RecoverSynchronization
<1> QED
  BY <1>1, <1>2

(* The loss of the source neutralizes, the end destroys.                   *)
LEMMA StateFinish ==
    ASSUME StateInv, DeviceInv, ControlByStep,
           NeutralizeLost \/ CleanupActiveDevices
    PROVE  StateInv'
<1>1. CASE NeutralizeLost
  <2>1. CASE \E failure \in Failures : Terminate(failure)
    BY <2>1, StateFailed DEF Terminate, Failures, Trusted
  <2>2. CASE Neutralize("SUCCESS") /\ phase' = "acquire"
    <3>1. virtual_state' \cap Momentary = {}
      BY <2>2 DEF Neutralize
    <3> QED
      BY <2>2, <3>1 DEF StateInv, ForwardingFaithful, SuppressedIsNeutral
  <2> QED
    BY <1>1, <2>1, <2>2 DEF NeutralizeLost
<1>2. CASE CleanupActiveDevices
  <2>1. virtual_state' = {} /\ tracked' = {}
    BY <1>2 DEF CleanupActiveDevices, DestroyVirtualDevice, CloseSource
  <2> QED
    BY <2>1 DEF StateInv, ForwardingFaithful, SuppressedIsNeutral
<1> QED
  BY <1>1, <1>2

(* The invariant of the states is inductive, given that of the devices.    *)
LEMMA StateNext ==
    StateInv /\ DeviceInv /\ ControlByStep /\ [Next]_vars => StateInv'
  BY StateLoop, StateRequest, StateAcquire, StateRead, StateFinish
  DEF Next, SessionStep, Environment, Acquire, Read, Finish

(* Both states agree as long as no correction and no write has failed.     *)
THEOREM StateInvariant == Spec => []StateInv
  BY StateInit, StateNext, DeviceInvariant, PTL DEF Spec

(* What the kernel holds for a forwarding session is what libevdev handed  *)
(* out of the source.                                                      *)
THEOREM ForwardingIsFaithful == Spec => []ForwardingFaithful
<1>1. StateInv => ForwardingFaithful
  BY DEF StateInv
<1> QED
  BY <1>1, StateInvariant, PTL

(* A paused or waiting session holds no key, button or contact down.       *)
THEOREM SuppressionIsNeutral == Spec => []SuppressedIsNeutral
<1>1. StateInv => SuppressedIsNeutral
  BY DEF StateInv
<1> QED
  BY <1>1, StateInvariant, PTL

-----------------------------------------------------------------------------
(* What a step may do to the virtual device.                               *)

(* A paused session does not touch the device it keeps: what the loss of   *)
(* the source would release is released already.                           *)
THEOREM PausedUntouched == Spec => PausedDeviceUntouched
<1>1. ASSUME StateInv, DeviceInv, [Next]_vars,
             paused, paused', Trusted', virtual_device' = virtual_device
      PROVE  UNCHANGED <<virtual_state, consumer_state>>
  <2>1. CASE \/ Head \/ ProcessDone \/ ProcessFails \/ ProcessMethod
             \/ RecoverControl \/ ProcessActivityTimers \/ FatalCheck
             \/ LoseSource \/ ReleaseControl \/ RequestShutdown \/ Tick
             \/ \E path \in PathStates : ChangePath(path)
             \/ UNCHANGED vars
    BY <2>1
    DEF Head, ProcessDone, ProcessFails, ProcessMethod, RecoverControl,
        ProcessActivityTimers, FatalCheck, LoseSource, ReleaseControl,
        RequestShutdown, Tick, ChangePath, vars, virtual_vars
  <2>2. ASSUME NEW pause \in BOOLEAN, RequestPaused(pause)
        PROVE  UNCHANGED <<virtual_state, consumer_state>>
    <3>1. ~CommitPaused(pause)
      <4>1. SUFFICES ASSUME CommitPaused(pause) PROVE FALSE
        OBVIOUS
      <4>2. (paused' <=> pause) /\ paused # pause
        BY <4>1, DispatchFrame
      <4> QED
        BY <1>1, <4>2
    <3>2. ~\E failure \in Failures : fatal_result' = failure
      BY <1>1 DEF Trusted, Failures
    <3> QED
      BY <2>2, <3>1, <3>2 DEF RequestPaused, virtual_vars
  <2>3. CASE Read
    BY <1>1, <2>3
    DEF Read, ProcessEvent, Forward, EventUnavailable, ReadFails,
        SourceDisconnected, RecoverSynchronization, virtual_vars
  <2>4. CASE NeutralizeLost
    <3>1. Trusted /\ virtual_state \cap Momentary = {}
      BY <1>1, <2>4
      DEF NeutralizeLost, Trusted, StateInv, SuppressedIsNeutral, DeviceInv,
          ResultByStep, Ending
    <3>2. Neutralize("SUCCESS")
      BY <1>1, <2>4 DEF NeutralizeLost, Terminate, Trusted, Failures
    <3> QED
      BY <3>1, <3>2 DEF Neutralize
  <2>5. CASE CleanupActiveDevices
    BY <1>1, <2>5
    DEF CleanupActiveDevices, DestroyVirtualDevice, DeviceInv, VirtualByStep
  <2>6. CASE Acquire
    <3>1. CASE ReplaceVirtualDevice
      BY <1>1, <3>1 DEF ReplaceVirtualDevice, Compatible
    <3>2. CASE SynchronizeSource
      BY <1>1, <3>2 DEF SynchronizeSource, DeviceInv, VirtualByStep
    <3>3. CASE ReplaceFails
      BY <1>1, <3>3 DEF ReplaceFails, Terminate, Trusted
    <3> QED
      BY <2>6, <3>1, <3>2, <3>3
      DEF Acquire, OpenUnavailable, OpenDenied, OpenFails, OpenSource,
          RetainVirtualDevice, virtual_vars
  <2> QED
    BY <1>1, <2>1, <2>2, <2>3, <2>4, <2>5, <2>6
    DEF Next, SessionStep, Environment, Finish
<1>2. StateInv /\ DeviceInv /\ [Next]_vars =>
          [paused /\ paused' /\ Trusted' /\ virtual_device' = virtual_device =>
               UNCHANGED <<virtual_state, consumer_state>>]_vars
  BY <1>1
<1> QED
  BY <1>2, StateInvariant, DeviceInvariant, PTL
  DEF Spec, PausedDeviceUntouched

(* Forwarding begins only with a completed synchronization.                *)
THEOREM SynchronizedStart == Spec => ForwardingStartsSynchronized
<1> DEFINE Synchronized ==
        /\ consumer_state' = tracked'
        /\ virtual_state' = tracked'
        /\ source_device = "live"
<1>1. ASSUME DeviceInv, ControlByStep, [Next]_vars, ~Forwards, Forwards'
      PROVE  Synchronized
  <2>1. ASSUME SameMode, SameAvailability \/ ~source_available',
               UNCHANGED phase \/ phase' = "acquire"
        PROVE  FALSE
    BY <1>1, <2>1 DEF Forwards, SameMode, SameAvailability
  <2>2. ASSUME Synchronize("SUCCESS"), UNCHANGED tracked
        PROVE  Synchronized
    BY <2>2 DEF Synchronize, CheckAvailable, CapturedState
  <2>3. CASE \/ Head \/ ProcessDone \/ FatalCheck \/ RequestShutdown
             \/ OpenUnavailable \/ OpenDenied \/ OpenFails
             \/ EventUnavailable \/ ReadFails \/ SourceDisconnected
             \/ \E path \in PathStates : ChangePath(path)
             \/ \E state \in SUBSET Controls : RecoverSynchronization(state)
             \/ UNCHANGED vars
    <3>1. UNCHANGED rc_vars /\ UNCHANGED phase
      BY <2>3 DEF Head, ProcessDone, FatalCheck, RequestShutdown,
          OpenUnavailable, OpenDenied, OpenFails, EventUnavailable,
          ReadFails, SourceDisconnected, ChangePath, RecoverSynchronization,
          vars, control_vars, Advance, Goto, Terminate
    <3> QED
      BY <2>1, <3>1, UnchangedFrame
  <2>4. CASE ProcessFails \/ ProcessMethod
    BY <2>1, <2>4, DispatchFrame
    DEF ProcessFails, ProcessMethod, Advance, control_vars
  <2>5. CASE \/ RecoverControl \/ ProcessActivityTimers \/ LoseSource
             \/ NeutralizeLost \/ CleanupActiveDevices \/ ReplaceFails
    <3>1. Undispatched
      BY <1>1, <2>5 DEF RecoverControl, ProcessActivityTimers, LoseSource,
          NeutralizeLost, CleanupActiveDevices, ReplaceFails, ControlByStep,
          Processing
    <3>2. /\ Recovery \/ ActivityTimers \/ SetSourceAvailable(FALSE)
          /\ UNCHANGED phase \/ phase' = "acquire"
      BY <2>5 DEF RecoverControl, ProcessActivityTimers, LoseSource,
          NeutralizeLost, CleanupActiveDevices, ReplaceFails,
          CloseSourceDevice, Advance, Goto, Terminate
    <3> QED
      BY <2>1, <3>1, <3>2, UndispatchedFrame
  <2>6. ASSUME NEW event, NEW active, ProcessEvent(event, active)
        PROVE  FALSE
    <3>1. PhysicalActivity \/ UNCHANGED rc_vars
      BY <2>6 DEF ProcessEvent, Observe
    <3>2. Undispatched /\ UNCHANGED phase
      BY <1>1, <2>6 DEF ProcessEvent, Forwarding, Goto, Terminate, ControlByStep,
          Processing
    <3> QED
      BY <2>1, <3>1, <3>2, UndispatchedFrame, UnchangedFrame
  <2>7. CASE ReleaseControl \/ Tick
    <3>1. UNCHANGED runtime_state /\ UNCHANGED phase
      BY <2>7 DEF ReleaseControl, Release, Goto, Tick, ElapseRC, control_vars
    <3> QED
      BY <2>1, <3>1 DEF SameMode, SameAvailability, paused, source_available
  <2>8. ASSUME NEW pause \in BOOLEAN, RequestPaused(pause)
        PROVE  Synchronized
    <3>1. SameAvailability /\ UNCHANGED <<phase, tracked>>
      BY <2>8, DispatchFrame DEF RequestPaused, control_vars, source_vars
    <3>2. source_available /\ ~SameMode
      BY <1>1, <2>1, <3>1 DEF Forwards, SameAvailability
    <3>3. CommitPaused(pause)
      BY <2>8, <3>2, DispatchFrame DEF RequestPaused
    <3>4. ~pause
      BY <1>1, <3>3, DispatchFrame DEF Forwards
    <3>5. Synchronize("SUCCESS") \/ AnswerWithoutCommit
      BY <2>8, <3>2, <3>4 DEF RequestPaused
    <3> QED
      BY <2>2, <3>1, <3>2, <3>5, DispatchFrame
  <2>9. CASE \E kind \in Kinds, state \in SUBSET Controls :
                 OpenSource(kind, state)
    BY <1>1, <2>9 DEF OpenSource, Acquiring, Goto, Forwards
  <2>10. CASE RetainVirtualDevice \/ ReplaceVirtualDevice
    <3>1. /\ SameMode /\ SameAvailability
          /\ paused \/ UNCHANGED phase
      BY <2>10, UnchangedFrame DEF RetainVirtualDevice,
          ReplaceVirtualDevice, Adopted, Goto
    <3> QED
      BY <1>1, <2>1, <3>1 DEF Forwards, SameMode
  <2>11. CASE SynchronizeSource
    <3>1. UNCHANGED rc_vars /\ UNCHANGED tracked
      BY <2>11 DEF SynchronizeSource, source_vars
    <3>2. Synchronize("SUCCESS") \/ UNCHANGED phase
      BY <2>11 DEF SynchronizeSource, Terminate
    <3> QED
      BY <2>1, <2>2, <3>1, <3>2, UnchangedFrame
  <2> QED
    BY <1>1, <2>3, <2>4, <2>5, <2>6, <2>7, <2>8, <2>9, <2>10, <2>11
    DEF Next, SessionStep, Environment, Acquire, Read, Finish
<1>2. DeviceInv /\ ControlByStep /\ [Next]_vars =>
          [~Forwards /\ Forwards' /\ Trusted => Synchronized]_vars
  BY <1>1
<1> QED
  BY <1>2, DeviceInvariant, PTL DEF Spec, ForwardingStartsSynchronized

(* ReadersSeeRelease, as a property of one step.                           *)
ReleaseSeen ==
    Trusted' /\ Suppressed' =>
        /\ consumer_state' \cap Momentary \subseteq consumer_state
        /\ ~Suppressed /\ virtual_state \cap Momentary # {} =>
               consumer_state' \cap Momentary = {}

(* A step that writes no report, and before which the session is           *)
(* suppressed already; one that reports nothing held; the neutralization.  *)
LEMMA ReleaseArms ==
    /\ UNCHANGED consumer_state /\ (Suppressed' => Suppressed) => ReleaseSeen
    /\ consumer_state' \cap Momentary = {} => ReleaseSeen
    /\ Neutralize("SUCCESS") => ReleaseSeen
    /\ ~Trusted' \/ ~Suppressed' => ReleaseSeen
<1>1. Neutralize("SUCCESS") => ReleaseSeen
  BY DEF Neutralize, ReleaseSeen
<1> QED
  BY <1>1 DEF ReleaseSeen

LEMMA StepSeesRelease ==
    ASSUME StateInv, DeviceInv, ControlByStep, [Next]_vars
    PROVE  ReleaseSeen
<1> USE ReleaseArms
<1>1. ASSUME SameMode, UNCHANGED consumer_state,
             UNCHANGED phase \/ phase' = "forward"
      PROVE  ReleaseSeen
  BY <1>1 DEF SameMode, Suppressed
<1>2. CASE \/ Head \/ ProcessDone \/ FatalCheck \/ RequestShutdown
           \/ OpenUnavailable \/ OpenDenied \/ OpenFails
           \/ RetainVirtualDevice
           \/ EventUnavailable \/ ReadFails \/ SourceDisconnected
           \/ \E path \in PathStates : ChangePath(path)
           \/ UNCHANGED vars
  <2>1. /\ UNCHANGED rc_vars /\ UNCHANGED consumer_state
        /\ UNCHANGED phase \/ phase' = "forward"
    BY <1>2 DEF Head, ProcessDone, FatalCheck, RequestShutdown,
        OpenUnavailable, OpenDenied, OpenFails, RetainVirtualDevice, Adopted,
        BeginForwarding, EventUnavailable, ReadFails, SourceDisconnected,
        ChangePath, vars, control_vars, virtual_vars, Advance, Goto, Terminate
  <2> QED
    BY <1>1, <2>1, UnchangedFrame
<1>3. CASE ProcessFails \/ ProcessMethod
  <2>1. UNCHANGED <<phase, consumer_state>>
    BY <1>3 DEF ProcessFails, ProcessMethod, Advance, control_vars,
        virtual_vars
  <2>2. SameMode
    BY <1>3, DispatchFrame DEF ProcessFails, ProcessMethod
  <2> QED
    BY <1>1, <2>1, <2>2
<1>4. CASE RecoverControl \/ ProcessActivityTimers \/ LoseSource
  <2>1. /\ Undispatched
        /\ Recovery \/ ActivityTimers \/ SetSourceAvailable(FALSE)
        /\ UNCHANGED <<phase, consumer_state>>
    BY <1>4 DEF RecoverControl, ProcessActivityTimers, LoseSource,
        ControlByStep, Processing, Advance, Goto, virtual_vars
  <2> QED
    BY <1>1, <2>1, UndispatchedFrame
<1>5. CASE ReleaseControl \/ Tick
  <2>1. UNCHANGED <<phase, consumer_state, runtime_state>>
    BY <1>5 DEF ReleaseControl, Release, Tick, ElapseRC, Goto, control_vars,
        virtual_vars
  <2> QED
    BY <1>1, <2>1 DEF SameMode, paused
<1>6. ASSUME NEW kind, NEW state, OpenSource(kind, state)
      PROVE  ReleaseSeen
  <2>1. /\ Undispatched /\ SetSourceAvailable(TRUE)
        /\ UNCHANGED <<phase, consumer_state>>
    BY <1>6 DEF OpenSource, Acquiring, ControlByStep, Processing, Goto,
        virtual_vars
  <2> QED
    BY <1>1, <2>1, UndispatchedFrame
<1>7. CASE ReplaceVirtualDevice \/ ReplaceFails \/ CleanupActiveDevices
  <2>1. consumer_state' \cap Momentary = {}
    BY <1>7, SessionAssumption
    DEF ReplaceVirtualDevice, ReplaceFails, CleanupActiveDevices,
        DestroyVirtualDevice, CreatedState, Momentary
  <2> QED
    BY <2>1
<1>8. CASE SynchronizeSource
  <2>1. CASE phase' = "forward"
    <3>1. ~paused /\ SameMode
      BY <1>8, UnchangedFrame DEF SynchronizeSource, DeviceInv, VirtualByStep
    <3> QED
      BY <2>1, <3>1 DEF SameMode, Suppressed
  <2>2. CASE \E failure \in Failures : Terminate(failure)
    BY <2>2 DEF Terminate, Trusted, Failures
  <2> QED
    BY <1>8, <2>1, <2>2 DEF SynchronizeSource, BeginForwarding
<1>9. CASE NeutralizeLost
  <2>1. Neutralize("SUCCESS") \/ \E failure \in Failures : Terminate(failure)
    BY <1>9 DEF NeutralizeLost
  <2> QED
    BY <2>1 DEF Terminate, Trusted, Failures
<1>10. ASSUME NEW event, NEW active, ProcessEvent(event, active)
       PROVE  ReleaseSeen
  <2>1. Undispatched /\ UNCHANGED phase /\ phase = "forward"
    BY <1>10 DEF ProcessEvent, Forwarding, ControlByStep, Processing, Goto,
        Terminate
  <2>2. SameMode
    <3>1. PhysicalActivity \/ UNCHANGED rc_vars
      BY <1>10 DEF ProcessEvent, Observe
    <3> QED
      BY <2>1, <3>1, UndispatchedFrame, UnchangedFrame
  <2>3. paused => UNCHANGED consumer_state
    BY <1>10 DEF ProcessEvent, Forward
  <2> QED
    BY <1>1, <2>1, <2>2, <2>3 DEF Suppressed, SameMode
<1>11. ASSUME NEW state, RecoverSynchronization(state)
       PROVE  ReleaseSeen
  <2>1. /\ UNCHANGED rc_vars /\ UNCHANGED phase /\ phase = "forward"
        /\ paused => UNCHANGED consumer_state
    BY <1>11 DEF RecoverSynchronization, Forwarding, Goto, Terminate
  <2> QED
    BY <1>1, <2>1, UnchangedFrame DEF Suppressed, SameMode
<1>12. ASSUME NEW pause \in BOOLEAN, RequestPaused(pause)
       PROVE  ReleaseSeen
  <2>1. /\ UNCHANGED <<phase>>
        /\ source_available <=> phase = "forward"
        /\ phase \in {"acquire", "forward"}
    BY <1>12 DEF RequestPaused, Processing, control_vars, DeviceInv,
        SourceByStep, Ending, Phases
  <2>2. CASE AnswerWithoutCommit /\ UNCHANGED virtual_vars
    BY <1>1, <2>1, <2>2, DispatchFrame DEF virtual_vars
  <2>3. CASE ~source_available /\ UNCHANGED virtual_vars
    BY <2>1, <2>3 DEF virtual_vars, Suppressed
  <2>4. CASE /\ source_available
             /\ IF pause THEN Neutralize("SUCCESS") ELSE Synchronize("SUCCESS")
             /\ CommitPaused(pause)
    <3>1. ~pause => ~paused' /\ phase' = "forward"
      BY <2>1, <2>4, DispatchFrame
    <3> QED
      BY <2>4, <3>1 DEF Suppressed
  <2>5. CASE \E failure \in Failures : fatal_result' = failure
    BY <2>5 DEF Failures, Trusted
  <2> QED
    BY <1>12, <2>2, <2>3, <2>4, <2>5 DEF RequestPaused
<1> QED
  BY <1>2, <1>3, <1>4, <1>5, <1>6, <1>7, <1>8, <1>9, <1>10, <1>11, <1>12
  DEF Next, SessionStep, Environment, Acquire, Read, Finish

(* ReadersSeeRelease: what is held when the session pauses or loses its    *)
(* source is released for the readers of the device too, and nothing new   *)
(* appears to them until forwarding begins again.                          *)
THEOREM ReleasesAreSeen == Spec => ReadersSeeRelease
<1>1. StateInv /\ DeviceInv /\ ControlByStep /\ [Next]_vars =>
          [ReleaseSeen]_vars
  BY StepSeesRelease
<1> QED
  BY <1>1, StateInvariant, DeviceInvariant, PTL
  DEF Spec, ReadersSeeRelease, ReleaseSeen

-----------------------------------------------------------------------------
(* The way out.                                                            *)

Advances ==
    shutdown_requested =>
        /\ shutdown_requested'
        /\ pc' = pc \/ CallsLeft(pc') < CallsLeft(pc)

(* Each call the session makes, once it was told to stop, is followed by   *)
(* one nearer to the end; what else happens leaves it where it is.         *)
LEMMA StepAdvances ==
    ASSUME [Next]_vars
    PROVE  Advances
<1> USE DEF Advances
<1>1. ASSUME UNCHANGED shutdown_requested, UNCHANGED pc
      PROVE  Advances
  BY <1>1
<1>2. ASSUME UNCHANGED shutdown_requested, shutdown_requested,
             \/ pc' = "cleanup" /\ pc \notin {"cleanup", "release", "done"}
                                /\ pc \in Steps
             \/ pc \in DOMAIN Following /\ pc' = Following[pc]
             \/ pc = "act" /\ pc' \in {"idle", "head", "lost", "adopt"}
             \/ pc = "adopt" /\ pc' \in {"head", "synchronize"}
             \/ pc = "synchronize" /\ pc' = "head"
             \/ pc = "lost" /\ pc' = "neutralize"
             \/ pc = "neutralize" /\ pc' = "head"
             \/ pc = "cleanup" /\ pc' = "release"
             \/ pc = "release" /\ pc' = "done"
      PROVE  Advances
  BY <1>2 DEF CallsLeft, Steps, Following
<1>3. CASE Head
  BY <1>2, <1>3 DEF Head, Goto, Terminate, Steps, world_vars
<1>4. CASE ProcessDone \/ ProcessFails \/ RecoverControl \/ ProcessActivityTimers
  BY <1>2, <1>4 DEF ProcessDone, ProcessFails, RecoverControl,
      ProcessActivityTimers, Advance, Following, Processing, world_vars
<1>5. CASE \/ ProcessMethod \/ \E pause \in BOOLEAN : RequestPaused(pause)
           \/ Tick \/ \E path \in PathStates : ChangePath(path)
           \/ UNCHANGED vars
  BY <1>1, <1>5 DEF ProcessMethod, RequestPaused, Tick, ChangePath, vars,
      control_vars, world_vars
<1>6. CASE RequestShutdown
  BY <1>6 DEF RequestShutdown
<1>7. CASE FatalCheck
  BY <1>2, <1>7 DEF FatalCheck, Goto, Terminate, Steps, world_vars
<1>8. CASE Acquire
  <2>1. CASE OpenUnavailable \/ OpenDenied \/ OpenFails
    BY <1>2, <2>1 DEF OpenUnavailable, OpenDenied, OpenFails, Acquiring, Goto,
        Terminate, Steps, world_vars
  <2>2. ASSUME NEW kind, NEW state, OpenSource(kind, state)
        PROVE  Advances
    BY <1>2, <2>2 DEF OpenSource, Acquiring, Goto, world_vars
  <2>3. CASE RetainVirtualDevice \/ ReplaceVirtualDevice \/ ReplaceFails
    BY <1>2, <2>3 DEF RetainVirtualDevice, ReplaceVirtualDevice, ReplaceFails,
        Adopted, BeginForwarding, Goto, Terminate, Steps, world_vars
  <2>4. CASE SynchronizeSource
    BY <1>2, <2>4 DEF SynchronizeSource, BeginForwarding, Terminate, Steps,
        world_vars
  <2> QED
    BY <1>8, <2>1, <2>2, <2>3, <2>4 DEF Acquire
<1>9. CASE Read
  <2>1. CASE EventUnavailable \/ ReadFails \/ SourceDisconnected
    BY <1>2, <2>1 DEF EventUnavailable, ReadFails, SourceDisconnected,
        Forwarding, Goto, Terminate, Steps, world_vars
  <2>2. ASSUME NEW event, NEW active, ProcessEvent(event, active)
        PROVE  Advances
    BY <1>2, <2>2 DEF ProcessEvent, Forwarding, Goto, Terminate, Steps,
        world_vars
  <2>3. ASSUME NEW state, RecoverSynchronization(state)
        PROVE  Advances
    BY <1>2, <2>3 DEF RecoverSynchronization, Forwarding, Goto, Terminate,
        Steps, world_vars
  <2> QED
    BY <1>9, <2>1, <2>2, <2>3 DEF Read
<1>10. CASE Finish
  BY <1>2, <1>10 DEF Finish, LoseSource, NeutralizeLost, CleanupActiveDevices,
      ReleaseControl, Goto, Terminate, Steps, world_vars
<1> QED
  BY <1>3, <1>4, <1>5, <1>6, <1>7, <1>8, <1>9, <1>10
  DEF Next, SessionStep, Environment

(* ShutdownAdvances: from any of its steps a session that was told to stop *)
(* makes at most eleven more calls, whatever fails and whoever comes or    *)
(* goes; that it makes them is fairness.                                   *)
THEOREM ShutdownIsNear == Spec => ShutdownAdvances
<1>1. [Next]_vars => [Advances]_vars
  BY StepAdvances
<1> QED
  BY <1>1, PTL DEF Spec, ShutdownAdvances, Advances

-----------------------------------------------------------------------------
(* Types.                                                                  *)

ControlTyped ==
    /\ pc \in Steps
    /\ phase \in Phases
    /\ shutdown_requested \in BOOLEAN
    /\ fatal_result \in Results
    /\ result \in Results
    /\ source_opened_successfully \in BOOLEAN
    /\ permission_deadline \in Timer(SettlingWindow)

DevicesTyped ==
    /\ source_device \in SourceStates
    /\ source_kind \in Kinds \cup {NoDevice}
    /\ tracked \in SUBSET Controls
    /\ virtual_device \in Kinds \cup {NoDevice}
    /\ virtual_state \in SUBSET Controls
    /\ consumer_state \in SUBSET Controls
    /\ source_path \in PathStates

(* The settling window is a timer.                                         *)
LEMMA DeadlineTyped ==
    ASSUME permission_deadline \in Timer(SettlingWindow)
    PROVE  /\ NoTimer \in Timer(SettlingWindow)
           /\ SettlingWindow \in Timer(SettlingWindow)
           /\ Elapse(permission_deadline) \in Timer(SettlingWindow)
  BY TimerArithmetic, SessionAssumption

(* Every step keeps the types of step, flags and deadline.                 *)
LEMMA ControlTypedNext ==
    ASSUME ControlTyped, [Next]_vars
    PROVE  ControlTyped'
<1> USE DEF ControlTyped, Steps, Phases, Results, Failures
<1>0. "idle" \in DOMAIN Following
  BY DEF Following
<1>1. CASE Head \/ ProcessDone \/ ProcessFails \/ ProcessMethod
           \/ RecoverControl \/ ProcessActivityTimers \/ FatalCheck
  BY <1>1 DEF Head, ProcessDone, ProcessFails, ProcessMethod, RecoverControl,
      ProcessActivityTimers, FatalCheck, Processing, Advance, Following,
      Goto, Terminate, control_vars, flag_vars, world_vars
<1>2. ASSUME NEW pause \in BOOLEAN, RequestPaused(pause)
      PROVE  ControlTyped'
  BY <1>2 DEF RequestPaused, control_vars, world_vars
<1>3. CASE Acquire
  <2>1. CASE OpenUnavailable \/ OpenDenied \/ OpenFails
    BY <1>0, <2>1, DeadlineTyped
    DEF OpenUnavailable, OpenDenied, OpenFails, Goto, Terminate, flag_vars,
        world_vars
  <2>4. ASSUME NEW kind, NEW state, OpenSource(kind, state)
        PROVE  ControlTyped'
    BY <2>4 DEF OpenSource, Goto, world_vars
  <2>2. CASE RetainVirtualDevice \/ ReplaceVirtualDevice
    BY <2>2, DeadlineTyped
    DEF RetainVirtualDevice, ReplaceVirtualDevice, Adopted, BeginForwarding,
        Goto, world_vars
  <2>3. CASE ReplaceFails \/ SynchronizeSource
    BY <2>3, DeadlineTyped
    DEF ReplaceFails, SynchronizeSource, BeginForwarding, Terminate,
        flag_vars, world_vars
  <2> QED
    BY <1>3, <2>1, <2>2, <2>3, <2>4 DEF Acquire
<1>4. CASE Read
  <2>1. CASE EventUnavailable \/ ReadFails \/ SourceDisconnected
    BY <1>0, <2>1 DEF EventUnavailable, ReadFails, SourceDisconnected, Goto,
        Terminate, flag_vars, world_vars
  <2>2. ASSUME NEW event, NEW active, ProcessEvent(event, active)
        PROVE  ControlTyped'
    BY <2>2 DEF ProcessEvent, Goto, Terminate, flag_vars, world_vars
  <2>3. ASSUME NEW state, RecoverSynchronization(state)
        PROVE  ControlTyped'
    BY <2>3 DEF RecoverSynchronization, Goto, Terminate, flag_vars, world_vars
  <2> QED
    BY <1>4, <2>1, <2>2, <2>3 DEF Read
<1>5. CASE Finish
  BY <1>5, DeadlineTyped
  DEF Finish, LoseSource, NeutralizeLost, CleanupActiveDevices,
      ReleaseControl, Goto, Terminate, flag_vars, world_vars
<1>6. CASE Environment
  <2>1. CASE RequestShutdown
    BY <2>1 DEF RequestShutdown, control_vars, flag_vars
  <2>2. ASSUME NEW path, ChangePath(path)
        PROVE  ControlTyped'
    BY <2>2 DEF ChangePath, control_vars, flag_vars
  <2>3. CASE Tick
    BY <2>3, DeadlineTyped DEF Tick, control_vars, world_vars
  <2> QED
    BY <1>6, <2>1, <2>2, <2>3 DEF Environment
<1>7. CASE UNCHANGED vars
  BY <1>7 DEF vars, control_vars, flag_vars, world_vars
<1> QED
  BY <1>1, <1>2, <1>3, <1>4, <1>5, <1>6, <1>7 DEF Next, SessionStep

(* Every step keeps the types of the devices and their states.             *)
LEMMA DevicesTypedNext ==
    ASSUME DevicesTyped, [Next]_vars
    PROVE  DevicesTyped'
<1> USE DEF DevicesTyped
<1>1. CASE \/ Head \/ ProcessDone \/ ProcessFails \/ ProcessMethod
           \/ RecoverControl \/ ProcessActivityTimers \/ FatalCheck
           \/ OpenUnavailable \/ OpenDenied \/ OpenFails
           \/ RetainVirtualDevice
           \/ EventUnavailable \/ ReadFails \/ SourceDisconnected
           \/ LoseSource \/ ReleaseControl \/ RequestShutdown \/ Tick
           \/ UNCHANGED vars
  BY <1>1
  DEF Head, ProcessDone, ProcessFails, ProcessMethod, RecoverControl,
      ProcessActivityTimers, FatalCheck, OpenUnavailable, OpenDenied,
      OpenFails, RetainVirtualDevice, EventUnavailable, ReadFails,
      SourceDisconnected, LoseSource, ReleaseControl, RequestShutdown, Tick,
      vars, source_vars, virtual_vars, world_vars
<1>2. ASSUME NEW outcome, Neutralize(outcome)
      PROVE  /\ virtual_device' \in Kinds \cup {NoDevice}
             /\ virtual_state' \in SUBSET Controls
             /\ consumer_state' \in SUBSET Controls
  BY <1>2 DEF Neutralize
<1>3. ASSUME NEW outcome, Synchronize(outcome)
      PROVE  /\ virtual_device' \in Kinds \cup {NoDevice}
             /\ virtual_state' \in SUBSET Controls
             /\ consumer_state' \in SUBSET Controls
  BY <1>3 DEF Synchronize, CapturedState
<1>4. ASSUME NEW pause \in BOOLEAN, RequestPaused(pause)
      PROVE  DevicesTyped'
  <2>1. \/ UNCHANGED virtual_vars
        \/ \E outcome \in Results : Neutralize(outcome) \/ Synchronize(outcome)
    BY <1>4 DEF RequestPaused, Results
  <2> QED
    BY <1>2, <1>3, <1>4, <2>1
    DEF RequestPaused, source_vars, virtual_vars, world_vars
<1>5. CASE SynchronizeSource
  <2>1. \E outcome \in Results : Synchronize(outcome)
    BY <1>5 DEF SynchronizeSource, Results
  <2> QED
    BY <1>3, <1>5, <2>1 DEF SynchronizeSource, source_vars, world_vars
<1>6. CASE NeutralizeLost
  <2>1. \E outcome \in Results : Neutralize(outcome)
    BY <1>6 DEF NeutralizeLost, Results
  <2>2. CloseSource /\ UNCHANGED source_path
    BY <1>6 DEF NeutralizeLost, CloseSourceDevice, world_vars
  <2> QED
    BY <1>2, <2>1, <2>2 DEF CloseSource, SourceStates
<1>7. CASE \/ \E kind \in Kinds, state \in SUBSET Controls :
                  OpenSource(kind, state)
           \/ ReplaceVirtualDevice \/ ReplaceFails \/ CleanupActiveDevices
  BY <1>7
  DEF OpenSource, ReplaceVirtualDevice, ReplaceFails, CleanupActiveDevices,
      CloseSourceDevice, CloseSource, DestroyVirtualDevice, CreatedState,
      SourceStates, source_vars, virtual_vars, world_vars
<1>8. ASSUME NEW event \in Controls \cup Stateless, NEW active \in BOOLEAN,
             ProcessEvent(event, active)
      PROVE  DevicesTyped'
  <2>1. \A state \in SUBSET Controls :
            Applied(state, event, active) \in SUBSET Controls
    BY <1>8 DEF Applied
  <2> QED
    BY <1>8, <2>1
    DEF ProcessEvent, Forward, virtual_vars, world_vars
<1>9. ASSUME NEW state \in SUBSET Controls, RecoverSynchronization(state)
      PROVE  DevicesTyped'
  BY <1>9 DEF RecoverSynchronization, world_vars
<1>10. ASSUME NEW path \in PathStates, ChangePath(path)
       PROVE  DevicesTyped'
  BY <1>10 DEF ChangePath, SourceStates, virtual_vars
<1> QED
  BY <1>1, <1>4, <1>5, <1>6, <1>7, <1>8, <1>9, <1>10
  DEF Next, SessionStep, Environment, Acquire, Read, Finish

(* Every variable of the session keeps its type.                           *)
THEOREM SessionTypeCorrect == Spec => []TypeOK
<1>1. Init => ControlTyped /\ DevicesTyped
  BY SessionAssumption
  DEF Init, ControlTyped, DevicesTyped, Steps, Phases, Results, SourceStates,
      Timer
<1>2. ControlTyped /\ DevicesTyped /\ [Next]_vars =>
          ControlTyped' /\ DevicesTyped'
  BY ControlTypedNext, DevicesTypedNext
<1>3. RCInv /\ ControlTyped /\ DevicesTyped => TypeOK
  BY DEF RCInv, ControlTyped, DevicesTyped, TypeOK
<1> QED
  BY <1>1, <1>2, <1>3, ControlInit, ControlNext, PTL DEF Spec

=============================================================================
