----------------------- MODULE SessionRefinement_proofs -----------------------
(***************************************************************************)
(* ProxySession implements SessionContract, for all sets of controls and   *)
(* of kinds, all durations and both motion policies: every step of the     *)
(* loops, the method handlers and the environment is a step of the         *)
(* contract, or changes nothing the contract speaks of.                    *)
(*                                                                         *)
(* Three invariants of ProxySession_proofs are used: the contract adopts a *)
(* device for a source that is there, pauses a waiting session without     *)
(* releasing anything, and exits without a device.                         *)
(*                                                                         *)
(* It also implements RuntimeInterface.  What clients see changes as the   *)
(* properties do, or not at all, or vanishes (CommitSeen): that and the    *)
(* invariant of the connection give one lemma per kind of call.            *)
(***************************************************************************)
EXTENDS ProxySession_proofs

(* The definition of the refinement mapping, arm by arm.                   *)
LifecycleArms ==
    /\ pc = "done" => Lifecycle = "exit"
    /\ pc \in {"cleanup", "release"} => Lifecycle = "closing"
    /\ pc \notin Ending /\ fatal_result # "SUCCESS" => Lifecycle = "closing"
    /\ pc \notin Ending /\ fatal_result = "SUCCESS" =>
           /\ pc \in {"lost", "neutralize"} => Lifecycle = "source_lost"
           /\ pc \in {"adopt", "synchronize"} => Lifecycle = "creating"
           /\ pc \notin {"lost", "neutralize", "adopt", "synchronize"} =>
                  Lifecycle = IF phase = "forward" THEN "active" ELSE "waiting"

(* The arms hold before and after a step.                                  *)
LEMMA LifecycleDefined == LifecycleArms /\ LifecycleArms'
  BY DEF LifecycleArms, Lifecycle, Ending

Held == virtual_state \cap Momentary

(* Nothing the contract speaks of has changed.                             *)
LEMMA ContractStutters ==
    ASSUME Lifecycle' = Lifecycle, SameMode, UNCHANGED virtual_device,
           Held' = Held
    PROVE  UNCHANGED Contract!contract_vars
  BY DEF Contract!contract_vars, SameMode, Held

(* A step that ends the session, or happens while it ends.                 *)
LEMMA ContractCloses ==
    ASSUME Lifecycle # "exit", Lifecycle' = "closing",
           virtual_device' \in {virtual_device, NoDevice},
           DeviceInv',
           SameMode \/ Lifecycle = "closing"
    PROVE  Contract!Close
<1>1. virtual_device' = NoDevice => virtual_state' = {}
  BY DEF DeviceInv, VirtualByStep
<1> QED
  BY <1>1 DEF Contract!Close, SameMode, Momentary

Invariants == StateInv /\ DeviceInv /\ ControlByStep

ContractStep == [Contract!ContractNext]_(Contract!contract_vars)

(* The steps of the loops that only move on, and the environment.          *)
LEMMA RefineLoop ==
    ASSUME Invariants,
           \/ ProcessDone \/ ProcessFails \/ ProcessMethod
           \/ RecoverControl \/ ProcessActivityTimers
           \/ EventUnavailable \/ OpenUnavailable
           \/ RequestShutdown \/ Tick \/ UNCHANGED vars
           \/ \E path \in PathStates : ChangePath(path)
    PROVE  ContractStep
<1>1. SameMode
  <2>1. CASE \/ ProcessDone \/ EventUnavailable \/ OpenUnavailable
             \/ RequestShutdown \/ UNCHANGED vars
             \/ \E path \in PathStates : ChangePath(path)
    BY <2>1, UnchangedFrame
    DEF ProcessDone, EventUnavailable, OpenUnavailable, RequestShutdown,
        ChangePath, vars
  <2>2. CASE ProcessFails \/ ProcessMethod
    BY <2>2, DispatchFrame DEF ProcessFails, ProcessMethod
  <2>3. CASE RecoverControl \/ ProcessActivityTimers
    BY <2>3, UndispatchedFrame
    DEF RecoverControl, ProcessActivityTimers, Invariants, ControlByStep,
        Processing
  <2>4. CASE Tick
    BY <2>4 DEF Tick, ElapseRC, SameMode, paused
  <2> QED
    BY <2>1, <2>2, <2>3, <2>4
<1>2. UNCHANGED <<phase, fatal_result, virtual_device, virtual_state>>
  BY DEF ProcessDone, ProcessFails, ProcessMethod, RecoverControl,
      ProcessActivityTimers, EventUnavailable, OpenUnavailable,
      RequestShutdown, Tick, ChangePath, vars, Advance, Goto, control_vars,
      virtual_vars, flag_vars
<1>3. \/ UNCHANGED pc
      \/ /\ pc \notin Ending \cup {"lost", "neutralize", "adopt",
                                   "synchronize"}
         /\ pc' \notin Ending \cup {"lost", "neutralize", "adopt",
                                    "synchronize"}
  <2>1. CASE ProcessDone \/ ProcessFails
    BY <2>1 DEF ProcessDone, ProcessFails, Processing, Advance, Following,
        Ending
  <2>2. CASE RecoverControl \/ ProcessActivityTimers
    BY <2>2 DEF RecoverControl, ProcessActivityTimers, Advance, Following,
        Ending
  <2>3. CASE EventUnavailable \/ OpenUnavailable
    BY <2>3 DEF EventUnavailable, OpenUnavailable, Forwarding, Acquiring,
        Goto, Ending
  <2>4. CASE \/ ProcessMethod \/ RequestShutdown \/ Tick \/ UNCHANGED vars
             \/ \E path \in PathStates : ChangePath(path)
    BY <2>4 DEF ProcessMethod, RequestShutdown, Tick, ChangePath, vars,
        control_vars
  <2> QED
    BY <2>1, <2>2, <2>3, <2>4
<1>4. Lifecycle' = Lifecycle
  BY <1>2, <1>3 DEF Lifecycle, Ending
<1> QED
  BY <1>1, <1>2, <1>4, ContractStutters DEF Held, ContractStep

(* The steps that fail, and those of a session that is ending.             *)
LEMMA RefineFailure ==
    ASSUME Invariants, DeviceInv', SameMode,
           pc # "done", pc' = "cleanup",
           virtual_device' \in {virtual_device, NoDevice}
    PROVE  ContractStep
<1>1. Lifecycle # "exit"
  BY LifecycleDefined DEF LifecycleArms, Ending, Invariants, DeviceInv, Phases
<1>2. Lifecycle' = "closing"
  BY LifecycleDefined DEF LifecycleArms
<1> QED
  BY <1>1, <1>2, ContractCloses DEF Contract!ContractNext, ContractStep

(* The steps that leave a loop, begin a wait or notice the loss.           *)
LEMMA RefineBranch ==
    ASSUME Invariants, DeviceInv',
           \/ Head \/ FatalCheck \/ OpenDenied \/ OpenFails
           \/ ReadFails \/ SourceDisconnected
    PROVE  ContractStep
<1>1. /\ UNCHANGED <<rc_vars, phase, fatal_result, virtual_vars>>
      /\ pc \in {"head", "act"}
      /\ \/ pc' = "cleanup"
         \/ pc' \in {"process", "idle"}
         \/ pc' = "lost" /\ phase = "forward"
  BY DEF Head, FatalCheck, OpenDenied, OpenFails, ReadFails,
      SourceDisconnected, Acquiring, Forwarding, Goto, Terminate, flag_vars
<1>2. SameMode
  BY <1>1, UnchangedFrame
<1>3. CASE pc' = "cleanup"
  BY <1>1, <1>2, <1>3, RefineFailure DEF virtual_vars
<1>4. CASE pc' # "lost" /\ pc' # "cleanup"
  <2>1. Lifecycle' = Lifecycle
    BY <1>1, <1>4 DEF Lifecycle
  <2> QED
    BY <1>1, <1>2, <2>1, ContractStutters DEF Held, virtual_vars, ContractStep
<1>5. CASE pc' = "lost"
  <2>1. CASE fatal_result = "SUCCESS"
    <3>1. Lifecycle = "active" /\ Lifecycle' = "source_lost"
      BY <1>1, <1>5, <2>1, LifecycleDefined DEF LifecycleArms, Ending
    <3> QED
      BY <1>1, <1>2, <3>1
      DEF Contract!LoseSource, Contract!ContractNext, ContractStep, SameMode,
          virtual_vars
  <2>2. CASE fatal_result # "SUCCESS"
    <3>1. Lifecycle = "closing" /\ Lifecycle' = "closing"
      BY <1>1, <1>5, <2>2, LifecycleDefined DEF LifecycleArms, Ending
    <3> QED
      BY <1>1, <1>2, <3>1, ContractStutters
      DEF Held, virtual_vars, ContractStep
  <2> QED
    BY <2>1, <2>2
<1> QED
  BY <1>3, <1>4, <1>5

(* The methods.                                                            *)
LEMMA RefineRequest ==
    ASSUME Invariants, DeviceInv', NEW pause \in BOOLEAN, RequestPaused(pause)
    PROVE  ContractStep
<1>1. /\ UNCHANGED <<pc, phase>>
      /\ SameAvailability
      /\ pc \in {"process", "idle_process"}
  BY DispatchFrame DEF RequestPaused, Processing, control_vars
<1>2. source_available <=> phase = "forward"
  BY <1>1 DEF Invariants, DeviceInv, SourceByStep, Ending, Phases
<1>3. UNCHANGED virtual_device
  BY DEF RequestPaused, Neutralize, Synchronize, virtual_vars
<1>4. Lifecycle # "exit"
  BY <1>1, LifecycleDefined
  DEF LifecycleArms, Ending, Invariants, DeviceInv, Phases
<1>5. CASE SameMode /\ UNCHANGED <<virtual_vars, fatal_result>>
  <2>1. Lifecycle' = Lifecycle
    BY <1>1, <1>5 DEF Lifecycle
  <2> QED
    BY <1>5, <2>1, ContractStutters DEF Held, virtual_vars, ContractStep
<1>6. CASE /\ AnswerWithoutCommit
           /\ \E failure \in Failures : fatal_result' = failure
  <2>1. SameMode
    BY <1>6, DispatchFrame
  <2>2. Lifecycle' = "closing"
    BY <1>1, <1>6, LifecycleDefined DEF LifecycleArms, Ending, Failures
  <2> QED
    BY <1>3, <1>4, <2>1, <2>2, ContractCloses
    DEF Contract!ContractNext, ContractStep
<1>7. CASE CommitPaused(pause) /\ UNCHANGED fatal_result
  <2>1. (paused' <=> pause) /\ paused # pause
    BY <1>7, DispatchFrame
  <2>2. CASE fatal_result # "SUCCESS"
    <3>1. Lifecycle = "closing" /\ Lifecycle' = "closing"
      BY <1>1, <1>7, <2>2, LifecycleDefined DEF LifecycleArms, Ending
    <3> QED
      BY <1>3, <3>1, ContractCloses DEF Contract!ContractNext, ContractStep
  <2>3. CASE fatal_result = "SUCCESS"
    <3>1. /\ Lifecycle' = Lifecycle
          /\ Lifecycle = IF phase = "forward" THEN "active" ELSE "waiting"
      BY <1>1, <1>7, <2>3, LifecycleDefined DEF LifecycleArms, Ending
    <3>2. CASE pause
      <4>1. virtual_state' \cap Momentary = {}
        <5>1. CASE source_available
          <6>1. Neutralize("SUCCESS")
            BY <1>7, <2>1, <2>3, <3>2, <5>1
            DEF RequestPaused, Failures
          <6> QED
            BY <6>1 DEF Neutralize
        <5>2. CASE ~source_available
          <6>1. UNCHANGED virtual_vars
            BY <5>2, <1>7, <2>1 DEF RequestPaused
          <6>2. Trusted /\ phase = "acquire"
            BY <1>1, <1>2, <2>3, <5>2
            DEF Trusted, Invariants, DeviceInv, ResultByStep, Ending, Phases
          <6> QED
            BY <6>1, <6>2
            DEF Invariants, StateInv, SuppressedIsNeutral, virtual_vars
        <5> QED
          BY <5>1, <5>2
      <4> QED
        BY <1>3, <2>1, <3>1, <3>2, <4>1
        DEF Contract!Pause, Contract!ContractNext, ContractStep
    <3>3. CASE ~pause
      <4>1. source_available \/ UNCHANGED virtual_vars
        BY <1>7, <2>1 DEF RequestPaused
      <4>2. Held' \in IF Lifecycle = "active" THEN SUBSET Keys ELSE {Held}
        BY <1>2, <3>1, <4>1 DEF Held, Momentary, virtual_vars
      <4>3. paused /\ ~paused'
        BY <2>1, <3>3 DEF paused
      <4>4. Lifecycle \in {"waiting", "active"}
        BY <3>1
      <4>5. Contract!Resume
        BY <1>3, <3>1, <4>2, <4>3, <4>4 DEF Contract!Resume, Held
      <4> QED
        BY <4>5 DEF Contract!ContractNext, ContractStep
    <3> QED
      BY <3>2, <3>3
  <2> QED
    BY <2>2, <2>3
<1> QED
  BY <1>5, <1>6, <1>7, DispatchFrame DEF RequestPaused

(* A source is acquired, and a device adopted for it.                      *)
LEMMA RefineAcquire ==
    ASSUME Invariants, DeviceInv',
           \/ \E kind \in Kinds, state \in SUBSET Controls :
                  OpenSource(kind, state)
           \/ RetainVirtualDevice \/ ReplaceVirtualDevice \/ ReplaceFails
           \/ SynchronizeSource
    PROVE  ContractStep
<1>1. ASSUME NEW kind \in Kinds, NEW state \in SUBSET Controls,
             OpenSource(kind, state)
      PROVE  ContractStep
  <2>1. /\ pc = "act" /\ pc' = "adopt" /\ phase = "acquire"
        /\ fatal_result = "SUCCESS"
        /\ UNCHANGED <<virtual_vars, fatal_result>>
    BY <1>1 DEF OpenSource, Acquiring, Goto
  <2>2. SameMode
    BY <1>1, UndispatchedFrame
    DEF OpenSource, Acquiring, Invariants, ControlByStep, Processing
  <2>3. Lifecycle = "waiting" /\ Lifecycle' = "creating"
    BY <2>1, LifecycleDefined DEF LifecycleArms, Ending
  <2> QED
    BY <2>1, <2>2, <2>3
    DEF Contract!OpenSource, Contract!ContractNext, ContractStep, SameMode,
        virtual_vars
<1>2. CASE RetainVirtualDevice \/ ReplaceVirtualDevice
  <2>1. SameMode
    BY <1>2, UnchangedFrame DEF RetainVirtualDevice, ReplaceVirtualDevice
  <2>2. /\ pc = "adopt" /\ fatal_result = "SUCCESS" /\ UNCHANGED fatal_result
        /\ virtual_device' \in Kinds
        /\ IF paused THEN pc' = "head" /\ phase' = "forward"
                     ELSE pc' = "synchronize"
    BY <1>2 DEF RetainVirtualDevice, ReplaceVirtualDevice, Compatible,
        Adopted, BeginForwarding, Goto, virtual_vars, Invariants, DeviceInv,
        SourceByStep, ResultByStep
  <2>3. Held' = IF virtual_device' = virtual_device THEN Held ELSE {}
    <3>1. CreatedState \cap Momentary = {}
      BY SessionAssumption DEF CreatedState, Momentary
    <3> QED
      BY <1>2, <3>1 DEF RetainVirtualDevice, ReplaceVirtualDevice,
          Compatible, Held, virtual_vars
  <2>4. /\ Lifecycle = "creating"
        /\ Lifecycle' = IF paused THEN "active" ELSE "creating"
    BY <2>2, LifecycleDefined DEF LifecycleArms, Ending
  <2>5. Contract!AdoptSource
    BY <2>1, <2>2, <2>3, <2>4 DEF Contract!AdoptSource, Held, SameMode
  <2> QED
    BY <2>5 DEF Contract!ContractNext, ContractStep
<1>3. CASE ReplaceFails
  <2>1. SameMode
    BY <1>3, UndispatchedFrame
    DEF ReplaceFails, CloseSourceDevice, Invariants, ControlByStep,
        Processing
  <2> QED
    BY <1>3, <2>1, RefineFailure
    DEF ReplaceFails, DestroyVirtualDevice, Terminate
<1>4. CASE SynchronizeSource
  <2>1. /\ SameMode /\ pc = "synchronize" /\ ~paused
        /\ UNCHANGED virtual_device
        /\ virtual_device # NoDevice
        /\ fatal_result = "SUCCESS" /\ UNCHANGED fatal_result
    BY <1>4, UnchangedFrame
    DEF SynchronizeSource, Synchronize, Invariants, DeviceInv, VirtualByStep,
        ResultByStep
  <2>2. CASE pc' = "cleanup"
    BY <2>1, <2>2, RefineFailure
  <2>3. CASE BeginForwarding
    <3>1. Lifecycle = "creating" /\ Lifecycle' = "active"
      BY <2>1, <2>3, LifecycleDefined
      DEF LifecycleArms, Ending, BeginForwarding
    <3>2. Held' \in SUBSET Keys
      BY DEF Held, Momentary
    <3>3. Contract!BeginForwarding
      BY <2>1, <3>1, <3>2 DEF Contract!BeginForwarding, Held, SameMode
    <3> QED
      BY <3>3 DEF Contract!ContractNext, ContractStep
  <2> QED
    BY <1>4, <2>2, <2>3 DEF SynchronizeSource, Terminate
<1> QED
  BY <1>1, <1>2, <1>3, <1>4

(* Events and the recovery from SYN_DROPPED.                               *)
LEMMA RefineRead ==
    ASSUME Invariants, DeviceInv',
           \/ \E event \in Controls \cup Stateless, active \in BOOLEAN :
                  ProcessEvent(event, active)
           \/ \E state \in SUBSET Controls : RecoverSynchronization(state)
    PROVE  ContractStep
<1>1. /\ pc = "act" /\ phase = "forward" /\ fatal_result = "SUCCESS"
      /\ UNCHANGED <<phase, fatal_result, virtual_device>>
      /\ \/ pc' = "cleanup"
         \/ pc' = "head" /\ (~paused \/ UNCHANGED virtual_state)
  BY DEF ProcessEvent, RecoverSynchronization, Forwarding, Forward, Goto,
      Terminate, virtual_vars, flag_vars
<1>2. SameMode
  <2>1. CASE \E state \in SUBSET Controls : RecoverSynchronization(state)
    BY <2>1, UnchangedFrame DEF RecoverSynchronization
  <2>2. ASSUME NEW event, NEW active, ProcessEvent(event, active)
        PROVE  SameMode
    <3>1. PhysicalActivity \/ UNCHANGED rc_vars
      BY <2>2 DEF ProcessEvent, Observe
    <3>2. Undispatched
      BY <1>1 DEF Invariants, ControlByStep, Processing
    <3> QED
      BY <3>1, <3>2, UndispatchedFrame, UnchangedFrame
  <2> QED
    BY <2>1, <2>2
<1>3. CASE pc' = "cleanup"
  BY <1>1, <1>2, <1>3, RefineFailure
<1>4. CASE pc' = "head"
  <2>1. Lifecycle = "active" /\ Lifecycle' = "active"
    BY <1>1, <1>4, LifecycleDefined DEF LifecycleArms, Ending
  <2>2. CASE ~paused
    <3>1. Held' \in SUBSET Keys
      BY DEF Held, Momentary
    <3>2. Contract!ForwardEvents
      BY <1>1, <1>2, <2>1, <2>2, <3>1
      DEF Contract!ForwardEvents, Held, SameMode
    <3> QED
      BY <3>2 DEF Contract!ContractNext, ContractStep
  <2>3. CASE UNCHANGED virtual_state
    BY <1>1, <1>2, <2>1, <2>3, ContractStutters DEF Held, ContractStep
  <2> QED
    BY <1>1, <1>4, <2>2, <2>3
<1> QED
  BY <1>1, <1>3, <1>4

(* The loss of the source and the end of the session.                      *)
LEMMA RefineFinish ==
    ASSUME Invariants, DeviceInv', Finish
    PROVE  ContractStep
<1>1. SameMode
  BY UndispatchedFrame
  DEF Finish, LoseSource, NeutralizeLost, CleanupActiveDevices,
      ReleaseControl, CloseSourceDevice, Release, Invariants, ControlByStep,
      Processing, SameMode, paused
<1>2. CASE LoseSource
  <2>1. /\ pc = "lost" /\ pc' = "neutralize"
        /\ UNCHANGED <<phase, fatal_result, virtual_vars>>
    BY <1>2 DEF LoseSource, Goto, flag_vars
  <2>2. Lifecycle' = Lifecycle
    BY <2>1 DEF Lifecycle
  <2> QED
    BY <1>1, <2>1, <2>2, ContractStutters DEF Held, virtual_vars, ContractStep
<1>3. CASE NeutralizeLost
  <2>1. /\ pc = "neutralize"
        /\ UNCHANGED <<virtual_device, fatal_result>>
    BY <1>3 DEF NeutralizeLost, Neutralize
  <2>2. CASE pc' = "cleanup"
    BY <1>1, <2>1, <2>2, RefineFailure
  <2>3. CASE /\ Neutralize("SUCCESS")
             /\ pc' = "head" /\ phase' = "acquire"
    <3>1. CASE fatal_result = "SUCCESS"
      <4>1. Lifecycle = "source_lost" /\ Lifecycle' = "waiting"
        BY <2>1, <2>3, <3>1, LifecycleDefined DEF LifecycleArms, Ending
      <4>2. Held' = {}
        BY <2>3 DEF Neutralize, Held
      <4>3. Contract!Neutralize
        BY <1>1, <2>1, <4>1, <4>2 DEF Contract!Neutralize, Held, SameMode
      <4> QED
        BY <4>3 DEF Contract!ContractNext, ContractStep
    <3>2. CASE fatal_result # "SUCCESS"
      <4>1. Lifecycle = "closing" /\ Lifecycle' = "closing"
        BY <2>1, <2>3, <3>2, LifecycleDefined DEF LifecycleArms, Ending
      <4> QED
        BY <1>1, <2>1, <4>1, ContractCloses
        DEF Contract!ContractNext, ContractStep
    <3> QED
      BY <3>1, <3>2
  <2> QED
    BY <1>3, <2>2, <2>3 DEF NeutralizeLost, Terminate
<1>4. CASE CleanupActiveDevices
  <2>1. /\ pc = "cleanup" /\ pc' = "release" /\ virtual_device' = NoDevice
    BY <1>4 DEF CleanupActiveDevices, DestroyVirtualDevice, Goto
  <2>2. Lifecycle = "closing" /\ Lifecycle' = "closing"
    BY <2>1, LifecycleDefined DEF LifecycleArms
  <2> QED
    BY <1>1, <2>1, <2>2, ContractCloses
    DEF Contract!ContractNext, ContractStep
<1>5. CASE ReleaseControl
  <2>1. /\ pc = "release" /\ pc' = "done" /\ UNCHANGED virtual_vars
        /\ virtual_device = NoDevice
    BY <1>5 DEF ReleaseControl, Goto, Invariants, DeviceInv, VirtualByStep
  <2>2. Lifecycle = "closing" /\ Lifecycle' = "exit"
    BY <2>1, LifecycleDefined DEF LifecycleArms
  <2> QED
    BY <1>1, <2>1, <2>2
    DEF Contract!Exit, Contract!ContractNext, ContractStep, SameMode,
        virtual_vars
<1> QED
  BY <1>2, <1>3, <1>4, <1>5 DEF Finish

-----------------------------------------------------------------------------

(* A session begins as the contract does.                                  *)
LEMMA RefineInit == Init => Contract!ContractInit
  BY DEF Init, Contract!ContractInit, Lifecycle, Momentary

(* Every step is one of the contract or changes nothing in it.             *)
LEMMA RefineNext ==
    Invariants /\ DeviceInv' /\ [Next]_vars => ContractStep
  BY RefineLoop, RefineBranch, RefineRequest, RefineAcquire, RefineRead,
     RefineFinish
  DEF Next, SessionStep, Environment, Acquire, Read

(* The detailed session implements the contract.                           *)
THEOREM SessionImplementsContract == Spec => ImplementsContract
<1>1. Spec => []Invariants
  BY StateInvariant, DeviceInvariant, PTL DEF Invariants
<1>2. Invariants => DeviceInv
  BY DEF Invariants
<1> QED
  BY <1>1, <1>2, RefineInit, RefineNext, PTL
  DEF Spec, ImplementsContract, Contract!ContractSpec, ContractStep

Promised == INSTANCE SessionContract_proofs WITH
    lifecycle <- Lifecycle,
    mode      <- IF paused THEN "paused" ELSE "running",
    device    <- virtual_device,
    held      <- Held

(* What is proved of the contract holds in the session.                    *)
THEOREM SessionHoldsWhileForwarding ==
    Spec => []Contract!HeldOnlyWhileForwarding
<1>1. Promised!ContractSpec => []Promised!HeldOnlyWhileForwarding
  BY Promised!HeldControls, SessionAssumption
<1>2. Contract!ContractInit => Promised!ContractInit
  BY DEF Contract!ContractInit, Promised!ContractInit, Held
<1>3. [Contract!ContractNext]_(Contract!contract_vars)
          => [Promised!ContractNext]_(Promised!contract_vars)
  BY DEF Held, Contract!contract_vars, Promised!contract_vars,
      Contract!ContractNext, Promised!ContractNext,
      Contract!OpenSource, Promised!OpenSource,
      Contract!AdoptSource, Promised!AdoptSource,
      Contract!BeginForwarding, Promised!BeginForwarding,
      Contract!ForwardEvents, Promised!ForwardEvents,
      Contract!Pause, Promised!Pause, Contract!Resume, Promised!Resume,
      Contract!LoseSource, Promised!LoseSource,
      Contract!Neutralize, Promised!Neutralize,
      Contract!Close, Promised!Close, Contract!Exit, Promised!Exit
<1>4. Promised!HeldOnlyWhileForwarding => Contract!HeldOnlyWhileForwarding
  BY DEF Held, Promised!HeldOnlyWhileForwarding,
      Contract!HeldOnlyWhileForwarding
<1> QED
  BY <1>1, <1>2, <1>3, <1>4, SessionImplementsContract, PTL
  DEF ImplementsContract, Contract!ContractSpec, Promised!ContractSpec

-----------------------------------------------------------------------------
(* What the clients of the bus see.                                        *)

InterfaceStep == [Interface!InterfaceNext]_client_view

(* A commit changes what clients see as it changes the properties, or not  *)
(* at all, or takes the service away.                                      *)
LEMMA CommitSeen ==
    ASSUME RCInv,
           NEW mask \in SUBSET Properties, NEW values \in SUBSET mask,
           NEW running, NEW throttle, NEW handled,
           Callable(handled),
           ApplyChanges(mask, values, running, throttle, handled)
    PROVE  \/ UNCHANGED client_view
           \/ Interface!Vanish
           \/ /\ Interface!Owned
              /\ client_view = runtime_state
              /\ client_view' = (client_view \ mask) \cup values
<1> DEFINE committed == (runtime_state \ mask) \cup values
<1>1. \/ /\ runtime_control \in {"ready", "dispatching"}
         /\ Published(committed, running, throttle, handled)
      \/ MarkedForDestruction(committed, running, throttle)
      \/ Destroyed(committed)
      \/ Unpublished(committed, running, throttle)
  BY ApplyChangesEffect
<1>2. /\ runtime_control \in {"ready", "dispatching"} =>
             client_view = runtime_state /\ Interface!Owned
      /\ runtime_control = "null" => client_view = Unowned
  BY DEF RCInv, RCTypeOK, ClientViewCurrent, Connected, Interface!Owned,
      Unowned, Properties, Activity
<1> QED
  BY <1>1, <1>2
  DEF Published, MarkedForDestruction, Destroyed, Unpublished,
      Interface!Vanish

(* The calls about the connection, the mode and the source, and the        *)
(* passing of time.                                                        *)
QuietCall ==
    \/ BeginDispatch \/ AnswerWithoutCommit \/ DispatchReturn \/ DispatchFails
    \/ \E pause \in BOOLEAN : CommitPaused(pause)
    \/ Undispatched /\ (Recovery \/ ActivityTimers)
    \/ \E available \in BOOLEAN : Undispatched /\ SetSourceAvailable(available)
    \/ Undispatched /\ Release
    \/ ElapseRC
    \/ UNCHANGED rc_vars

ObservedActivity == Undispatched /\ PhysicalActivity /\ source_available

(* The mode, with the activity of the mode that is left.                   *)
LEMMA ModeSeen ==
    ASSUME RCInv, NEW pause \in BOOLEAN, CommitPaused(pause)
    PROVE  InterfaceStep
<1> DEFINE mask   == IF pause THEN {"paused", "activity_while_running"}
                              ELSE {"paused", "activity_while_paused"}
           values == IF pause THEN {"paused"} ELSE {}
<1>1. /\ mask \in SUBSET Properties /\ values \in SUBSET mask
      /\ Callable("returning")
      /\ \E running, throttle :
             ApplyChanges(mask, values, running, throttle, "returning")
  BY DEF CommitPaused, Callable, Properties, Activity
<1>2. paused # pause
  BY DEF CommitPaused
<1>3. CASE /\ Interface!Owned
           /\ client_view = runtime_state
           /\ client_view' = (client_view \ mask) \cup values
  <2>1. CASE pause
    BY <1>2, <1>3, <2>1
    DEF paused, InterfaceStep, Interface!InterfaceNext, Interface!Pause,
        Interface!Mode, Interface!Indication
  <2>2. CASE ~pause
    BY <1>2, <1>3, <2>2
    DEF paused, InterfaceStep, Interface!InterfaceNext, Interface!Resume,
        Interface!Mode, Interface!Indication
  <2> QED BY <2>1, <2>2
<1>4. CASE UNCHANGED client_view \/ Interface!Vanish
  BY <1>4 DEF InterfaceStep, Interface!InterfaceNext
<1> HIDE DEF mask, values
<1> QED
  BY <1>1, <1>3, <1>4, CommitSeen

(* The source comes and goes.                                              *)
LEMMA SourceSeen ==
    ASSUME RCInv, Undispatched,
           NEW available \in BOOLEAN, SetSourceAvailable(available)
    PROVE  InterfaceStep
<1> DEFINE mask   == {"source_available"}
           values == IF available THEN {"source_available"} ELSE {}
<1>1. /\ mask \in SUBSET Properties /\ values \in SUBSET mask
      /\ Callable(runtime_control)
      /\ \E running, throttle :
             ApplyChanges(mask, values, running, throttle, runtime_control)
  BY DEF SetSourceAvailable, ApplyChangesUndispatched, Callable, Properties
<1>2. CASE /\ Interface!Owned
           /\ client_view' = (client_view \ mask) \cup values
  BY <1>2
  DEF InterfaceStep, Interface!InterfaceNext, Interface!SourceAppears,
      Interface!SourceDisappears
<1>3. CASE UNCHANGED client_view \/ Interface!Vanish
  BY <1>3 DEF InterfaceStep, Interface!InterfaceNext
<1> HIDE DEF mask, values
<1> QED
  BY <1>1, <1>2, <1>3, CommitSeen

(* Activity begins in the mode it is of; an indication that restarts its   *)
(* interval is not a change.                                               *)
LEMMA ActivitySeen ==
    ASSUME RCInv, ObservedActivity
    PROVE  InterfaceStep
<1> DEFINE indication == IF paused THEN "activity_while_paused"
                                   ELSE "activity_while_running"
<1>1. CASE UNCHANGED rc_vars
  BY <1>1 DEF rc_vars, InterfaceStep
<1>2. ASSUME NEW values \in SUBSET {indication}, NEW running, NEW throttle,
             ApplyChanges({indication}, values, running, throttle,
                          runtime_control)
      PROVE  InterfaceStep
  <2>1. {indication} \in SUBSET Properties /\ Callable(runtime_control)
    BY DEF ObservedActivity, Callable, Properties, Activity
  <2>2. CASE /\ Interface!Owned
             /\ client_view = runtime_state
             /\ client_view' = (client_view \ {indication}) \cup values
    <3>1. indication = Interface!Indication(Interface!Mode)
      BY <2>2 DEF paused, Interface!Indication, Interface!Mode
    <3>2. "source_available" \in client_view
      BY <2>2 DEF ObservedActivity, source_available
    <3> HIDE DEF indication
    <3>3. \/ client_view' = client_view \cup {indication}
          \/ client_view' = client_view \ {indication}
      BY <1>2, <2>2
    <3> QED
      BY <2>2, <3>1, <3>2, <3>3
      DEF InterfaceStep, Interface!InterfaceNext, Interface!ActivityBegins,
          Interface!ActivityEnds
  <2>3. CASE UNCHANGED client_view \/ Interface!Vanish
    BY <2>3 DEF InterfaceStep, Interface!InterfaceNext
  <2> HIDE DEF indication
  <2> QED
    BY <1>2, <2>1, <2>2, <2>3, CommitSeen
<1>3. CASE ~UNCHANGED rc_vars
  <2>1. \E values \in SUBSET {indication} : \E running, throttle :
            ApplyChanges({indication}, values, running, throttle,
                         runtime_control)
    BY <1>3 DEF ObservedActivity, PhysicalActivity, ApplyChangesUndispatched
  <2> HIDE DEF indication
  <2> QED
    BY <1>2, <2>1
<1> QED
  BY <1>1, <1>3

(* Activity ends: of the two indications only that of the mode is up.      *)
LEMMA ExpirySeen ==
    ASSUME RCInv, Undispatched, ActivityTimers
    PROVE  InterfaceStep
<1>1. CASE UNCHANGED rc_vars
  BY <1>1 DEF rc_vars, InterfaceStep
<1>2. CASE ~UNCHANGED rc_vars
  <2>1. /\ ApplyChanges(ExpiredActivity, {},
                        Unexpired(running_activity_timer),
                        Unexpired(paused_activity_timer), runtime_control)
        /\ ExpiredActivity \in SUBSET Properties
        /\ {} \in SUBSET ExpiredActivity
        /\ Callable(runtime_control)
    BY <1>2
    DEF ActivityTimers, ApplyChangesUndispatched, ExpiredActivity, Properties,
        Callable
  <2>2. CASE /\ Interface!Owned
             /\ client_view = runtime_state
             /\ client_view' = (client_view \ ExpiredActivity) \cup {}
    <3> DEFINE indication == Interface!Indication(Interface!Mode)
    <3>1. client_view \cap Activity \subseteq {indication}
      BY <2>2
      DEF RCInv, ActivityOfCurrentMode, Activity, Interface!Indication,
          Interface!Mode
    <3>2. ExpiredActivity \subseteq Activity
      BY DEF ExpiredActivity
    <3> HIDE DEF indication
    <3>3. client_view' \in {client_view, client_view \ {indication}}
      BY <2>2, <3>1, <3>2
    <3> USE DEF indication
    <3> QED
      BY <2>2, <3>3
      DEF InterfaceStep, Interface!InterfaceNext, Interface!ActivityEnds
  <2>3. CASE UNCHANGED client_view \/ Interface!Vanish
    BY <2>3 DEF InterfaceStep, Interface!InterfaceNext
  <2> QED
    BY <2>1, <2>2, <2>3, CommitSeen
<1> QED
  BY <1>1, <1>2

(* The connection comes and goes; a new one has no activity to report.     *)
LEMMA ConnectionSeen ==
    ASSUME RCInv,
           \/ BeginDispatch \/ AnswerWithoutCommit \/ DispatchReturn
           \/ DispatchFails \/ Release \/ ElapseRC \/ UNCHANGED rc_vars
           \/ Undispatched /\ Recovery
    PROVE  InterfaceStep
<1>1. CASE Undispatched /\ Reconnect
  <2>1. runtime_control = "null"
    BY <1>1 DEF Reconnect, Undispatched, RCInv, RetryIffDisconnected,
        Connected, NoTimer
  <2>2. /\ client_view = Unowned
        /\ client_view' = runtime_state
        /\ runtime_state \in SUBSET Properties
        /\ runtime_state \cap Activity = {}
    BY <1>1, <2>1 DEF Reconnect, RCInv, RCTypeOK, RetryIffDisconnected,
        ClientViewCurrent, Connected
  <2>3. runtime_state \in SUBSET {"paused", "source_available"}
    BY <2>2 DEF Properties
  <2> QED
    BY <2>2, <2>3
    DEF InterfaceStep, Interface!InterfaceNext, Interface!Appear,
        Interface!Owned
<1>2. CASE client_view' = Unowned
  BY <1>2
  DEF InterfaceStep, Interface!InterfaceNext, Interface!Vanish,
      Interface!Owned
<1>3. CASE UNCHANGED client_view
  BY <1>3 DEF InterfaceStep
<1> QED
  BY <1>1, <1>2, <1>3
  DEF BeginDispatch, AnswerWithoutCommit, DispatchReturn, DispatchFails,
      Recovery, ReconnectFails, Release, ElapseRC, rc_vars

(* Whatever the session calls, clients see a step of the interface.        *)
LEMMA CallSeen ==
    ASSUME RCInv, QuietCall \/ ObservedActivity
    PROVE  InterfaceStep
<1>1. CASE \E pause \in BOOLEAN : CommitPaused(pause)
  BY <1>1, ModeSeen
<1>2. CASE \E available \in BOOLEAN :
               Undispatched /\ SetSourceAvailable(available)
  BY <1>2, SourceSeen
<1>3. CASE ObservedActivity
  BY <1>3, ActivitySeen
<1>4. CASE Undispatched /\ (Recovery \/ ActivityTimers)
  BY <1>4, ExpirySeen, ConnectionSeen
<1>5. CASE \/ BeginDispatch \/ AnswerWithoutCommit \/ DispatchReturn
           \/ DispatchFails \/ ElapseRC \/ UNCHANGED rc_vars
           \/ Undispatched /\ Release
  BY <1>5, ConnectionSeen
<1> QED
  BY <1>1, <1>2, <1>3, <1>4, <1>5 DEF QuietCall

(* The session observes activity only of an event it read from a source    *)
(* its clients know of.                                                    *)
LEMMA SessionCalls ==
    ASSUME ControlByStep, DeviceInv, [Next]_vars
    PROVE  QuietCall \/ ObservedActivity
<1>1. CASE Uncontrolled
  BY <1>1, UncontrolledStep DEF QuietCall
<1>2. CASE ProcessFails \/ ProcessMethod
           \/ \E pause \in BOOLEAN : RequestPaused(pause)
  BY <1>2 DEF ProcessFails, ProcessMethod, RequestPaused, QuietCall
<1>3. CASE RecoverControl \/ ProcessActivityTimers \/ LoseSource
           \/ NeutralizeLost \/ CleanupActiveDevices \/ ReplaceFails
           \/ ReleaseControl
           \/ \E kind \in Kinds, state \in SUBSET Controls :
                  OpenSource(kind, state)
  <2>1. Undispatched
    BY <1>3
    DEF RecoverControl, ProcessActivityTimers, LoseSource, NeutralizeLost,
        CleanupActiveDevices, ReplaceFails, ReleaseControl, OpenSource,
        Acquiring, ControlByStep, Processing
  <2>2. \/ Recovery \/ ActivityTimers \/ Release
        \/ \E available \in BOOLEAN : SetSourceAvailable(available)
    BY <1>3
    DEF RecoverControl, ProcessActivityTimers, LoseSource, NeutralizeLost,
        CleanupActiveDevices, ReplaceFails, ReleaseControl, OpenSource,
        CloseSourceDevice
  <2> QED
    BY <2>1, <2>2 DEF QuietCall
<1>4. ASSUME NEW event \in Controls \cup Stateless, NEW active \in BOOLEAN,
             ProcessEvent(event, active)
      PROVE  QuietCall \/ ObservedActivity
  <2>1. /\ pc = "act" /\ source_device = "live"
        /\ PhysicalActivity \/ UNCHANGED rc_vars
    BY <1>4 DEF ProcessEvent, Observe, Forwarding
  <2>2. Undispatched /\ source_available
    BY <2>1 DEF ControlByStep, Processing, DeviceInv, SourceByStep
  <2> QED
    BY <2>1, <2>2 DEF QuietCall, ObservedActivity
<1>5. CASE Tick \/ UNCHANGED vars
  BY <1>5 DEF Tick, vars, QuietCall
<1> QED
  BY <1>1, <1>2, <1>3, <1>4, <1>5
  DEF Next, SessionStep, Environment, Acquire, Read, Finish, Uncontrolled

(* What the clients of the bus see of a session is RuntimeInterface.       *)
THEOREM SessionImplementsInterface == Spec => ImplementsInterface
<1>1. Init => Interface!InterfaceInit
  BY DEF Init, RCInit, Interface!InterfaceInit
<1>2. RCInv /\ ControlByStep /\ DeviceInv /\ [Next]_vars => InterfaceStep
  BY SessionCalls, CallSeen
<1> QED
  BY <1>1, <1>2, ControlInit, ControlNext, DeviceInvariant, PTL
  DEF Spec, ImplementsInterface, Interface!InterfaceSpec, InterfaceStep

=============================================================================
