------------------------ MODULE RuntimeControl_proofs ------------------------
(***************************************************************************)
(* Proofs about RuntimeControl, for every length of the activity interval, *)
(* the throttle interval and the retry period.                             *)
(*                                                                         *)
(* None of the four properties is inductive alone: that an indication has  *)
(* its timer needs the retry bookkeeping (an unconnected session tracks no *)
(* activity), and that both views are mode-scoped needs that they agree.   *)
(* Their conjunction with the type invariant is.                           *)
(***************************************************************************)
EXTENDS RuntimeControl, TLAPS

RCInv ==
    /\ RCTypeOK
    /\ ActivityOfCurrentMode
    /\ ActivityHasTimer
    /\ RetryIffDisconnected
    /\ ClientViewCurrent

-----------------------------------------------------------------------------

(* A started interval, an elapsed timer and an expired timer that is        *)
(* cleared are timers of the same period.                                   *)
LEMMA TimerArithmetic ==
    ASSUME NEW period \in Nat, NEW timer \in Timer(period)
    PROVE  /\ NoTimer \in Timer(period)
           /\ period \in Timer(period)
           /\ NoTimer # period
           /\ Started(period) \in Timer(period)
           /\ Started(period) = NoTimer <=> period = 0
           /\ Elapse(timer) \in Timer(period)
           /\ Elapse(timer) = NoTimer <=> timer = NoTimer
           /\ Elapse(timer) <= timer
           /\ Unexpired(timer) \in Timer(period)
           /\ Unexpired(timer) <= timer
  BY DEF Timer, Started, Elapse, Unexpired, NoTimer

(* What ApplyChanges leaves behind when the caller may make it: the         *)
(* properties of the mask have their new values everywhere, or the          *)
(* connection is gone or about to go.                                       *)
Published(committed, running, throttle, handled) ==
    /\ runtime_control' = handled
    /\ runtime_state' = committed
    /\ client_view' = committed
    /\ running_activity_timer' = running
    /\ paused_activity_timer' = throttle
    /\ activity_tracking_available' = TRUE
    /\ runtime_control_retry' = runtime_control_retry

MarkedForDestruction(committed, running, throttle) ==
    /\ runtime_control = "dispatching"
    /\ runtime_control' = "disable_pending"
    /\ runtime_state' = committed
    /\ client_view' = client_view
    /\ running_activity_timer' = running
    /\ paused_activity_timer' = throttle
    /\ activity_tracking_available' = TRUE
    /\ runtime_control_retry' = runtime_control_retry

Destroyed(committed) ==
    /\ runtime_control = "ready"
    /\ runtime_control' = "null"
    /\ runtime_state' = committed \ Activity
    /\ client_view' = Unowned
    /\ running_activity_timer' = NoTimer
    /\ paused_activity_timer' = NoTimer
    /\ activity_tracking_available' = FALSE
    /\ runtime_control_retry' = RetryPeriod

Unpublished(committed, running, throttle) ==
    /\ runtime_control = "null"
    /\ runtime_control' = "null"
    /\ runtime_state' = committed
    /\ client_view' = Unowned
    /\ running_activity_timer' = running
    /\ paused_activity_timer' = throttle
    /\ activity_tracking_available' = FALSE
    /\ runtime_control_retry' = runtime_control_retry

Callable(handled) ==
    \/ Undispatched /\ handled = runtime_control
    \/ runtime_control = "dispatching" /\ handled = "returning"

(* A commit publishes all of it, or marks the connection, or destroys it,  *)
(* or there is none to publish to.                                         *)
LEMMA ApplyChangesEffect ==
    ASSUME RCInv,
           NEW mask \in SUBSET Properties, NEW values \in SUBSET mask,
           NEW running, NEW throttle, NEW handled,
           Callable(handled),
           ApplyChanges(mask, values, running, throttle, handled)
    PROVE  LET committed == (runtime_state \ mask) \cup values
           IN  \/ /\ runtime_control \in {"ready", "dispatching"}
                  /\ handled \in {"ready", "returning"}
                  /\ Published(committed, running, throttle, handled)
               \/ MarkedForDestruction(committed, running, throttle)
               \/ Destroyed(committed)
               \/ Unpublished(committed, running, throttle)
<1> DEFINE changed == {p \in mask : (p \in values) # (p \in runtime_state)}
           committed == (runtime_state \ mask) \cup values
<1>1. (runtime_state \ changed) \cup (values \cap changed) = committed
  OBVIOUS
<1>2. CASE runtime_control = "null"
  <2>1. /\ ~activity_tracking_available /\ ~Connected
        /\ handled = "null" /\ client_view = Unowned
    BY <1>2 DEF RCInv, RetryIffDisconnected, ClientViewCurrent, Connected,
        Callable, Undispatched
  <2>2. runtime_control' = "null" /\ client_view' = Unowned
    BY <1>2, <2>1 DEF ApplyChanges
  <2>3. UpdateControlAvailability(committed, running, throttle)
    BY <1>1 DEF ApplyChanges
  <2> QED
    BY <1>2, <2>1, <2>2, <2>3 DEF UpdateControlAvailability, Unpublished
<1>3. CASE runtime_control \in {"ready", "dispatching"}
  <2>1. /\ activity_tracking_available = TRUE /\ Connected
        /\ client_view = runtime_state
    BY <1>3 DEF RCInv, RetryIffDisconnected, ClientViewCurrent, Connected,
        RCTypeOK
  <2>2. UpdateControlAvailability(committed, running, throttle)
    BY <1>1 DEF ApplyChanges
  <2>3. changed = {} => client_view = committed
    BY <1>1, <2>1
  <2>4. (client_view \ changed) \cup (values \cap changed) = committed
    BY <1>1, <2>1
  <2>5. handled \in {"ready", "returning"} /\ handled # "null"
    BY <1>3 DEF Callable, Undispatched
  <2>6. \/ runtime_control' = handled /\ client_view' = committed
        \/ /\ runtime_control = "dispatching"
           /\ runtime_control' = "disable_pending"
           /\ client_view' = client_view
        \/ /\ runtime_control = "ready"
           /\ runtime_control' = "null"
           /\ client_view' = Unowned
    BY <1>3, <2>1, <2>3, <2>4 DEF ApplyChanges
  <2> QED
    BY <1>3, <2>1, <2>2, <2>5, <2>6
    DEF UpdateControlAvailability, Published, MarkedForDestruction, Destroyed
<1> QED
  BY <1>2, <1>3 DEF Callable, Undispatched

-----------------------------------------------------------------------------

(* The invariant holds at first.                                           *)
LEMMA RCInitInv == RCInit => RCInv
<1> SUFFICES ASSUME RCInit PROVE RCInv
  OBVIOUS
<1> USE DurationAssumption DEF RCInit
<1>1. RCTypeOK
  <2>1. /\ NoTimer \in Timer(ActivityTimeout)
        /\ NoTimer \in Timer(DetectionThrottle)
        /\ {NoTimer, RetryPeriod} \subseteq Timer(RetryPeriod)
    BY DEF Timer
  <2>2. runtime_state \in SUBSET Properties
    BY DEF Properties
  <2> QED
    BY <2>1, <2>2 DEF RCTypeOK, ControlStates, Connected
<1>2. ActivityOfCurrentMode
  BY DEF ActivityOfCurrentMode, Unowned
<1>3. ActivityHasTimer
  BY DEF ActivityHasTimer
<1>4. RetryIffDisconnected
  <2>1. runtime_state \cap Activity = {}
    BY DEF Activity
  <2>2. activity_tracking_available <=> Connected
    OBVIOUS
  <2>3. RetryPeriod # NoTimer
    BY DEF NoTimer
  <2> QED
    BY <2>1, <2>2, <2>3 DEF RetryIffDisconnected, Connected
<1>5. ClientViewCurrent
  BY DEF ClientViewCurrent, Connected
<1> QED
  BY <1>1, <1>2, <1>3, <1>4, <1>5 DEF RCInv

(* A commit preserves the invariant when the values it commits are of the   *)
(* current or the new mode and come with the timers they need.              *)
LEMMA ApplyChangesInv ==
    ASSUME RCInv,
           NEW mask \in SUBSET Properties, NEW values \in SUBSET mask,
           NEW running \in Timer(ActivityTimeout),
           NEW throttle \in Timer(DetectionThrottle),
           NEW handled,
           Callable(handled),
           ApplyChanges(mask, values, running, throttle, handled),
           LET committed == (runtime_state \ mask) \cup values
           IN  /\ runtime_control = "null" => committed \cap Activity = {}
               /\ "activity_while_running" \in committed =>
                      "paused" \notin committed
               /\ "activity_while_paused" \in committed =>
                      "paused" \in committed
               /\ "activity_while_running" \in committed
                      <=> running # NoTimer
               /\ "activity_while_paused" \in committed
                      <=> throttle # NoTimer
    PROVE  RCInv'
<1> DEFINE committed == (runtime_state \ mask) \cup values
<1>1. /\ committed \in SUBSET Properties
      /\ runtime_control = "null" => committed \cap Activity = {}
      /\ "activity_while_running" \in committed => "paused" \notin committed
      /\ "activity_while_paused" \in committed => "paused" \in committed
      /\ "activity_while_running" \in committed <=> running # NoTimer
      /\ "activity_while_paused" \in committed <=> throttle # NoTimer
  BY DEF RCInv, RCTypeOK
<1>2. \/ /\ runtime_control \in {"ready", "dispatching"}
         /\ handled \in {"ready", "returning"}
         /\ Published(committed, running, throttle, handled)
      \/ MarkedForDestruction(committed, running, throttle)
      \/ Destroyed(committed)
      \/ Unpublished(committed, running, throttle)
  BY ApplyChangesEffect
<1> HIDE DEF committed
<1>3. CASE /\ runtime_control \in {"ready", "dispatching"}
           /\ handled \in {"ready", "returning"}
           /\ Published(committed, running, throttle, handled)
  BY <1>1, <1>3 DEF Published, RCInv, RCTypeOK, ControlStates,
      ActivityOfCurrentMode, ActivityHasTimer, RetryIffDisconnected,
      ClientViewCurrent, Connected
<1>4. CASE MarkedForDestruction(committed, running, throttle)
  BY <1>1, <1>4 DEF MarkedForDestruction, RCInv, RCTypeOK, ControlStates,
      ActivityOfCurrentMode, ActivityHasTimer, RetryIffDisconnected,
      ClientViewCurrent, Connected
<1>5. CASE Destroyed(committed)
  <2>1. RCTypeOK'
    <3>1. /\ NoTimer \in Timer(ActivityTimeout)
          /\ NoTimer \in Timer(DetectionThrottle)
          /\ RetryPeriod \in Timer(RetryPeriod)
      BY DurationAssumption DEF Timer
    <3>2. committed \ Activity \in SUBSET Properties
      BY <1>1
    <3> QED
      BY <1>5, <3>1, <3>2 DEF Destroyed, RCTypeOK, ControlStates
  <2>2. ActivityOfCurrentMode' /\ ActivityHasTimer'
    BY <1>5
    DEF Destroyed, ActivityOfCurrentMode, ActivityHasTimer, Activity, Unowned
  <2>3. RetryIffDisconnected'
    BY <1>5, DurationAssumption
    DEF Destroyed, RetryIffDisconnected, Connected, Activity, NoTimer
  <2>4. ClientViewCurrent'
    BY <1>5 DEF Destroyed, ClientViewCurrent, Connected
  <2> QED
    BY <2>1, <2>2, <2>3, <2>4 DEF RCInv
<1>6. CASE Unpublished(committed, running, throttle)
  <2>1. RCTypeOK'
    BY <1>1, <1>6
    DEF Unpublished, RCInv, RCTypeOK, ControlStates
  <2>2. ActivityOfCurrentMode' /\ ActivityHasTimer'
    BY <1>1, <1>6
    DEF Unpublished, ActivityOfCurrentMode, ActivityHasTimer, Unowned
  <2>3. RetryIffDisconnected'
    BY <1>1, <1>6
    DEF Unpublished, RCInv, RetryIffDisconnected, Connected
  <2>4. ClientViewCurrent'
    BY <1>6 DEF Unpublished, ClientViewCurrent, Connected
  <2> QED
    BY <2>1, <2>2, <2>3, <2>4 DEF RCInv
<1> QED
  BY <1>2, <1>3, <1>4, <1>5, <1>6

-----------------------------------------------------------------------------
(* One lemma per operation.                                                 *)

(* The beginning and the end of a dispatch, and its failure, keep the      *)
(* invariant.                                                              *)
LEMMA DispatchInv ==
    ASSUME RCInv, BeginDispatch \/ AnswerWithoutCommit
    PROVE  RCInv'
<1> USE DEF BeginDispatch, AnswerWithoutCommit, timer_vars
<1>1. RCTypeOK'
  BY DEF RCInv, RCTypeOK, ControlStates
<1>2. ActivityOfCurrentMode'
  BY DEF RCInv, ActivityOfCurrentMode
<1>3. ActivityHasTimer'
  BY DEF RCInv, ActivityHasTimer
<1>4. RetryIffDisconnected'
  BY DEF RCInv, RetryIffDisconnected, Connected
<1>5. ClientViewCurrent'
  BY DEF RCInv, ClientViewCurrent, Connected
<1> QED
  BY <1>1, <1>2, <1>3, <1>4, <1>5 DEF RCInv

(* The mode that is left loses its indication and its timer; the mode that  *)
(* is entered has none, since its own indication was ended when it was left *)
(* before.                                                                  *)
LEMMA CommitPausedInv ==
    ASSUME RCInv, NEW pause \in BOOLEAN, CommitPaused(pause)
    PROVE  RCInv'
<1>1. NoTimer \in Timer(ActivityTimeout) /\ NoTimer \in Timer(DetectionThrottle)
  BY DEF Timer
<1>2. /\ running_activity_timer \in Timer(ActivityTimeout)
      /\ paused_activity_timer \in Timer(DetectionThrottle)
      /\ Callable("returning")
  BY DEF RCInv, RCTypeOK, CommitPaused, Callable
<1>3. CASE pause
  <2>1. ApplyChanges({"paused", "activity_while_running"}, {"paused"},
                     NoTimer, paused_activity_timer, "returning")
    BY <1>3 DEF CommitPaused
  <2>2. "paused" \notin runtime_state /\ runtime_control # "null"
    BY <1>3 DEF CommitPaused, paused
  <2>3. "activity_while_paused" \notin runtime_state
    BY <2>2 DEF RCInv, ActivityOfCurrentMode
  <2>4. paused_activity_timer = NoTimer
    BY <2>3 DEF RCInv, ActivityHasTimer
  <2> QED
    BY <1>1, <1>2, <2>1, <2>2, <2>3, <2>4, ApplyChangesInv
    DEF Properties, Activity
<1>4. CASE ~pause
  <2>1. ApplyChanges({"paused", "activity_while_paused"}, {},
                     running_activity_timer, NoTimer, "returning")
    BY <1>4 DEF CommitPaused
  <2>2. "paused" \in runtime_state /\ runtime_control # "null"
    BY <1>4 DEF CommitPaused, paused
  <2>3. "activity_while_running" \notin runtime_state
    BY <2>2 DEF RCInv, ActivityOfCurrentMode
  <2>4. running_activity_timer = NoTimer
    BY <2>3 DEF RCInv, ActivityHasTimer
  <2> QED
    BY <1>1, <1>2, <2>1, <2>2, <2>3, <2>4, ApplyChangesInv
    DEF Properties, Activity
<1> QED
  BY <1>3, <1>4

(* A change of SourceAvailable keeps the invariant.                        *)
LEMMA SetSourceAvailableInv ==
    ASSUME RCInv, Undispatched, NEW available \in BOOLEAN,
           SetSourceAvailable(available)
    PROVE  RCInv'
<1> DEFINE values == IF available THEN {"source_available"} ELSE {}
<1>1. ApplyChanges({"source_available"}, values, running_activity_timer,
                   paused_activity_timer, runtime_control)
  BY DEF SetSourceAvailable, ApplyChangesUndispatched
<1>2. /\ values \in SUBSET {"source_available"}
      /\ {"source_available"} \in SUBSET Properties
      /\ Callable(runtime_control)
      /\ running_activity_timer \in Timer(ActivityTimeout)
      /\ paused_activity_timer \in Timer(DetectionThrottle)
  BY DEF RCInv, RCTypeOK, Properties, Callable
<1>3. \A p \in Properties \ {"source_available"} :
          p \in (runtime_state \ {"source_available"}) \cup values
              <=> p \in runtime_state
  OBVIOUS
<1>4. ((runtime_state \ {"source_available"}) \cup values) \cap Activity
          = runtime_state \cap Activity
  BY DEF Activity
<1> HIDE DEF values
<1> QED
  BY <1>1, <1>2, <1>3, <1>4, ApplyChangesInv
  DEF RCInv, ActivityOfCurrentMode, ActivityHasTimer, RetryIffDisconnected,
      Properties, Activity

(* An event of the source keeps the invariant in either mode.              *)
LEMMA PhysicalActivityInv ==
    ASSUME RCInv, Undispatched, PhysicalActivity
    PROVE  RCInv'
<1>1. /\ running_activity_timer \in Timer(ActivityTimeout)
      /\ paused_activity_timer \in Timer(DetectionThrottle)
      /\ Callable(runtime_control)
  BY DEF RCInv, RCTypeOK, Callable
<1>2. ASSUME activity_tracking_available
      PROVE  runtime_control # "null"
  BY <1>2 DEF RCInv, RetryIffDisconnected
<1>3. CASE /\ activity_tracking_available
           /\ ~paused
           /\ ApplyChangesUndispatched(
                  {"activity_while_running"},
                  IF ActivityTimeout # 0 THEN {"activity_while_running"}
                                         ELSE {},
                  Started(ActivityTimeout), paused_activity_timer)
  <2> DEFINE values == IF ActivityTimeout # 0 THEN {"activity_while_running"}
                                              ELSE {}
             running == Started(ActivityTimeout)
  <2>1. /\ values \in SUBSET {"activity_while_running"}
        /\ running \in Timer(ActivityTimeout)
        /\ "activity_while_running" \in values <=> running # NoTimer
    BY DurationAssumption DEF Started, Timer, NoTimer
  <2>2. ApplyChanges({"activity_while_running"}, values, running,
                     paused_activity_timer, runtime_control)
    BY <1>3 DEF ApplyChangesUndispatched
  <2> HIDE DEF values, running
  <2>3. "paused" \notin runtime_state
    BY <1>3 DEF paused
  <2> QED
    BY <1>1, <1>2, <1>3, <2>1, <2>2, <2>3, ApplyChangesInv
    DEF RCInv, ActivityOfCurrentMode, ActivityHasTimer, Properties, Activity
<1>4. CASE /\ activity_tracking_available
           /\ paused
           /\ paused_activity_timer = NoTimer
           /\ ApplyChangesUndispatched(
                  {"activity_while_paused"},
                  IF DetectionThrottle # 0 THEN {"activity_while_paused"}
                                           ELSE {},
                  running_activity_timer, Started(DetectionThrottle))
  <2> DEFINE values == IF DetectionThrottle # 0 THEN {"activity_while_paused"}
                                                ELSE {}
             throttle == Started(DetectionThrottle)
  <2>1. /\ values \in SUBSET {"activity_while_paused"}
        /\ throttle \in Timer(DetectionThrottle)
        /\ "activity_while_paused" \in values <=> throttle # NoTimer
    BY DurationAssumption DEF Started, Timer, NoTimer
  <2>2. ApplyChanges({"activity_while_paused"}, values,
                     running_activity_timer, throttle, runtime_control)
    BY <1>4 DEF ApplyChangesUndispatched
  <2> HIDE DEF values, throttle
  <2>3. "paused" \in runtime_state
    BY <1>4 DEF paused
  <2> QED
    BY <1>1, <1>2, <1>4, <2>1, <2>2, <2>3, ApplyChangesInv
    DEF RCInv, ActivityOfCurrentMode, ActivityHasTimer, Properties, Activity
<1>5. CASE UNCHANGED rc_vars
  BY <1>5 DEF rc_vars, RCInv, RCTypeOK, ActivityOfCurrentMode,
      ActivityHasTimer, RetryIffDisconnected, ClientViewCurrent, Connected
<1> QED
  BY <1>3, <1>4, <1>5 DEF PhysicalActivity

(* The expiry of activity keeps the invariant.                             *)
LEMMA ActivityTimersInv ==
    ASSUME RCInv, Undispatched, ActivityTimers
    PROVE  RCInv'
<1>1. CASE activity_tracking_available /\ ExpiredActivity # {}
  <2> DEFINE running == Unexpired(running_activity_timer)
             throttle == Unexpired(paused_activity_timer)
  <2>1. /\ running_activity_timer \in Timer(ActivityTimeout)
        /\ paused_activity_timer \in Timer(DetectionThrottle)
        /\ Callable(runtime_control)
        /\ runtime_control # "null"
    BY <1>1 DEF RCInv, RCTypeOK, RetryIffDisconnected, Callable
  <2>2. /\ running \in Timer(ActivityTimeout)
        /\ throttle \in Timer(DetectionThrottle)
    BY <2>1, TimerArithmetic, DurationAssumption
  <2>3. ApplyChanges(ExpiredActivity, {}, running, throttle, runtime_control)
    BY <1>1 DEF ActivityTimers, ApplyChangesUndispatched
  <2>4. /\ "activity_while_running" \in ExpiredActivity
               <=> running_activity_timer = 0
        /\ "activity_while_paused" \in ExpiredActivity
               <=> paused_activity_timer = 0
        /\ ExpiredActivity \in SUBSET Properties
        /\ "paused" \notin ExpiredActivity
    BY DEF ExpiredActivity, Activity, Properties
  <2>5. /\ running # NoTimer <=> /\ running_activity_timer # NoTimer
                                /\ running_activity_timer # 0
        /\ throttle # NoTimer <=> /\ paused_activity_timer # NoTimer
                                 /\ paused_activity_timer # 0
    BY DEF Unexpired, NoTimer
  <2> HIDE DEF running, throttle
  <2> QED
    BY <2>1, <2>2, <2>3, <2>4, <2>5, ApplyChangesInv
    DEF RCInv, ActivityOfCurrentMode, ActivityHasTimer
<1>2. CASE UNCHANGED rc_vars
  BY <1>2 DEF rc_vars, RCInv, RCTypeOK, ActivityOfCurrentMode,
      ActivityHasTimer, RetryIffDisconnected, ClientViewCurrent, Connected
<1> QED
  BY <1>1, <1>2 DEF ActivityTimers

(* The connection is lost, or a dispatch ends.                              *)
LEMMA ReturnInv ==
    ASSUME RCInv, DispatchReturn \/ DispatchFails
    PROVE  RCInv'
<1>1. CASE /\ runtime_control = "returning"
           /\ runtime_control' = "ready"
           /\ UNCHANGED client_view
           /\ UpdateControlAvailability(runtime_state,
                  running_activity_timer, paused_activity_timer)
  <2>1. /\ activity_tracking_available' = TRUE
        /\ runtime_state' = runtime_state
        /\ UNCHANGED timer_vars
        /\ UNCHANGED runtime_control_retry
    BY <1>1 DEF UpdateControlAvailability, timer_vars
  <2> QED
    BY <1>1, <2>1 DEF timer_vars, RCInv, RCTypeOK, ControlStates,
        ActivityOfCurrentMode, ActivityHasTimer, RetryIffDisconnected,
        ClientViewCurrent, Connected
<1>2. CASE /\ runtime_control \in {"disable_pending", "ready"}
           /\ runtime_control' = "null"
           /\ client_view' = Unowned
           /\ UpdateControlAvailability(runtime_state,
                  running_activity_timer, paused_activity_timer)
  <2>1. activity_tracking_available
    BY <1>2 DEF RCInv, RetryIffDisconnected, Connected
  <2>2. /\ activity_tracking_available' = FALSE
        /\ runtime_state' = runtime_state \ Activity
        /\ running_activity_timer' = NoTimer
        /\ paused_activity_timer' = NoTimer
        /\ runtime_control_retry' = RetryPeriod
    BY <1>2, <2>1 DEF UpdateControlAvailability
  <2>3. RCTypeOK'
    BY <1>2, <2>2, TimerArithmetic, DurationAssumption
    DEF RCInv, RCTypeOK, ControlStates
  <2>4. ActivityOfCurrentMode' /\ ActivityHasTimer'
    BY <1>2, <2>2
    DEF ActivityOfCurrentMode, ActivityHasTimer, Activity, Unowned
  <2>5. RetryIffDisconnected'
    <3>1. RetryPeriod # NoTimer
      BY DurationAssumption DEF NoTimer
    <3> QED
      BY <1>2, <2>2, <3>1 DEF RetryIffDisconnected, Connected
  <2>6. ClientViewCurrent'
    BY <1>2 DEF ClientViewCurrent, Connected
  <2> QED
    BY <2>3, <2>4, <2>5, <2>6 DEF RCInv
<1> QED
  BY <1>1, <1>2 DEF DispatchReturn, DispatchFails

(* An attempt to reconnect keeps the invariant.                            *)
LEMMA RecoveryInv ==
    ASSUME RCInv, Undispatched, Recovery
    PROVE  RCInv'
<1>1. CASE Reconnect
  <2>1. RCTypeOK'
    BY <1>1, TimerArithmetic, DurationAssumption
    DEF Reconnect, timer_vars, RCInv, RCTypeOK, ControlStates
  <2>2. ActivityOfCurrentMode' /\ ActivityHasTimer'
    BY <1>1 DEF Reconnect, timer_vars, RCInv, ActivityOfCurrentMode,
        ActivityHasTimer
  <2>3. RetryIffDisconnected' /\ ClientViewCurrent'
    BY <1>1 DEF Reconnect, RetryIffDisconnected, ClientViewCurrent, Connected
  <2> QED
    BY <2>1, <2>2, <2>3 DEF RCInv
<1>2. CASE ReconnectFails
  <2>1. runtime_control = "null"
    BY <1>2 DEF ReconnectFails, Undispatched, RCInv, RetryIffDisconnected,
        Connected, NoTimer
  <2>2. RCTypeOK'
    BY <1>2, TimerArithmetic, DurationAssumption
    DEF ReconnectFails, timer_vars, RCInv, RCTypeOK, ControlStates
  <2>3. ActivityOfCurrentMode' /\ ActivityHasTimer'
    BY <1>2 DEF ReconnectFails, timer_vars, RCInv, ActivityOfCurrentMode,
        ActivityHasTimer
  <2>4. RetryIffDisconnected'
    <3>1. RetryPeriod # NoTimer
      BY DurationAssumption DEF NoTimer
    <3>2. /\ runtime_control' = "null"
          /\ runtime_control_retry' = RetryPeriod
          /\ UNCHANGED <<activity_tracking_available, runtime_state>>
      BY <1>2 DEF ReconnectFails
    <3> QED
      BY <2>1, <3>1, <3>2 DEF RCInv, RetryIffDisconnected, Connected
  <2>5. ClientViewCurrent'
    BY <1>2, <2>1 DEF ReconnectFails, RCInv, ClientViewCurrent, Connected
  <2> QED
    BY <2>2, <2>3, <2>4, <2>5 DEF RCInv
<1>3. CASE UNCHANGED rc_vars
  BY <1>3 DEF rc_vars, RCInv, RCTypeOK, ActivityOfCurrentMode,
      ActivityHasTimer, RetryIffDisconnected, ClientViewCurrent, Connected
<1> QED
  BY <1>1, <1>2, <1>3 DEF Recovery

(* The release of the connection keeps the invariant.                      *)
LEMMA ReleaseInv ==
    ASSUME RCInv, Release
    PROVE  RCInv'
  BY DEF Release, timer_vars, RCInv, RCTypeOK, ControlStates, Connected,
      ActivityOfCurrentMode, ActivityHasTimer, RetryIffDisconnected,
      ClientViewCurrent, Unowned

(* The passing of time keeps the invariant.                                *)
LEMMA ElapseInv ==
    ASSUME RCInv, ElapseRC
    PROVE  RCInv'
<1>1. /\ running_activity_timer \in Timer(ActivityTimeout)
      /\ paused_activity_timer \in Timer(DetectionThrottle)
      /\ runtime_control_retry \in Timer(RetryPeriod)
  BY DEF RCInv, RCTypeOK
<1>2. /\ running_activity_timer' \in Timer(ActivityTimeout)
      /\ running_activity_timer' = NoTimer <=> running_activity_timer = NoTimer
      /\ paused_activity_timer' \in Timer(DetectionThrottle)
      /\ paused_activity_timer' = NoTimer <=> paused_activity_timer = NoTimer
      /\ runtime_control_retry' \in Timer(RetryPeriod)
      /\ runtime_control_retry' = NoTimer <=> runtime_control_retry = NoTimer
  BY <1>1, TimerArithmetic, DurationAssumption DEF ElapseRC
<1>3. UNCHANGED <<runtime_control, runtime_state,
                  activity_tracking_available, client_view>>
  BY DEF ElapseRC
<1>4. RCTypeOK'
  BY <1>2, <1>3 DEF RCInv, RCTypeOK
<1>5. ActivityOfCurrentMode' /\ ActivityHasTimer'
  BY <1>2, <1>3 DEF RCInv, ActivityOfCurrentMode, ActivityHasTimer
<1>6. RetryIffDisconnected' /\ ClientViewCurrent'
  BY <1>2, <1>3
  DEF RCInv, RetryIffDisconnected, ClientViewCurrent, Connected
<1> QED
  BY <1>4, <1>5, <1>6 DEF RCInv

(* The invariant is inductive.                                             *)
LEMMA RCNextInv == RCInv /\ [RCNext]_rc_vars => RCInv'
<1> SUFFICES ASSUME RCInv, [RCNext]_rc_vars PROVE RCInv'
  OBVIOUS
<1>1. CASE UNCHANGED rc_vars
  BY <1>1 DEF rc_vars, RCInv, RCTypeOK, ActivityOfCurrentMode,
      ActivityHasTimer, RetryIffDisconnected, ClientViewCurrent, Connected
<1>2. CASE BeginDispatch \/ AnswerWithoutCommit
  BY <1>2, DispatchInv
<1>3. CASE \E pause \in BOOLEAN : CommitPaused(pause)
  BY <1>3, CommitPausedInv
<1>4. CASE DispatchReturn \/ DispatchFails
  BY <1>4, ReturnInv
<1>5. CASE Undispatched /\ Recovery
  BY <1>5, RecoveryInv
<1>6. CASE Undispatched /\ PhysicalActivity
  BY <1>6, PhysicalActivityInv
<1>7. CASE Undispatched /\ ActivityTimers
  BY <1>7, ActivityTimersInv
<1>8. CASE \E available \in BOOLEAN :
               Undispatched /\ SetSourceAvailable(available)
  BY <1>8, SetSourceAvailableInv
<1>9. CASE Undispatched /\ Release
  BY <1>9, ReleaseInv
<1>10. CASE RCTick
  BY <1>10, ElapseInv DEF RCTick
<1> QED
  BY <1>1, <1>2, <1>3, <1>4, <1>5, <1>6, <1>7, <1>8, <1>9, <1>10 DEF RCNext

-----------------------------------------------------------------------------

(* The invariant holds in every behaviour.                                 *)
THEOREM RCInvariant == RCSpec => []RCInv
  BY RCInitInv, RCNextInv, PTL DEF RCSpec

(* Every variable of the connection keeps its type, a timer the range of    *)
(* its period.                                                              *)
THEOREM RCTypeCorrect == RCSpec => []RCTypeOK
<1>1. RCInv => RCTypeOK
  BY DEF RCInv
<1> QED
  BY <1>1, RCInvariant, PTL

(* The indications of activity are mode-scoped for the session and for its  *)
(* clients (section 9 of DBUS_INTERFACE.md).                                *)
THEOREM ModeScopedActivity == RCSpec => []ActivityOfCurrentMode
<1>1. RCInv => ActivityOfCurrentMode
  BY DEF RCInv
<1> QED
  BY <1>1, RCInvariant, PTL

(* An indication is up exactly while the timer that ends it is armed.       *)
THEOREM IndicationHasTimer == RCSpec => []ActivityHasTimer
<1>1. RCInv => ActivityHasTimer
  BY DEF RCInv
<1> QED
  BY <1>1, RCInvariant, PTL

(* The retry is armed exactly while the session has no connection.          *)
THEOREM RetryArmed == RCSpec => []RetryIffDisconnected
<1>1. RCInv => RetryIffDisconnected
  BY DEF RCInv
<1> QED
  BY <1>1, RCInvariant, PTL

(* Clients were told what the session holds.                                *)
THEOREM ClientsCurrent == RCSpec => []ClientViewCurrent
<1>1. RCInv => ClientViewCurrent
  BY DEF RCInv
<1> QED
  BY <1>1, RCInvariant, PTL

(* No failed notification destroys the connection under a method handler:   *)
(* of all operations only those a dispatch itself makes can run then.       *)
THEOREM DispatchKeepsConnection == RCSpec => NoDestroyDuringDispatch
<1>1. ASSUME RCInv, [RCNext]_rc_vars, runtime_control = "dispatching"
      PROVE  \/ runtime_control' \in {"dispatching", "returning",
                                      "disable_pending"}
             \/ UNCHANGED rc_vars
  <2>1. CASE \E pause \in BOOLEAN : CommitPaused(pause)
    <3>1. PICK pause \in BOOLEAN : CommitPaused(pause)
      BY <2>1
    <3>2. \E mask, values, running, throttle :
              ApplyChanges(mask, values, running, throttle, "returning")
      BY <3>1 DEF CommitPaused
    <3> QED
      BY <1>1, <3>2 DEF ApplyChanges
  <2>2. CASE AnswerWithoutCommit
    BY <2>2 DEF AnswerWithoutCommit
  <2>3. CASE RCTick
    BY <1>1, <2>3 DEF RCTick, ElapseRC
  <2> QED
    BY <1>1, <2>1, <2>2, <2>3
    DEF RCNext, BeginDispatch, DispatchReturn, DispatchFails, Undispatched
<1>2. RCInv /\ [RCNext]_rc_vars =>
          [runtime_control = "dispatching" =>
               runtime_control' \in {"dispatching", "returning",
                                     "disable_pending"}]_rc_vars
  BY <1>1
<1> QED
  BY <1>2, RCInvariant, PTL DEF RCSpec, NoDestroyDuringDispatch

(* The throttle interval of paused activity is never extended.              *)
THEOREM ThrottleBounded == RCSpec => ThrottleNotExtended
<1>1. ASSUME RCInv, [RCNext]_rc_vars, paused_activity_timer # NoTimer
      PROVE  paused_activity_timer' <= paused_activity_timer
  <2> USE <1>1
  <2> DEFINE timer == paused_activity_timer
  <2>1. /\ timer \in Timer(DetectionThrottle)
        /\ timer \in Int
        /\ NoTimer <= timer
        /\ Elapse(timer) <= timer
        /\ Unexpired(timer) <= timer
    BY TimerArithmetic, DurationAssumption
    DEF RCInv, RCTypeOK, Timer, NoTimer
  <2>2. ASSUME NEW state, NEW running, NEW throttle,
               UpdateControlAvailability(state, running, throttle)
        PROVE  timer' \in {throttle, NoTimer}
    BY <2>2 DEF UpdateControlAvailability
  <2>3. ASSUME NEW mask, NEW values, NEW running, NEW throttle, NEW handled,
               ApplyChanges(mask, values, running, throttle, handled)
        PROVE  timer' \in {throttle, NoTimer}
    BY <2>2, <2>3 DEF ApplyChanges
  <2>4. CASE UNCHANGED timer
    BY <2>1, <2>4
  <2>5. ASSUME NEW pause \in BOOLEAN, CommitPaused(pause)
        PROVE  timer' <= timer
    <3>1. timer' \in {timer, NoTimer}
      BY <2>3, <2>5 DEF CommitPaused
    <3> QED
      BY <2>1, <3>1
  <2>6. CASE DispatchReturn \/ DispatchFails
    <3>1. timer' \in {timer, NoTimer}
      BY <2>2, <2>6 DEF DispatchReturn, DispatchFails
    <3> QED
      BY <2>1, <3>1
  <2>7. CASE PhysicalActivity
    <3>1. timer' \in {timer, NoTimer}
      BY <2>3, <2>7 DEF PhysicalActivity, ApplyChangesUndispatched, rc_vars
    <3> QED
      BY <2>1, <3>1
  <2>8. CASE ActivityTimers
    <3>1. timer' \in {timer, Unexpired(timer), NoTimer}
      BY <2>3, <2>8 DEF ActivityTimers, ApplyChangesUndispatched, rc_vars
    <3> QED
      BY <2>1, <3>1
  <2>9. ASSUME NEW available \in BOOLEAN, SetSourceAvailable(available)
        PROVE  timer' <= timer
    <3>1. timer' \in {timer, NoTimer}
      BY <2>3, <2>9 DEF SetSourceAvailable, ApplyChangesUndispatched
    <3> QED
      BY <2>1, <3>1
  <2>10. CASE RCTick
    BY <2>1, <2>10 DEF RCTick, ElapseRC
  <2>11. ASSUME \/ BeginDispatch \/ AnswerWithoutCommit \/ Recovery
                \/ Release \/ UNCHANGED rc_vars
         PROVE  UNCHANGED timer
    BY <2>11 DEF BeginDispatch, AnswerWithoutCommit, Recovery, Reconnect,
        ReconnectFails, Release, rc_vars, timer_vars
  <2> QED
    BY <2>4, <2>5, <2>6, <2>7, <2>8, <2>9, <2>10, <2>11 DEF RCNext
<1>2. RCInv /\ [RCNext]_rc_vars =>
          [paused_activity_timer # NoTimer =>
               paused_activity_timer' <= paused_activity_timer]_rc_vars
  BY <1>1
<1> QED
  BY <1>2, RCInvariant, PTL DEF RCSpec, ThrottleNotExtended

=============================================================================
