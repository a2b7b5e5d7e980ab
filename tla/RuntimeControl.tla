--------------------------- MODULE RuntimeControl ---------------------------
(***************************************************************************)
(* The D-Bus runtime-control connection of one proxy session, the runtime  *)
(* properties it publishes, and the bookkeeping the session keeps about    *)
(* both: src/src/runtime_control.c and the part of src/src/proxy_session.c *)
(* that commits properties, tracks activity and recovers the connection.   *)
(*                                                                         *)
(* In the code every call that may lose the connection is followed at once *)
(* by update_control_availability; an action below is one such call with   *)
(* the update that follows it.                                             *)
(*                                                                         *)
(* A timer is the time left until its deadline: NoTimer when the code's    *)
(* *_active flag is false, 0 when the deadline has expired.                *)
(***************************************************************************)
EXTENDS Integers

CONSTANTS
    ActivityTimeout,    \* --activity-timeout-ms, in ticks; 0 disables
    DetectionThrottle,  \* --detection-throttle-ms, in ticks; 0 disables
    RetryPeriod         \* RUNTIME_CONTROL_RETRY_MS, in ticks

ASSUME DurationAssumption ==
    /\ ActivityTimeout \in Nat
    /\ DetectionThrottle \in Nat
    /\ RetryPeriod \in Nat \ {0}

VARIABLES
    runtime_control,              \* the connection, see ControlStates
    runtime_state,                \* the Boolean properties that are true
    activity_tracking_available,
    running_activity_timer,
    paused_activity_timer,
    runtime_control_retry,        \* timer of the next reconnection attempt
    client_view                   \* what the clients of the bus were told

rc_vars == <<runtime_control, runtime_state, activity_tracking_available,
             running_activity_timer, paused_activity_timer,
             runtime_control_retry, client_view>>

timer_vars == <<running_activity_timer, paused_activity_timer>>

-----------------------------------------------------------------------------

(* The pointer and its two flags: "null" is a null pointer, "dispatching"  *)
(* and "returning" have dispatch_active set (before and after the method   *)
(* handler), "disable_pending" both flags.  "released" is the null pointer *)
(* that session_run leaves when it ends.                                   *)
ControlStates == {"null", "ready", "dispatching", "returning",
                  "disable_pending", "released"}

Connected == runtime_control \notin {"null", "released"}

Activity == {"activity_while_running", "activity_while_paused"}

Properties == {"paused", "source_available"} \cup Activity

(* No owner of the service name: clients hold no properties at all.        *)
Unowned == {"unowned"}

NoTimer == -1

Timer(period) == {NoTimer} \cup 0 .. period

Started(period) == IF period = 0 THEN NoTimer ELSE period

Elapse(timer) == IF timer > 0 THEN timer - 1 ELSE timer

paused == "paused" \in runtime_state

source_available == "source_available" \in runtime_state

-----------------------------------------------------------------------------

RCTypeOK ==
    /\ runtime_control \in ControlStates
    /\ runtime_state \in SUBSET Properties
    /\ activity_tracking_available \in BOOLEAN
    /\ running_activity_timer \in Timer(ActivityTimeout)
    /\ paused_activity_timer \in Timer(DetectionThrottle)
    /\ runtime_control_retry \in Timer(RetryPeriod)
    /\ client_view \in (SUBSET Properties) \cup {Unowned}

(* session_create sets the state; session_run makes the first connection   *)
(* attempt and arms the retry when it fails.                               *)
RCInit ==
    /\ runtime_control \in {"ready", "null"}
    /\ runtime_state \in {{}, {"paused"}}
    /\ activity_tracking_available = Connected
    /\ running_activity_timer = NoTimer
    /\ paused_activity_timer = NoTimer
    /\ runtime_control_retry = IF Connected THEN NoTimer ELSE RetryPeriod
    /\ client_view = IF Connected THEN runtime_state ELSE Unowned

-----------------------------------------------------------------------------

(* Faulty: the loss of the connection is noticed, the retry is not armed.  *)
UpdateControlAvailabilityNoRetry(state, running, throttle) ==
    /\ activity_tracking_available' = (runtime_control' # "null")
    /\ runtime_state' =
           IF runtime_control' = "null" THEN state \ Activity ELSE state
    /\ running_activity_timer' =
           IF runtime_control' = "null" THEN NoTimer ELSE running
    /\ paused_activity_timer' =
           IF runtime_control' = "null" THEN NoTimer ELSE throttle
    /\ UNCHANGED runtime_control_retry

(* update_control_availability after a call that left runtime_control',    *)
(* the property values `state' and the timers `running' and `throttle'.    *)
(* A lost connection discards activity without a notification and arms     *)
(* the retry.                                                              *)
UpdateControlAvailability(state, running, throttle) ==
    IF runtime_control' = "null" /\ activity_tracking_available
    THEN /\ activity_tracking_available' = FALSE
         /\ runtime_state' = state \ Activity
         /\ running_activity_timer' = NoTimer
         /\ paused_activity_timer' = NoTimer
         /\ runtime_control_retry' = RetryPeriod
    ELSE /\ activity_tracking_available' = (runtime_control' # "null")
         /\ runtime_state' = state
         /\ running_activity_timer' = running
         /\ paused_activity_timer' = throttle
         /\ UNCHANGED runtime_control_retry

(* Faulty: a failed notification destroys the connection at once.          *)
ApplyChangesDestroys(mask, values, running, throttle, handled) ==
    /\ runtime_control' = "null"
    /\ client_view' = Unowned
    /\ UpdateControlAvailability((runtime_state \ mask) \cup values,
                                 running, throttle)

(* Faulty: the notification leaves out "Paused".                           *)
ApplyChangesUnpublished(mask, values, running, throttle, handled) ==
    /\ runtime_control' = handled
    /\ client_view' = (client_view \ (mask \ {"paused"}))
                          \cup (values \ {"paused"})
    /\ UpdateControlAvailability((runtime_state \ mask) \cup values,
                                 running, throttle)

(* input_proxy_runtime_control_apply_changes, then the update: commit the  *)
(* properties of `mask' (true exactly for those in `values') and publish   *)
(* the ones that changed.  When the notification cannot be sent the        *)
(* connection is destroyed, or marked for it while a dispatch is active.   *)
(* `handled' is the state of a connection that survives.                   *)
ApplyChanges(mask, values, running, throttle, handled) ==
    LET changed   == {p \in mask : (p \in values) # (p \in runtime_state)}
        committed == (runtime_state \ changed) \cup (values \cap changed)
        published == (client_view \ changed) \cup (values \cap changed)
    IN  /\ \/ /\ changed = {} \/ ~Connected
              /\ runtime_control' = handled
              /\ UNCHANGED client_view
           \/ /\ changed # {} /\ Connected
              /\ runtime_control' = handled
              /\ client_view' = published
           \/ /\ changed # {} /\ runtime_control = "dispatching"
              /\ runtime_control' = "disable_pending"
              /\ UNCHANGED client_view
           \/ /\ changed # {} /\ Connected /\ runtime_control # "dispatching"
              /\ runtime_control' = "null"
              /\ client_view' = Unowned
        /\ UpdateControlAvailability(committed, running, throttle)

(* A call outside any dispatch.                                            *)
ApplyChangesUndispatched(mask, values, running, throttle) ==
    ApplyChanges(mask, values, running, throttle, runtime_control)

-----------------------------------------------------------------------------

(* sd_bus_process takes a Pause or Resume call from the queue.             *)
BeginDispatch ==
    /\ runtime_control = "ready"
    /\ runtime_control' = "dispatching"
    /\ UNCHANGED <<runtime_state, activity_tracking_available, timer_vars,
                   runtime_control_retry, client_view>>

(* The handler answered without a commit: the request named the current    *)
(* state, or the state correction failed.                                  *)
AnswerWithoutCommit ==
    /\ runtime_control = "dispatching"
    /\ runtime_control' = "returning"
    /\ UNCHANGED <<runtime_state, activity_tracking_available, timer_vars,
                   runtime_control_retry, client_view>>

(* Faulty: the mode is committed, the activity of the old mode stays.      *)
CommitPausedKeepsActivity(pause) ==
    /\ runtime_control = "dispatching"
    /\ paused # pause
    /\ ApplyChanges({"paused"}, IF pause THEN {"paused"} ELSE {},
                    running_activity_timer, paused_activity_timer,
                    "returning")

(* Faulty: the indication is cleared, its timer is left running.           *)
CommitPausedKeepsTimer(pause) ==
    /\ runtime_control = "dispatching"
    /\ paused # pause
    /\ ApplyChanges({"paused"} \cup Activity,
                    IF pause THEN {"paused"} ELSE {},
                    running_activity_timer, paused_activity_timer,
                    "returning")

(* The tail of input_proxy_session_request_paused: commit the new mode and *)
(* end the activity of the mode it leaves, in one notification.            *)
CommitPaused(pause) ==
    /\ runtime_control = "dispatching"
    /\ paused # pause
    /\ IF pause
       THEN ApplyChanges({"paused", "activity_while_running"}, {"paused"},
                         NoTimer, paused_activity_timer, "returning")
       ELSE ApplyChanges({"paused", "activity_while_paused"}, {},
                         running_activity_timer, NoTimer, "returning")

(* sd_bus_process returns: a connection marked during the dispatch is      *)
(* destroyed only now.                                                     *)
DispatchReturn ==
    /\ \/ /\ runtime_control = "returning"
          /\ runtime_control' = "ready"
          /\ UNCHANGED client_view
       \/ /\ runtime_control = "disable_pending"
          /\ runtime_control' = "null"
          /\ client_view' = Unowned
    /\ UpdateControlAvailability(runtime_state, running_activity_timer,
                                 paused_activity_timer)

(* sd_bus_process or sd_bus_wait fails.                                    *)
DispatchFails ==
    /\ runtime_control = "ready"
    /\ runtime_control' = "null"
    /\ client_view' = Unowned
    /\ UpdateControlAvailability(runtime_state, running_activity_timer,
                                 paused_activity_timer)

(* Faulty: the retry is not armed again after a failed attempt.            *)
ReconnectFailsForGood ==
    /\ runtime_control_retry = 0
    /\ runtime_control' = "null"
    /\ runtime_control_retry' = NoTimer
    /\ UNCHANGED <<runtime_state, activity_tracking_available, timer_vars,
                   client_view>>

(* process_runtime_control_recovery, when the retry deadline has expired.  *)
(* A new connection starts with whatever the properties are now.           *)
Reconnect ==
    /\ runtime_control_retry = 0
    /\ runtime_control' = "ready"
    /\ runtime_control_retry' = NoTimer
    /\ activity_tracking_available' = TRUE
    /\ client_view' = runtime_state
    /\ UNCHANGED <<runtime_state, timer_vars>>

ReconnectFails ==
    /\ runtime_control_retry = 0
    /\ runtime_control' = "null"
    /\ runtime_control_retry' = RetryPeriod
    /\ UNCHANGED <<runtime_state, activity_tracking_available, timer_vars,
                   client_view>>

Recovery ==
    \/ Reconnect
    \/ ReconnectFails
    \/ runtime_control_retry # 0 /\ UNCHANGED rc_vars

(* Faulty: paused activity restarts its interval like running activity.    *)
PhysicalActivityRetriggers ==
    /\ activity_tracking_available
    /\ IF paused
       THEN ApplyChangesUndispatched(
                {"activity_while_paused"},
                IF DetectionThrottle # 0 THEN {"activity_while_paused"} ELSE {},
                running_activity_timer, Started(DetectionThrottle))
       ELSE ApplyChangesUndispatched(
                {"activity_while_running"},
                IF ActivityTimeout # 0 THEN {"activity_while_running"} ELSE {},
                Started(ActivityTimeout), paused_activity_timer)

(* process_physical_activity: running activity restarts its hold interval, *)
(* paused activity is ignored until its throttle interval has ended.       *)
PhysicalActivity ==
    \/ /\ activity_tracking_available
       /\ ~paused
       /\ ApplyChangesUndispatched(
              {"activity_while_running"},
              IF ActivityTimeout # 0 THEN {"activity_while_running"} ELSE {},
              Started(ActivityTimeout), paused_activity_timer)
    \/ /\ activity_tracking_available
       /\ paused
       /\ paused_activity_timer = NoTimer
       /\ ApplyChangesUndispatched(
              {"activity_while_paused"},
              IF DetectionThrottle # 0 THEN {"activity_while_paused"} ELSE {},
              running_activity_timer, Started(DetectionThrottle))
    \/ /\ \/ ~activity_tracking_available
          \/ paused /\ paused_activity_timer # NoTimer
       /\ UNCHANGED rc_vars

(* input_proxy_session_process_activity_timers: end every interval whose   *)
(* deadline has passed, in one notification.                               *)
ExpiredActivity ==
    {p \in Activity :
        \/ p = "activity_while_running" /\ running_activity_timer = 0
        \/ p = "activity_while_paused" /\ paused_activity_timer = 0}

Unexpired(timer) == IF timer = 0 THEN NoTimer ELSE timer

ActivityTimers ==
    IF activity_tracking_available /\ ExpiredActivity # {}
    THEN ApplyChangesUndispatched(ExpiredActivity, {},
                                  Unexpired(running_activity_timer),
                                  Unexpired(paused_activity_timer))
    ELSE UNCHANGED rc_vars

SetSourceAvailable(available) ==
    ApplyChangesUndispatched(
        {"source_available"},
        IF available THEN {"source_available"} ELSE {},
        running_activity_timer, paused_activity_timer)

(* input_proxy_runtime_control_destroy at the end of session_run.          *)
Release ==
    /\ runtime_control' = "released"
    /\ client_view' = Unowned
    /\ UNCHANGED <<runtime_state, activity_tracking_available, timer_vars,
                   runtime_control_retry>>

ElapseRC ==
    /\ running_activity_timer' = Elapse(running_activity_timer)
    /\ paused_activity_timer' = Elapse(paused_activity_timer)
    /\ runtime_control_retry' = Elapse(runtime_control_retry)
    /\ UNCHANGED <<runtime_control, runtime_state,
                   activity_tracking_available, client_view>>

RCTick ==
    /\ \E timer \in {running_activity_timer, paused_activity_timer,
                     runtime_control_retry} : timer > 0
    /\ ElapseRC

-----------------------------------------------------------------------------

(* The session seen from here: outside a dispatch it calls in any order    *)
(* until it releases the connection.                                       *)
Undispatched == runtime_control \in {"ready", "null"}

RCNext ==
    \/ BeginDispatch
    \/ AnswerWithoutCommit
    \/ \E pause \in BOOLEAN : CommitPaused(pause)
    \/ DispatchReturn
    \/ DispatchFails
    \/ Undispatched /\ Recovery
    \/ Undispatched /\ PhysicalActivity
    \/ Undispatched /\ ActivityTimers
    \/ \E available \in BOOLEAN :
           Undispatched /\ SetSourceAvailable(available)
    \/ Undispatched /\ Release
    \/ RCTick

RCSpec == RCInit /\ [][RCNext]_rc_vars

(* The loops of the session call the recovery and the timers again and     *)
(* again, a dispatch ends, and time passes; that a bus which is asked      *)
(* again and again accepts a connection at last is an assumption about     *)
(* the environment, used only for ControlRestored.                         *)
RCFairness ==
    /\ WF_rc_vars(RCTick)
    /\ WF_rc_vars(AnswerWithoutCommit \/ \E b \in BOOLEAN : CommitPaused(b))
    /\ WF_rc_vars(DispatchReturn)
    /\ SF_rc_vars(Undispatched /\ Recovery)
    /\ SF_rc_vars(Undispatched /\ Reconnect)
    /\ SF_rc_vars(Undispatched /\ ActivityTimers)

RCFairSpec == RCSpec /\ RCFairness

-----------------------------------------------------------------------------

(* The activity indications are mode-scoped (DBUS_INTERFACE.md, section 9): *)
(* neither the session nor any client ever holds the indication of the      *)
(* mode the session is not in, although the mode changes, the timers and    *)
(* the notifications are separate calls that may each fail.                 *)
ActivityOfCurrentMode ==
    \A view \in {runtime_state, client_view} :
        /\ "activity_while_running" \in view => "paused" \notin view
        /\ "activity_while_paused" \in view => "paused" \in view

(* An indication is up exactly while the timer that will end it is armed:   *)
(* no lost connection, mode change or expiry leaves it up for ever or       *)
(* leaves a timer behind that would cut the next one short.                 *)
ActivityHasTimer ==
    /\ "activity_while_running" \in runtime_state
           <=> running_activity_timer # NoTimer
    /\ "activity_while_paused" \in runtime_state
           <=> paused_activity_timer # NoTimer

(* A session without a connection tracks no activity and has its retry      *)
(* armed; a session with one never has, since the recovery would overwrite  *)
(* the pointer of the live connection.                                      *)
RetryIffDisconnected ==
    /\ runtime_control = "null" =>
           /\ ~activity_tracking_available
           /\ runtime_state \cap Activity = {}
           /\ runtime_control_retry # NoTimer
    /\ Connected =>
           /\ activity_tracking_available
           /\ runtime_control_retry = NoTimer

(* What the clients were told is what the session holds, whatever order     *)
(* commits, expiries, losses and reconnections came in.  Only a connection  *)
(* already marked for destruction may lag behind.                           *)
ClientViewCurrent ==
    /\ Connected /\ runtime_control # "disable_pending" =>
           client_view = runtime_state
    /\ ~Connected => client_view = Unowned

(* A notification that fails inside a method handler does not destroy the   *)
(* connection sd_bus_process is still working on.                           *)
NoDestroyDuringDispatch ==
    [][runtime_control = "dispatching" =>
           runtime_control' \in {"dispatching", "returning",
                                 "disable_pending"}]_rc_vars

(* Events during the throttle interval never extend it, also when the       *)
(* session leaves the paused mode or loses its connection meanwhile.        *)
ThrottleNotExtended ==
    [][paused_activity_timer # NoTimer =>
           paused_activity_timer' <= paused_activity_timer]_rc_vars

(* Paused activity ends although events keep arriving, unless the session   *)
(* ends first.                                                              *)
PausedActivityEnds ==
    "activity_while_paused" \in runtime_state ~>
        \/ "activity_while_paused" \notin runtime_state
        \/ runtime_control = "released"

(* A lost connection is replaced for as long as the session runs.           *)
ControlRestored ==
    runtime_control = "null" ~> runtime_control # "null"

=============================================================================
