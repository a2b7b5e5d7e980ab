------------------------------- MODULE Commands -------------------------------
(***************************************************************************)
(* One execution of the program: main (main.c) and the command it runs, as *)
(* far as the command reads the world before it acts on it.                *)
(*                                                                         *)
(*   install     from its options to the configuration of its service      *)
(*   run         its options, and the timers it is configured with         *)
(*   inspect     the instances of a device                                 *)
(*   list        the running instances                                     *)
(*   uninstall   the installed instances, to choose one of them            *)
(*                                                                         *)
(* What a command does not look at keeps its initial value.  The sessions  *)
(* that `run' becomes are in ProxySession, and what install and uninstall  *)
(* do to the host is in Deployment.                                        *)
(***************************************************************************)
EXTENDS InstallPlan, Inspection, Deadlines

CONSTANTS
    Starts,        \* the times at which a timer is started
    MaximumWait    \* the longest sleep of the session, in microseconds

(* The longest duration that is accepted fits the arithmetic.              *)
ASSUME CommandsAssumption ==
    /\ Starts \subseteq Timespec
    /\ MaximumWait \in Nat \ {0}
    /\ MaxDuration * NsPerMs < Word

VARIABLES
    command,    \* the command main dispatches to
    timer,      \* the option that gives the duration of the timer, or None
    started,    \* when the timer was started
    deadline,   \* and when it is to expire
    now         \* CLOCK_MONOTONIC

timer_vars == <<timer, started, deadline, now>>

vars == <<command, plan_vars, inspection_vars, timer_vars>>

-----------------------------------------------------------------------------

CommandNames == {"run", "list", "install", "inspect", "uninstall"}

CommandsTypeOK ==
    /\ PlanTypeOK
    /\ InspectionTypeOK
    /\ command \in CommandNames \cup {"exit"}
    /\ timer \in DurationOptions \cup {None}
    /\ started \in Timespec
    /\ deadline \in Timespec
    /\ now \in Timespec

(* main has the command; what the command does not look at is at rest.     *)
CommandsInit ==
    /\ command \in CommandNames
    /\ PlanInit
    /\ command # "install" => ~interactive
    /\ RuntimeInit
    /\ command \notin {"list", "inspect"} => Running = {}
    /\ IF command = "inspect" THEN StoreReady ELSE StoreInit
    /\ command \notin {"inspect", "uninstall"} =>
           \A c, d \in Creations : created_name[c] = created_name[d]
    /\ ReportInit
    /\ timer = None
    /\ started = [sec |-> 0, nsec |-> 0]
    /\ deadline = started
    /\ now = started

-----------------------------------------------------------------------------
(* main.                                                                   *)

(* Its help is wanted, or there are too many arguments; for uninstall,     *)
(* root is not the user; for list, the devices cannot be enumerated.       *)
ExitEarly ==
    /\ command # "exit"
    /\ stage = "parse"
    /\ discovery = "idle"
    /\ inspection = "runtime"
    /\ scan = "idle"
    /\ config = <<>>
    /\ command' = "exit"
    /\ UNCHANGED <<plan_vars, inspection_vars, timer_vars>>

Install ==
    /\ command = "install"
    /\ PlanNext
    /\ UNCHANGED <<command, inspection_vars, timer_vars>>

Inspect ==
    /\ command = "inspect"
    /\ InspectionNext
    /\ UNCHANGED <<command, plan_vars, timer_vars>>

List ==
    /\ command = "list"
    /\ Discover \/ SessionsChange
    /\ UNCHANGED <<command, plan_vars, store_vars, report_vars, timer_vars>>

(* The list from which the operator picks one.                             *)
Uninstall ==
    /\ command = "uninstall"
    /\ StoreNext
    /\ UNCHANGED <<command, plan_vars, runtime_vars, report_vars, timer_vars>>

-----------------------------------------------------------------------------
(* run.                                                                    *)

RunArguments ==
    UNION {[option : {option}, text : Texts(option)] : option \in RunOptions}

RunLists == UNION {[1 .. n -> RunArguments] : n \in 2 .. 3}

(* parse_run_config in run_proxy.                                          *)
Run ==
    /\ command = "run"
    /\ config = <<>>
    /\ \E list \in RunLists :
          IF RunAccepts(list)
              THEN config' = Configured(list) /\ UNCHANGED command
              ELSE command' = "exit" /\ UNCHANGED config
    /\ UNCHANGED <<stage, interactive, given, request, choices, readiness,
                   resolution, response, inspection_vars, timer_vars>>

(* record_activity: the duration of an active timer is not zero.           *)
StartTimer(option, time) ==
    /\ command = "run"
    /\ config # <<>>
    /\ timer = None
    /\ config[option] # 0
    /\ timer' = option
    /\ started' = time
    /\ now' = time
    /\ deadline' = SetDeadline(time, config[option])
    /\ UNCHANGED <<command, plan_vars, inspection_vars>>

Later(time, ns) ==
    LET sum == Nanoseconds(time) + ns
    IN  [sec |-> sum \div NsPerSec, nsec |-> sum % NsPerSec]

(* The session sleeps, and wakes up in time or, for another reason,        *)
(* earlier.                                                                *)
Sleep ==
    /\ command = "run"
    /\ timer # None
    /\ ~DeadlineExpired(deadline, now)
    /\ \E ns \in 1 .. WaitTimeout(deadline, now, MaximumWait) * NsPerUs :
          now' = Later(now, ns)
    /\ UNCHANGED <<command, plan_vars, inspection_vars, timer, started, deadline>>

CommandsNext ==
    \/ ExitEarly
    \/ Install \/ Inspect \/ List \/ Uninstall
    \/ Run
    \/ \E option \in DurationOptions, time \in Starts : StartTimer(option, time)
    \/ Sleep

CommandsSpec == CommandsInit /\ [][CommandsNext]_vars

-----------------------------------------------------------------------------
(* Properties.                                                             *)

(* A timer expires when the duration that was configured has passed, no    *)
(* earlier and no later, across seconds and for the longest duration; the  *)
(* session does not sleep past that by a microsecond, and never sleeps for *)
(* no time before it.                                                      *)
DeadlinesExact ==
    timer # None =>
        LET elapsed  == Nanoseconds(now) - Nanoseconds(started)
            duration == config[timer] * NsPerMs
            wait     == WaitTimeout(deadline, now, MaximumWait)
        IN  /\ DeadlineExpired(deadline, now) <=> elapsed >= duration
            /\ elapsed < duration + NsPerUs
            /\ wait = 0 <=> elapsed >= duration

=============================================================================
