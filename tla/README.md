# input-proxy: a formal model

`input-proxy` reads one evdev device (the *Physical Source*), owns one uinput
device (the *Virtual Device*) and copies events from the first to the second,
under a policy that can be paused and resumed over D-Bus. The same program
installs and uninstalls itself as a systemd service per *Instance Name*.

This directory models all of it in TLA+: the running session with its two
devices, its bus connection and its timers; the commands that deploy it, as they
change the host; and what each command reads and decides before it acts.
The models are translated from `src/src/`; the documents
(`src/docs/ARCHITECTURE.md`, `DBUS_INTERFACE.md`, `ROADMAP.md`) are used only
for what the program is *supposed* to do, in the runs that confront the two.

## 1. Inventory

### 1.1 The running session

| Part | Source | State it keeps | Operations |
|---|---|---|---|
| Proxy session | `proxy_session.c` | `shutdown_requested`, `fatal_result`, `source_opened_successfully`, `permission_settling` and its deadline, two activity timers, the retry timer, the property values, and implicitly the place in two nested loops | `session_create`, `session_run`, `create_active_devices`, `wait_with_activity_timer`, `process_event`, `request_paused`, `synchronize_state`, `recover_synchronization`, `close_source_device`, `cleanup_active_devices` |
| Runtime control | `runtime_control.c`, `runtime_dbus_internal.h` | connection, `dispatch_active`, `disable_pending`, the published values | create, process, wait, notify, apply changes, destroy |
| Source device | `source_device.c` | descriptor, libevdev's record of the device | open, read (with `SYN_DROPPED` recovery), capture state, check availability, close |
| Virtual device | `virtual_device.c` | uinput descriptor, template, kernel state | create, compatibility check, write, neutralize, synchronize, destroy |
| Instance name | `instance_name.c` | an abstract socket | acquire, release |
| Runtime policy, service identity, libinput status | `runtime_policy.c`, `service_identity.c`, `libinput_status.c` | none | one decision each |
| Command line | `main.c`, `result.c` | the signal's pointer to the session | parse, dispatch, `handle_signal` |

The session is one thread. It calls the source device, the virtual device and
the runtime control directly; the runtime control calls *back* into the session
from inside `sd_bus_process` (`request_paused`), at any of the two points where
the loops dispatch. A signal handler sets `shutdown_requested` between any two
instructions. The kernel removes the source, udev sets the permissions of a new
node late, the bus daemon goes away and comes back, and time passes.

What is hard: the callback runs while the loop is in the middle of acquiring,
waiting or forwarding and must know which devices exist; the failure of its
correction is found by the loop later; a notification may fail inside the
dispatch that needs the connection; three timers and two mode-scoped
indications survive or do not survive a mode change, a loss of the connection
and an expiry; a write can fail half way; the state of the source, what
libevdev has reported of it, what the kernel holds for the virtual device and
what its readers have seen are four different things.

What makes it correct: while it forwards, the virtual device has the state of
the source as handed out; while it does not, nothing is held down; the device
outlives every loss of its source; a correction always has the devices it needs;
indications belong to the current mode and end; clients see what the session
holds; every way out releases everything; shutdown, reacquisition, reconnection
and the end of a persistent denial eventually happen.

### 1.2 The deployment

| Part | Source | State it keeps | Operations |
|---|---|---|---|
| Installed-instance store | `installed_instance.c` | one response file per instance | exists, create (temporary file and `link`), remove, enumerate |
| Response files | `response_file.c` | none | write and read back arguments |
| Installation planner | `installation_planner.c` | the plan, the reserved name | assess, resolve, release name |
| Installation application | `installation_application.c` | none | check, create response, publish rule, roll back |
| Installation activation | `installation_activation.c` | none | udev reload/trigger/settle/verify, systemd enable/start/state |
| Install, uninstall | `install_command.c`, `uninstall_command.c` | the step they are at | the sequence of the above |
| Runtime discovery | `runtime_discovery.c` | a snapshot of the running instances | list the bus names, ask each for its source, match a device |
| Device inspection | `device_inspection.c` | none | resolve the device, list and classify its instances, suggest a command |
| Device discovery | `device_discovery.c` | none | scan, render |
| Service template | `systemd/input-proxy@.service` | the unit | `Type=simple`, `Restart=on-failure` |

These are processes that share a file system, udev's memory, systemd's units and
the name's socket. Any call may fail; a command can be killed and the host can
go down between two calls; two commands can run at once, and only install takes
the name. What makes it correct: a rule or an enablement always has a response
artifact by which uninstall finds it, a failed install leaves nothing, nobody
removes or replaces what another published, and an uninstall that reports
success has removed it all.

Before it acts, a command reads: an install its options, its operator's answers
and the host; a list or an inspection the bus and the store, entry by entry,
while other processes change both. What makes that correct: the service runs
with what its operator said, through four representations of it; a choice is
carried out exactly or refused; what is reported was true at some time, and what
was true all the time is reported; a file that is published is complete, even
after a power failure.

`PROJECT.json` lists every component with its status, and every hazard with the
line where it bites and the properties that watch it.

## 2. Modules

```
RuntimeControl ──── EXTENDS ──── ProxySession ──── MCProxySession
      │                               │  │
      │                               │  ├─── INSTANCE ─── RuntimeInterface
      │                               │  └─── INSTANCE ─── SessionContract ─── INSTANCE ─── TouchSlots
      │                               │                           │                             │
RuntimeControl_proofs ── ProxySession_proofs            SessionContract_proofs          TouchSlots_proofs
                                      │                           │
                                      └─ SessionRefinement_proofs ┘

Host ─┬─ InstallCommand ───┬─ Deployment ─┬─ MCDeployment
      └─ UninstallCommand ─┘              └─ Deployment_proofs

RunConfiguration ── InstallPlan ─┬─ InstallPlan_proofs
                                 │
InstanceNames ─┬─ InstanceStore ────┬─ Inspection ─┐
               └─ RuntimeDiscovery ─┘              │
                                 ├─────────────────┤
Deadlines ───────────────────────┴─ Commands ──────┴─ MCCommands
                                       │
InstallPlan_proofs ───────────── Commands_proofs
```

### RuntimeControl

The bus connection and the session's bookkeeping about it. `runtime_control`
stands for the pointer and the two flags `dispatch_active` and
`disable_pending`; `runtime_state` is the set of Boolean properties that are
true; `client_view` is what the clients of the bus were told, which the code
never stores but every notification adds to. A timer is the time left, `NoTimer`
when its `*_active` flag is false and 0 when its deadline has passed.

In the code each call that may lose the connection is followed at once by
`update_control_availability`; each action here is such a call *with* that
update. The calls are `BeginDispatch`, `AnswerWithoutCommit`, `CommitPaused`
(the tail of `request_paused`), `DispatchReturn`, `DispatchFails`, `Recovery`,
`PhysicalActivity`, `ActivityTimers`, `SetSourceAvailable` and `Release`.
`RCNext` lets a session make them in any order, so what is shown of this module
holds for every caller; `ProxySession` is then shown to be such a caller.

### ProxySession

The whole of `session_run` over that connection. `pc` is the call the thread
makes next and `phase` the function it is in (`acquire` is
`create_active_devices`, `forward` the inner loop); `Following` is the order of
the calls that both loops and `wait_with_activity_timer` share. One action is
one call that can see or change what others see:

| Action | Code |
|---|---|
| `Head`, `FatalCheck` | the loop conditions and the check of `fatal_result` |
| `ProcessDone`, `ProcessFails`, `ProcessMethod`, `RequestPaused` | `input_proxy_runtime_control_process` and `_wait`, with the method handler between |
| `RecoverControl`, `ProcessActivityTimers` | the recovery and the timers, in the loop and in the wait |
| `OpenUnavailable`, `OpenDenied`, `OpenFails`, `OpenSource` | the outcomes of opening the source, with the settling window |
| `RetainVirtualDevice`, `ReplaceVirtualDevice`, `ReplaceFails`, `SynchronizeSource` | the rest of `create_active_devices` |
| `ProcessEvent`, `EventUnavailable`, `ReadFails`, `SourceDisconnected`, `RecoverSynchronization` | `process_event`, with and without a write that fails |
| `LoseSource`, `NeutralizeLost`, `CleanupActiveDevices`, `ReleaseControl` | source loss and the end of the run |
| `RequestShutdown`, `ChangePath`, `Tick` | the signal handler, hotplug, time |

A device's state is the set of its *active* controls: a key, button or Type-B contact
that is down (`Keys`), a switch that is on (`Switches`), an axis away from rest
(`Axes`); `EV_REL`, the slot selector, `SYN_REPORT` and the types the code does not
name (`EV_MSC`) carry no state. `tracked` is libevdev's record of the source,
`virtual_state` the kernel's state of the virtual device, `consumer_state` what its
readers had at the last `SYN_REPORT`. A *kind* is everything `capabilities_equal`
compares. Writes that fail half way leave any subset of what they were writing.

### SessionContract

What readers of the device and callers of Pause and Resume are promised,
without loops, timers, descriptors or bus: a lifecycle, a mode, a device that is
kept or exchanged, and the momentary controls held on it. `ProxySession`
implements it under the mapping at `Contract ==` (`Lifecycle` maps a session
whose correction failed to "closing", wherever its loop is).

### RuntimeInterface

What the clients of the bus see, as section 9 of `DBUS_INTERFACE.md` describes it:
a service that appears without activity and vanishes, and notifications each of which
tells of one change. A mode comes with the end of the activity of the mode it
leaves; activity begins only in its own mode and with a source; an indication that
is up outlasts the source. It has no dispatch, no failing notification, no retry and
no timer. `ProxySession` implements it with `view <- client_view`: a notification that
cannot be sent is no step of it, and the destruction of the connection, then or after
the dispatch, is `Vanish`.

### TouchSlots

`ProxySession` has contacts that are down or not. This module has the protocol by
which they are: all slots of a Type-B device share the same event codes, and
`ABS_MT_SLOT` selects the slot that the events after it mean. The source, libevdev's
record of it and the virtual device each remember a selection of their own, and
`capture_multitouch_state` and `neutralize` select slots on a device that others
use after them. A device is its selected slot, the contact in each slot and one
position for each; an event is one of three codes with its value; the kernel
passes on only values that change, and keeps `QueueSize` events for a reader
before it drops them. One action is one iteration of the loops over slots
(`SynchronizeSlot`, `NeutralizeSlot`), so that the source goes on between them,
or one call (`ReadEvent`, `RecoverSynchronization`, `Pause`, `Resume`, ...). It
implements the same `SessionContract`, with slots for keys.

### Host, InstallCommand, UninstallCommand, Deployment

`Host` is what the commands share about one Instance Name: the response
artifact and the rule file (each `None` or the installation that published it),
udev's rules in memory, its queue and its record of the device, the unit with
its process, and the owner of the name's socket. Each tool may fail. `StartUnit`
reflects `Type=simple`: the unit is active from the fork on, and the process
then reads the artifact, acquires the name and runs.

`InstallCommand` and `UninstallCommand` have one action per call that reads or
changes shared state, in the order of the code; `step[c]` is the next one.
`Deployment` runs them together, at most `MaxCommands` at a time, with the
service, sessions started by hand, hotplug, `udev`, and (when `Crashes`) kills
and reboots. A reboot is clean: file-system state survives it whole.

### RunConfiguration, InstallPlan

`RunConfiguration` has the options of `run`: the texts its parser tells apart,
which of them it accepts (`RunAccepts`), the configuration they give, the
defaults, and the response artifact, written (`Response`) and read back
(`ReadResponse`). `InstallPlan` is install up to its artifact, and the service's
start from there: one action per call, `stage` the next one. `ParseArguments`
takes any list of up to `MaxArguments` options; `PromptSource`, `PromptName`,
`ChoosePreferred` and `ChooseRule` ask when an option is missing, and fail when
there is nobody to ask; `Assess` finds any device; `Resolve` or `NotReady` decide.
`given` is what the operator said, by option or answer. The code stores it only
in pieces; it is what the properties compare the result with.

### InstanceStore, RuntimeDiscovery, Inspection

`InstanceStore` is the directory of response artifacts: each creation call by
call (`mkstemp`, write, `fsync`, `link`, `unlink`, with the failure of each),
removal, `PowerFailure`, and an enumeration entry by entry. `unread` is what
`readdir` has still to return: POSIX leaves open whether an entry created or
removed during the scan is returned, and the model takes both. A power failure
keeps what was synced and may lose what was not. Nobody syncs the directory, so each
name may afterwards stand for anything it stood for since the last failure
(`on_disk`): a new entry may be lost, a removed one may come back, and so may a
temporary name.

`RuntimeDiscovery` is the bus: sessions that start and end, the list of names, and
a question to the owner of each name at the time it is asked. `Inspection` joins
the two as `inspect` does: a snapshot first, then the device, then the registry.
Other sessions run on until the snapshot is taken and other commands while the
directory is read; what changes at other times is not looked at.

The variables `throughout`, `during`, `steady` and `seen` are the histories the
properties speak of: what was there all the time a reader read, and what was
there at some time.

### Deadlines, Commands

`Deadlines` is the arithmetic of the session's timers on `struct timespec`:
`set_deadline`, `deadline_expired` and `deadline_wait_timeout_usec`, with unsigned
arithmetic modulo `Word`. `Commands` is one execution of `main`: the command, and
of it what it reads before it acts. `install` is `InstallPlan`, `inspect` is
`Inspection`, `list` is `RuntimeDiscovery`, `uninstall` is the store it enumerates,
and `run` is its parser and a timer of the duration it was given. Each leaves the
variables of the others alone, so a behaviour of `Commands` with `install` is one
of `PlanSpec`, and one with `inspect` one of `InspectionSpec`: what is proved of
these modules is what the run checks (`InstallIsPlan`, `InspectIsInspection` and
`UninstallReadsStore` prove that this is so).

## 3. Runs

The configuration of a run has its name in capitals: `session_live` is
`SessionLive.cfg`.

Every definition marked *Faulty* in a module is the mutation of the definition
after it: the mutant the property of the same name in `PROJECT.json` must catch.

### Runs that pass

| Run | Bounds | Shows |
|---|---|---|
| `runtime_control` | timeout 3, throttle 2, retry 4 ticks | the properties of `RuntimeControl` for any order of calls; paused activity ends under a steady stream of events; a lost connection is replaced |
| `session` | 2 keys, 1 axis, 2 kinds; timers 1, 1, 2; settling 1 | the safety properties of the session, for the kernel's state of the device and for its readers; it implements `SessionContract` and `RuntimeInterface` and calls `RuntimeControl` only as that module allows |
| `session_live` | 1 key, 1 switch, 1 kind; timers 0, 1, 1; settling 2 | shutdown, reacquisition, end of a persistent denial |
| `touch_slots` | 2 slots, 2 contacts, 2 positions, a queue of 3 | contacts keep their slots through pauses, losses, reconnections and dropped events, and stay where the source has them once they are there; no event is missed until some are dropped; none is stuck; the slots implement `SessionContract` |
| `deployment_sequential` | 2 installs, 2 uninstalls, 1 manual run, one command at a time, crashes | the name has one owner, the registry holds, an uninstall that succeeds is complete, and one that removed the rule and could read the source leaves the device to the others |
| `deployment_concurrent` | 2 installs, 1 uninstall, 1 manual run, all at once, crashes | no install rolls back or replaces another's artifact |
| `commands` | 3 install options, 2 instances, 2 creations, 2 sources; small arithmetic, see below | the service gets what its operator said, choices are honoured, lists and snapshots are sound, artifacts are complete, timers are exact |

Why the bounds are enough. *Timers*: all that the code compares is whether a deadline
has passed and which of several comes first; 3, 2 and 4 ticks let either activity
interval end first or be restarted between two ticks, and the retry outlast both. 0 is
the value that disables an indication: `session_live` has it, and `IndicationHasTimer`
is proved for it too. In the session runs timers matter only as "pending" or
"expired", for which 1 tick is enough. *Controls*: two keys tell "all released" from
"one released" and a write that fails half way; the axis (which, like a switch, is not
momentary) tells an input that is copied at creation from one that is not. *Kinds*:
two tell compatible from incompatible, and a device that was replaced from one kept.
*Settling*: a window of 2 ticks lets a denial come before, inside and after it.
*Commands*: two executions of each kind are the smallest number in which one can meet
what another left; the numbers of the same kind are interchangeable (`Executions`), as
keys and kinds are (`Symmetry`), and no property names a member of them. *Slots*: two
slots and two contacts let a contact move to the other slot while the session does not
look, and a queue of 3 holds less than one complete touch (slot, contact, position,
end), so that events are dropped in the middle of one. *Install*: 3 options of the 9
are enough for the source, the name and any third, or for any three of which the rest
is asked for; the properties are about one option at a time. *Store*: two creations of
the same or of different names meet in every order with one enumeration, and two
entries tell "one is missing" from "all are". *Arithmetic*: 2^64, 10^9, 10^6 and the
largest duration are scaled down to 64, 12, 4 and 15 (`Word`, `NsPerSec`, `NsPerMs`,
`MaxDuration`), which keeps what matters: the largest duration times `NsPerMs` fits a
`Word` (60 < 64 as (2^32 - 1) * 10^6 < 2^64; `CommandsAssumption` says so), a duration
that the policy must refuse (17) does not, a microsecond has more than one nanosecond
and a second more than one millisecond; a timer starts at every nanosecond of a
second.

Symmetry is used in `session`, `commands`, `deployment_sequential` and
`deployment_concurrent`, not in the runs with liveness properties. `session` has a
refinement and action properties as well: they are safety, and neither the contract
nor `RuntimeControl` names a key or a kind, so a step is allowed exactly when its
permutations are.

### Runs that show a disagreement with the documents

Each has one property, which states what a document says, and TLC's
counterexample is a behaviour of the code. `PROJECT.json` quotes the lines.

| Run | What happens |
|---|---|
| `consumer_sees_neutral` | neutralize writes `SYN_REPORT` only when the kernel's state has something to release; if the last forwarded event was a release whose `SYN_REPORT` was not forwarded yet, readers keep the key down |
| `fatal_result_reported` | a signal between a failed correction and the check for it makes the session return success |
| `uninstall_restores_device` | an uninstall removes the rule and fails to reload udev; its retry finds no rule, does not tell udev, and succeeds with the device ignored by the rule udev still has |
| `uninstall_stops_service` | a unit between automatic restarts counts as inactive and is not stopped |
| `contacts_placed` | capture leaves out the position of a slot without a contact; a contact that begins there where the last one ended has another position on the virtual device |

For three of them the model also says what does hold in their place, and it is checked
and proved (section 5): `ReadersSeeRelease` (a pause or a loss that finds a control
held releases all of them for the readers too, and nothing new appears to them until
forwarding begins again), `RemovalRestoresDevice` (an uninstall that removed the rule
*itself*, when none of its stages fails, leaves a udev without the rule and, if it
could read the source from the response artifact, a device that is not ignored) and
`ContactsStayPlaced` (a contact that is down when forwarding begins is where the
source has it, and whatever is in its place stays there).

The settling window keeps running while the device node is absent
(`OpenUnavailable` leaves `permission_deadline` alone, as the code does), so a
denial after an absence may be the first of a later hotplug and still be final;
the documents do not say whether it should be.

Four more places in which code and documents may be held against each other came
up and have no run of their own. A Pause or Resume that is queued behind one
whose correction failed is carried out before the loop sees `fatal_result`
(`request_paused` does not look at it), while `ARCHITECTURE.md:487` rules out
in-place continuation. An uninstall takes no name, so one between an install's
commit and its enablement removes the artifact of a unit that is then enabled;
this is why `RegistryComplete` below needs commands that run one at a time. And
`inspect` compares a session's source with the event node and with one link, the
preferred one: a session that was given another link of the same device is not
reported, although `ARCHITECTURE.md:1262` says that all that refer to the device
must be. `AssociationsSound` therefore speaks of these two paths. For the same reason
`inspect` suggests a command for a device that a session serves by another link, and
it suggests one without knowing when the bus is not available: nothing is claimed of
the suggestions. And an uninstall that cannot read the source from the response
artifact (`uninstall_command.c:264`) removes the rule, reloads udev, triggers nothing
and succeeds, so that a device that is plugged in stays ignored until it is plugged in
again. `UninstallRestoresDevice` leaves these uninstalls out, so that its run shows the
retry and nothing else.

The deployment ones are run with `Crashes = FALSE`: no crash is needed.

Deadlock checking is off in the session, slot and connection runs and in
`commands`, because a session and a command really end (`pc = "done"`,
`runtime_control = "released"`, `session = "closed"`, `command = "exit"`). It is on
for the deployment, where the host never stops.

## 4. Fairness

* `WF(SessionStep)`: the session is one thread with a bounded poll in every wait;
  it always makes its next call. In `TouchSlots` likewise, for the calls that the
  thread makes by itself: not for Pause, Resume and the failures.
* `WF(Tick)`: time passes. It is bounded by the guards (nothing ticks below an
  expired timer), not by a constraint.
* `SF(ProcessDone)`: the queue of the bus is drained at last; `sd_bus_process`
  is called until it returns 0, and a client that calls faster than the session
  answers for ever would starve the loop. This is an assumption about clients,
  and the only one about the environment in `session_live`.
* In `RCFairness`, the connection seen alone: the loops call recovery and
  timers again and again but not while a dispatch runs, hence the strong
  fairness of `Undispatched /\ Recovery` and `Undispatched /\ ActivityTimers`;
  `SF(Undispatched /\ Reconnect)` says that a bus that is asked again and again accepts
  at last. Without that the loss can be permanent and nothing is claimed.

Nothing is assumed of signals, hotplug, failures or the bus daemon otherwise;
`SourceReacquired` and `PersistentDenialEnds` name the behaviour of the device
node they depend on in the property itself.

## 5. Proofs

Checked by TLAPS, for every value of the constants the assumptions allow. Every
safety property of section 3's passing runs is proved. Proved without a run of
their own are

* the type invariants;
* what the refinements and the invariants carry along: `HeldOnlyWhileForwarding`,
  `ActivityOfCurrentMode`, the round trip of a response artifact,
  `SuccessOnlyOnShutdown`;
* `ThrottleNotExtended` and `ShutdownAdvances`, the safety halves of
  `PausedActivityEnds` and `ShutdownCompletes`. TLC finds no violation of
  `ShutdownAdvances` with the constants of `session`.

**`RuntimeControl_proofs`** (assuming `DurationAssumption`: intervals are
natural numbers, the retry period is not 0). `RCInv` is the conjunction of the
type invariant with `ActivityOfCurrentMode`, `ActivityHasTimer`,
`RetryIffDisconnected` and `ClientViewCurrent`. None of the four is inductive
alone: that an indication has its timer needs the retry bookkeeping (a session
without a connection tracks no activity), and that *both* views are mode-scoped
needs that they agree. `ApplyChangesEffect` reduces a commit to four outcomes
(published, connection marked, connection destroyed, no connection), from which
each action follows. Theorems: `RCTypeCorrect`, `ModeScopedActivity`,
`IndicationHasTimer`, `RetryArmed`, `ClientsCurrent`, and the action properties
`DispatchKeepsConnection` and `ThrottleBounded`.

**`SessionContract_proofs`** (assuming that `NoDevice` is no kind). The invariant adds
to `HeldOnlyWhileForwarding` that an active session has a device and that a
device is destroyed with its state. Theorem: `HeldControls`.

**`ProxySession_proofs`** (assuming `DurationAssumption` and
`SessionAssumption`: keys, switches and axes are distinct, `NoDevice` is no
kind, the settling window is not 0). None of the session's properties is
inductive; the invariant has three layers.

* `ControlByStep`: only the two calls that process the bus leave a dispatch open, and
  only the last step releases the connection. With `RCInv` it makes every step of the
  session one of `RCNext` (`SessionUsesRuntimeControl`), so the theorems of
  `RuntimeControl_proofs` hold in the session, for example `SessionClientsCurrent`.
  What a call does to the mode and to `SourceAvailable` is stated once per kind of
  call (`ApplyChangesFrame`, `UndispatchedFrame`, `DispatchFrame`); the rest of the
  proof uses only that.
* `DeviceInv`: for each step, which devices exist, whether `SourceAvailable` says so,
  and which results are possible. It needs `ControlByStep`, since a call made inside a
  dispatch could change `SourceAvailable` under the handler. It gives
  `CorrectionsHaveDevices`, `SuccessRequested`, `EndReleasesEverything` and
  `DeviceRetained`.
* `StateInv`: `ForwardingFaithful` and `SuppressedIsNeutral` together. Both need
  `DeviceInv`: a Pause without a source corrects nothing, which is right only because
  the session is then waiting and neutral already. It gives `ForwardingIsFaithful`,
  `SuppressionIsNeutral`, `PausedUntouched` (the release at a source loss finds
  nothing to release) and `SynchronizedStart`.

* `ReleasesAreSeen` (`ReadersSeeRelease`) and `ShutdownIsNear` (`ShutdownAdvances`)
  need no further layer. The first follows each step from a held control to the
  `SYN_REPORT` after its release. The second has the number of calls that are left
  as its variant (`CallsLeft`, at most eleven); that the calls are made is fairness.

`SessionTypeCorrect` needs none of these layers but the types in `RCInv`.

**`SessionRefinement_proofs`** (the same assumptions). The refinement mapping is
unfolded once (`LifecycleArms`); each action of the session is then shown to be
one of the contract, a `Close`, or a stutter. A failed correction maps to
`Close` at the moment it fails, so whatever the loop still does before it
notices stays within `Close`. For `RuntimeInterface`, `CommitSeen` says that clients see
a commit as it is, or nothing, or the service vanish; with `RCInv` each kind of call
is then a step of the interface. Both views being mode-scoped is needed for the
expiry, that a lost connection leaves no activity for the reconnection, and
`DeviceInv` for an event that begins activity: its source is one the clients know
of. Theorems: `SessionImplementsContract`, `SessionImplementsInterface`, and
`SessionHoldsWhileForwarding`, which instantiates `HeldControls` under the
mapping.

**`TouchSlots_proofs`** (assuming `SlotsAssumption`: at least one slot, `NoContact` is
no contact). That forwarding sessions agree on slots and contacts is not
inductive: `TouchInv` adds what a synchronization and a neutralization have done
so far (`Corrected`: the slots below `next_slot` are done, the others as they
were), that a session that is not forwarding has a device without contacts
(`Retained`), what a lost source still has queued (`Lost`), that a handler in
progress is about the other mode (`Requested`), and that what is queued leads from
libevdev's record to the source (`Pending`). The last is stated with the states in
between as a witness (`Replays`), so that reading an event takes the first of them
away and a new one adds the last: no induction over the queue is needed. Theorems:
`TouchTypeCorrect`, `SlotsAlwaysAgree`, `NothingIsMissed`, `ContactsKeepTheirSlots`,
`PlacedContactsStay`, the refinement `SlotsKeepContract`, and
`SlotsHeldWhileForwarding`, which it carries over from the contract; for any number
of slots and contacts and a queue of any length.

**`InstallPlan_proofs`** (assuming `ConfigurationAssumption`: the defaults are within
the limit of a duration). `ResponseRoundTrip` says that the artifact of any
configuration with a path of one line is read as it was written, accepted, and gives
the same configuration. The invariant `PlanInv` has what each stage has established:
`Recorded` (the request and the choices are what was given, or defaults), `Complete`
(past the prompts there are a source and a name), `Decided` (past `Resolve` the
choices are valid and the resolution is theirs) and `Carried` (the artifact is that of
the plan, and the service's configuration the plan's). `ChoicesHonoured` follows from
`Decided` and `Recorded`, `ServiceRunsPlan` from those and `Carried`, which needs the
round trip. Theorems: `PlanTypeCorrect`, `InstallHonoursChoices`, `ServiceGetsPlan`,
for argument lists of any length.

**`Commands_proofs`** (assuming `StoreAssumption`, `DiscoveryAssumption`,
`InspectionAssumption`, `ConfigurationAssumption`, `DeadlinesAssumption`, that the
scale factors are not 0, and `CommandsAssumption`, whose last part is that the largest
accepted duration in nanoseconds fits the word it is computed in). First the
components that are read. `StoreInv`: whatever the directory or the disk has under a
name was published, and what was published has synced content (`Synced`; "not a part"
alone is not inductive, since only what was synced outlives a power failure, and of
the directory alone neither, since a removed entry may come back), and during a scan
what was installed all along is listed or still unread, and all of that was installed
at some time (`Scanned`). `RuntimeInv`: the same of the snapshot, with names for
entries. `InspectionInv`: both, and what the report was made from (`Printed`).
Theorems: `ArtifactsComplete` and `ListsSound` of `StoreSpec`;
`InspectionTypeCorrect`, `SnapshotsSound` and `ReportsSound` of `InspectionSpec`; for
any number of instances, creations and sources.

Then the program. `CommandsInv` joins `PlanInv`, `InspectionInv` and `TimerRuns`: the
deadline is the one that was set, and the clock has not passed it by a microsecond.
That the second part is kept by a sleep is the property of
`deadline_wait_timeout_usec` that matters: it rounds up, so the session does not
spin, and by less than a microsecond. The arithmetic multiplies and divides constants,
which the provers do not decide; it is cut into lemmas about quotient and
remainder, products and normalized times, each of which they take. Theorems:
`CommandsTypeCorrect`, `CommandsSound` (the read side of every command, in the
program as a whole), `TimersExact`, and the three that say of which component a
command is a behaviour.

**`Deployment_proofs`** (assuming `HostAssumption`: the kinds of processes are
distinct, and `DeploymentAssumption`). A lemma says what one step of an install,
of an uninstall and of the environment can do to the name and to the artifacts;
the rest of the proof uses only these effects.

* For *any* number of commands at once: `DeploymentInv` says that an install owns the
  name exactly from its planning to its release (`NameHeld`), and that until its first
  publication it has left nothing and between its two publications the response
  artifact is its own or gone (`PublishedByHolder`). The second needs the first:
  another install could publish in between only with the name. Theorems:
  `DeploymentTypeCorrect`, `NamesExclusive`, `FailedInstalls`, `Rollbacks`,
  `PublicationsStay`.
* For commands that run one at a time (`MaxCommands = 1`): `RegistryInv` records for
  each step of the running command what its installation has left so far. That only
  one command runs is itself part of the invariant, since a command begins only when
  no other runs. Theorems: `RegistryComplete`, `Uninstalls`. `RemovalInv` records for
  the running uninstall what udev has of a rule it removed: after the reload not the
  rule, and after the trigger no mark on the device but one that a queued event is
  about to take away, whatever hotplug does meanwhile; a device that is away has neither
  a mark nor an event (`AbsentForgotten`). Theorem: `RemovalRestores`.
  The bound is needed, as section 3 says of uninstall.

Only model-checked: the liveness properties, which are out of the prover's
reach: `PausedActivityEnds`, `ControlRestored`, `ShutdownCompletes`,
`SourceReacquired`, `PersistentDenialEnds` and `NoStuckContact`.

## 6. What is not modelled

* The spelling of names, options and answers (a text is valid or not, a number or
  not), `--verbose`, and the text of help, plans, rules, logs and reports; `errno`
  classification for messages.
* Failures of `malloc` and `clock_gettime`.
* `INPUT_PROXY_RESULT_INVALID_IDENTIFIER` from a service name that a validated
  instance name cannot derive.
* Type-A multitouch, which has no slots; of Type-B, one position axis stands for
  all, and the physical range and the number of slots are the same on both
  devices, as they are after the copy.
* In `Deployment` a reboot keeps the file system whole; what a power failure does to
  a response artifact is in `InstanceStore`. The rule file, which
  `installation_application.c` publishes in the same way, is one step.
* systemd's start-rate limit is not counted: a service that fails is restarted
  or given up, and either may happen.
* The databases of users and groups (`service_identity.c`) and udev's device
  database (`libinput_status.c`): their outcomes are inputs of `InstallPlan` and
  `Inspection`.
* Device discovery (`device_discovery.c`): one scan of sysfs that prints what it
  finds and keeps nothing.

## 7. Plan

1. The publication of the rule file call by call, as `InstanceStore` has that of the
   response artifact.
2. An abstract registry of Installed Instances that `Deployment` implements for
   commands that run one at a time.
3. Variants, as `ShutdownAdvances`, for the safety halves of the other liveness
   properties.
4. A source with several links in `RuntimeDiscovery` and `Inspection`, to say what
   the associations and the suggested commands of `inspect` are worth with them.

A new module comes with its type invariant and, where it has no recursion, its
safety properties proved, as the present ones.
