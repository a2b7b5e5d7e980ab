----------------------------- MODULE TouchSlots -----------------------------
(***************************************************************************)
(* Type-B multitouch slots between the Physical Source and the Virtual     *)
(* Device: source_device.c (capture_multitouch_state), virtual_device.c    *)
(* (neutralize) and the calls proxy_session.c makes of them.               *)
(*                                                                         *)
(* All slots share the same event codes.  ABS_MT_SLOT selects the slot to  *)
(* which the events after it belong, in the source, in libevdev's record   *)
(* of it and in the virtual device, each of which remembers its own        *)
(* selection.  ProxySession has contacts that are down or not; this module *)
(* has the protocol by which they are.                                     *)
(***************************************************************************)
EXTENDS Integers, Sequences

CONSTANTS
    NumSlots,   \* libevdev_get_num_slots of the source and of its copy
    Contacts,   \* ABS_MT_TRACKING_ID values that stand for a contact
    NoContact,  \* ABS_MT_TRACKING_ID = -1
    Positions,  \* values of an ABS_MT_POSITION axis
    Origin,     \* its value in a slot that was never used
    QueueSize   \* events the kernel keeps for a reader of the source

ASSUME SlotsAssumption ==
    /\ NumSlots \in Nat \ {0}
    /\ NoContact \notin Contacts
    /\ Origin \in Positions
    /\ QueueSize \in Nat

VARIABLES
    connected,   \* the source is there
    source,      \* the kernel's state of the source
    queue,       \* events of the source the session has not read
    dropped,     \* the kernel dropped some of them: SYN_DROPPED is next
    tracked,     \* libevdev's record of the source
    session,     \* what the session is doing, see Activities
    next_slot,   \* the loop variable of capture and neutralize
    source_lost, \* the neutralization is the one after a source loss
    paused,
    requested,   \* the argument of the last input_proxy_session_request_paused
    created,     \* the virtual device exists
    virtual      \* the kernel's state of the virtual device

source_vars  == <<connected, source, queue, dropped>>
session_vars == <<session, next_slot, source_lost, paused, requested, created>>

touch_vars == <<source_vars, tracked, session_vars, virtual>>

-----------------------------------------------------------------------------

Slots == 0 .. NumSlots - 1

Device == [slot : Slots,
           id   : [Slots -> Contacts \cup {NoContact}],
           at   : [Slots -> Positions]]

(* A device as the kernel makes it.                                        *)
Blank == [slot |-> 0,
          id   |-> [s \in Slots |-> NoContact],
          at   |-> [s \in Slots |-> Origin]]

Event == [code : {"ABS_MT_SLOT"}, value : Slots]
    \cup [code : {"ABS_MT_TRACKING_ID"}, value : Contacts \cup {NoContact}]
    \cup [code : {"ABS_MT_POSITION"}, value : Positions]

(* "reading" is the inner loop of session_run, paused or not; "neutral" is *)
(* the end of neutralize after a source loss, before the source is closed. *)
Activities == {"waiting", "adopting", "synchronizing", "reading",
               "neutralizing", "neutral", "closed"}

(* What an event does to the state of a device, or to libevdev's record.   *)
Applied(device, event) ==
    CASE event.code = "ABS_MT_SLOT" ->
            [device EXCEPT !.slot = event.value]
      [] event.code = "ABS_MT_TRACKING_ID" ->
            [device EXCEPT !.id = [@ EXCEPT ![device.slot] = event.value]]
      [] event.code = "ABS_MT_POSITION" ->
            [device EXCEPT !.at = [@ EXCEPT ![device.slot] = event.value]]

SourceOpen == session \notin {"waiting", "closed"}

(* Only a reader that has the source open is sent its events.              *)
TouchTypeOK ==
    /\ connected \in BOOLEAN
    /\ source \in Device
    /\ queue \in Seq(Event)
    /\ dropped \in BOOLEAN
    /\ tracked \in Device
    /\ session \in Activities
    /\ next_slot \in 0 .. NumSlots
    /\ source_lost \in BOOLEAN
    /\ paused \in BOOLEAN
    /\ requested \in BOOLEAN
    /\ created \in BOOLEAN
    /\ virtual \in Device
    /\ ~SourceOpen => queue = <<>> /\ ~dropped

(* A contact is in one slot.                                               *)
Distinct(device) ==
    \A s, t \in Slots :
        device.id[s] = device.id[t] => s = t \/ device.id[s] = NoContact

TouchInit ==
    /\ connected = TRUE
    /\ source \in Device
    /\ Distinct(source)
    /\ queue = <<>>
    /\ dropped = FALSE
    /\ tracked = Blank
    /\ session = "waiting"
    /\ next_slot = 0
    /\ source_lost = FALSE
    /\ paused \in BOOLEAN
    /\ requested = paused
    /\ created = FALSE
    /\ virtual = Blank

-----------------------------------------------------------------------------
(* The driver of the source and the kernel.                                *)

(* input_event: the value is dropped unless it differs from the one the    *)
(* slot has, whether a contact is in the slot or not; ABS_MT_SLOT is       *)
(* passed on only ahead of a value for a slot that is not selected yet.    *)
Report(slot, code, value) ==
    LET event    == [code |-> code, value |-> value]
        select   == [code |-> "ABS_MT_SLOT", value |-> slot]
        selected == Applied(source, select)
        changed  == Applied(selected, event) # selected
        passed   == IF source.slot = slot THEN <<event>>
                                          ELSE <<select, event>>
        fits     == Len(queue) + Len(passed) <= QueueSize
    IN  /\ connected
        /\ changed
        /\ source' = Applied(selected, event)
        /\ queue' = IF SourceOpen /\ ~dropped /\ fits
                        THEN queue \o passed
                        ELSE <<>>
        /\ dropped' = (SourceOpen /\ (dropped \/ ~fits))
        /\ UNCHANGED <<connected, tracked, session_vars, virtual>>

TouchDown(slot, contact) ==
    /\ source.id[slot] = NoContact
    /\ \A s \in Slots : source.id[s] # contact
    /\ Report(slot, "ABS_MT_TRACKING_ID", contact)

TouchMove(slot, position) ==
    /\ source.id[slot] # NoContact
    /\ Report(slot, "ABS_MT_POSITION", position)

TouchUp(slot) ==
    /\ source.id[slot] # NoContact
    /\ Report(slot, "ABS_MT_TRACKING_ID", NoContact)

Disconnect ==
    /\ connected
    /\ connected' = FALSE
    /\ source' = Blank
    /\ queue' = <<>>
    /\ dropped' = FALSE
    /\ UNCHANGED <<tracked, session_vars, virtual>>

(* A source that was open is seen as lost before it comes back.            *)
Connect ==
    /\ ~connected
    /\ ~SourceOpen
    /\ connected' = TRUE
    /\ UNCHANGED <<source, queue, dropped, tracked, session_vars, virtual>>

-----------------------------------------------------------------------------
(* The session acquires a source.                                          *)

(* libevdev_new_from_fd takes over the state of every slot.                *)
OpenSource ==
    /\ session = "waiting"
    /\ connected
    /\ session' = "adopting"
    /\ tracked' = source
    /\ UNCHANGED <<source_vars, next_slot, source_lost, paused, requested,
                   created, virtual>>

(* The device of an earlier source of the same kind is retained; a new one *)
(* has no contacts.  A paused session does not synchronize it.             *)
AdoptSource ==
    /\ session = "adopting"
    /\ created' = TRUE
    /\ virtual' = IF created THEN virtual ELSE Blank
    /\ session' = IF paused THEN "reading" ELSE "synchronizing"
    /\ next_slot' = 0
    /\ UNCHANGED <<source_vars, tracked, source_lost, paused, requested>>

-----------------------------------------------------------------------------
(* synchronize_state: capture_multitouch_state reads libevdev's record,    *)
(* which changes only when the session reads, and the events it appends    *)
(* are written in that order.                                              *)

(* Faulty: the slot is not selected before its state.                      *)
SynchronizeSlotUnselected ==
    /\ session = "synchronizing"
    /\ next_slot < NumSlots
    /\ virtual' = [virtual EXCEPT
                       !.id = [@ EXCEPT ![virtual.slot] = tracked.id[next_slot]]]
    /\ next_slot' = next_slot + 1
    /\ UNCHANGED <<source_vars, tracked, session, source_lost, paused,
                   requested, created>>

(* One iteration of the loop: ABS_MT_SLOT, ABS_MT_TRACKING_ID and, for a   *)
(* slot with a contact, the other ABS_MT values.                           *)
SynchronizeSlot ==
    /\ session = "synchronizing"
    /\ next_slot < NumSlots
    /\ virtual' =
           [slot |-> next_slot,
            id   |-> [virtual.id EXCEPT ![next_slot] = tracked.id[next_slot]],
            at   |-> IF tracked.id[next_slot] = NoContact
                         THEN virtual.at
                         ELSE [virtual.at EXCEPT
                                  ![next_slot] = tracked.at[next_slot]]]
    /\ next_slot' = next_slot + 1
    /\ UNCHANGED <<source_vars, tracked, session, source_lost, paused,
                   requested, created>>

(* Faulty: the slot of the source is not selected again.                   *)
SynchronizedElsewhere ==
    /\ session = "synchronizing"
    /\ next_slot = NumSlots
    /\ connected
    /\ paused' = FALSE
    /\ session' = "reading"
    /\ UNCHANGED <<source_vars, tracked, next_slot, source_lost, requested,
                   created, virtual>>

(* The last ABS_MT_SLOT, SYN_REPORT and the check that the source is still *)
(* there; only then is a Resume committed and are events forwarded.        *)
Synchronized ==
    /\ session = "synchronizing"
    /\ next_slot = NumSlots
    /\ connected
    /\ virtual' = [virtual EXCEPT !.slot = tracked.slot]
    /\ paused' = FALSE
    /\ session' = "reading"
    /\ UNCHANGED <<source_vars, tracked, next_slot, source_lost, requested,
                   created>>

-----------------------------------------------------------------------------
(* process_event.                                                          *)

(* Read the next event; a paused session does not write it.                *)
ReadEvent ==
    /\ session = "reading"
    /\ connected
    /\ queue # <<>>
    /\ tracked' = Applied(tracked, Head(queue))
    /\ virtual' = IF paused THEN virtual ELSE Applied(virtual, Head(queue))
    /\ queue' = Tail(queue)
    /\ UNCHANGED <<connected, source, dropped, session_vars>>

(* Faulty: what libevdev hands out to recover is not written.              *)
RecoverSilently ==
    /\ session = "reading"
    /\ connected
    /\ dropped
    /\ tracked' = source
    /\ dropped' = FALSE
    /\ UNCHANGED <<connected, source, queue, session_vars, virtual>>

(* Faulty: the recovery leaves the position where it was.                  *)
RecoverContactsOnly ==
    /\ session = "reading"
    /\ connected
    /\ dropped
    /\ tracked' = source
    /\ dropped' = FALSE
    /\ virtual' = IF paused THEN virtual
                            ELSE [source EXCEPT !.at = virtual.at]
    /\ UNCHANGED <<connected, source, queue, session_vars>>

(* recover_synchronization: libevdev hands out the values that differ from *)
(* its record, each after the ABS_MT_SLOT it belongs to, and at last the   *)
(* slot that is selected.                                                  *)
RecoverSynchronization ==
    LET changed(record, new, old) ==
            [s \in Slots |-> IF record[s] = new[s] THEN old[s] ELSE new[s]]
    IN  /\ session = "reading"
        /\ connected
        /\ dropped
        /\ tracked' = source
        /\ dropped' = FALSE
        /\ virtual' =
               IF paused THEN virtual ELSE
                   [slot |-> source.slot,
                    id   |-> changed(tracked.id, source.id, virtual.id),
                    at   |-> changed(tracked.at, source.at, virtual.at)]
        /\ UNCHANGED <<connected, source, queue, session_vars>>

-----------------------------------------------------------------------------
(* Pause, Resume and source loss.                                          *)

(* input_proxy_session_request_paused; without a source nothing has to be  *)
(* corrected.                                                              *)
Pause ==
    /\ ~paused
    /\ requested' = TRUE
    /\ \/ /\ session = "waiting"
          /\ paused' = TRUE
          /\ UNCHANGED <<session, next_slot>>
       \/ /\ session = "reading"
          /\ session' = "neutralizing"
          /\ next_slot' = 0
          /\ UNCHANGED paused
    /\ UNCHANGED <<source_vars, tracked, source_lost, created, virtual>>

Resume ==
    /\ paused
    /\ requested' = FALSE
    /\ \/ /\ session = "waiting"
          /\ paused' = FALSE
          /\ UNCHANGED <<session, next_slot>>
       \/ /\ session = "reading"
          /\ session' = "synchronizing"
          /\ next_slot' = 0
          /\ UNCHANGED paused
    /\ UNCHANGED <<source_vars, tracked, source_lost, created, virtual>>

(* A read finds the source gone.                                           *)
LoseSource ==
    /\ session = "reading"
    /\ ~connected
    /\ session' = "neutralizing"
    /\ next_slot' = 0
    /\ source_lost' = TRUE
    /\ UNCHANGED <<source_vars, tracked, paused, requested, created, virtual>>

(* Faulty: the contact is ended in the slot that happens to be selected.   *)
NeutralizeSlotUnselected ==
    /\ session = "neutralizing"
    /\ next_slot < NumSlots
    /\ virtual' = IF virtual.id[next_slot] = NoContact THEN virtual ELSE
           [virtual EXCEPT !.id = [@ EXCEPT ![virtual.slot] = NoContact]]
    /\ next_slot' = next_slot + 1
    /\ UNCHANGED <<source_vars, tracked, session, source_lost, paused,
                   requested, created>>

(* One iteration of neutralize: a slot with a contact is selected and the  *)
(* contact ended.  The slot that was selected before is not restored.      *)
NeutralizeSlot ==
    /\ session = "neutralizing"
    /\ next_slot < NumSlots
    /\ virtual' = IF virtual.id[next_slot] = NoContact THEN virtual ELSE
           [virtual EXCEPT !.slot = next_slot,
                           !.id = [@ EXCEPT ![next_slot] = NoContact]]
    /\ next_slot' = next_slot + 1
    /\ UNCHANGED <<source_vars, tracked, session, source_lost, paused,
                   requested, created>>

(* The SYN_REPORT of neutralize; a Pause is committed after it.            *)
Neutralized ==
    /\ session = "neutralizing"
    /\ next_slot = NumSlots
    /\ session' = IF source_lost THEN "neutral" ELSE "reading"
    /\ paused' = IF source_lost THEN paused ELSE TRUE
    /\ UNCHANGED <<source_vars, tracked, next_slot, source_lost, requested,
                   created, virtual>>

CloseSource ==
    /\ session = "neutral"
    /\ session' = "waiting"
    /\ source_lost' = FALSE
    /\ UNCHANGED <<source_vars, tracked, next_slot, paused, requested, created,
                   virtual>>

(* A write or a query fails or the session is told to stop: cleanup        *)
(* destroys the device.                                                    *)
Close ==
    /\ session # "closed"
    /\ session' = "closed"
    /\ created' = FALSE
    /\ virtual' = Blank
    /\ queue' = <<>>
    /\ dropped' = FALSE
    /\ UNCHANGED <<connected, source, tracked, next_slot, source_lost, paused,
                   requested>>

(* The check after a synchronization finds the source gone: a fatal error. *)
SynchronizedTooLate ==
    /\ session = "synchronizing"
    /\ next_slot = NumSlots
    /\ ~connected
    /\ Close

-----------------------------------------------------------------------------

Driver ==
    \/ \E slot \in Slots, contact \in Contacts : TouchDown(slot, contact)
    \/ \E slot \in Slots, position \in Positions : TouchMove(slot, position)
    \/ \E slot \in Slots : TouchUp(slot)
    \/ Disconnect
    \/ Connect

SessionStep ==
    \/ OpenSource \/ AdoptSource
    \/ SynchronizeSlot \/ Synchronized \/ SynchronizedTooLate
    \/ ReadEvent \/ RecoverSynchronization
    \/ LoseSource \/ NeutralizeSlot \/ Neutralized \/ CloseSource

TouchNext == Driver \/ SessionStep \/ Pause \/ Resume \/ Close

TouchSpec == TouchInit /\ [][TouchNext]_touch_vars

(* The session is one thread that always makes its next call.              *)
TouchFairSpec == TouchSpec /\ WF_touch_vars(SessionStep)

-----------------------------------------------------------------------------
(* Properties.                                                             *)

Forwarding == session = "reading" /\ ~paused

(* The contacts on the virtual device, and the refinement of the contract: *)
(* a synchronization counts as forwarding from its first write on, the     *)
(* release of the slots after a loss as forwarding until its last.         *)
Held == {s \in Slots : virtual.id[s] # NoContact}

Lifecycle ==
    CASE session = "adopting" -> "creating"
      [] session = "synchronizing" /\ next_slot = 0 /\ ~paused -> "creating"
      [] session = "neutral" -> "source_lost"
      [] session = "waiting" -> "waiting"
      [] session = "closed" -> "closing"
      [] OTHER -> "active"

Contract == INSTANCE SessionContract WITH
    Keys      <- Slots,
    Kinds     <- {"kind"},
    NoDevice  <- "none",
    lifecycle <- Lifecycle,
    mode      <- IF paused /\ requested THEN "paused" ELSE "running",
    device    <- IF created THEN "kind" ELSE "none",
    held      <- Held

(* Slot by slot, capture and neutralization keep what the session promises *)
(* of its momentary controls: none is held on the device of a session that *)
(* waits or is paused, whichever slots were in use and selected.           *)
SlotsImplementContract == Contract!ContractSpec

(* While events are forwarded, the virtual device has the contacts that    *)
(* libevdev handed out in their slots, and the slot selected to which the  *)
(* next event of the source belongs, through every pause, resume, loss,    *)
(* reconnection and SYN_DROPPED between the selection and that event.      *)
SlotsAgree ==
    Forwarding => /\ virtual.slot = tracked.slot
                  /\ virtual.id = tracked.id

(* When the session has read all there is, the virtual device has the      *)
(* contacts and the selected slot of the source itself: what is queued     *)
(* always leads from libevdev's record to the source, or the next read     *)
(* recovers from SYN_DROPPED.                                              *)
NothingMissed ==
    Forwarding /\ connected /\ queue = <<>> /\ ~dropped =>
        /\ virtual.slot = source.slot
        /\ virtual.id = source.id

(* A step that changes a slot of the virtual device ends its contact or    *)
(* writes what libevdev has of that same slot: nothing lands in the slot   *)
(* of another contact.                                                     *)
WritesOwnSlot ==
    [][created' => \A s \in Slots :
          /\ virtual'.id[s] \in {virtual.id[s], tracked'.id[s], NoContact}
          /\ virtual'.at[s] \in {virtual.at[s], tracked'.at[s]}
      ]_touch_vars

(* Every contact that is down when forwarding begins is where the source   *)
(* has it, and a slot that is right stays right for as long as events are  *)
(* forwarded, whatever contacts come, go and are dropped in it meanwhile.  *)
(* This is what holds in place of ContactsPlaced: only a contact that      *)
(* begins in a slot the synchronization found empty may be misplaced.      *)
ContactsStayPlaced ==
    [][Forwarding' => \A s \in Slots :
          (IF Forwarding THEN virtual.at[s] = tracked.at[s]
                         ELSE tracked'.id[s] # NoContact)
          => virtual'.at[s] = tracked'.at[s]
      ]_touch_vars

(* A contact that was lifted does not stay on the virtual device for ever, *)
(* whatever was lost, dropped or suppressed in between.                    *)
NoStuckContact ==
    \A s \in Slots, c \in Contacts :
        []<>(virtual.id[s] = c => source.id[s] = c)

(* src/docs/ARCHITECTURE.md:447: before forwarding begins the virtual      *)
(* device must be synchronized to the source's current state; a contact    *)
(* is then where the source has it.  It is not: capture leaves out the     *)
(* values of a slot without a contact, and the kernel passes on only what  *)
(* changes, so a contact that begins where the last one of its slot ended  *)
(* appears where the virtual device had that slot.                         *)
ContactsPlaced ==
    Forwarding => \A s \in Slots :
        tracked.id[s] # NoContact => virtual.at[s] = tracked.at[s]

=============================================================================
