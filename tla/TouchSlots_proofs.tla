-------------------------- MODULE TouchSlots_proofs --------------------------
(***************************************************************************)
(* Proofs about TouchSlots, for any number of slots, contacts and          *)
(* positions and a queue of any length.                                    *)
(*                                                                         *)
(* Neither SlotsAgree nor WritesOwnSlot is inductive: that forwarding      *)
(* starts with slots that agree needs what each iteration of capture has   *)
(* written so far, and that an event lands in its own slot needs that the  *)
(* same slot is selected on both sides.  The refinement also needs what    *)
(* each iteration of neutralize has released, and NothingMissed what the   *)
(* queue leads to.                                                         *)
(***************************************************************************)
EXTENDS TouchSlots, TLAPS

(* What the calls of a session have done so far.                           *)
Corrected ==
    /\ session = "synchronizing" =>
           \A s \in Slots : s < next_slot =>
               /\ virtual.id[s] = tracked.id[s]
               /\ tracked.id[s] # NoContact => virtual.at[s] = tracked.at[s]
    /\ session = "neutralizing" =>
           \A s \in Slots : s < next_slot => virtual.id[s] = NoContact

(* When the device exists, and when nothing is held on it.                 *)
Retained ==
    /\ ~created => virtual = Blank
    /\ session \in {"synchronizing", "reading", "neutralizing", "neutral"} =>
           created
    /\ session = "closed" => ~created
    /\ \/ session \in {"waiting", "adopting", "neutral"}
       \/ session = "synchronizing" /\ next_slot = 0
       \/ session \in {"reading", "neutralizing"} /\ paused
       => Held = {}

(* The requests that are being carried out.                                *)
Requested ==
    /\ session \in {"waiting", "adopting", "reading", "neutral"} =>
           requested = paused
    /\ session = "synchronizing" => ~requested
    /\ session = "neutralizing" =>
           IF source_lost THEN requested = paused ELSE requested /\ ~paused
    /\ source_lost => session \in {"neutralizing", "neutral", "closed"}

(* A source that was lost sends nothing until it was closed.               *)
Lost ==
    /\ ~connected => queue = <<>> /\ ~dropped
    /\ source_lost /\ session # "closed" => ~connected
    /\ session = "neutral" => source_lost

(* One device becomes another through these events; the states in between  *)
(* are named, so that no induction over the events is needed.              *)
Replays(from, events, to) ==
    \E states \in [1 .. Len(events) + 1 -> Device] :
        /\ states[1] = from
        /\ states[Len(events) + 1] = to
        /\ \A i \in 1 .. Len(events) :
               states[i + 1] = Applied(states[i], events[i])

(* What the session has still to read leads from libevdev's record to the  *)
(* source.                                                                 *)
Pending ==
    /\ dropped => queue = <<>>
    /\ SourceOpen /\ connected /\ ~dropped => Replays(tracked, queue, source)

SlotsInv ==
    /\ TouchTypeOK
    /\ Lost
    /\ SlotsAgree
    /\ Corrected
    /\ Retained
    /\ Requested

TouchInv == SlotsInv /\ Pending

-----------------------------------------------------------------------------

LEMMA BlankType == Blank \in Device
  BY SlotsAssumption DEF Blank, Device, Slots

(* An event turns a device into a device, whose other slots are untouched. *)
LEMMA AppliedType ==
    ASSUME NEW device \in Device, NEW event \in Event
    PROVE  /\ Applied(device, event) \in Device
           /\ \A s \in Slots : s # device.slot =>
                  /\ Applied(device, event).id[s] = device.id[s]
                  /\ Applied(device, event).at[s] = device.at[s]
<1>1. CASE event.code = "ABS_MT_SLOT"
  BY <1>1 DEF Applied, Event, Device
<1>2. CASE event.code = "ABS_MT_TRACKING_ID"
  BY <1>2 DEF Applied, Event, Device
<1>3. CASE event.code = "ABS_MT_POSITION"
  BY <1>3 DEF Applied, Event, Device
<1> QED
  BY <1>1, <1>2, <1>3 DEF Event

(* An event has the same effect on two devices that have the same slot     *)
(* selected.                                                               *)
LEMMA AppliedSame ==
    ASSUME NEW one \in Device, NEW other \in Device, NEW event \in Event,
           one.slot = other.slot
    PROVE  LET after == Applied(one, event)
               as_well == Applied(other, event)
           IN  /\ after.slot = as_well.slot
               /\ one.id = other.id => after.id = as_well.id
               /\ \A s \in Slots :
                      /\ after.id[s] \in {one.id[s], as_well.id[s]}
                      /\ after.at[s] \in {one.at[s], as_well.at[s]}
<1>1. CASE event.code = "ABS_MT_SLOT"
  BY <1>1 DEF Applied, Event, Device
<1>2. CASE event.code = "ABS_MT_TRACKING_ID"
  BY <1>2 DEF Applied, Event, Device
<1>3. CASE event.code = "ABS_MT_POSITION"
  BY <1>3 DEF Applied, Event, Device
<1> QED
  BY <1>1, <1>2, <1>3 DEF Event

-----------------------------------------------------------------------------
(* Replays, for no event, one more at the end and one less at the front.   *)

LEMMA ReplaysNothing ==
    ASSUME NEW from \in Device, NEW to
    PROVE  Replays(from, <<>>, to) <=> from = to
<1>1. Len(<<>>) = 0
  OBVIOUS
<1>2. ASSUME from = to PROVE Replays(from, <<>>, to)
  <2> DEFINE states == [i \in 1 .. 1 |-> from]
  <2>1. /\ states \in [1 .. Len(<<>>) + 1 -> Device]
        /\ states[1] = from /\ states[Len(<<>>) + 1] = to
        /\ \A i \in 1 .. Len(<<>>) :
               states[i + 1] = Applied(states[i], <<>>[i])
    BY <1>1, <1>2
  <2> HIDE DEF states
  <2> QED
    BY <2>1 DEF Replays
<1>3. ASSUME Replays(from, <<>>, to) PROVE from = to
  BY <1>1, <1>3 DEF Replays
<1> QED
  BY <1>2, <1>3

LEMMA ReplaysAppend ==
    ASSUME NEW from \in Device, NEW events \in Seq(Event), NEW to \in Device,
           NEW event \in Event, Replays(from, events, to)
    PROVE  Replays(from, Append(events, event), Applied(to, event))
<1> DEFINE longer == Append(events, event)
           n      == Len(events)
<1>1. PICK before \in [1 .. n + 1 -> Device] :
          /\ before[1] = from
          /\ before[n + 1] = to
          /\ \A i \in 1 .. n : before[i + 1] = Applied(before[i], events[i])
  BY DEF Replays
<1>2. /\ n \in Nat /\ Len(longer) = n + 1
      /\ longer[n + 1] = event
      /\ \A i \in 1 .. n : longer[i] = events[i]
  OBVIOUS
<1>3. Applied(to, event) \in Device
  BY AppliedType
<1> HIDE DEF longer, n
<1> DEFINE states == [i \in 1 .. n + 2 |->
                         IF i = n + 2 THEN Applied(to, event) ELSE before[i]]
<1>4. states \in [1 .. Len(longer) + 1 -> Device]
  BY <1>1, <1>2, <1>3
<1>5. states[1] = from /\ states[Len(longer) + 1] = Applied(to, event)
  BY <1>1, <1>2
<1>6. ASSUME NEW i \in 1 .. Len(longer)
      PROVE  states[i + 1] = Applied(states[i], longer[i])
  <2>1. CASE i = n + 1
    BY <1>1, <1>2, <2>1
  <2>2. CASE i # n + 1
    <3>1. i \in 1 .. n /\ i + 1 # n + 2 /\ i # n + 2 /\ i + 1 \in 1 .. n + 2
      BY <1>2, <2>2
    <3> QED
      BY <1>1, <1>2, <3>1
  <2> QED
    BY <2>1, <2>2
<1> HIDE DEF states
<1>7. Replays(from, longer, Applied(to, event))
  BY <1>4, <1>5, <1>6 DEF Replays
<1> QED
  BY <1>7 DEF longer

LEMMA ReplaysTail ==
    ASSUME NEW from \in Device, NEW events \in Seq(Event), NEW to \in Device,
           events # <<>>, Replays(from, events, to)
    PROVE  Replays(Applied(from, Head(events)), Tail(events), to)
<1> DEFINE shorter == Tail(events)
           n       == Len(events)
<1>1. PICK before \in [1 .. n + 1 -> Device] :
          /\ before[1] = from
          /\ before[n + 1] = to
          /\ \A i \in 1 .. n : before[i + 1] = Applied(before[i], events[i])
  BY DEF Replays
<1>2. /\ n \in Nat \ {0} /\ Len(shorter) = n - 1
      /\ Head(events) = events[1]
      /\ \A i \in 1 .. n - 1 : shorter[i] = events[i + 1]
  OBVIOUS
<1> HIDE DEF shorter, n
<1> DEFINE states == [i \in 1 .. n |-> before[i + 1]]
<1>3. states \in [1 .. Len(shorter) + 1 -> Device]
  BY <1>1, <1>2
<1>4. states[1] = Applied(from, Head(events)) /\ states[Len(shorter) + 1] = to
  BY <1>1, <1>2
<1>5. ASSUME NEW i \in 1 .. Len(shorter)
      PROVE  states[i + 1] = Applied(states[i], shorter[i])
  <2>1. i \in 1 .. n - 1 /\ i + 1 \in 1 .. n /\ i \in 1 .. n
    BY <1>2
  <2> QED
    BY <1>1, <1>2, <2>1
<1> HIDE DEF states
<1> QED
  BY <1>3, <1>4, <1>5 DEF Replays, shorter

-----------------------------------------------------------------------------
(* The driver changes the source and what is queued of it for the session. *)
DriverFrame ==
    /\ connected' \in BOOLEAN
    /\ source' \in Device
    /\ queue' \in Seq(Event)
    /\ dropped' \in BOOLEAN
    /\ ~SourceOpen => queue' = <<>> /\ ~dropped'
    /\ ~connected' => queue' = <<>> /\ ~dropped'
    /\ connected \/ ~SourceOpen \/ ~connected'
    /\ UNCHANGED <<tracked, session_vars, virtual>>

LEMMA DriverEffect ==
    ASSUME TouchTypeOK, Driver
    PROVE  DriverFrame
<1>1. ASSUME NEW slot \in Slots,
             NEW event \in Event,
             event.code # "ABS_MT_SLOT",
             Report(slot, event.code, event.value)
      PROVE  DriverFrame
  <2> DEFINE select   == [code |-> "ABS_MT_SLOT", value |-> slot]
             selected == Applied(source, select)
             passed   == IF source.slot = slot THEN <<event>>
                                               ELSE <<select, event>>
  <2>1. event = [code |-> event.code, value |-> event.value]
    BY DEF Event
  <2>2. select \in Event
    BY DEF Event
  <2>3. selected \in Device /\ Applied(selected, event) \in Device
    BY <2>2, AppliedType DEF TouchTypeOK
  <2>4. passed \in Seq(Event)
    BY <2>2
  <2> HIDE DEF select, selected, passed
  <2>5. /\ source' = Applied(selected, event)
        /\ queue' \in {queue \o passed, <<>>}
        /\ dropped' \in BOOLEAN
        /\ ~SourceOpen => queue' = <<>> /\ ~dropped'
        /\ connected
        /\ UNCHANGED <<connected, tracked, session_vars, virtual>>
    BY <1>1, <2>1 DEF Report, select, selected, passed
  <2>6. queue \o passed \in Seq(Event) /\ <<>> \in Seq(Event)
    BY <2>4 DEF TouchTypeOK
  <2> QED
    BY <2>3, <2>5, <2>6 DEF DriverFrame, TouchTypeOK
<1>2. CASE \E slot \in Slots, contact \in Contacts : TouchDown(slot, contact)
  <2>1. PICK slot \in Slots, contact \in Contacts : TouchDown(slot, contact)
    BY <1>2
  <2>2. [code |-> "ABS_MT_TRACKING_ID", value |-> contact] \in Event
    BY DEF Event
  <2> QED
    BY <1>1, <2>1, <2>2 DEF TouchDown
<1>3. CASE \E slot \in Slots, position \in Positions : TouchMove(slot, position)
  <2>1. PICK slot \in Slots, position \in Positions : TouchMove(slot, position)
    BY <1>3
  <2>2. [code |-> "ABS_MT_POSITION", value |-> position] \in Event
    BY DEF Event
  <2> QED
    BY <1>1, <2>1, <2>2 DEF TouchMove
<1>4. CASE \E slot \in Slots : TouchUp(slot)
  <2>1. PICK slot \in Slots : TouchUp(slot)
    BY <1>4
  <2>2. [code |-> "ABS_MT_TRACKING_ID", value |-> NoContact] \in Event
    BY DEF Event
  <2> QED
    BY <1>1, <2>1, <2>2 DEF TouchUp
<1>5. CASE Disconnect
  <2>1. <<>> \in Seq(Event)
    OBVIOUS
  <2> QED
    BY <1>5, <2>1, BlankType DEF Disconnect, DriverFrame
<1>6. CASE Connect
  BY <1>6 DEF Connect, DriverFrame, TouchTypeOK
<1> QED
  BY <1>2, <1>3, <1>4, <1>5, <1>6 DEF Driver

-----------------------------------------------------------------------------
(* One action at a time, every part of the invariant.                      *)

LEMMA SlotsInitial == TouchInit => SlotsInv
<1> SUFFICES ASSUME TouchInit PROVE SlotsInv
  OBVIOUS
<1>1. TouchTypeOK
  <2>1. <<>> \in Seq(Event) /\ 0 \in 0 .. NumSlots
    BY SlotsAssumption
  <2> QED
    BY <2>1, BlankType DEF TouchInit, TouchTypeOK, Activities, SourceOpen
<1>2. Held = {}
  BY DEF TouchInit, Held, Blank
<1> QED
  BY <1>1, <1>2
  DEF TouchInit, SlotsInv, SlotsAgree, Forwarding, Corrected, Lost,
      Retained, Requested

(* The steps of acquiring a source.                                        *)
LEMMA AcquireInductive ==
    ASSUME TouchInv, OpenSource \/ AdoptSource
    PROVE  SlotsInv'
<1> USE DEF TouchInv, SlotsInv, TouchTypeOK, SlotsAgree, Forwarding, Corrected,
        Lost, Retained, Requested, Activities, SourceOpen
<1>1. CASE OpenSource
  BY <1>1 DEF OpenSource, source_vars, Held
<1>2. CASE AdoptSource
  <2>1. virtual' \in Device /\ next_slot' \in 0 .. NumSlots
    BY <1>2, BlankType, SlotsAssumption DEF AdoptSource
  <2>2. Held' = {} /\ virtual' = virtual
    BY <1>2 DEF AdoptSource, Held
  <2> QED
    BY <1>2, <2>1, <2>2 DEF AdoptSource, source_vars, Slots
<1> QED
  BY <1>1, <1>2

(* The steps of a synchronization.                                         *)
LEMMA SynchronizeInductive ==
    ASSUME TouchInv, SynchronizeSlot \/ Synchronized
    PROVE  SlotsInv'
<1> USE DEF TouchInv, SlotsInv, TouchTypeOK, SlotsAgree, Forwarding, Corrected,
        Lost, Retained, Requested, Activities, SourceOpen, source_vars
<1>1. CASE SynchronizeSlot
  <2>1. next_slot \in Slots /\ next_slot' \in 0 .. NumSlots
    BY <1>1, SlotsAssumption DEF SynchronizeSlot, Slots
  <2>2. virtual' \in Device
    BY <1>1, <2>1 DEF SynchronizeSlot, Device
  <2>3. ASSUME NEW s \in Slots, s < next_slot'
        PROVE  /\ virtual'.id[s] = tracked'.id[s]
               /\ tracked'.id[s] # NoContact => virtual'.at[s] = tracked'.at[s]
    <3>1. s < next_slot \/ s = next_slot
      BY <1>1, <2>1, <2>3 DEF SynchronizeSlot, Slots
    <3> QED
      BY <1>1, <2>1, <3>1 DEF SynchronizeSlot, Device
  <2>4. next_slot' # 0
    BY <1>1, <2>1 DEF SynchronizeSlot, Slots
  <2> QED
    BY <1>1, <2>1, <2>2, <2>3, <2>4 DEF SynchronizeSlot
<1>2. CASE Synchronized
  <2>1. virtual' \in Device /\ virtual'.slot = tracked.slot
    BY <1>2 DEF Synchronized, Device
  <2>2. virtual'.id = virtual.id
    BY <1>2 DEF Synchronized, Device
  <2>3. \A s \in Slots : virtual.id[s] = tracked.id[s]
    BY <1>2, SlotsAssumption DEF Synchronized, Slots
  <2>4. virtual.id = tracked.id
    BY <2>3 DEF Device
  <2> QED
    BY <1>2, <2>1, <2>2, <2>4 DEF Synchronized
<1> QED
  BY <1>1, <1>2

(* The steps that read events of the source.                               *)
LEMMA ReadInductive ==
    ASSUME TouchInv, ReadEvent \/ RecoverSynchronization
    PROVE  SlotsInv'
<1> USE DEF TouchInv, SlotsInv, TouchTypeOK, SlotsAgree, Forwarding, Corrected,
        Lost, Retained, Requested, Activities, SourceOpen, source_vars,
        session_vars
<1>1. CASE ReadEvent
  <2>1. Head(queue) \in Event /\ Tail(queue) \in Seq(Event)
    BY <1>1 DEF ReadEvent
  <2>2. /\ Applied(tracked, Head(queue)) \in Device
        /\ Applied(virtual, Head(queue)) \in Device
    BY <2>1, AppliedType
  <2>3. CASE paused
    BY <1>1, <2>1, <2>2, <2>3 DEF ReadEvent, Held
  <2>4. CASE ~paused
    <3>1. /\ virtual'.slot = tracked'.slot
          /\ virtual'.id = tracked'.id
      BY <1>1, <2>1, <2>4, AppliedSame DEF ReadEvent
    <3> QED
      BY <1>1, <2>1, <2>2, <2>4, <3>1 DEF ReadEvent
  <2> QED
    BY <2>3, <2>4
<1>2. CASE RecoverSynchronization
  <2>1. CASE paused
    BY <1>2, <2>1 DEF RecoverSynchronization, Held
  <2>2. CASE ~paused
    <3>1. virtual' \in Device
      BY <1>2, <2>2 DEF RecoverSynchronization, Device
    <3>2. /\ virtual'.slot = source.slot
          /\ \A s \in Slots : virtual'.id[s] = source.id[s]
      BY <1>2, <2>2 DEF RecoverSynchronization, Device
    <3>3. virtual'.id = source.id
      BY <3>1, <3>2 DEF Device
    <3> QED
      BY <1>2, <2>2, <3>1, <3>2, <3>3 DEF RecoverSynchronization
  <2> QED
    BY <2>1, <2>2
<1> QED
  BY <1>1, <1>2

(* The requests, the loss of the source and the release of the slots.      *)
LEMMA NeutralizeInductive ==
    ASSUME TouchInv,
           \/ Pause \/ Resume \/ LoseSource
           \/ NeutralizeSlot \/ Neutralized \/ CloseSource
    PROVE  SlotsInv'
<1> USE DEF TouchInv, SlotsInv, TouchTypeOK, SlotsAgree, Forwarding, Corrected,
        Lost, Retained, Requested, Activities, SourceOpen, source_vars
<1> /\ 0 \in 0 .. NumSlots
    /\ \A s \in Slots : ~(s < 0)
  BY SlotsAssumption DEF Slots
<1>1. CASE Pause
  <2>1. CASE session = "waiting"
    BY <1>1, <2>1 DEF Pause, Held
  <2>2. CASE session = "reading"
    <3>1. Held' = Held
      BY <1>1, <2>2 DEF Pause, Held
    <3>2. Requested'
      <4>1. /\ session' = "neutralizing"
            /\ ~source_lost'
            /\ requested'
            /\ ~paused'
        BY <1>1, <2>2 DEF Pause
      <4> QED
        BY <4>1
    <3>3. Corrected' /\ Retained' /\ SlotsAgree'
      BY <1>1, <2>2, <3>1 DEF Pause
    <3>4. TouchTypeOK' /\ Lost'
      BY <1>1, <2>2 DEF Pause
    <3> QED
      BY <3>2, <3>3, <3>4
  <2> QED
    BY <1>1, <2>1, <2>2 DEF Pause
<1>2. CASE Resume
  <2>1. CASE session = "waiting"
    BY <1>2, <2>1 DEF Resume, Held
  <2>2. CASE session = "reading"
    BY <1>2, <2>2 DEF Resume, Held
  <2> QED
    BY <1>2, <2>1, <2>2 DEF Resume
<1>3. CASE LoseSource
  BY <1>3, SlotsAssumption DEF LoseSource, Held, Slots
<1>4. CASE NeutralizeSlot
  <2>1. next_slot \in Slots /\ next_slot' \in 0 .. NumSlots
    BY <1>4, SlotsAssumption DEF NeutralizeSlot, Slots
  <2>2. virtual' \in Device
    BY <1>4, <2>1 DEF NeutralizeSlot, Device
  <2>3. ASSUME NEW s \in Slots, s < next_slot'
        PROVE  virtual'.id[s] = NoContact
    <3>1. s < next_slot \/ s = next_slot
      BY <1>4, <2>1, <2>3 DEF NeutralizeSlot, Slots
    <3> QED
      BY <1>4, <2>1, <3>1 DEF NeutralizeSlot, Device
  <2>4. Held = {} => Held' = {}
    BY <1>4, <2>1 DEF NeutralizeSlot, Held
  <2> QED
    BY <1>4, <2>1, <2>2, <2>3, <2>4 DEF NeutralizeSlot
<1>5. CASE Neutralized
  <2>1. Held = {}
    BY <1>5, SlotsAssumption DEF Neutralized, Held, Slots
  <2> QED
    BY <1>5, <2>1 DEF Neutralized, Held
<1>6. CASE CloseSource
  <2>1. Held' = Held
    BY <1>6 DEF CloseSource, Held
  <2> QED
    BY <1>6, <2>1 DEF CloseSource
<1> QED
  BY <1>1, <1>2, <1>3, <1>4, <1>5, <1>6

(* All of it but Pending is inductive.                                     *)
LEMMA SlotsInductive ==
    ASSUME TouchInv, [TouchNext]_touch_vars
    PROVE  SlotsInv'
<1> USE DEF TouchInv, SlotsInv, TouchTypeOK, SlotsAgree, Forwarding, Corrected,
        Lost, Retained, Requested, Activities, SourceOpen
<1>1. CASE Driver
  BY <1>1, DriverEffect DEF DriverFrame, session_vars, Held
<1>2. CASE Close \/ SynchronizedTooLate
  <2>1. Close /\ <<>> \in Seq(Event)
    BY <1>2 DEF SynchronizedTooLate
  <2> QED
    BY <2>1, BlankType DEF Close
<1>3. CASE UNCHANGED touch_vars
  BY <1>3 DEF touch_vars, source_vars, session_vars, Held
<1> QED
  BY <1>1, <1>2, <1>3, AcquireInductive, SynchronizeInductive, ReadInductive,
     NeutralizeInductive
  DEF TouchNext, SessionStep

-----------------------------------------------------------------------------
(* Pending, one action at a time.                                          *)

LEMMA PendingInitial == TouchInit => Pending
  BY DEF TouchInit, Pending, SourceOpen

(* The driver appends to the queue what it does to the source.             *)
LEMMA ReportPending ==
    ASSUME TouchTypeOK, Pending,
           NEW slot \in Slots,
           NEW event \in Event,
           Report(slot, event.code, event.value)
    PROVE  Pending'
<1> DEFINE select   == [code |-> "ABS_MT_SLOT", value |-> slot]
           selected == Applied(source, select)
           passed   == IF source.slot = slot THEN <<event>>
                                             ELSE <<select, event>>
           fits     == Len(queue) + Len(passed) <= QueueSize
<1>1. event = [code |-> event.code, value |-> event.value]
  BY DEF Event
<1>2. select \in Event
  BY DEF Event
<1>3. source \in Device /\ tracked \in Device /\ queue \in Seq(Event)
  BY DEF TouchTypeOK
<1>4. selected \in Device
  BY <1>2, <1>3, AppliedType
<1>5. source.slot = slot => selected = source
  BY <1>3 DEF Applied, Device
<1>6. /\ queue \o <<event>> = Append(queue, event)
      /\ queue \o <<select, event>> = Append(Append(queue, select), event)
      /\ Append(queue, select) \in Seq(Event)
  BY <1>2, <1>3
<1>7. ASSUME Replays(tracked, queue, source)
      PROVE  Replays(tracked, queue \o passed, Applied(selected, event))
  <2>1. CASE source.slot = slot
    <3>1. Replays(tracked, Append(queue, event), Applied(source, event))
      BY <1>3, <1>7, ReplaysAppend
    <3>2. passed = <<event>> /\ selected = source
      BY <1>5, <2>1
    <3> HIDE DEF select, selected, passed
    <3> QED
      BY <1>6, <3>1, <3>2
  <2>2. CASE source.slot # slot
    <3>1. passed = <<select, event>>
      BY <2>2
    <3> HIDE DEF select, passed
    <3>2. Replays(tracked, Append(queue, select), selected)
      BY <1>2, <1>3, <1>7, ReplaysAppend
    <3> HIDE DEF selected
    <3>3. Replays(tracked, Append(Append(queue, select), event),
                  Applied(selected, event))
      BY <1>3, <1>4, <1>6, <3>2, ReplaysAppend
    <3> QED
      BY <1>6, <3>1, <3>3
  <2> QED
    BY <2>1, <2>2
<1> HIDE DEF select, selected, passed, fits
<1>8. /\ source' = Applied(selected, event)
      /\ queue' = IF SourceOpen /\ ~dropped /\ fits
                      THEN queue \o passed ELSE <<>>
      /\ dropped' = (SourceOpen /\ (dropped \/ ~fits))
      /\ connected
      /\ UNCHANGED <<connected, tracked, session>>
  BY <1>1 DEF Report, select, selected, passed, fits, session_vars
<1> QED
  BY <1>7, <1>8 DEF Pending, SourceOpen

LEMMA DriverPending ==
    ASSUME TouchTypeOK, Pending, Driver
    PROVE  Pending'
<1>1. CASE \E slot \in Slots, contact \in Contacts : TouchDown(slot, contact)
  <2>1. PICK slot \in Slots, contact \in Contacts : TouchDown(slot, contact)
    BY <1>1
  <2>2. [code |-> "ABS_MT_TRACKING_ID", value |-> contact] \in Event
    BY DEF Event
  <2> QED
    BY <2>1, <2>2, ReportPending DEF TouchDown
<1>2. CASE \E slot \in Slots, position \in Positions : TouchMove(slot, position)
  <2>1. PICK slot \in Slots, position \in Positions : TouchMove(slot, position)
    BY <1>2
  <2>2. [code |-> "ABS_MT_POSITION", value |-> position] \in Event
    BY DEF Event
  <2> QED
    BY <2>1, <2>2, ReportPending DEF TouchMove
<1>3. CASE \E slot \in Slots : TouchUp(slot)
  <2>1. PICK slot \in Slots : TouchUp(slot)
    BY <1>3
  <2>2. [code |-> "ABS_MT_TRACKING_ID", value |-> NoContact] \in Event
    BY DEF Event
  <2> QED
    BY <2>1, <2>2, ReportPending DEF TouchUp
<1>4. CASE Disconnect \/ Connect
  BY <1>4 DEF Disconnect, Connect, Pending, SourceOpen, session_vars
<1> QED
  BY <1>1, <1>2, <1>3, <1>4 DEF Driver

LEMMA PendingInductive ==
    ASSUME TouchInv, [TouchNext]_touch_vars
    PROVE  Pending'
<1> USE DEF TouchInv, SlotsInv, SourceOpen
<1>1. CASE Driver
  BY <1>1, DriverPending
<1>2. CASE OpenSource
  BY <1>2, ReplaysNothing DEF OpenSource, source_vars, TouchTypeOK, Pending
<1>3. CASE ReadEvent
  <2>1. ~dropped /\ queue # <<>> /\ UNCHANGED <<connected, source, dropped>>
    BY <1>3 DEF ReadEvent, Pending
  <2>2. Replays(tracked', queue', source)
    BY <1>3, ReplaysTail DEF ReadEvent, Pending, TouchTypeOK
  <2> QED
    BY <2>1, <2>2 DEF Pending
<1>4. CASE RecoverSynchronization
  BY <1>4, ReplaysNothing
  DEF RecoverSynchronization, Pending, TouchTypeOK, session_vars
<1>5. CASE Close \/ SynchronizedTooLate
  BY <1>5 DEF Close, SynchronizedTooLate, Pending
<1>6. CASE \/ AdoptSource \/ SynchronizeSlot \/ Synchronized \/ LoseSource
           \/ NeutralizeSlot \/ Neutralized \/ CloseSource \/ Pause \/ Resume
  <2>1. SourceOpen' => SourceOpen
    BY <1>6
    DEF AdoptSource, SynchronizeSlot, Synchronized, LoseSource,
        NeutralizeSlot, Neutralized, CloseSource, Pause, Resume
  <2>2. UNCHANGED <<connected, source, queue, dropped, tracked>>
    BY <1>6
    DEF AdoptSource, SynchronizeSlot, Synchronized, LoseSource,
        NeutralizeSlot, Neutralized, CloseSource, Pause, Resume, source_vars
  <2> QED
    BY <2>1, <2>2 DEF Pending
<1>7. CASE UNCHANGED touch_vars
  BY <1>7 DEF touch_vars, source_vars, session_vars, Pending
<1> QED
  BY <1>1, <1>2, <1>3, <1>4, <1>5, <1>6, <1>7 DEF TouchNext, SessionStep

(* The invariant holds in every behaviour.                                 *)
THEOREM TouchInvariant == TouchSpec => []TouchInv
<1>1. TouchInit => TouchInv
  BY SlotsInitial, PendingInitial DEF TouchInv
<1>2. TouchInv /\ [TouchNext]_touch_vars => TouchInv'
  BY SlotsInductive, PendingInductive DEF TouchInv
<1> QED
  BY <1>1, <1>2, PTL DEF TouchSpec

(* TouchTypeOK: the devices, the queue and the session keep their types,   *)
(* and only a reader that has the source open is sent its events.          *)
THEOREM TouchTypeCorrect == TouchSpec => []TouchTypeOK
  BY TouchInvariant, PTL DEF TouchInv, SlotsInv

(* SlotsAgree: while events are forwarded both sides have the same contacts *)
(* in the same slots, and the same slot selected.                          *)
THEOREM SlotsAlwaysAgree == TouchSpec => []SlotsAgree
  BY TouchInvariant, PTL DEF TouchInv, SlotsInv

(* NothingMissed: a session that has read all there is has the virtual     *)
(* device in step with the source, whatever was dropped on the way.        *)
THEOREM NothingIsMissed == TouchSpec => []NothingMissed
<1>1. TouchInv => NothingMissed
  <2> SUFFICES ASSUME TouchInv, Forwarding, connected, queue = <<>>, ~dropped
               PROVE  virtual.slot = source.slot /\ virtual.id = source.id
    BY DEF NothingMissed
  <2>1. Replays(tracked, <<>>, source) /\ tracked \in Device
    BY DEF TouchInv, SlotsInv, TouchTypeOK, Pending, Forwarding, SourceOpen
  <2>2. tracked = source
    BY <2>1, ReplaysNothing
  <2> QED
    BY <2>2 DEF TouchInv, SlotsInv, SlotsAgree
<1> QED
  BY <1>1, TouchInvariant, PTL

-----------------------------------------------------------------------------
(* WritesOwnSlot, as a property of one step.                               *)
OwnSlot ==
    created' => \A s \in Slots :
        /\ virtual'.id[s] \in {virtual.id[s], tracked'.id[s], NoContact}
        /\ virtual'.at[s] \in {virtual.at[s], tracked'.at[s]}

LEMMA StepWritesOwnSlot ==
    ASSUME TouchInv, TouchNext
    PROVE  OwnSlot
<1> USE DEF TouchInv, SlotsInv, TouchTypeOK, OwnSlot
<1>1. CASE virtual' = virtual
  BY <1>1
<1>2. CASE AdoptSource
  BY <1>2, <1>1 DEF AdoptSource, Retained
<1>3. CASE SynchronizeSlot
  BY <1>3, SlotsAssumption DEF SynchronizeSlot, Device, Slots
<1>4. CASE Synchronized
  BY <1>4 DEF Synchronized, Device
<1>5. CASE ReadEvent
  <2>1. CASE paused
    BY <1>1, <1>5, <2>1 DEF ReadEvent
  <2>2. CASE ~paused
    <3>1. Head(queue) \in Event
      BY <1>5 DEF ReadEvent
    <3> QED
      BY <1>5, <2>2, <3>1, AppliedSame DEF ReadEvent, SlotsAgree, Forwarding
  <2> QED
    BY <2>1, <2>2
<1>6. CASE RecoverSynchronization
  BY <1>6 DEF RecoverSynchronization, Device
<1>7. CASE NeutralizeSlot
  BY <1>7, SlotsAssumption DEF NeutralizeSlot, Device, Slots
<1>8. CASE Close \/ SynchronizedTooLate
  BY <1>8 DEF Close, SynchronizedTooLate
<1>9. CASE Driver
  BY <1>1, <1>9, DriverEffect DEF DriverFrame
<1>10. CASE \/ OpenSource \/ LoseSource \/ Neutralized \/ CloseSource
            \/ Pause \/ Resume
  BY <1>1, <1>10
  DEF OpenSource, LoseSource, Neutralized, CloseSource, Pause, Resume
<1> QED
  BY <1>2, <1>3, <1>4, <1>5, <1>6, <1>7, <1>8, <1>9, <1>10
  DEF TouchNext, SessionStep

(* WritesOwnSlot: nothing lands in the slot of another contact.            *)
THEOREM ContactsKeepTheirSlots == TouchSpec => WritesOwnSlot
<1>1. TouchInv /\ [TouchNext]_touch_vars => [OwnSlot]_touch_vars
  BY StepWritesOwnSlot
<1> QED
  BY <1>1, TouchInvariant, PTL DEF TouchSpec, WritesOwnSlot, OwnSlot

(* ContactsStayPlaced, as a property of one step.                          *)
StayPlaced ==
    Forwarding' => \A s \in Slots :
        (IF Forwarding THEN virtual.at[s] = tracked.at[s]
                       ELSE tracked'.id[s] # NoContact)
        => virtual'.at[s] = tracked'.at[s]

(* The same event moves what is placed on both sides alike.                *)
LEMMA AppliedPlaces ==
    ASSUME NEW one \in Device, NEW other \in Device, NEW event \in Event,
           one.slot = other.slot,
           NEW s \in Slots, one.at[s] = other.at[s]
    PROVE  Applied(one, event).at[s] = Applied(other, event).at[s]
<1>1. CASE event.code = "ABS_MT_SLOT"
  BY <1>1 DEF Applied, Event, Device
<1>2. CASE event.code = "ABS_MT_TRACKING_ID"
  BY <1>2 DEF Applied, Event, Device
<1>3. CASE event.code = "ABS_MT_POSITION"
  BY <1>3 DEF Applied, Event, Device
<1> QED
  BY <1>1, <1>2, <1>3 DEF Event

LEMMA StepKeepsPlaced ==
    ASSUME TouchInv, TouchNext
    PROVE  StayPlaced
<1> USE DEF TouchInv, SlotsInv, StayPlaced, Forwarding
<1>1. CASE ReadEvent
  <2>1. CASE paused
    BY <1>1, <2>1 DEF ReadEvent, session_vars
  <2>2. CASE ~paused
    <3>1. /\ Head(queue) \in Event /\ virtual.slot = tracked.slot
          /\ tracked \in Device /\ virtual \in Device
      BY <1>1, <2>2 DEF ReadEvent, TouchTypeOK, SlotsAgree
    <3>2. /\ Forwarding
          /\ tracked' = Applied(tracked, Head(queue))
          /\ virtual' = Applied(virtual, Head(queue))
      BY <1>1, <2>2 DEF ReadEvent
    <3>3. ASSUME NEW s \in Slots, virtual.at[s] = tracked.at[s]
          PROVE  virtual'.at[s] = tracked'.at[s]
      BY <3>1, <3>2, <3>3, AppliedPlaces
    <3> QED
      BY <3>2, <3>3
  <2> QED
    BY <2>1, <2>2
<1>2. CASE RecoverSynchronization
  BY <1>2 DEF RecoverSynchronization, session_vars
<1>3. CASE Synchronized
  <2>1. \A s \in Slots : tracked.id[s] # NoContact => virtual.at[s] = tracked.at[s]
    BY <1>3, SlotsAssumption DEF Synchronized, Corrected, Slots
  <2>2. tracked' = tracked /\ virtual'.at = virtual.at /\ ~Forwarding
    BY <1>3 DEF Synchronized, TouchTypeOK, Device
  <2> QED
    BY <2>1, <2>2
<1>4. CASE Neutralized \/ AdoptSource \/ Resume
  <2>1. ~Forwarding'
    <3>1. CASE Neutralized
      BY <3>1 DEF Neutralized
    <3>2. CASE AdoptSource
      BY <3>2 DEF AdoptSource
    <3>3. CASE Resume
      BY <3>3 DEF Resume
    <3> QED
      BY <1>4, <3>1, <3>2, <3>3
  <2> QED
    BY <2>1
<1>5. CASE \/ OpenSource \/ SynchronizeSlot \/ LoseSource \/ NeutralizeSlot
           \/ CloseSource \/ Pause \/ Close \/ SynchronizedTooLate
  <2>1. ~Forwarding'
    BY <1>5
    DEF OpenSource, SynchronizeSlot, LoseSource, NeutralizeSlot, CloseSource,
        Pause, Close, SynchronizedTooLate
  <2> QED
    BY <2>1
<1>6. CASE Driver
  <2>1. UNCHANGED <<session, paused, tracked, virtual>>
    BY <1>6, DriverEffect DEF DriverFrame, session_vars
  <2> QED
    BY <2>1
<1> QED
  BY <1>1, <1>2, <1>3, <1>4, <1>5, <1>6 DEF TouchNext, SessionStep

(* ContactsStayPlaced: a contact that is down when forwarding begins is    *)
(* where the source has it, and what is placed stays placed.               *)
THEOREM PlacedContactsStay == TouchSpec => ContactsStayPlaced
<1>1. TouchInv /\ [TouchNext]_touch_vars => [StayPlaced]_touch_vars
  BY StepKeepsPlaced
<1> QED
  BY <1>1, TouchInvariant, PTL DEF TouchSpec, ContactsStayPlaced, StayPlaced

-----------------------------------------------------------------------------
(* The refinement of SessionContract.                                      *)

(* What the mapping makes of a state, arm by arm.                          *)
Mode   == IF paused /\ requested THEN "paused" ELSE "running"
Kind   == IF created THEN "kind" ELSE "none"
Mapped == <<Lifecycle, Mode, Kind, Held>>

LifecycleArms ==
    /\ session = "adopting" => Lifecycle = "creating"
    /\ session = "synchronizing" =>
           Lifecycle = IF next_slot = 0 /\ ~paused THEN "creating" ELSE "active"
    /\ session \in {"reading", "neutralizing"} => Lifecycle = "active"
    /\ session = "neutral" => Lifecycle = "source_lost"
    /\ session = "waiting" => Lifecycle = "waiting"
    /\ session = "closed" => Lifecycle = "closing"

LEMMA LifecycleDefined == LifecycleArms /\ LifecycleArms'
  BY DEF LifecycleArms, Lifecycle

LEMMA InitRefines == TouchInit => Contract!ContractInit
<1> SUFFICES ASSUME TouchInit PROVE Contract!ContractInit
  OBVIOUS
<1>1. Held = {}
  BY DEF TouchInit, Held, Blank
<1> QED
  BY <1>1, LifecycleDefined
  DEF TouchInit, LifecycleArms, Contract!ContractInit

ContractStep == [Contract!ContractNext]_(Contract!contract_vars)

(* Nothing the contract speaks of has changed.                             *)
LEMMA Stutters ==
    ASSUME UNCHANGED Mapped
    PROVE  ContractStep
  BY DEF Mapped, Mode, Kind, ContractStep, Contract!contract_vars

(* Contacts come and go on the device of a running, active session.        *)
LEMMA Forwards ==
    ASSUME Lifecycle = "active", Lifecycle' = "active",
           Mode = "running", Mode' = "running", UNCHANGED created
    PROVE  ContractStep
<1>1. Held' \in SUBSET Slots
  BY DEF Held
<1> QED
  BY <1>1
  DEF ContractStep, Contract!ContractNext, Contract!ForwardEvents, Mode

LEMMA AcquireRefines ==
    ASSUME TouchInv, OpenSource \/ AdoptSource
    PROVE  ContractStep
<1> USE LifecycleDefined DEF LifecycleArms, TouchInv, SlotsInv, Retained, Requested,
        ContractStep, Contract!ContractNext
<1>1. CASE OpenSource
  <2>1. Held' = Held
    BY <1>1 DEF OpenSource, Held
  <2>2. Contract!OpenSource
    BY <1>1, <2>1 DEF OpenSource, Contract!OpenSource
  <2> QED
    BY <2>2
<1>2. CASE AdoptSource
  <2>1. Held = {} /\ Held' = {}
    BY <1>2 DEF AdoptSource, Held
  <2>2. requested = paused /\ paused \in BOOLEAN
    BY <1>2 DEF AdoptSource, TouchTypeOK
  <2>3. Lifecycle' = IF paused THEN "active" ELSE "creating"
    BY <1>2 DEF AdoptSource
  <2>4. Contract!AdoptSource
    BY <1>2, <2>1, <2>2, <2>3 DEF AdoptSource, Contract!AdoptSource
  <2> QED
    BY <2>4
<1> QED
  BY <1>1, <1>2

LEMMA SynchronizeRefines ==
    ASSUME TouchInv, SynchronizeSlot \/ Synchronized
    PROVE  ContractStep
<1> USE LifecycleDefined DEF LifecycleArms, TouchInv, SlotsInv, Retained, Requested
<1>1. Mode = "running" /\ Mode' = "running" /\ created /\ created'
  BY DEF SynchronizeSlot, Synchronized, Mode
<1>2. Lifecycle' = "active"
  BY SlotsAssumption DEF SynchronizeSlot, Synchronized, TouchTypeOK
<1>3. CASE Lifecycle = "active"
  BY <1>1, <1>2, <1>3, Forwards
<1>4. CASE Lifecycle = "creating"
  <2>1. Held' \in SUBSET Slots
    BY DEF Held
  <2>2. Contract!BeginForwarding
    BY <1>1, <1>2, <1>4, <2>1 DEF Contract!BeginForwarding, Mode
  <2> QED
    BY <2>2 DEF ContractStep, Contract!ContractNext
<1> QED
  BY <1>3, <1>4 DEF SynchronizeSlot, Synchronized

LEMMA ReadRefines ==
    ASSUME TouchInv, ReadEvent \/ RecoverSynchronization
    PROVE  ContractStep
<1> USE LifecycleDefined DEF LifecycleArms, TouchInv, SlotsInv, Requested,
        ReadEvent, RecoverSynchronization, session_vars
<1>1. UNCHANGED <<Lifecycle, Mode, Kind, created>> /\ Lifecycle = "active"
  BY DEF Mode, Kind
<1>2. CASE paused
  <2>1. Held' = Held
    BY <1>2 DEF Held
  <2> QED
    BY <1>1, <2>1, Stutters DEF Mapped
<1>3. CASE ~paused
  <2>1. Mode = "running"
    BY <1>3 DEF Mode
  <2> QED
    BY <1>1, <2>1, Forwards
<1> QED
  BY <1>2, <1>3

LEMMA RequestRefines ==
    ASSUME TouchInv, Pause \/ Resume
    PROVE  ContractStep
<1> USE LifecycleDefined DEF LifecycleArms, TouchInv, SlotsInv, Retained, Requested
<1>1. Held' = Held /\ Kind' = Kind
  BY DEF Pause, Resume, Held, Kind
<1>2. CASE Pause /\ session = "waiting"
  <2>1. Contract!Pause
    BY <1>1, <1>2 DEF Pause, Contract!Pause, Kind
  <2> QED
    BY <2>1 DEF ContractStep, Contract!ContractNext
<1>3. CASE Pause /\ session = "reading"
  BY <1>1, <1>3, Stutters DEF Pause, Mapped, Mode
<1>4. CASE Resume
  <2>1. /\ requested /\ ~requested'
        /\ Lifecycle \in {"waiting", "active"}
        /\ Lifecycle' = Lifecycle
    BY <1>4 DEF Resume
  <2>2. Held' \in SUBSET Slots
    BY DEF Held
  <2>3. Contract!Resume
    BY <1>1, <1>4, <2>1, <2>2 DEF Resume, Contract!Resume, Kind
  <2> QED
    BY <2>3 DEF ContractStep, Contract!ContractNext
<1> QED
  BY <1>2, <1>3, <1>4 DEF Pause

LEMMA NeutralizeRefines ==
    ASSUME TouchInv,
           LoseSource \/ NeutralizeSlot \/ Neutralized \/ CloseSource
    PROVE  ContractStep
<1> USE LifecycleDefined DEF LifecycleArms, TouchInv, SlotsInv, Retained, Requested
<1>1. CASE LoseSource
  BY <1>1, Stutters DEF LoseSource, Mapped, Mode, Kind, Held
<1>2. CASE NeutralizeSlot
  <2>1. UNCHANGED <<Lifecycle, Mode, Kind, created>> /\ Lifecycle = "active"
    BY <1>2 DEF NeutralizeSlot, Mode, Kind
  <2>2. CASE paused
    <3>1. Held = {} /\ Held' = Held
      BY <1>2, <2>2, SlotsAssumption
      DEF NeutralizeSlot, Held, Slots, TouchTypeOK
    <3> QED
      BY <2>1, <3>1, Stutters DEF Mapped
  <2>3. CASE ~paused
    <3>1. Mode = "running"
      BY <2>3 DEF Mode
    <3> QED
      BY <2>1, <3>1, Forwards
  <2> QED
    BY <2>2, <2>3
<1>3. CASE Neutralized
  <2>1. Held = {} /\ Held' = {} /\ Kind' = Kind
    BY <1>3, SlotsAssumption DEF Neutralized, Held, Slots, Corrected, Kind
  <2>2. CASE source_lost
    <3>1. Contract!LoseSource
      BY <1>3, <2>1, <2>2 DEF Neutralized, Contract!LoseSource, Kind
    <3> QED
      BY <3>1 DEF ContractStep, Contract!ContractNext
  <2>3. CASE ~source_lost
    <3>1. Contract!Pause
      BY <1>3, <2>1, <2>3 DEF Neutralized, Contract!Pause, Kind
    <3> QED
      BY <3>1 DEF ContractStep, Contract!ContractNext
  <2> QED
    BY <2>2, <2>3
<1>4. CASE CloseSource
  <2>1. Held = {} /\ Held' = {}
    BY <1>4 DEF CloseSource, Held
  <2>2. Contract!Neutralize
    BY <1>4, <2>1 DEF CloseSource, Contract!Neutralize
  <2> QED
    BY <2>2 DEF ContractStep, Contract!ContractNext
<1> QED
  BY <1>1, <1>2, <1>3, <1>4

LEMMA CloseRefines ==
    ASSUME TouchInv, Close
    PROVE  ContractStep
<1> USE LifecycleDefined DEF LifecycleArms
<1>1. Lifecycle \notin {"closing", "exit"} /\ Lifecycle' = "closing"
  BY DEF Close, TouchInv, SlotsInv, TouchTypeOK, Activities
<1>2. Held' = {}
  BY DEF Close, Held, Blank
<1>3. Contract!Close
  BY <1>1, <1>2 DEF Close, Contract!Close
<1> QED
  BY <1>3 DEF ContractStep, Contract!ContractNext

(* Every step is one of the contract, or changes nothing it speaks of.     *)
LEMMA StepRefines ==
    ASSUME TouchInv, [TouchNext]_touch_vars
    PROVE  ContractStep
<1>1. CASE Driver
  <2>1. UNCHANGED <<session_vars, virtual>>
    BY <1>1, DriverEffect DEF DriverFrame, TouchInv, SlotsInv
  <2> QED
    BY <2>1, Stutters DEF session_vars, Mapped, Lifecycle, Mode, Kind, Held
<1>2. CASE UNCHANGED touch_vars
  BY <1>2, Stutters
  DEF touch_vars, session_vars, Mapped, Lifecycle, Mode, Kind, Held
<1>3. CASE Close \/ SynchronizedTooLate
  BY <1>3, CloseRefines DEF SynchronizedTooLate
<1> QED
  BY <1>1, <1>2, <1>3, AcquireRefines, SynchronizeRefines, ReadRefines,
     RequestRefines, NeutralizeRefines
  DEF TouchNext, SessionStep

(* SlotsImplementContract: slot by slot, the corrections keep what the     *)
(* session promises of its momentary controls, for any number of slots.    *)
THEOREM SlotsKeepContract == TouchSpec => SlotsImplementContract
<1>1. TouchInv /\ [TouchNext]_touch_vars => ContractStep
  BY StepRefines
<1> QED
  BY <1>1, InitRefines, TouchInvariant, PTL
  DEF TouchSpec, SlotsImplementContract, Contract!ContractSpec, ContractStep

Promised == INSTANCE SessionContract_proofs WITH
    Keys      <- Slots,
    Kinds     <- {"kind"},
    NoDevice  <- "none",
    lifecycle <- Lifecycle,
    mode      <- Mode,
    device    <- Kind,
    held      <- Held

(* What is proved of the contract holds slot by slot: no slot of the       *)
(* virtual device is occupied while the session waits, is paused, or has   *)
(* yet to begin forwarding.                                                *)
THEOREM SlotsHeldWhileForwarding ==
    TouchSpec => []Contract!HeldOnlyWhileForwarding
<1>1. Promised!ContractSpec => []Promised!HeldOnlyWhileForwarding
  BY Promised!HeldControls
<1>2. Contract!ContractInit => Promised!ContractInit
  BY DEF Contract!ContractInit, Promised!ContractInit, Mode, Kind
<1>3. [Contract!ContractNext]_(Contract!contract_vars)
          => [Promised!ContractNext]_(Promised!contract_vars)
  BY DEF Mode, Kind, Contract!contract_vars, Promised!contract_vars,
      Contract!ContractNext, Promised!ContractNext,
      Contract!OpenSource, Promised!OpenSource,
      Contract!AdoptSource, Promised!AdoptSource,
      Contract!BeginForwarding, Promised!BeginForwarding,
      Contract!ForwardEvents, Promised!ForwardEvents,
      Contract!Pause, Promised!Pause, Contract!Resume, Promised!Resume,
      Contract!LoseSource, Promised!LoseSource,
      Contract!Neutralize, Promised!Neutralize,
      Contract!Close, Promised!Close, Contract!Exit, Promised!Exit
<1>4. Promised!HeldOnlyWhileForwarding => Contract!HeldOnlyWhileForwarding
  BY DEF Mode, Kind, Promised!HeldOnlyWhileForwarding,
      Contract!HeldOnlyWhileForwarding
<1> QED
  BY <1>1, <1>2, <1>3, <1>4, SlotsKeepContract, PTL
  DEF SlotsImplementContract, Contract!ContractSpec, Promised!ContractSpec

=============================================================================
