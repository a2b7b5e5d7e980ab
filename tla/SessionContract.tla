--------------------------- MODULE SessionContract ---------------------------
(***************************************************************************)
(* What a proxy session promises to the readers of its virtual device and  *)
(* to the clients of its Pause and Resume methods, without its loops,      *)
(* waits, descriptors, timers or bus connection.                           *)
(*                                                                         *)
(* The device exists from the first source on and is exchanged only for a  *)
(* source it cannot represent; momentary controls are held on it only      *)
(* while an unpaused session forwards; a session that fails or is told to  *)
(* stop takes the device away before it exits.                             *)
(***************************************************************************)
CONSTANTS
    Keys,      \* the momentary controls
    Kinds,     \* identity and capabilities of a device
    NoDevice

VARIABLES
    lifecycle,
    mode,      \* "running" or "paused"
    device,    \* the kind of the virtual device, or NoDevice
    held       \* momentary controls active on the virtual device

contract_vars == <<lifecycle, mode, device, held>>

Lifecycles == {"waiting", "creating", "active", "source_lost", "closing",
               "exit"}

ContractTypeOK ==
    /\ lifecycle \in Lifecycles
    /\ mode \in {"running", "paused"}
    /\ device \in Kinds \cup {NoDevice}
    /\ held \in SUBSET Keys

ContractInit ==
    /\ lifecycle = "waiting"
    /\ mode \in {"running", "paused"}
    /\ device = NoDevice
    /\ held = {}

OpenSource ==
    /\ lifecycle = "waiting"
    /\ lifecycle' = "creating"
    /\ UNCHANGED <<mode, device, held>>

(* Keep the device, or exchange it for one of another kind; a paused       *)
(* session is active at once.                                              *)
AdoptSource ==
    /\ lifecycle = "creating"
    /\ lifecycle' = IF mode = "paused" THEN "active" ELSE "creating"
    /\ device' \in Kinds
    /\ held' = IF device' = device THEN held ELSE {}
    /\ UNCHANGED mode

(* An unpaused session synchronizes before it forwards.                    *)
BeginForwarding ==
    /\ lifecycle = "creating"
    /\ mode = "running"
    /\ device # NoDevice
    /\ lifecycle' = "active"
    /\ held' \in SUBSET Keys
    /\ UNCHANGED <<mode, device>>

ForwardEvents ==
    /\ lifecycle = "active"
    /\ mode = "running"
    /\ held' \in SUBSET Keys
    /\ UNCHANGED <<lifecycle, mode, device>>

(* Neutralized before paused operation, synchronized before forwarding;    *)
(* without a source there is nothing to correct.                           *)
Pause ==
    /\ lifecycle \in {"waiting", "active"}
    /\ mode = "running"
    /\ mode' = "paused"
    /\ held' = {}
    /\ UNCHANGED <<lifecycle, device>>

Resume ==
    /\ lifecycle \in {"waiting", "active"}
    /\ mode = "paused"
    /\ mode' = "running"
    /\ held' \in IF lifecycle = "active" THEN SUBSET Keys ELSE {held}
    /\ UNCHANGED <<lifecycle, device>>

LoseSource ==
    /\ lifecycle = "active"
    /\ lifecycle' = "source_lost"
    /\ UNCHANGED <<mode, device, held>>

Neutralize ==
    /\ lifecycle = "source_lost"
    /\ lifecycle' = "waiting"
    /\ held' = {}
    /\ UNCHANGED <<mode, device>>

(* A failure or a shutdown; what the device shows is no longer promised,   *)
(* and it is not exchanged any more.                                       *)
Close ==
    /\ lifecycle # "exit"
    /\ lifecycle' = "closing"
    /\ device' \in {device, NoDevice}
    /\ held' \in IF device' = NoDevice THEN {{}} ELSE SUBSET Keys
    /\ mode' \in IF lifecycle = "closing" THEN {"running", "paused"} ELSE {mode}

Exit ==
    /\ lifecycle = "closing"
    /\ device = NoDevice
    /\ lifecycle' = "exit"
    /\ UNCHANGED <<mode, device, held>>

ContractNext ==
    \/ OpenSource \/ AdoptSource \/ BeginForwarding \/ ForwardEvents
    \/ Pause \/ Resume \/ LoseSource \/ Neutralize \/ Close \/ Exit

ContractSpec == ContractInit /\ [][ContractNext]_contract_vars

-----------------------------------------------------------------------------

(* A momentary control is held only on a device that exists, by a session   *)
(* that is running and has, or has just lost, its source; a paused session  *)
(* and one that waits hold none, through every loss and return.             *)
HeldOnlyWhileForwarding ==
    held # {} /\ lifecycle # "closing" =>
        /\ lifecycle \in {"active", "source_lost"}
        /\ mode = "running"
        /\ device # NoDevice

=============================================================================
