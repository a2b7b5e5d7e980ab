----------------------- MODULE SessionContract_proofs -----------------------
(***************************************************************************)
(* Proofs about SessionContract, for all sets of controls and of kinds.    *)
(*                                                                         *)
(* HeldOnlyWhileForwarding is not inductive: that events are forwarded to  *)
(* a device needs that an active session has one, and that a session which *)
(* ends holds nothing needs that a device is destroyed with its state.     *)
(***************************************************************************)
EXTENDS SessionContract, TLAPS

ContractInv ==
    /\ ContractTypeOK
    /\ HeldOnlyWhileForwarding
    /\ lifecycle \in {"active", "source_lost"} => device # NoDevice
    /\ device = NoDevice => held = {}

(* The invariant holds at first.                                           *)
LEMMA ContractInitial == ContractInit => ContractInv
  BY DEF ContractInit, ContractInv, ContractTypeOK, Lifecycles,
      HeldOnlyWhileForwarding

(* The invariant is inductive.                                             *)
LEMMA ContractInductive ==
    ASSUME NoDevice \notin Kinds, ContractInv, [ContractNext]_contract_vars
    PROVE  ContractInv'
<1> USE DEF ContractInv, ContractTypeOK, Lifecycles,
        HeldOnlyWhileForwarding
<1>1. CASE OpenSource
  BY <1>1 DEF OpenSource
<1>2. CASE AdoptSource
  BY <1>2 DEF AdoptSource
<1>3. CASE BeginForwarding
  BY <1>3 DEF BeginForwarding
<1>4. CASE ForwardEvents
  BY <1>4 DEF ForwardEvents
<1>5. CASE Pause
  BY <1>5 DEF Pause
<1>6. CASE Resume
  BY <1>6 DEF Resume
<1>7. CASE LoseSource
  BY <1>7 DEF LoseSource
<1>8. CASE Neutralize
  BY <1>8 DEF Neutralize
<1>9. CASE Close
  BY <1>9 DEF Close
<1>10. CASE Exit
  BY <1>10 DEF Exit
<1>11. CASE UNCHANGED contract_vars
  BY <1>11 DEF contract_vars
<1> QED
  BY <1>1, <1>2, <1>3, <1>4, <1>5, <1>6, <1>7, <1>8, <1>9, <1>10, <1>11
  DEF ContractNext

(* The invariant holds in every behaviour.                                 *)
THEOREM ContractInvariant ==
    ASSUME NoDevice \notin Kinds
    PROVE  ContractSpec => []ContractInv
<1>1. ContractInv /\ [ContractNext]_contract_vars => ContractInv'
  BY ContractInductive
<1> QED
  BY <1>1, ContractInitial, PTL DEF ContractSpec

(* A momentary control is held only by a running session on a device that  *)
(* exists, whatever losses, returns, pauses and exchanges came before.     *)
THEOREM HeldControls ==
    ASSUME NoDevice \notin Kinds
    PROVE  ContractSpec => []HeldOnlyWhileForwarding
<1>1. ContractInv => HeldOnlyWhileForwarding
  BY DEF ContractInv
<1>2. ContractSpec => []ContractInv
  BY ContractInvariant
<1> QED
  BY <1>1, <1>2, PTL

=============================================================================
