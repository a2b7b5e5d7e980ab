----------------------------- MODULE Inspection -----------------------------
(***************************************************************************)
(* What `inspect' says of the instances of a device (device_inspection.c): *)
(* those whose source is the device, whether each was installed or started *)
(* by hand, and, when there is none, how one could be made.                *)
(*                                                                         *)
(* A snapshot of the running instances comes first, then the device, and   *)
(* the store at last; each has changed when the next is looked at.         *)
(***************************************************************************)
EXTENDS InstanceStore, RuntimeDiscovery

CONSTANTS
    EventNode,   \* /dev/input/event* of the device
    Link         \* a link in by-id or by-path, to this or another device

ASSUME InspectionAssumption == {EventNode, Link} \subseteq Sources

VARIABLES
    inspection,   \* what is looked at next, or how the command ended
    preferred,    \* the preferred source of the device, or NotRunning
    suggested,    \* the commands that were suggested
    reported      \* the associated instances, each with its classification

report_vars == <<inspection, preferred, suggested, reported>>

inspection_vars == <<store_vars, runtime_vars, report_vars>>

-----------------------------------------------------------------------------

Classifications == {"Installed", "Direct-run", "Unknown"}

InspectionTypeOK ==
    /\ StoreTypeOK
    /\ RuntimeTypeOK
    /\ inspection \in {"runtime", "device", "associations", "printed",
                       "failed"}
    /\ preferred \in {Link, NotRunning}
    /\ suggested \in SUBSET {"run", "install"}
    /\ reported \in SUBSET (Record \X Classifications)
    /\ inspection # "printed" => reported = {}

ReportInit ==
    /\ inspection = "runtime"
    /\ preferred = NotRunning
    /\ suggested = {}
    /\ reported = {}

InspectionInit == StoreReady /\ RuntimeInit /\ ReportInit

-----------------------------------------------------------------------------

(* input_proxy_runtime_record_matches_device.                              *)
Matches(record, link) == record.source \in {EventNode, link}

Associated(link) == {r \in records : Matches(r, link)}

DiscoverRuntime ==
    /\ inspection = "runtime"
    /\ IF discovery \in {"available", "unavailable"}
           THEN inspection' = "device" /\ UNCHANGED runtime_vars
           ELSE Discover /\ UNCHANGED inspection
    /\ UNCHANGED <<store_vars, preferred, suggested, reported>>

(* The path is not an event device, or its metadata cannot be read.        *)
DeviceFails ==
    /\ inspection = "device"
    /\ inspection' = "failed"
    /\ UNCHANGED <<store_vars, runtime_vars, preferred, suggested, reported>>

(* The device is resolved, with its link if it has one; a command is       *)
(* suggested to a user, or for a service, that can open the source and     *)
(* uinput, unless an instance is associated with the device.               *)
InspectDevice(link, accessible) ==
    /\ inspection = "device"
    /\ preferred' = link
    /\ suggested' = IF Associated(link) = {} THEN accessible ELSE {}
    /\ inspection' = IF Associated(link) = {} THEN "printed"
                                              ELSE "associations"
    /\ UNCHANGED <<store_vars, runtime_vars, reported>>

(* Faulty: what is not in a list that could not be read counts as absent.  *)
ClassifiedWithoutRegistry(record) ==
    IF record.instance \in listed THEN "Installed" ELSE "Direct-run"

Classified(record) ==
    IF scan = "failed" THEN "Unknown"
    ELSE IF record.instance \in listed THEN "Installed" ELSE "Direct-run"

(* input_proxy_print_runtime_associations.                                 *)
PrintAssociations ==
    /\ inspection = "associations"
    /\ IF scan \in {"complete", "failed"}
           THEN /\ reported' = {<<r, Classified(r)>> : r \in Associated(preferred)}
                /\ inspection' = "printed"
                /\ UNCHANGED store_vars
           ELSE Enumerate /\ UNCHANGED <<inspection, reported>>
    /\ UNCHANGED <<runtime_vars, preferred, suggested>>

-----------------------------------------------------------------------------
(* The other processes, for as long as the command looks at what they      *)
(* change: sessions before it has its snapshot, the entries of the store   *)
(* after that.  A creation is ahead of its link(2) or behind it.           *)

SessionsRun ==
    /\ inspection = "runtime"
    /\ SessionsChange
    /\ UNCHANGED <<store_vars, report_vars>>

CommandsRun ==
    /\ inspection = "associations"
    /\ \/ \E c \in Creations : Publish(c)
       \/ \E i \in Instances : Remove(i)
    /\ UNCHANGED <<runtime_vars, report_vars>>

InspectionNext ==
    \/ DiscoverRuntime
    \/ DeviceFails
    \/ \E link \in {Link, NotRunning}, accessible \in SUBSET {"run", "install"} :
          InspectDevice(link, accessible)
    \/ PrintAssociations
    \/ SessionsRun \/ CommandsRun

InspectionSpec == InspectionInit /\ [][InspectionNext]_inspection_vars

-----------------------------------------------------------------------------
(* Properties.                                                             *)

(* What is reported of a device is true of some time, although neither the *)
(* snapshot nor the list is a moment's picture: an instance ran with this  *)
(* source, it is "Installed" only if it was and "Direct-run" only if it    *)
(* was not all along, no instance is reported twice, and one that ran and  *)
(* answered all the time is reported.                                      *)
AssociationsSound ==
    inspection = "printed" /\ discovery = "available" =>
        /\ \A pair \in reported :
              /\ pair[1] \in seen
              /\ pair[1].source \in {EventNode, preferred}
              /\ pair[2] = "Installed" => pair[1].instance \in during
              /\ pair[2] = "Direct-run" => pair[1].instance \notin throughout
              /\ \A other \in reported :
                    other[1].instance = pair[1].instance => other = pair
        /\ \A r \in steady :
              r.source \in {EventNode, preferred} =>
                  \E pair \in reported : pair[1] = r

=============================================================================
