-------------------------- MODULE RuntimeDiscovery --------------------------
(***************************************************************************)
(* Discovery of the running instances (runtime_discovery.c): the names on  *)
(* the system bus are listed, and the owner of each name of an instance is *)
(* then asked for its source.  Sessions start and end between the calls,   *)
(* and one that has ended or does not answer is passed over.               *)
(***************************************************************************)
EXTENDS InstanceNames

CONSTANTS
    Sources,     \* source paths
    NotRunning

ASSUME DiscoveryAssumption == NotRunning \notin Sources

VARIABLES
    bus,         \* the source of the session that owns each name
    discovery,   \* the next call, or how the discovery ended
    unasked,     \* the listed names whose owner has not been asked
    records,     \* the records of the snapshot
    steady,      \* the sessions that ran and answered ever since it began
    seen         \* the sessions that ran at some time since it began

discovery_vars == <<discovery, unasked, records>>
history_vars   == <<steady, seen>>

runtime_vars == <<bus, discovery_vars, history_vars>>

-----------------------------------------------------------------------------

Record == [instance : Instances, source : Sources]

Running == {r \in Record : bus[r.instance] = r.source}

(* A snapshot that is not available has no records.                        *)
RuntimeTypeOK ==
    /\ bus \in [Instances -> Sources \cup {NotRunning}]
    /\ discovery \in {"idle", "listing", "asking", "available", "unavailable"}
    /\ unasked \in SUBSET Instances
    /\ records \in SUBSET Record
    /\ discovery # "asking" => unasked = {}
    /\ discovery \notin {"asking", "available"} => records = {}

RuntimeInit ==
    /\ bus \in [Instances -> Sources \cup {NotRunning}]
    /\ discovery = "idle"
    /\ unasked = {}
    /\ records = {}
    /\ steady = {}
    /\ seen = {}

-----------------------------------------------------------------------------
(* The sessions.                                                           *)

Discovering == discovery \in {"listing", "asking"}

StartSession(i, source) ==
    /\ bus[i] = NotRunning
    /\ bus' = [bus EXCEPT ![i] = source]
    /\ seen' = IF Discovering
                   THEN seen \cup {[instance |-> i, source |-> source]}
                   ELSE seen
    /\ UNCHANGED <<discovery_vars, steady>>

EndSession(i) ==
    /\ bus[i] # NotRunning
    /\ bus' = [bus EXCEPT ![i] = NotRunning]
    /\ steady' = {r \in steady : r.instance # i}
    /\ UNCHANGED <<discovery_vars, seen>>

SessionsChange ==
    \E i \in Instances :
        EndSession(i) \/ \E source \in Sources : StartSession(i, source)

-----------------------------------------------------------------------------
(* input_proxy_runtime_discover.                                           *)

OpenBus ==
    /\ discovery = "idle"
    /\ discovery' = "listing"
    /\ steady' = Running
    /\ seen' = Running
    /\ UNCHANGED <<bus, unasked, records>>

ListNames ==
    /\ discovery = "listing"
    /\ discovery' = "asking"
    /\ unasked' = {i \in Instances : bus[i] # NotRunning}
    /\ UNCHANGED <<bus, records, history_vars>>

(* The bus cannot be opened, does not answer, or memory runs out.          *)
DiscoveryFails ==
    /\ discovery \in {"idle", "listing", "asking"}
    /\ discovery' = "unavailable"
    /\ unasked' = {}
    /\ records' = {}
    /\ UNCHANGED <<bus, history_vars>>

(* lookup_source: whoever owns the name now answers.                       *)
AskSource(i) ==
    /\ discovery = "asking"
    /\ i \in unasked
    /\ bus[i] # NotRunning
    /\ records' = records \cup {[instance |-> i, source |-> bus[i]]}
    /\ unasked' = unasked \ {i}
    /\ UNCHANGED <<bus, discovery, history_vars>>

(* Faulty: a name without an answer ends the snapshot.                     *)
StopAtSilence(i) ==
    /\ discovery = "asking"
    /\ i \in unasked
    /\ unasked' = {}
    /\ steady' = {r \in steady : r.instance # i}
    /\ UNCHANGED <<bus, discovery, records, seen>>

(* Nobody owns the name any more, or its owner does not answer in time.    *)
SourceUnanswered(i) ==
    /\ discovery = "asking"
    /\ i \in unasked
    /\ unasked' = unasked \ {i}
    /\ steady' = {r \in steady : r.instance # i}
    /\ UNCHANGED <<bus, discovery, records, seen>>

SnapshotBuilt ==
    /\ discovery = "asking"
    /\ unasked = {}
    /\ discovery' = "available"
    /\ UNCHANGED <<bus, unasked, records, history_vars>>

Discover ==
    \/ OpenBus \/ ListNames \/ DiscoveryFails
    \/ \E i \in Instances : AskSource(i) \/ SourceUnanswered(i)
    \/ SnapshotBuilt

-----------------------------------------------------------------------------
(* Properties.                                                             *)

(* Every record was true at some time of the discovery, no instance is in  *)
(* the snapshot twice, and a session that ran and answered all the time is *)
(* in it, whatever other sessions did between the calls.                   *)
SnapshotSound ==
    discovery = "available" =>
        /\ steady \subseteq records
        /\ records \subseteq seen
        /\ \A r, s \in records : r.instance = s.instance => r = s

=============================================================================
