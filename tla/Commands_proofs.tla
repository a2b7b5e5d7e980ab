---------------------------- MODULE Commands_proofs ----------------------------
(***************************************************************************)
(* Proofs about the commands: InstanceStore, RuntimeDiscovery and          *)
(* Inspection, for any number of instances, creations and sources, the     *)
(* arithmetic of Deadlines, for any width and any units of time, and       *)
(* Commands, which runs them and InstallPlan.                              *)
(*                                                                         *)
(* The first three are snapshots taken in steps.  What each has so far is  *)
(* bound from below by what was there all the time and from above by what  *)
(* was there at some time, together with what is still to be looked at.    *)
(***************************************************************************)
EXTENDS Commands, InstallPlan_proofs

-----------------------------------------------------------------------------
(* The store.                                                              *)

(* A file is synced when it gets its name, and is not touched afterwards:  *)
(* so is every file that a power failure may bring back.                   *)
Published(c) ==
    content[c] = "synced" /\ creation[c] \notin {"idle", "write", "sync"}

Synced ==
    /\ \A c \in Creations : creation[c] = "link" => content[c] = "synced"
    /\ \A i \in Instances :
          /\ artifact[i] \in on_disk[i]
          /\ \A c \in on_disk[i] \ {NotInstalled} : Published(c)

Scanned ==
    /\ scan = "reading" =>
          /\ throughout \subseteq listed \cup unread
          /\ listed \cup unread \subseteq during
    /\ EnumerationSound

StoreInv ==
    /\ StoreTypeOK
    /\ Synced
    /\ Scanned

LEMMA StoreStart == StoreInit \/ StoreReady => StoreInv
<1> SUFFICES ASSUME StoreInit \/ StoreReady PROVE StoreInv
  OBVIOUS
<1>1. StoreTypeOK
  BY DEF StoreInit, StoreReady, EmptyStore, StoreTypeOK, CreationSteps,
     Contents, Entries
<1>2. Synced
  BY DEF StoreInit, StoreReady, EmptyStore, Synced
<1>3. Scanned
  BY DEF StoreInit, StoreReady, EmptyStore, Scanned, EnumerationSound
<1>4. QED BY <1>1, <1>2, <1>3 DEF StoreInv

(* A call of a creation that publishes nothing.                            *)
LEMMA PrivateStep ==
    ASSUME StoreInv, NEW c \in Creations, NEW to \in CreationSteps,
           creation' = [creation EXCEPT ![c] = to],
           content' \in [Creations -> Contents],
           \A d \in Creations : d # c => content'[d] = content[d],
           creation[c] \notin {"idle", "write", "sync"} =>
               /\ content'[c] = content[c]
               /\ to \notin {"idle", "write", "sync"},
           to = "link" => content'[c] = "synced",
           temporary' \in [Creations -> BOOLEAN],
           UNCHANGED <<created_name, entry_vars, scan_vars, seen_vars>>
    PROVE  StoreInv'
<1>1. StoreTypeOK'
  BY DEF StoreInv, StoreTypeOK, entry_vars, scan_vars, seen_vars
<1>2. UNCHANGED <<artifact, on_disk>>
  BY DEF entry_vars
<1>3. Synced'
  <2>1. \A d \in Creations : creation'[d] = IF d = c THEN to ELSE creation[d]
    BY DEF StoreInv, StoreTypeOK
  <2>2. ASSUME NEW d \in Creations, creation'[d] = "link"
        PROVE  content'[d] = "synced"
    BY <2>1, <2>2 DEF StoreInv, Synced
  <2>3. \A d \in Creations : Published(d) => Published(d)'
    BY <2>1 DEF Published
  <2>4. ASSUME NEW i \in Instances
        PROVE  on_disk[i] \ {NotInstalled} \subseteq Creations
    BY DEF StoreInv, StoreTypeOK, Entries
  <2>5. QED BY <1>2, <2>2, <2>3, <2>4 DEF StoreInv, Synced
<1>4. Scanned'
  BY DEF StoreInv, Scanned, EnumerationSound, scan_vars, seen_vars
<1>5. QED BY <1>1, <1>3, <1>4 DEF StoreInv

LEMMA CreationInv ==
    ASSUME StoreInv, NEW c \in Creations, Create(c), ~Publish(c)
    PROVE  StoreInv'
<1> USE DEF Step, CreationSteps, Contents
<1>0. /\ creation \in [Creations -> CreationSteps]
      /\ content \in [Creations -> Contents]
      /\ temporary \in [Creations -> BOOLEAN]
  BY DEF StoreInv, StoreTypeOK
<1>1. CASE MakeTemporary(c)
  BY <1>0, <1>1, PrivateStep DEF MakeTemporary
<1>2. CASE WriteContent(c)
  BY <1>0, <1>2, PrivateStep DEF WriteContent
<1>3. CASE SyncContent(c)
  BY <1>0, <1>3, PrivateStep DEF SyncContent
<1>4. CASE AlreadyInstalled(c)
  BY <1>0, <1>4, PrivateStep DEF AlreadyInstalled
<1>5. CASE CreateFails(c)
  BY <1>0, <1>5, PrivateStep DEF CreateFails
<1>6. CASE RemoveTemporary(c)
  <2>1. temporary' \in [Creations -> BOOLEAN]
    BY <1>0, <1>6 DEF RemoveTemporary
  <2>2. CASE Step(c, "unlink", "done")
    BY <1>0, <1>6, <2>1, <2>2, PrivateStep DEF RemoveTemporary
  <2>3. CASE Step(c, "cleanup", "failed")
    BY <1>0, <1>6, <2>1, <2>3, PrivateStep DEF RemoveTemporary
  <2>4. QED BY <1>6, <2>2, <2>3 DEF RemoveTemporary
<1>7. QED BY <1>1, <1>2, <1>3, <1>4, <1>5, <1>6 DEF Create

(* A name is given to a file, or to none.                                  *)
LEMMA SetEntrySynced ==
    ASSUME StoreInv, NEW i \in Instances, NEW entry \in Entries,
           SetEntry(i, entry), content' = content,
           \A d \in Creations : Published(d) => Published(d)',
           \A d \in Creations : creation'[d] = "link" => creation[d] = "link",
           entry # NotInstalled => Published(entry)'
    PROVE  /\ Synced'
           /\ artifact' \in [Instances -> Entries]
           /\ on_disk' \in [Instances -> SUBSET Entries]
<1>1. /\ artifact \in [Instances -> Entries]
      /\ on_disk \in [Instances -> SUBSET Entries]
  BY DEF StoreInv, StoreTypeOK
<1>2. /\ artifact' = [artifact EXCEPT ![i] = entry]
      /\ on_disk' = [on_disk EXCEPT ![i] = on_disk[i] \cup {entry}]
  BY DEF SetEntry
<1>3. ASSUME NEW j \in Instances
      PROVE  /\ artifact'[j] \in on_disk'[j]
             /\ \A c \in on_disk'[j] \ {NotInstalled} : Published(c)'
  <2>1. \A c \in on_disk[j] \ {NotInstalled} : c \in Creations /\ Published(c)
    BY <1>1 DEF StoreInv, Synced, Entries
  <2>2. \A c \in on_disk'[j] : c \in on_disk[j] \/ c = entry
    BY <1>1, <1>2
  <2>3. artifact'[j] \in on_disk'[j]
    BY <1>1, <1>2 DEF StoreInv, Synced
  <2>4. QED BY <2>1, <2>2, <2>3
<1>4. \A d \in Creations : creation'[d] = "link" => content'[d] = "synced"
  BY DEF StoreInv, Synced
<1>5. QED BY <1>1, <1>2, <1>3, <1>4 DEF Synced

LEMMA PublishInv ==
    ASSUME StoreInv, NEW c \in Creations, Publish(c)
    PROVE  StoreInv'
<1> DEFINE name == created_name[c]
<1>1. /\ creation[c] = "link"
      /\ creation' = [creation EXCEPT ![c] = "unlink"]
      /\ SetEntry(name, c)
      /\ UNCHANGED <<created_name, content, temporary, scan, listed, throughout>>
      /\ name \in Instances
      /\ c \in Entries
  BY DEF Publish, Step, StoreInv, StoreTypeOK, Entries
<1>2. \A d \in Creations : creation'[d] = IF d = c THEN "unlink" ELSE creation[d]
  BY <1>1 DEF StoreInv, StoreTypeOK
<1>3. content[c] = "synced"
  BY <1>1 DEF StoreInv, Synced
<1>4. Published(c)' /\ \A d \in Creations : Published(d) => Published(d)'
  BY <1>1, <1>2, <1>3 DEF Published
<1>5. /\ Synced'
      /\ artifact' \in [Instances -> Entries]
      /\ on_disk' \in [Instances -> SUBSET Entries]
  BY <1>1, <1>2, <1>4, SetEntrySynced
<1>6. StoreTypeOK'
  BY <1>1, <1>5 DEF StoreInv, StoreTypeOK, CreationSteps, Publish
<1>7. Scanned'
  BY <1>1 DEF StoreInv, Scanned, EnumerationSound, Publish
<1>8. QED BY <1>5, <1>6, <1>7 DEF StoreInv

LEMMA RemoveInv ==
    ASSUME StoreInv, NEW i \in Instances, Remove(i)
    PROVE  StoreInv'
<1>1. /\ SetEntry(i, NotInstalled)
      /\ NotInstalled \in Entries
      /\ UNCHANGED <<creation, content>>
  BY DEF Remove, Entries
<1>2. \A d \in Creations : Published(d) => Published(d)'
  BY <1>1 DEF Published
<1>3. /\ Synced'
      /\ artifact' \in [Instances -> Entries]
      /\ on_disk' \in [Instances -> SUBSET Entries]
  BY <1>1, <1>2, SetEntrySynced
<1>4. StoreTypeOK'
  BY <1>3 DEF StoreInv, StoreTypeOK, Remove
<1>5. Scanned'
  BY DEF StoreInv, Scanned, EnumerationSound, Remove
<1>6. QED BY <1>3, <1>4, <1>5 DEF StoreInv

(* Whatever the disk has of a name was published.                          *)
LEMMA PowerFailureInv == ASSUME StoreInv, PowerFailure PROVE StoreInv'
<1>1. /\ artifact' \in [Instances -> Entries]
      /\ \A i \in Instances : artifact'[i] \in on_disk[i]
      /\ on_disk' = [i \in Instances |-> {artifact'[i]}]
  BY DEF PowerFailure
<1>2. \A c \in Creations :
          /\ creation'[c] = IF creation[c] \in {"idle", "done"} THEN creation[c]
                                                                ELSE "failed"
          /\ content[c] = "synced" => content'[c] = "synced"
  BY DEF PowerFailure
<1>3. StoreTypeOK'
  <2>1. on_disk' \in [Instances -> SUBSET Entries]
    BY <1>1
  <2>2. creation' \in [Creations -> CreationSteps]
    BY DEF StoreInv, StoreTypeOK, PowerFailure, CreationSteps
  <2>3. QED BY <1>1, <2>1, <2>2 DEF StoreInv, StoreTypeOK, PowerFailure
<1>4. Synced'
  <2>1. \A c \in Creations : Published(c) => Published(c)'
    BY <1>2 DEF Published
  <2>2. ASSUME NEW i \in Instances, NEW c \in on_disk'[i] \ {NotInstalled}
        PROVE  Published(c)'
    <3>1. c \in on_disk[i] \ {NotInstalled}
      BY <1>1
    <3>2. c \in Creations
      BY <3>1 DEF StoreInv, StoreTypeOK, Entries
    <3>3. QED BY <2>1, <3>1, <3>2 DEF StoreInv, Synced
  <2>3. \A c \in Creations : creation'[c] # "link"
    BY <1>2
  <2>4. QED BY <1>1, <2>2, <2>3 DEF Synced
<1>5. Scanned'
  BY DEF Scanned, EnumerationSound, PowerFailure
<1>6. QED BY <1>3, <1>4, <1>5 DEF StoreInv

LEMMA EnumerateInv == ASSUME StoreInv, Enumerate PROVE StoreInv'
<1>1. UNCHANGED file_vars
  BY DEF Enumerate, OpenStore, ReadEntry, EntryVanished, ReadStoreFails,
     EnumerationFails, EndOfStore
<1>2. Synced'
  BY <1>1 DEF StoreInv, Synced, Published, file_vars, entry_vars
<1>3. StoreTypeOK' /\ Scanned'
  <2>1. CASE OpenStore
    BY <1>1, <2>1 DEF StoreInv, StoreTypeOK, Scanned, EnumerationSound,
       OpenStore, Installed, Entries, file_vars, entry_vars
  <2>2. ASSUME NEW i \in Instances, ReadEntry(i)
        PROVE  StoreTypeOK' /\ Scanned'
    BY <1>1, <2>2 DEF StoreInv, StoreTypeOK, Scanned, EnumerationSound,
       ReadEntry, file_vars, entry_vars, seen_vars
  <2>3. CASE EnumerationFails
    BY <1>1, <2>3 DEF StoreInv, StoreTypeOK, Scanned, EnumerationSound,
       EnumerationFails, file_vars, entry_vars
  <2>4. CASE EndOfStore
    BY <1>1, <2>4 DEF StoreInv, StoreTypeOK, Scanned, EnumerationSound,
       EndOfStore, file_vars, entry_vars, seen_vars
  <2>5. QED BY <2>1, <2>2, <2>3, <2>4 DEF Enumerate, EntryVanished, ReadStoreFails
<1>4. QED BY <1>2, <1>3 DEF StoreInv

LEMMA StoreNextInv == ASSUME StoreInv, [StoreNext]_store_vars PROVE StoreInv'
<1>1. CASE UNCHANGED store_vars
  BY <1>1 DEF StoreInv, StoreTypeOK, Synced, Published, Scanned,
     EnumerationSound, store_vars, file_vars, entry_vars, scan_vars,
     seen_vars
<1>2. QED
  BY <1>1, CreationInv, PublishInv, RemoveInv, PowerFailureInv, EnumerateInv
     DEF StoreNext, StoreChanges

(* The store's invariant, and with it its type.                            *)
THEOREM StoreCorrect == StoreSpec => []StoreInv
<1>1. StoreInit => StoreInv
  BY StoreStart
<1>2. StoreInv /\ [StoreNext]_store_vars => StoreInv'
  BY StoreNextInv
<1>3. QED BY <1>1, <1>2, PTL DEF StoreSpec

LEMMA SyncedComplete == StoreInv => PublishedComplete
  BY DEF StoreInv, Synced, Published, PublishedComplete, Installed

(* No service ever finds half of an artifact, whatever fails.              *)
THEOREM ArtifactsComplete == StoreSpec => []PublishedComplete
  BY StoreCorrect, SyncedComplete, PTL

(* A list that is returned is sound.                                       *)
THEOREM ListsSound == StoreSpec => []EnumerationSound
<1>1. StoreInv => EnumerationSound
  BY DEF StoreInv, Scanned
<1>2. QED BY <1>1, StoreCorrect, PTL

-----------------------------------------------------------------------------
(* Discovery.                                                              *)

(* What is sure of the sessions while the bus is asked.                    *)
Witnessed ==
    Discovering =>
        /\ steady \subseteq Running
        /\ Running \subseteq seen

Collected ==
    /\ discovery \in {"asking", "available"} =>
          /\ records \subseteq seen
          /\ \A r, s \in records : r.instance = s.instance => r = s
          /\ \A r \in steady : r \in records \/ r.instance \in unasked
    /\ \A r \in records : r.instance \notin unasked

RuntimeInv ==
    /\ RuntimeTypeOK
    /\ Witnessed
    /\ Collected

LEMMA RuntimeStart == RuntimeInit => RuntimeInv
  BY DEF RuntimeInit, RuntimeInv, RuntimeTypeOK, Witnessed, Collected, Discovering

LEMMA RunningRecord ==
    ASSUME RuntimeInv, NEW r \in Running
    PROVE  r \in Record /\ bus[r.instance] = r.source /\ bus[r.instance] # NotRunning
  BY DiscoveryAssumption DEF Running, Record

LEMMA SessionsInv == ASSUME RuntimeInv, SessionsChange PROVE RuntimeInv'
<1>1. UNCHANGED discovery_vars
  BY DEF SessionsChange, StartSession, EndSession
<1>2. ASSUME NEW i \in Instances, EndSession(i)
      PROVE  RuntimeInv'
  <2>1. RuntimeTypeOK'
    BY <1>1, <1>2 DEF RuntimeInv, RuntimeTypeOK, EndSession, discovery_vars
  <2>2. \A r \in Record :
            r \in Running' <=> r \in Running /\ r.instance # i
    BY <1>2, DiscoveryAssumption
       DEF RuntimeInv, RuntimeTypeOK, EndSession, Running, Record
  <2>3. Running \subseteq Record /\ Running' \subseteq Record
    BY DEF Running
  <2>4. Witnessed'
    BY <1>1, <1>2, <2>2, <2>3
       DEF RuntimeInv, Witnessed, Discovering, EndSession, discovery_vars
  <2>5. Collected'
    BY <1>1, <1>2 DEF RuntimeInv, Collected, EndSession, discovery_vars
  <2>6. QED BY <2>1, <2>4, <2>5 DEF RuntimeInv
<1>3. ASSUME NEW i \in Instances, NEW source \in Sources, StartSession(i, source)
      PROVE  RuntimeInv'
  <2> DEFINE new == [instance |-> i, source |-> source]
  <2>1. RuntimeTypeOK'
    BY <1>1, <1>3 DEF RuntimeInv, RuntimeTypeOK, StartSession, discovery_vars
  <2>2. \A r \in Record : r \in Running' => r \in Running \/ r = new
    BY <1>3 DEF RuntimeInv, RuntimeTypeOK, StartSession, Running, Record
  <2>3. \A r \in Running : r \in Running'
    BY <1>3, DiscoveryAssumption
       DEF RuntimeInv, RuntimeTypeOK, StartSession, Running, Record
  <2>4. Running \subseteq Record /\ Running' \subseteq Record
    BY DEF Running
  <2>5. /\ UNCHANGED steady
        /\ seen \subseteq seen'
        /\ Discovering => new \in seen'
    BY <1>3 DEF StartSession
  <2>6. Witnessed'
    BY <1>1, <2>2, <2>3, <2>4, <2>5
       DEF RuntimeInv, Witnessed, Discovering, discovery_vars
  <2>7. Collected'
    BY <1>1, <2>5 DEF RuntimeInv, Collected, discovery_vars
  <2>8. QED BY <2>1, <2>6, <2>7 DEF RuntimeInv
<1>4. QED BY <1>2, <1>3 DEF SessionsChange

LEMMA DiscoverInv == ASSUME RuntimeInv, Discover PROVE RuntimeInv'
<1>1. CASE OpenBus
  <2>1. RuntimeTypeOK'
    BY <1>1 DEF RuntimeInv, RuntimeTypeOK, OpenBus
  <2>2. Witnessed'
    BY <1>1 DEF Witnessed, OpenBus, Running
  <2>3. Collected'
    BY <1>1 DEF RuntimeInv, RuntimeTypeOK, Collected, OpenBus
  <2>4. QED BY <2>1, <2>2, <2>3 DEF RuntimeInv
<1>2. CASE ListNames
  <2>1. RuntimeTypeOK'
    BY <1>2 DEF RuntimeInv, RuntimeTypeOK, ListNames
  <2>2. Witnessed'
    BY <1>2 DEF RuntimeInv, Witnessed, Discovering, ListNames, Running, history_vars
  <2>3. \A r \in steady : r.instance \in unasked'
    BY <1>2, RunningRecord
       DEF RuntimeInv, Witnessed, Discovering, ListNames, Record
  <2>4. records = {}
    BY <1>2 DEF RuntimeInv, RuntimeTypeOK, ListNames
  <2>5. Collected'
    BY <1>2, <2>3, <2>4 DEF Collected, ListNames, history_vars
  <2>6. QED BY <2>1, <2>2, <2>5 DEF RuntimeInv
<1>3. CASE DiscoveryFails
  BY <1>3 DEF RuntimeInv, RuntimeTypeOK, Witnessed, Discovering, Collected,
     DiscoveryFails
<1>4. ASSUME NEW i \in Instances, AskSource(i)
      PROVE  RuntimeInv'
  <2> DEFINE new == [instance |-> i, source |-> bus[i]]
  <2>1. new \in Record /\ new \in Running
    BY <1>4 DEF RuntimeInv, RuntimeTypeOK, AskSource, Record, Running
  <2>2. RuntimeTypeOK'
    BY <1>4, <2>1 DEF RuntimeInv, RuntimeTypeOK, AskSource
  <2>3. Witnessed'
    BY <1>4 DEF RuntimeInv, Witnessed, Discovering, AskSource, Running, history_vars
  <2>4. records' \subseteq seen
    BY <1>4, <2>1 DEF RuntimeInv, Witnessed, Discovering, Collected, AskSource
  <2>5. \A r, s \in records' : r.instance = s.instance => r = s
    BY <1>4 DEF RuntimeInv, Collected, AskSource
  <2>6. ASSUME NEW r \in steady, r.instance = i
        PROVE  r = new
    <3>1. r \in Record /\ bus[i] = r.source
      BY <1>4, <2>6, RunningRecord
         DEF RuntimeInv, Witnessed, Discovering, AskSource
    <3>2. QED BY <2>6, <3>1 DEF Record
  <2>7. \A r \in steady : r \in records' \/ r.instance \in unasked'
    BY <1>4, <2>6 DEF RuntimeInv, Collected, AskSource
  <2>8. \A r \in records' : r.instance \notin unasked'
    BY <1>4 DEF RuntimeInv, Collected, AskSource
  <2>9. Collected'
    BY <1>4, <2>4, <2>5, <2>7, <2>8 DEF Collected, AskSource, history_vars
  <2>10. QED BY <2>2, <2>3, <2>9 DEF RuntimeInv
<1>5. ASSUME NEW i \in Instances, SourceUnanswered(i)
      PROVE  RuntimeInv'
  <2>1. RuntimeTypeOK'
    BY <1>5 DEF RuntimeInv, RuntimeTypeOK, SourceUnanswered
  <2>2. Witnessed'
    BY <1>5 DEF RuntimeInv, Witnessed, Discovering, SourceUnanswered, Running
  <2>3. Collected'
    BY <1>5 DEF RuntimeInv, Collected, SourceUnanswered
  <2>4. QED BY <2>1, <2>2, <2>3 DEF RuntimeInv
<1>6. CASE SnapshotBuilt
  BY <1>6 DEF RuntimeInv, RuntimeTypeOK, Witnessed, Discovering, Collected,
     SnapshotBuilt, Running, history_vars
<1>7. QED BY <1>1, <1>2, <1>3, <1>4, <1>5, <1>6 DEF Discover

LEMMA CollectedSound == RuntimeInv => SnapshotSound
<1> SUFFICES ASSUME RuntimeInv, discovery = "available" PROVE SnapshotSound
  BY DEF SnapshotSound
<1>1. unasked = {}
  BY DEF RuntimeInv, RuntimeTypeOK
<1>2. QED BY <1>1 DEF RuntimeInv, Collected, SnapshotSound

-----------------------------------------------------------------------------
(* Inspection.  The snapshot is over before the device is looked at, and   *)
(* what was printed says what the records and the list say.                *)

ReportTypeOK ==
    /\ inspection \in {"runtime", "device", "associations", "printed",
                       "failed"}
    /\ preferred \in {Link, NotRunning}
    /\ suggested \in SUBSET {"run", "install"}
    /\ reported \in SUBSET (Record \X Classifications)
    /\ inspection # "printed" => reported = {}

Printed ==
    /\ inspection # "runtime" => ~Discovering /\ discovery # "idle"
    /\ inspection = "printed" =>
          /\ reported = {<<r, Classified(r)>> : r \in Associated(preferred)}
          /\ Associated(preferred) # {} => scan \in {"complete", "failed"}

InspectionInv ==
    /\ StoreInv
    /\ RuntimeInv
    /\ ReportTypeOK
    /\ Printed

LEMMA InspectionStart ==
    ASSUME StoreInit \/ StoreReady, RuntimeInit, ReportInit
    PROVE  InspectionInv
<1>1. StoreInv /\ RuntimeInv
  BY StoreStart, RuntimeStart
<1>2. ReportTypeOK /\ Printed
  BY DEF ReportInit, ReportTypeOK, Printed
<1>3. QED BY <1>1, <1>2 DEF InspectionInv

LEMMA RuntimeUnchanged ==
    ASSUME RuntimeInv, UNCHANGED runtime_vars PROVE RuntimeInv'
  BY DEF RuntimeInv, RuntimeTypeOK, Witnessed, Discovering, Collected, Running,
     runtime_vars, discovery_vars, history_vars

LEMMA StoreUnchanged ==
    ASSUME StoreInv, UNCHANGED store_vars PROVE StoreInv'
  BY StoreNextInv

LEMMA DiscoverRuntimeInv ==
    ASSUME InspectionInv, DiscoverRuntime PROVE InspectionInv'
<1>1. StoreInv' /\ RuntimeInv'
  BY StoreUnchanged, RuntimeUnchanged, DiscoverInv
     DEF InspectionInv, DiscoverRuntime
<1>2. ReportTypeOK'
  BY DEF InspectionInv, ReportTypeOK, DiscoverRuntime
<1>3. Printed'
  BY DEF InspectionInv, ReportTypeOK, Printed, Discovering, DiscoverRuntime,
     runtime_vars, discovery_vars
<1>4. QED BY <1>1, <1>2, <1>3 DEF InspectionInv

LEMMA DeviceFailsInv ==
    ASSUME InspectionInv, DeviceFails PROVE InspectionInv'
<1>1. StoreInv' /\ RuntimeInv'
  BY StoreUnchanged, RuntimeUnchanged DEF InspectionInv, DeviceFails
<1>2. ReportTypeOK'
  BY DEF InspectionInv, ReportTypeOK, DeviceFails
<1>3. Printed'
  BY DEF InspectionInv, Printed, Discovering, DeviceFails, runtime_vars,
     discovery_vars
<1>4. QED BY <1>1, <1>2, <1>3 DEF InspectionInv

LEMMA InspectDeviceInv ==
    ASSUME InspectionInv, NEW link \in {Link, NotRunning},
           NEW accessible \in SUBSET {"run", "install"},
           InspectDevice(link, accessible)
    PROVE  InspectionInv'
<1>1. StoreInv' /\ RuntimeInv'
  BY StoreUnchanged, RuntimeUnchanged DEF InspectionInv, InspectDevice
<1>2. ReportTypeOK'
  BY DEF InspectionInv, ReportTypeOK, InspectDevice
<1>3. Associated(preferred)' = Associated(link)
  BY DEF InspectDevice, Associated, Matches, runtime_vars, discovery_vars
<1>4. reported' = {}
  BY DEF InspectionInv, ReportTypeOK, InspectDevice
<1>5. Printed'
  BY <1>3, <1>4 DEF InspectionInv, Printed, Discovering, InspectDevice,
     runtime_vars, discovery_vars
<1>6. QED BY <1>1, <1>2, <1>5 DEF InspectionInv

LEMMA PrintInv ==
    ASSUME InspectionInv, PrintAssociations PROVE InspectionInv'
<1>1. UNCHANGED <<runtime_vars, preferred, suggested>>
  BY DEF PrintAssociations
<1>2. RuntimeInv'
  BY <1>1, RuntimeUnchanged DEF InspectionInv
<1>3. Associated(preferred)' = Associated(preferred)
  BY <1>1 DEF Associated, Matches, runtime_vars, discovery_vars
<1>4. CASE scan \in {"complete", "failed"}
  <2>1. /\ UNCHANGED store_vars
        /\ inspection' = "printed"
        /\ reported' = {<<r, Classified(r)>> : r \in Associated(preferred)}
        /\ inspection = "associations"
    BY <1>4 DEF PrintAssociations
  <2>2. StoreInv'
    BY <2>1, StoreUnchanged DEF InspectionInv
  <2>3. Associated(preferred) \subseteq Record
    BY DEF InspectionInv, RuntimeInv, RuntimeTypeOK, Associated
  <2>4. \A r : Classified(r) \in Classifications
    BY DEF Classified, Classifications
  <2>5. reported' \in SUBSET (Record \X Classifications)
    BY <2>1, <2>3, <2>4
  <2>6. ReportTypeOK'
    BY <1>1, <2>1, <2>5 DEF InspectionInv, ReportTypeOK, Record
  <2>7. \A r : Classified(r)' = Classified(r)
    BY <2>1 DEF Classified, store_vars, scan_vars
  <2>8. {<<r, Classified(r)>> : r \in Associated(preferred)}'
            = {<<r, Classified(r)>> : r \in Associated(preferred)}
    BY <1>3, <2>7
  <2>9. scan' \in {"complete", "failed"}
    BY <1>4, <2>1 DEF store_vars, scan_vars
  <2>10. Printed'
    BY <1>1, <1>3, <2>1, <2>8, <2>9
       DEF InspectionInv, Printed, Discovering, runtime_vars, discovery_vars
  <2>11. QED BY <1>2, <2>2, <2>6, <2>10 DEF InspectionInv
<1>5. CASE scan \notin {"complete", "failed"}
  <2>1. Enumerate /\ UNCHANGED <<inspection, reported>>
        /\ inspection = "associations"
    BY <1>5 DEF PrintAssociations
  <2>2. StoreInv'
    BY <2>1, EnumerateInv DEF InspectionInv
  <2>3. ReportTypeOK'
    BY <1>1, <2>1 DEF InspectionInv, ReportTypeOK, Record
  <2>4. Printed'
    BY <1>1, <1>3, <2>1
       DEF InspectionInv, Printed, Discovering, runtime_vars, discovery_vars
  <2>5. QED BY <1>2, <2>2, <2>3, <2>4 DEF InspectionInv
<1>6. QED BY <1>4, <1>5

LEMMA SessionsRunInv ==
    ASSUME InspectionInv, SessionsRun PROVE InspectionInv'
<1>1. StoreInv' /\ RuntimeInv'
  BY StoreUnchanged, SessionsInv DEF InspectionInv, SessionsRun
<1>2. ReportTypeOK' /\ Printed'
  BY DEF InspectionInv, ReportTypeOK, Printed, SessionsRun, report_vars
<1>3. QED BY <1>1, <1>2 DEF InspectionInv

LEMMA CommandsRunInv ==
    ASSUME InspectionInv, CommandsRun PROVE InspectionInv'
<1>1. StoreInv' /\ RuntimeInv'
  BY PublishInv, RemoveInv, RuntimeUnchanged DEF InspectionInv, CommandsRun
<1>2. UNCHANGED <<runtime_vars, report_vars>> /\ inspection = "associations"
  BY DEF CommandsRun
<1>3. ReportTypeOK'
  BY <1>2 DEF InspectionInv, ReportTypeOK, report_vars
<1>4. Associated(preferred)' = Associated(preferred)
  BY <1>2 DEF Associated, Matches, runtime_vars, discovery_vars, report_vars
<1>5. Printed'
  BY <1>2, <1>4 DEF InspectionInv, Printed, Discovering, runtime_vars,
     discovery_vars, report_vars
<1>6. QED BY <1>1, <1>3, <1>5 DEF InspectionInv

LEMMA InspectionNextInv ==
    ASSUME InspectionInv, [InspectionNext]_inspection_vars
    PROVE  InspectionInv'
<1>1. CASE UNCHANGED inspection_vars
  <2>1. UNCHANGED <<store_vars, runtime_vars, report_vars>>
    BY <1>1 DEF inspection_vars
  <2>2. StoreInv' /\ RuntimeInv'
    BY <2>1, StoreUnchanged, RuntimeUnchanged DEF InspectionInv
  <2>3. ReportTypeOK'
    BY <2>1 DEF InspectionInv, ReportTypeOK, report_vars
  <2>4. Associated(preferred)' = Associated(preferred)
    BY <2>1 DEF Associated, Matches, runtime_vars, discovery_vars, report_vars
  <2>5. \A r : Classified(r)' = Classified(r)
    BY <2>1 DEF Classified, store_vars, scan_vars
  <2>6. {<<r, Classified(r)>> : r \in Associated(preferred)}'
            = {<<r, Classified(r)>> : r \in Associated(preferred)}
    BY <2>4, <2>5
  <2>7. Printed'
    BY <2>1, <2>4, <2>6 DEF InspectionInv, Printed, Discovering, runtime_vars,
       discovery_vars, report_vars, store_vars, scan_vars
  <2>8. QED BY <2>2, <2>3, <2>7 DEF InspectionInv
<1>2. QED
  BY <1>1, DiscoverRuntimeInv, DeviceFailsInv, InspectDeviceInv, PrintInv,
     SessionsRunInv, CommandsRunInv
     DEF InspectionNext

(* The inductive invariant of an inspection holds.                         *)
THEOREM InspectionCorrect == InspectionSpec => []InspectionInv
<1>1. InspectionInit => InspectionInv
  BY InspectionStart DEF InspectionInit
<1>2. InspectionInv /\ [InspectionNext]_inspection_vars => InspectionInv'
  BY InspectionNextInv
<1>3. QED BY <1>1, <1>2, PTL DEF InspectionSpec

-----------------------------------------------------------------------------

(* Type correctness of the three components together.                      *)
THEOREM InspectionTypeCorrect == InspectionSpec => []InspectionTypeOK
<1>1. InspectionInv => InspectionTypeOK
  BY DEF InspectionInv, StoreInv, RuntimeInv, ReportTypeOK, InspectionTypeOK
<1>2. QED BY <1>1, InspectionCorrect, PTL

(* Every snapshot of the running instances is sound.                       *)
THEOREM SnapshotsSound == InspectionSpec => []SnapshotSound
<1>1. InspectionInv => SnapshotSound
  BY CollectedSound DEF InspectionInv
<1>2. QED BY <1>1, InspectionCorrect, PTL

LEMMA PrintedSound == InspectionInv => AssociationsSound
<1>1. ASSUME InspectionInv, inspection = "printed", discovery = "available"
      PROVE  AssociationsSound
  <2>1. /\ reported = {<<r, Classified(r)>> : r \in Associated(preferred)}
        /\ Associated(preferred) # {} => scan \in {"complete", "failed"}
    BY <1>1 DEF InspectionInv, Printed
  <2>2. /\ steady \subseteq records
        /\ records \subseteq seen
        /\ \A r, s \in records : r.instance = s.instance => r = s
    BY <1>1, CollectedSound DEF InspectionInv, SnapshotSound
  <2>3. scan = "complete" => throughout \subseteq listed /\ listed \subseteq during
    BY <1>1 DEF InspectionInv, StoreInv, Scanned, EnumerationSound
  <2>4. Associated(preferred) =
            {r \in records : r.source \in {EventNode, preferred}}
    BY DEF Associated, Matches
  <2>5. ASSUME NEW pair \in reported
        PROVE  /\ pair[1] \in Associated(preferred)
               /\ pair[2] = Classified(pair[1])
               /\ pair = <<pair[1], Classified(pair[1])>>
    BY <2>1
  <2>6. ASSUME NEW pair \in reported
        PROVE  /\ pair[1] \in seen
               /\ pair[1].source \in {EventNode, preferred}
               /\ pair[2] = "Installed" => pair[1].instance \in during
               /\ pair[2] = "Direct-run" => pair[1].instance \notin throughout
    <3>1. pair[1] \in records /\ pair[1].source \in {EventNode, preferred}
      BY <2>4, <2>5
    <3>2. scan \in {"complete", "failed"}
      BY <2>1, <2>5
    <3>3. QED BY <2>2, <2>3, <2>5, <3>1, <3>2 DEF Classified
  <2>7. ASSUME NEW pair \in reported, NEW other \in reported,
               other[1].instance = pair[1].instance
        PROVE  other = pair
    <3>1. pair[1] \in records /\ other[1] \in records
      BY <2>4, <2>5
    <3>2. pair[1] = other[1]
      BY <2>2, <2>7, <3>1
    <3>3. QED BY <2>5, <3>2
  <2>8. ASSUME NEW r \in steady, r.source \in {EventNode, preferred}
        PROVE  \E pair \in reported : pair[1] = r
    <3>1. r \in Associated(preferred)
      BY <2>2, <2>4, <2>8
    <3>2. <<r, Classified(r)>> \in reported
      BY <2>1, <3>1
    <3>3. QED BY <3>2
  <2>9. QED BY <2>6, <2>7, <2>8 DEF AssociationsSound
<1>2. QED
  BY <1>1 DEF AssociationsSound

(* What is reported of a device is true of some time.                      *)
THEOREM ReportsSound == InspectionSpec => []AssociationsSound
  BY PrintedSound, InspectionCorrect, PTL

-----------------------------------------------------------------------------
(* The arithmetic of the timers.  The scale factors are constants, so that *)
(* their products are not linear: what is needed of a product is stated    *)
(* once, of any factors.                                                   *)

LEMMA Division ==
    ASSUME NEW a \in Nat, NEW b \in Nat \ {0}
    PROVE  /\ a \div b \in Nat
           /\ a % b \in 0 .. b - 1
           /\ a = (a \div b) * b + (a % b)
           /\ a < b => a % b = a
<1>1. /\ a \div b \in Nat /\ a % b \in 0 .. b - 1
      /\ a = b * (a \div b) + (a % b)
  OBVIOUS
<1>2. (a \div b) * b = b * (a \div b)
  BY <1>1
<1>3. a < b => a % b = a
  OBVIOUS
<1> QED
  BY <1>1, <1>2, <1>3

LEMMA Products ==
    ASSUME NEW a \in Int, NEW b \in Int, NEW c \in Nat \ {0}
    PROVE  /\ a * c \in Int
           /\ (a + b) * c = a * c + b * c
           /\ (a - b) * c = a * c - b * c
           /\ a < b => a * c + c <= b * c
           /\ a \in Nat => a * c \in Nat /\ a <= a * c
  OBVIOUS

LEMMA SecondLength == NsPerSec \in Nat \ {0}
  BY DeadlinesAssumption DEF NsPerSec

LEMMA SecondScale ==
    ASSUME NEW n \in Int
    PROVE  n * NsPerSec = (n * UsPerSec) * NsPerUs
  BY DeadlinesAssumption DEF NsPerSec

LEMMA NanosecondsNat ==
    ASSUME NEW time \in Timespec
    PROVE  /\ time.sec \in Nat
           /\ time.nsec \in 0 .. NsPerSec - 1
           /\ time.sec * NsPerSec \in Nat
           /\ Nanoseconds(time) \in Nat
           /\ Nanoseconds(time) = time.sec * NsPerSec + time.nsec
<1>1. time.sec \in Nat /\ time.nsec \in 0 .. NsPerSec - 1
  BY DEF Timespec
<1>2. time.sec * NsPerSec \in Nat
  BY <1>1, SecondLength, Products
<1> QED
  BY <1>1, <1>2, SecondLength DEF Nanoseconds

(* A number of whole seconds and a part of one is smaller when the number  *)
(* of seconds is.                                                          *)
LEMMA SecondsFirst ==
    ASSUME NEW s \in Nat, NEW t \in Nat,
           NEW m \in 0 .. NsPerSec - 1, NEW n \in 0 .. NsPerSec - 1
    PROVE  s * NsPerSec + m >= t * NsPerSec + n <=> s > t \/ (s = t /\ m >= n)
<1>1. /\ s < t => s * NsPerSec + NsPerSec <= t * NsPerSec
      /\ t < s => t * NsPerSec + NsPerSec <= s * NsPerSec
      /\ s * NsPerSec \in Int /\ t * NsPerSec \in Int
  BY SecondLength, Products
<1> DEFINE S == s * NsPerSec
           T == t * NsPerSec
<1>2. /\ s < t => S + NsPerSec <= T
      /\ t < s => T + NsPerSec <= S
      /\ S \in Int /\ T \in Int
      /\ s = t => S = T
  BY <1>1
<1> HIDE DEF S, T
<1>3. S + m >= T + n <=> s > t \/ (s = t /\ m >= n)
  BY <1>2, SecondLength
<1> QED
  BY <1>3 DEF S, T

(* deadline_expired compares the two times, seconds first.                 *)
LEMMA ExpiredIsOrder ==
    ASSUME NEW due \in Timespec, NEW time \in Timespec
    PROVE  DeadlineExpired(due, time) <=> Nanoseconds(time) >= Nanoseconds(due)
  BY NanosecondsNat, SecondsFirst DEF DeadlineExpired

(* set_deadline adds the duration, whatever the second has left.           *)
LEMMA SetDeadlineAdds ==
    ASSUME NEW time \in Timespec, NEW duration \in Nat,
           duration * NsPerMs < Word
    PROVE  /\ SetDeadline(time, duration) \in Timespec
           /\ Nanoseconds(SetDeadline(time, duration))
                  = Nanoseconds(time) + duration * NsPerMs
<1> DEFINE ns   == duration * NsPerMs
           sec  == time.sec + (ns \div NsPerSec)
           nsec == time.nsec + (ns % NsPerSec)
<1>1. ns \in Nat
  BY Products, DeadlinesAssumption
<1>2. ns % Word = ns
  BY <1>1, Division, DeadlinesAssumption
<1> HIDE DEF ns
<1>3. /\ ns \div NsPerSec \in Nat
      /\ ns % NsPerSec \in 0 .. NsPerSec - 1
      /\ ns = (ns \div NsPerSec) * NsPerSec + (ns % NsPerSec)
  BY <1>1, Division, SecondLength
<1>4. SetDeadline(time, duration) =
          IF nsec >= NsPerSec
              THEN [sec |-> sec + 1, nsec |-> nsec - NsPerSec]
              ELSE [sec |-> sec, nsec |-> nsec]
  BY <1>2 DEF SetDeadline, ns
<1>5. time.sec \in Nat /\ time.nsec \in 0 .. NsPerSec - 1
      /\ time.sec * NsPerSec \in Nat
      /\ Nanoseconds(time) = time.sec * NsPerSec + time.nsec
  BY NanosecondsNat
<1>6. sec \in Nat /\ nsec \in 0 .. 2 * NsPerSec - 2
  BY <1>3, <1>5, SecondLength
<1>7. sec * NsPerSec = time.sec * NsPerSec + (ns \div NsPerSec) * NsPerSec
  <2> DEFINE carried == ns \div NsPerSec
             old     == time.sec
  <2>1. carried \in Int /\ old \in Int
    BY <1>3, <1>5
  <2> HIDE DEF carried, old
  <2>2. (old + carried) * NsPerSec = old * NsPerSec + carried * NsPerSec
    BY <2>1, SecondLength, Products
  <2> QED BY <2>2 DEF carried, old
<1>8. (sec + 1) * NsPerSec = sec * NsPerSec + NsPerSec
  BY <1>6, SecondLength, Products
<1>9. (ns \div NsPerSec) * NsPerSec \in Nat
  BY <1>3, SecondLength, Products
<1>10. sec * NsPerSec + nsec = Nanoseconds(time) + ns
  <2> DEFINE whole == time.sec * NsPerSec
             more  == (ns \div NsPerSec) * NsPerSec
             rest  == ns % NsPerSec
  <2>1. /\ sec * NsPerSec = whole + more
        /\ Nanoseconds(time) = whole + time.nsec
        /\ ns = more + rest
        /\ nsec = time.nsec + rest
        /\ whole \in Nat /\ more \in Nat /\ rest \in Int /\ time.nsec \in Int
    BY <1>3, <1>5, <1>7, <1>9, SecondLength
  <2> HIDE DEF whole, more, rest, nsec
  <2> QED BY <2>1
<1> HIDE DEF sec, nsec
<1>11. CASE nsec >= NsPerSec
  <2>1. SetDeadline(time, duration) = [sec |-> sec + 1, nsec |-> nsec - NsPerSec]
    BY <1>4, <1>11
  <2>2. [sec |-> sec + 1, nsec |-> nsec - NsPerSec] \in Timespec
    BY <1>6, <1>11, SecondLength DEF Timespec
  <2>3. Nanoseconds([sec |-> sec + 1, nsec |-> nsec - NsPerSec])
            = sec * NsPerSec + nsec
    <3>1. sec * NsPerSec \in Int
      BY <1>6, SecondLength, Products
    <3>2. Nanoseconds([sec |-> sec + 1, nsec |-> nsec - NsPerSec])
              = (sec + 1) * NsPerSec + (nsec - NsPerSec)
      BY DEF Nanoseconds
    <3> QED BY <1>6, <1>8, <3>1, <3>2, SecondLength
  <2> QED BY <1>10, <2>1, <2>2, <2>3 DEF ns
<1>12. CASE ~(nsec >= NsPerSec)
  <2>1. SetDeadline(time, duration) = [sec |-> sec, nsec |-> nsec]
    BY <1>4, <1>12
  <2>2. [sec |-> sec, nsec |-> nsec] \in Timespec
    BY <1>6, <1>12, SecondLength DEF Timespec
  <2>3. Nanoseconds([sec |-> sec, nsec |-> nsec]) = sec * NsPerSec + nsec
    BY DEF Nanoseconds
  <2> QED BY <1>10, <2>1, <2>2, <2>3 DEF ns
<1> QED
  BY <1>11, <1>12

(* deadline_wait_timeout_usec before the deadline: at least a microsecond, *)
(* and less than a microsecond more than what is left.                     *)
LEMMA WaitReaches ==
    ASSUME NEW due \in Timespec, NEW time \in Timespec, NEW maximum \in Nat \ {0},
           Nanoseconds(time) < Nanoseconds(due),
           Nanoseconds(due) - Nanoseconds(time) < Word
    PROVE  LET wait == WaitTimeout(due, time, maximum)
           IN  /\ wait \in 1 .. maximum
               /\ wait * NsPerUs < Nanoseconds(due) - Nanoseconds(time) + NsPerUs
<1> DEFINE left == Remaining(due, time)
           up   == left.nsec + NsPerUs - 1
           us   == left.sec * UsPerSec + up \div NsPerUs
           gap  == Nanoseconds(due) - Nanoseconds(time)
<1>1. /\ due.sec \in Nat /\ due.nsec \in 0 .. NsPerSec - 1
      /\ time.sec \in Nat /\ time.nsec \in 0 .. NsPerSec - 1
      /\ due.sec * NsPerSec \in Nat /\ time.sec * NsPerSec \in Nat
      /\ Nanoseconds(due) = due.sec * NsPerSec + due.nsec
      /\ Nanoseconds(time) = time.sec * NsPerSec + time.nsec
  BY NanosecondsNat
<1>2. ~DeadlineExpired(due, time)
  BY <1>1, ExpiredIsOrder
<1>3. left.sec \in Nat /\ left.nsec \in 0 .. NsPerSec - 1
  BY <1>1, <1>2, SecondLength DEF Remaining, DeadlineExpired
<1>4. left.sec * NsPerSec + left.nsec = gap
  <2>1. CASE due.nsec < time.nsec
    <3>1. left = [sec |-> due.sec - time.sec - 1,
                  nsec |-> due.nsec - time.nsec + NsPerSec]
      BY <1>1, <2>1, SecondLength DEF Remaining
    <3>2. (due.sec - time.sec - 1) * NsPerSec
              = due.sec * NsPerSec - time.sec * NsPerSec - NsPerSec
      <4>1. (due.sec - time.sec) * NsPerSec
                = due.sec * NsPerSec - time.sec * NsPerSec
        BY <1>1, SecondLength, Products
      <4>2. ((due.sec - time.sec) - 1) * NsPerSec
                = (due.sec - time.sec) * NsPerSec - 1 * NsPerSec
        BY <1>1, SecondLength, Products
      <4> QED BY <4>1, <4>2, SecondLength
    <3> QED BY <1>1, <3>1, <3>2, SecondLength
  <2>2. CASE ~(due.nsec < time.nsec)
    <3>1. left = [sec |-> due.sec - time.sec, nsec |-> due.nsec - time.nsec]
      BY <1>1, <2>2, SecondLength DEF Remaining
    <3>2. (due.sec - time.sec) * NsPerSec
              = due.sec * NsPerSec - time.sec * NsPerSec
      BY <1>1, SecondLength, Products
    <3> QED BY <1>1, <3>1, <3>2, SecondLength
  <2> QED BY <2>1, <2>2
<1>5. WaitTimeout(due, time, maximum) =
          IF us % Word < maximum THEN us % Word ELSE maximum
  BY <1>2 DEF WaitTimeout
<1> DEFINE s == left.sec
           n == left.nsec
<1>6. s \in Nat /\ n \in 0 .. NsPerSec - 1 /\ s * NsPerSec + n = gap
  BY <1>3, <1>4
<1>7. gap \in Nat \ {0} /\ gap < Word
  BY <1>1
<1> HIDE DEF left, gap
<1> DEFINE parts == up \div NsPerUs
           rest  == up % NsPerUs
<1>8. /\ parts \in Nat
      /\ rest \in 0 .. NsPerUs - 1
      /\ n + NsPerUs - 1 = parts * NsPerUs + rest
  <2>1. up \in Nat /\ up = n + NsPerUs - 1
    BY <1>6, DeadlinesAssumption, SecondLength
  <2> HIDE DEF up
  <2> QED BY <2>1, Division, DeadlinesAssumption
<1> HIDE DEF parts, rest
<1>9. s * UsPerSec \in Nat
  BY <1>6, Products, DeadlinesAssumption
<1>10. us * NsPerUs = s * NsPerSec + parts * NsPerUs
  <2>1. (s * UsPerSec + parts) * NsPerUs
            = (s * UsPerSec) * NsPerUs + parts * NsPerUs
    BY <1>8, <1>9, Products, DeadlinesAssumption
  <2> QED BY <1>6, <2>1, SecondScale DEF parts
<1>11. parts * NsPerUs \in Nat /\ s * NsPerSec \in Nat
  BY <1>6, <1>8, Products, SecondLength, DeadlinesAssumption
<1>12. us * NsPerUs < gap + NsPerUs /\ us * NsPerUs >= gap
  <2> DEFINE whole == s * NsPerSec
             part  == parts * NsPerUs
  <2>1. /\ us * NsPerUs = whole + part
        /\ gap = whole + n
        /\ n + NsPerUs - 1 = part + rest
        /\ rest \in 0 .. NsPerUs - 1
        /\ whole \in Nat /\ part \in Nat /\ n \in Int /\ NsPerUs \in Nat
    BY <1>6, <1>8, <1>10, <1>11, DeadlinesAssumption, SecondLength
  <2> HIDE DEF whole, part, us, n
  <2> QED BY <2>1
<1>13. us \in Nat
  BY <1>8, <1>9 DEF parts
<1> HIDE DEF us
<1>14. us # 0
  BY <1>7, <1>12, DeadlinesAssumption
<1>15. us <= gap
  <2>1. (us - 1) * NsPerUs = us * NsPerUs - NsPerUs
    BY <1>13, Products, DeadlinesAssumption
  <2>2. us - 1 \in Nat
    BY <1>13, <1>14
  <2>3. us - 1 <= (us - 1) * NsPerUs /\ us * NsPerUs \in Int
    BY <1>13, <2>2, Products, DeadlinesAssumption
  <2> QED BY <1>7, <1>12, <1>13, <2>1, <2>2, <2>3, DeadlinesAssumption
<1>16. us % Word = us
  <2>1. us < Word
    BY <1>7, <1>13, <1>15, DeadlinesAssumption
  <2> QED BY <1>13, <2>1, Division, DeadlinesAssumption
<1>17. CASE us < maximum
  <2>1. WaitTimeout(due, time, maximum) = us
    BY <1>5, <1>16, <1>17
  <2> QED BY <1>12, <1>13, <1>14, <1>17, <2>1 DEF gap
<1>18. CASE ~(us < maximum)
  <2>1. WaitTimeout(due, time, maximum) = maximum
    BY <1>5, <1>16, <1>18
  <2>2. maximum * NsPerUs <= us * NsPerUs
    <3>1. maximum < us => maximum * NsPerUs + NsPerUs <= us * NsPerUs
      BY <1>13, Products, DeadlinesAssumption
    <3>2. maximum * NsPerUs \in Int /\ us * NsPerUs \in Int
      BY <1>13, Products, DeadlinesAssumption
    <3>3. maximum < us \/ maximum = us
      BY <1>13, <1>18
    <3> QED BY <3>1, <3>2, <3>3, DeadlinesAssumption
  <2>3. maximum * NsPerUs \in Int /\ us * NsPerUs \in Int
    BY <1>13, Products, DeadlinesAssumption
  <2> QED BY <1>7, <1>12, <2>1, <2>2, <2>3, DeadlinesAssumption DEF gap
<1> QED
  BY <1>17, <1>18

-----------------------------------------------------------------------------
(* The commands.  Those that read the world leave each other's variables   *)
(* alone, so the invariants above hold in all of them.  A timer that runs  *)
(* is that of a session with a configuration; it has the deadline that     *)
(* set_deadline made of its duration, and no sleep went past it by a       *)
(* microsecond.                                                            *)

TimerTypeOK ==
    /\ timer \in DurationOptions \cup {None}
    /\ started \in Timespec
    /\ deadline \in Timespec
    /\ now \in Timespec

TimerRuns ==
    timer # None =>
        /\ command = "run"
        /\ config # <<>>
        /\ IsConfig(config)
        /\ config[timer] # 0
        /\ deadline = SetDeadline(started, config[timer])
        /\ Nanoseconds(started) <= Nanoseconds(now)
        /\ Nanoseconds(now) < Nanoseconds(deadline) + NsPerUs

CommandRuns ==
    /\ command \in CommandNames \cup {"exit"}
    /\ command # "inspect" => inspection = "runtime"
    /\ command = "run" => stage = "parse"
    /\ command = "run" /\ config # <<>> => IsConfig(config)

CommandsInv ==
    /\ PlanInv
    /\ InspectionInv
    /\ CommandRuns
    /\ TimerTypeOK
    /\ TimerRuns

LEMMA CommandsStart == CommandsInit => CommandsInv
<1> SUFFICES ASSUME CommandsInit PROVE CommandsInv
  OBVIOUS
<1>1. PlanInv
  BY PlanInitInv DEF CommandsInit
<1>2. InspectionInv
  BY InspectionStart DEF CommandsInit
<1>3. CommandRuns
  BY DEF CommandsInit, CommandRuns, ReportInit, PlanInit
<1>4. [sec |-> 0, nsec |-> 0] \in Timespec
  BY SecondLength DEF Timespec
<1>5. TimerTypeOK /\ TimerRuns
  BY <1>4 DEF CommandsInit, TimerTypeOK, TimerRuns
<1>6. QED BY <1>1, <1>2, <1>3, <1>5 DEF CommandsInv

LEMMA PlanUnchanged == ASSUME PlanInv, UNCHANGED plan_vars PROVE PlanInv'
  BY PlanNextInv

LEMMA InspectionUnchanged ==
    ASSUME InspectionInv, UNCHANGED inspection_vars PROVE InspectionInv'
  BY InspectionNextInv

(* A step that starts no timer and lets no time pass.                      *)
LEMMA TimerUnchanged ==
    ASSUME TimerTypeOK, TimerRuns, UNCHANGED timer_vars,
           timer # None => UNCHANGED <<command, config>>
    PROVE  TimerTypeOK' /\ TimerRuns'
  BY DEF TimerTypeOK, TimerRuns, timer_vars, IsConfig

LEMMA ExitInv == ASSUME CommandsInv, ExitEarly PROVE CommandsInv'
<1>1. PlanInv' /\ InspectionInv'
  BY PlanUnchanged, InspectionUnchanged DEF CommandsInv, ExitEarly
<1>2. timer = None
  BY DEF CommandsInv, TimerRuns, ExitEarly
<1>3. TimerTypeOK' /\ TimerRuns'
  BY <1>2, TimerUnchanged DEF CommandsInv, ExitEarly
<1>4. CommandRuns'
  BY DEF CommandsInv, CommandRuns, ExitEarly, inspection_vars, report_vars
<1>5. QED BY <1>1, <1>3, <1>4 DEF CommandsInv

LEMMA InstallInv == ASSUME CommandsInv, Install PROVE CommandsInv'
<1>1. PlanInv'
  BY PlanNextInv DEF CommandsInv, Install
<1>2. InspectionInv'
  BY InspectionUnchanged DEF CommandsInv, Install
<1>3. timer = None
  BY DEF CommandsInv, TimerRuns, Install
<1>4. TimerTypeOK' /\ TimerRuns'
  BY <1>3, TimerUnchanged DEF CommandsInv, Install
<1>5. CommandRuns'
  BY DEF CommandsInv, CommandRuns, Install, inspection_vars, report_vars
<1>6. QED BY <1>1, <1>2, <1>4, <1>5 DEF CommandsInv

(* The steps of inspect, list and uninstall.                               *)
LEMMA ObserveInv ==
    ASSUME CommandsInv, InspectionInv', UNCHANGED <<command, plan_vars, timer_vars>>,
           command # "inspect" => UNCHANGED report_vars
    PROVE  CommandsInv'
<1>1. PlanInv'
  BY PlanUnchanged DEF CommandsInv
<1>2. TimerTypeOK' /\ TimerRuns'
  BY TimerUnchanged DEF CommandsInv, plan_vars
<1>3. CommandRuns'
  BY DEF CommandsInv, CommandRuns, report_vars, plan_vars, IsConfig
<1>4. QED BY <1>1, <1>2, <1>3 DEF CommandsInv

LEMMA InspectInv == ASSUME CommandsInv, Inspect PROVE CommandsInv'
<1>1. InspectionInv'
  BY InspectionNextInv DEF CommandsInv, Inspect
<1>2. QED BY <1>1, ObserveInv DEF Inspect

LEMMA ReportAtRest ==
    ASSUME InspectionInv, inspection = "runtime", UNCHANGED report_vars
    PROVE  ReportTypeOK' /\ Printed'
  BY DEF InspectionInv, ReportTypeOK, Printed, report_vars

LEMMA ListInv == ASSUME CommandsInv, List PROVE CommandsInv'
<1>1. inspection = "runtime"
  BY DEF CommandsInv, CommandRuns, List
<1>2. StoreInv'
  BY StoreUnchanged DEF CommandsInv, InspectionInv, List
<1>3. RuntimeInv'
  BY DiscoverInv, SessionsInv DEF CommandsInv, InspectionInv, List
<1>4. ReportTypeOK' /\ Printed'
  BY <1>1, ReportAtRest DEF CommandsInv, List
<1>5. InspectionInv'
  BY <1>2, <1>3, <1>4 DEF InspectionInv
<1>6. QED BY <1>5, ObserveInv DEF List

LEMMA UninstallInv == ASSUME CommandsInv, Uninstall PROVE CommandsInv'
<1>1. inspection = "runtime"
  BY DEF CommandsInv, CommandRuns, Uninstall
<1>2. StoreInv'
  BY StoreNextInv DEF CommandsInv, InspectionInv, Uninstall
<1>3. RuntimeInv'
  BY RuntimeUnchanged DEF CommandsInv, InspectionInv, Uninstall
<1>4. ReportTypeOK' /\ Printed'
  BY <1>1, ReportAtRest DEF CommandsInv, Uninstall
<1>5. InspectionInv'
  BY <1>2, <1>3, <1>4 DEF InspectionInv
<1>6. QED BY <1>5, ObserveInv DEF Uninstall

(* What `run' accepts makes a configuration.                               *)
LEMMA AcceptedConfig ==
    ASSUME NEW list \in RunLists, RunAccepts(list)
    PROVE  IsConfig(Configured(list))
<1>1. \A i \in DOMAIN list :
          /\ list[i].option \in RunOptions
          /\ list[i].text \in Texts(list[i].option)
          /\ Accepts(list[i].option, list[i].text)
  <2>1. ASSUME NEW i \in DOMAIN list
        PROVE  list[i] \in RunArguments
    BY DEF RunLists
  <2>2. QED BY <2>1 DEF RunArguments, RunAccepts
<1>2. ASSUME NEW option \in RunOptions, option \in Supplied(list)
      PROVE  Value(option, TextOf(list, option)) \in Values(option)
  <2> DEFINE j == CHOOSE i \in DOMAIN list : list[i].option = option
  <2>1. j \in DOMAIN list /\ list[j].option = option
    BY <1>2 DEF Supplied
  <2>2. TextOf(list, option) = list[j].text
    BY DEF TextOf
  <2> HIDE DEF j
  <2>3. QED BY <1>1, <2>1, <2>2, AcceptedValue
<1>3. ASSUME NEW option \in RunOptions, option \notin Supplied(list)
      PROVE  Default(option) \in Values(option)
  BY <1>3, DefaultValue DEF RunAccepts
<1>4. QED BY <1>2, <1>3 DEF IsConfig, Configured

LEMMA RunInv == ASSUME CommandsInv, Run PROVE CommandsInv'
<1>1. /\ stage = "parse" /\ command = "run" /\ inspection = "runtime"
      /\ timer = None
  BY DEF CommandsInv, CommandRuns, TimerRuns, Run
<1>2. InspectionInv'
  BY InspectionUnchanged DEF CommandsInv, Run
<1>3. UNCHANGED <<stage, interactive, given, request, choices, readiness,
                  resolution, response, timer_vars, inspection_vars>>
  BY DEF Run
<1>4. PlanInv'
  <2>1. PlanTypeOK'
    BY <1>1, <1>3 DEF CommandsInv, PlanInv, PlanTypeOK, IsRequest
  <2>2. Recorded' /\ Complete' /\ Decided' /\ Carried'
    BY <1>1, <1>3 DEF CommandsInv, PlanInv, Recorded, Complete, Decided, Carried
  <2>3. QED BY <2>1, <2>2 DEF PlanInv
<1>5. TimerTypeOK' /\ TimerRuns'
  BY <1>1, <1>3, TimerUnchanged DEF CommandsInv
<1>6. CommandRuns'
  <2>1. PICK list \in RunLists :
            IF RunAccepts(list)
                THEN config' = Configured(list) /\ UNCHANGED command
                ELSE command' = "exit" /\ UNCHANGED config
    BY DEF Run
  <2>2. CASE RunAccepts(list)
    BY <1>1, <1>3, <2>1, <2>2, AcceptedConfig
       DEF CommandRuns, CommandNames, inspection_vars, report_vars
  <2>3. CASE ~RunAccepts(list)
    BY <1>1, <1>3, <2>1, <2>3 DEF CommandRuns, inspection_vars, report_vars
  <2>4. QED BY <2>2, <2>3
<1>7. QED BY <1>2, <1>4, <1>5, <1>6 DEF CommandsInv

(* Every configured duration fits the arithmetic.                          *)
LEMMA DurationFits ==
    ASSUME NEW option \in DurationOptions, IsConfig(config)
    PROVE  /\ config[option] \in Nat
           /\ config[option] * NsPerMs \in Nat
           /\ config[option] * NsPerMs < Word
<1>1. config[option] \in 0 .. MaxDuration
  BY DEF IsConfig, RunOptions, DurationOptions, ToggleOptions, Values
<1>2. config[option] <= MaxDuration /\ MaxDuration \in Nat /\ config[option] \in Nat
  BY <1>1, ConfigurationAssumption
<1> DEFINE d == config[option]
<1> HIDE DEF d
<1>3. d \in Nat /\ (d < MaxDuration \/ d = MaxDuration)
  BY <1>2 DEF d
<1>4. /\ d < MaxDuration => d * NsPerMs + NsPerMs <= MaxDuration * NsPerMs
      /\ d * NsPerMs \in Nat /\ MaxDuration * NsPerMs \in Nat
  BY <1>2, <1>3, Products, DeadlinesAssumption
<1>5. d * NsPerMs < Word
  <2> DEFINE given_ns   == d * NsPerMs
             longest_ns == MaxDuration * NsPerMs
  <2>1. /\ d < MaxDuration => given_ns + NsPerMs <= longest_ns
        /\ d = MaxDuration => given_ns = longest_ns
        /\ given_ns \in Nat /\ longest_ns \in Nat
        /\ longest_ns < Word
    BY <1>4, CommandsAssumption
  <2> HIDE DEF given_ns, longest_ns
  <2>2. given_ns < Word
    BY <1>3, <2>1, DeadlinesAssumption
  <2>3. QED BY <2>2 DEF given_ns
<1>6. QED BY <1>3, <1>4, <1>5 DEF d

LEMMA StartTimerInv ==
    ASSUME CommandsInv, NEW option \in DurationOptions, NEW time \in Starts,
           StartTimer(option, time)
    PROVE  CommandsInv'
<1>1. PlanInv' /\ InspectionInv'
  BY PlanUnchanged, InspectionUnchanged DEF CommandsInv, StartTimer
<1>2. UNCHANGED <<command, config, stage, inspection>>
  BY DEF StartTimer, plan_vars, inspection_vars, report_vars
<1>3. CommandRuns'
  BY <1>2 DEF CommandsInv, CommandRuns, IsConfig
<1>4. /\ command = "run" /\ config # <<>> /\ IsConfig(config)
      /\ config[option] # 0
      /\ time \in Timespec
  BY CommandsAssumption DEF CommandsInv, CommandRuns, StartTimer
<1>5. /\ SetDeadline(time, config[option]) \in Timespec
      /\ Nanoseconds(SetDeadline(time, config[option]))
             = Nanoseconds(time) + config[option] * NsPerMs
      /\ config[option] * NsPerMs \in Nat
  BY <1>4, SetDeadlineAdds, DurationFits
<1>6. /\ timer' = option /\ started' = time /\ now' = time
      /\ deadline' = SetDeadline(time, config[option])
  BY DEF StartTimer
<1>7. TimerTypeOK'
  BY <1>4, <1>5, <1>6 DEF TimerTypeOK
<1>8. /\ Nanoseconds(time) \in Nat
      /\ Nanoseconds(time) < Nanoseconds(SetDeadline(time, config[option])) + NsPerUs
  <2>1. Nanoseconds(time) \in Nat
    BY <1>4, NanosecondsNat
  <2>2. QED BY <1>5, <2>1, DeadlinesAssumption
<1>9. TimerRuns'
  BY <1>2, <1>4, <1>6, <1>8 DEF TimerRuns, Nanoseconds, IsConfig
<1>10. QED BY <1>1, <1>3, <1>7, <1>9 DEF CommandsInv

LEMMA LaterAdds ==
    ASSUME NEW time \in Timespec, NEW ns \in Nat
    PROVE  /\ Later(time, ns) \in Timespec
           /\ Nanoseconds(Later(time, ns)) = Nanoseconds(time) + ns
<1> DEFINE sum == Nanoseconds(time) + ns
<1>1. sum \in Nat
  BY NanosecondsNat
<1>2. Later(time, ns) = [sec |-> sum \div NsPerSec, nsec |-> sum % NsPerSec]
  BY DEF Later
<1> HIDE DEF sum
<1>3. /\ sum \div NsPerSec \in Nat
      /\ sum % NsPerSec \in 0 .. NsPerSec - 1
      /\ sum = (sum \div NsPerSec) * NsPerSec + (sum % NsPerSec)
  BY <1>1, Division, SecondLength
<1>4. Nanoseconds([sec |-> sum \div NsPerSec, nsec |-> sum % NsPerSec]) = sum
  BY <1>3 DEF Nanoseconds
<1>5. [sec |-> sum \div NsPerSec, nsec |-> sum % NsPerSec] \in Timespec
  BY <1>3 DEF Timespec
<1>6. QED BY <1>2, <1>4, <1>5 DEF sum

(* What is known of a timer that runs.                                     *)
LEMMA TimerFacts ==
    ASSUME CommandsInv, timer # None
    PROVE  /\ config[timer] * NsPerMs \in Nat
           /\ config[timer] * NsPerMs < Word
           /\ Nanoseconds(deadline) = Nanoseconds(started) + config[timer] * NsPerMs
           /\ Nanoseconds(started) \in Nat
           /\ Nanoseconds(now) \in Nat
           /\ Nanoseconds(deadline) \in Nat
<1>1. timer \in DurationOptions /\ started \in Timespec /\ now \in Timespec
      /\ deadline \in Timespec
  BY DEF CommandsInv, TimerTypeOK
<1>2. IsConfig(config) /\ deadline = SetDeadline(started, config[timer])
  BY DEF CommandsInv, TimerRuns
<1>3. /\ config[timer] \in Nat
      /\ config[timer] * NsPerMs \in Nat
      /\ config[timer] * NsPerMs < Word
  BY <1>1, <1>2, DurationFits
<1>4. Nanoseconds(deadline) = Nanoseconds(started) + config[timer] * NsPerMs
  BY <1>1, <1>2, <1>3, SetDeadlineAdds
<1>5. QED BY <1>1, <1>3, <1>4, NanosecondsNat

(* Before its deadline, the wait of a timer reaches it.                    *)
LEMMA TimerWaits ==
    ASSUME CommandsInv, timer # None, ~DeadlineExpired(deadline, now)
    PROVE  LET wait == WaitTimeout(deadline, now, MaximumWait)
           IN  /\ wait \in 1 .. MaximumWait
               /\ wait * NsPerUs \in Nat
               /\ Nanoseconds(now) + wait * NsPerUs
                      < Nanoseconds(deadline) + NsPerUs
<1> DEFINE wait == WaitTimeout(deadline, now, MaximumWait)
           a == Nanoseconds(started)
           b == Nanoseconds(now)
           c == Nanoseconds(deadline)
<1>1. deadline \in Timespec /\ now \in Timespec
  BY DEF CommandsInv, TimerTypeOK
<1>2. /\ a \in Nat /\ b \in Nat /\ c \in Nat
      /\ a <= b
      /\ c - a < Word
      /\ b < c
  <2>1. b < c
    BY <1>1, TimerFacts, ExpiredIsOrder
  <2>2. a <= b
    BY DEF CommandsInv, TimerRuns
  <2>3. c - a < Word
    <3> DEFINE d == config[timer] * NsPerMs
    <3>1. c = a + d /\ d < Word /\ a \in Nat /\ d \in Nat
      BY TimerFacts
    <3> HIDE DEF a, c, d
    <3>2. QED BY <3>1
  <2>4. QED BY <2>1, <2>2, <2>3, TimerFacts
<1>3. c - b < Word
  <2> HIDE DEF a, b, c
  <2>1. QED BY <1>2, DeadlinesAssumption
<1>4. wait \in 1 .. MaximumWait /\ wait * NsPerUs < c - b + NsPerUs
  BY <1>1, <1>2, <1>3, WaitReaches, CommandsAssumption
<1>5. wait * NsPerUs \in Nat
  <2> HIDE DEF wait
  <2>1. QED BY <1>4, Products, DeadlinesAssumption, CommandsAssumption
<1>6. b + wait * NsPerUs < c + NsPerUs
  <2> DEFINE slept == wait * NsPerUs
  <2>1. slept \in Nat /\ slept < c - b + NsPerUs
    BY <1>4, <1>5
  <2> HIDE DEF slept, b, c
  <2>2. b + slept < c + NsPerUs
    BY <1>2, <2>1, DeadlinesAssumption
  <2>3. QED BY <2>2 DEF slept
<1>7. QED BY <1>4, <1>5, <1>6

LEMMA SleepInv == ASSUME CommandsInv, Sleep PROVE CommandsInv'
<1>1. PlanInv' /\ InspectionInv'
  BY PlanUnchanged, InspectionUnchanged DEF CommandsInv, Sleep
<1>2. UNCHANGED <<command, config, stage, inspection, timer, started, deadline>>
  BY DEF Sleep, plan_vars, inspection_vars, report_vars
<1>3. CommandRuns'
  BY <1>2 DEF CommandsInv, CommandRuns, IsConfig
<1> DEFINE slept == WaitTimeout(deadline, now, MaximumWait) * NsPerUs
<1>4. PICK ns \in 1 .. slept : now' = Later(now, ns)
  BY DEF Sleep
<1>5. slept \in Nat
      /\ Nanoseconds(now) + slept < Nanoseconds(deadline) + NsPerUs
  BY TimerWaits DEF Sleep
<1> HIDE DEF slept
<1>6. ns \in Nat /\ ns <= slept
  BY <1>4, <1>5
<1>7. /\ now \in Timespec /\ timer # None
      /\ Nanoseconds(now) \in Nat /\ Nanoseconds(started) \in Nat
      /\ Nanoseconds(deadline) \in Nat
      /\ Nanoseconds(started) <= Nanoseconds(now)
  BY TimerFacts DEF CommandsInv, TimerTypeOK, TimerRuns, Sleep
<1>8. now' \in Timespec /\ Nanoseconds(now') = Nanoseconds(now) + ns
  BY <1>4, <1>6, <1>7, LaterAdds
<1>9. /\ Nanoseconds(started) <= Nanoseconds(now')
      /\ Nanoseconds(now') < Nanoseconds(deadline) + NsPerUs
  BY <1>5, <1>6, <1>7, <1>8, DeadlinesAssumption
<1>10. TimerTypeOK'
  BY <1>2, <1>8 DEF CommandsInv, TimerTypeOK
<1>11. TimerRuns'
  <2>1. Nanoseconds(now)' = Nanoseconds(now')
    BY DEF Nanoseconds
  <2>2. QED BY <1>2, <1>9, <2>1 DEF CommandsInv, TimerRuns, IsConfig
<1>12. QED BY <1>1, <1>3, <1>10, <1>11 DEF CommandsInv

LEMMA CommandsNextInv ==
    ASSUME CommandsInv, [CommandsNext]_vars PROVE CommandsInv'
<1>1. CASE UNCHANGED vars
  <2>1. UNCHANGED <<command, plan_vars, inspection_vars, timer_vars>>
    BY <1>1 DEF vars, timer_vars
  <2>2. InspectionInv'
    BY <2>1, InspectionUnchanged DEF CommandsInv
  <2>3. QED BY <2>1, <2>2, ObserveInv DEF inspection_vars
<1>2. QED
  BY <1>1, ExitInv, InstallInv, InspectInv, ListInv, UninstallInv, RunInv,
     StartTimerInv, SleepInv
     DEF CommandsNext

(* The inductive invariant of the commands holds.                          *)
THEOREM CommandsCorrect == CommandsSpec => []CommandsInv
<1>1. CommandsInit => CommandsInv
  BY CommandsStart
<1>2. CommandsInv /\ [CommandsNext]_vars => CommandsInv'
  BY CommandsNextInv
<1>3. QED BY <1>1, <1>2, PTL DEF CommandsSpec

(* Type correctness of every command and of all that it reads.             *)
THEOREM CommandsTypeCorrect == CommandsSpec => []CommandsTypeOK
<1>1. CommandsInv => CommandsTypeOK
  BY DEF CommandsInv, PlanInv, InspectionInv, StoreInv, RuntimeInv, ReportTypeOK,
     CommandRuns, TimerTypeOK, CommandsTypeOK, InspectionTypeOK
<1>2. QED BY <1>1, CommandsCorrect, PTL

(* What each command reads, decides and writes is sound in the program as  *)
(* it is in the components: lists, snapshots and reports of the instances, *)
(* the artifacts, the choices of install and the configuration of the      *)
(* service it installs.                                                    *)
THEOREM CommandsSound ==
    CommandsSpec =>
        [](/\ ServiceRunsPlan /\ ChoicesHonoured
           /\ PublishedComplete /\ EnumerationSound
           /\ SnapshotSound /\ AssociationsSound)
<1>1. PlanInv => ServiceRunsPlan /\ ChoicesHonoured
  BY DecidedHonours, CarriedRuns
<1>2. StoreInv => PublishedComplete /\ EnumerationSound
  BY SyncedComplete DEF StoreInv, Scanned
<1>3. InspectionInv => SnapshotSound /\ AssociationsSound
  BY CollectedSound, PrintedSound DEF InspectionInv
<1>4. CommandsInv =>
          /\ ServiceRunsPlan /\ ChoicesHonoured
          /\ PublishedComplete /\ EnumerationSound
          /\ SnapshotSound /\ AssociationsSound
  BY <1>1, <1>2, <1>3 DEF CommandsInv, InspectionInv
<1>5. QED BY <1>4, CommandsCorrect, PTL

(* A timer expires when its duration has passed, no earlier and no later,  *)
(* for every duration `run' accepts, whatever the start of the timer, the  *)
(* width of the arithmetic and the sleeps of the session: no product or    *)
(* sum of set_deadline and deadline_wait_timeout_usec wraps.               *)
THEOREM TimersExact == CommandsSpec => []DeadlinesExact
<1>1. ASSUME CommandsInv, timer # None
      PROVE  LET elapsed  == Nanoseconds(now) - Nanoseconds(started)
                 duration == config[timer] * NsPerMs
                 wait     == WaitTimeout(deadline, now, MaximumWait)
             IN  /\ DeadlineExpired(deadline, now) <=> elapsed >= duration
                 /\ elapsed < duration + NsPerUs
                 /\ wait = 0 <=> elapsed >= duration
  <2> DEFINE a == Nanoseconds(started)
             b == Nanoseconds(now)
             c == Nanoseconds(deadline)
             d == config[timer] * NsPerMs
  <2>1. /\ c = a + d
        /\ a \in Nat /\ b \in Nat /\ c \in Nat /\ d \in Nat
    BY <1>1, TimerFacts
  <2>2. DeadlineExpired(deadline, now) <=> b >= c
    BY <1>1, ExpiredIsOrder DEF CommandsInv, TimerTypeOK
  <2>3. b < c + NsPerUs
    BY <1>1 DEF CommandsInv, TimerRuns
  <2>4. WaitTimeout(deadline, now, MaximumWait) = 0
            <=> DeadlineExpired(deadline, now)
    <3>1. DeadlineExpired(deadline, now)
              => WaitTimeout(deadline, now, MaximumWait) = 0
      BY DEF WaitTimeout
    <3>2. ~DeadlineExpired(deadline, now)
              => WaitTimeout(deadline, now, MaximumWait) # 0
      BY <1>1, TimerWaits, CommandsAssumption
    <3>3. QED BY <3>1, <3>2
  <2> HIDE DEF a, b, c, d
  <2>5. /\ b >= c <=> b - a >= d
        /\ b - a < d + NsPerUs
    BY <2>1, <2>3, DeadlinesAssumption
  <2>6. QED BY <2>2, <2>4, <2>5 DEF a, b, d
<1>2. CommandsInv => DeadlinesExact
  BY <1>1 DEF DeadlinesExact
<1>3. QED BY <1>2, CommandsCorrect, PTL

-----------------------------------------------------------------------------
(* What a command is.  Of the variables of a component, a command that     *)
(* uses it makes only the component's steps, so that what is proved of the *)
(* component alone holds of the program.                                   *)

(* install is a behaviour of InstallPlan.                                  *)
THEOREM InstallIsPlan == CommandsSpec /\ command = "install" => PlanSpec
<1> DEFINE Runs == command \in {"install", "exit"}
<1>1. CommandsInit /\ command = "install" => PlanInit /\ Runs
  BY DEF CommandsInit
<1>2. Runs /\ [CommandsNext]_vars => Runs' /\ [PlanNext]_plan_vars
  BY DEF CommandsNext, ExitEarly, Install, Inspect, List, Uninstall, Run,
     StartTimer, Sleep, vars
<1>3. QED BY <1>1, <1>2, PTL DEF CommandsSpec, PlanSpec

(* inspect is a behaviour of Inspection.                                   *)
THEOREM InspectIsInspection ==
    CommandsSpec /\ command = "inspect" => InspectionSpec
<1> DEFINE Runs == command \in {"inspect", "exit"}
<1>1. CommandsInit /\ command = "inspect" => InspectionInit /\ Runs
  BY DEF CommandsInit, InspectionInit
<1>2. Runs /\ [CommandsNext]_vars => Runs' /\ [InspectionNext]_inspection_vars
  BY DEF CommandsNext, ExitEarly, Install, Inspect, List, Uninstall, Run,
     StartTimer, Sleep, vars
<1>3. QED BY <1>1, <1>2, PTL DEF CommandsSpec, InspectionSpec

(* uninstall reads the store as InstanceStore has it.                      *)
THEOREM UninstallReadsStore ==
    CommandsSpec /\ command = "uninstall" => StoreSpec
<1> DEFINE Runs == command \in {"uninstall", "exit"}
<1>1. CommandsInit /\ command = "uninstall" => StoreInit /\ Runs
  BY DEF CommandsInit
<1>2. Runs /\ [CommandsNext]_vars => Runs' /\ [StoreNext]_store_vars
  BY DEF CommandsNext, ExitEarly, Install, Inspect, List, Uninstall, Run,
     StartTimer, Sleep, vars, inspection_vars
<1>3. QED BY <1>1, <1>2, PTL DEF CommandsSpec, StoreSpec

=============================================================================
