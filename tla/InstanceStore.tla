---------------------------- MODULE InstanceStore ----------------------------
(***************************************************************************)
(* The Installed-instance store (installed_instance.c): a directory with   *)
(* one response artifact for each Installed Instance.  Creation goes       *)
(* through a temporary file and link(2); enumeration reads the directory   *)
(* while other commands create and remove artifacts and the host may lose  *)
(* its power.                                                              *)
(*                                                                         *)
(* Host has one instance of this store as the deployment commands see it.  *)
(***************************************************************************)
EXTENDS InstanceNames

CONSTANTS
    Creations,    \* calls of input_proxy_installed_instance_create
    NotInstalled

ASSUME StoreAssumption == NotInstalled \notin Creations

VARIABLES
    creation,     \* the next call of each creation
    created_name, \* the Instance Name of each creation
    content,      \* what is in the file of each creation
    temporary,    \* its temporary name is in the directory
    artifact,     \* the file under the final name of each instance
    on_disk,      \* what the disk may have in its place, see PowerFailure
    scan,         \* the enumeration: the next call, or how it ended
    unread,       \* the entries readdir has still to return
    listed,       \* the names in the list
    throughout,   \* the instances installed ever since it began
    during        \* the instances installed at some time since it began

entry_vars == <<artifact, on_disk>>
file_vars == <<creation, created_name, content, temporary, entry_vars>>
scan_vars == <<scan, unread, listed>>
seen_vars == <<throughout, during>>

store_vars == <<file_vars, scan_vars, seen_vars>>

-----------------------------------------------------------------------------

CreationSteps == {"idle", "write", "sync", "link", "unlink", "cleanup",
                  "done", "failed"}

(* "partial" is less than was written.                                     *)
Contents == {"none", "empty", "written", "synced", "partial"}

Installed == {i \in Instances : artifact[i] # NotInstalled}

(* What a name may stand for.                                              *)
Entries == Creations \cup {NotInstalled}

(* A scan that does not run has no memory.                                 *)
StoreTypeOK ==
    /\ creation \in [Creations -> CreationSteps]
    /\ created_name \in [Creations -> Instances]
    /\ content \in [Creations -> Contents]
    /\ temporary \in [Creations -> BOOLEAN]
    /\ artifact \in [Instances -> Entries]
    /\ on_disk \in [Instances -> SUBSET Entries]
    /\ scan \in {"idle", "reading", "complete", "failed"}
    /\ unread \in SUBSET Instances
    /\ listed \in SUBSET Instances
    /\ scan # "reading" => unread = {}
    /\ scan \in {"idle", "failed"} => listed = {}

EmptyStore ==
    /\ created_name \in [Creations -> Instances]
    /\ artifact = [i \in Instances |-> NotInstalled]
    /\ on_disk = [i \in Instances |-> {NotInstalled}]
    /\ scan = "idle"
    /\ unread = {}
    /\ listed = {}
    /\ throughout = {}
    /\ during = {}

StoreInit ==
    /\ EmptyStore
    /\ creation = [c \in Creations |-> "idle"]
    /\ content = [c \in Creations |-> "none"]
    /\ temporary = [c \in Creations |-> FALSE]

(* Every creation is at its link(2).                                       *)
StoreReady ==
    /\ EmptyStore
    /\ creation = [c \in Creations |-> "link"]
    /\ content = [c \in Creations |-> "synced"]
    /\ temporary = [c \in Creations |-> TRUE]

-----------------------------------------------------------------------------
(* input_proxy_installed_instance_create.                                  *)

Step(c, from, to) ==
    /\ creation[c] = from
    /\ creation' = [creation EXCEPT ![c] = to]
    /\ UNCHANGED created_name

(* mkstemp: the name has no suffix by which an enumeration would take it.  *)
MakeTemporary(c) ==
    /\ Step(c, "idle", "write")
    /\ content' = [content EXCEPT ![c] = "empty"]
    /\ temporary' = [temporary EXCEPT ![c] = TRUE]
    /\ UNCHANGED <<entry_vars, scan_vars, seen_vars>>

(* write_all; a part may have been written when it fails.                  *)
WriteContent(c) ==
    /\ Step(c, "write", "sync")
    /\ content' = [content EXCEPT ![c] = "written"]
    /\ UNCHANGED <<temporary, entry_vars, scan_vars, seen_vars>>

(* Faulty: the content is left to be written back at some time.            *)
SyncLater(c) ==
    /\ Step(c, "sync", "link")
    /\ UNCHANGED <<content, temporary, entry_vars, scan_vars, seen_vars>>

(* fsync and close.                                                        *)
SyncContent(c) ==
    /\ Step(c, "sync", "link")
    /\ content' = [content EXCEPT ![c] = "synced"]
    /\ UNCHANGED <<temporary, entry_vars, scan_vars, seen_vars>>

(* The directory is never synced: what it had may be on the disk for long. *)
SetEntry(i, entry) ==
    /\ artifact' = [artifact EXCEPT ![i] = entry]
    /\ on_disk' = [on_disk EXCEPT ![i] = @ \cup {entry}]

(* link(2); an entry that appears while the directory is read may be       *)
(* returned or not.                                                        *)
Publish(c) ==
    /\ Step(c, "link", "unlink")
    /\ artifact[created_name[c]] = NotInstalled
    /\ SetEntry(created_name[c], c)
    /\ unread' \in IF scan = "reading"
                       THEN {unread, unread \cup {created_name[c]}}
                       ELSE {unread}
    /\ during' = IF scan = "reading" THEN during \cup {created_name[c]}
                                     ELSE during
    /\ UNCHANGED <<content, temporary, scan, listed, throughout>>

AlreadyInstalled(c) ==
    /\ Step(c, "link", "cleanup")
    /\ artifact[created_name[c]] # NotInstalled
    /\ UNCHANGED <<content, temporary, entry_vars, scan_vars, seen_vars>>

(* Every call may fail; what follows is the cleanup.                       *)
CreateFails(c) ==
    /\ \/ Step(c, "idle", "failed")
       \/ Step(c, "write", "cleanup")
       \/ Step(c, "sync", "cleanup")
       \/ Step(c, "link", "cleanup")
    /\ content' \in
           IF creation[c] = "write"
               THEN {content, [content EXCEPT ![c] = "partial"]}
               ELSE {content}
    /\ UNCHANGED <<temporary, entry_vars, scan_vars, seen_vars>>

(* unlink of the temporary name, tried once more in the cleanup when it    *)
(* fails, and left in the directory when that fails too.                   *)
RemoveTemporary(c) ==
    /\ Step(c, "unlink", "done") \/ Step(c, "cleanup", "failed")
    /\ temporary' \in {temporary, [temporary EXCEPT ![c] = FALSE]}
    /\ UNCHANGED <<content, entry_vars, scan_vars, seen_vars>>

(* input_proxy_installed_instance_remove: unlink(2); an entry that goes    *)
(* while the directory is read may be returned all the same.               *)
Remove(i) ==
    /\ artifact[i] # NotInstalled
    /\ SetEntry(i, NotInstalled)
    /\ unread' \in {unread, unread \ {i}}
    /\ throughout' = throughout \ {i}
    /\ UNCHANGED <<creation, created_name, content, temporary, scan, listed,
                   during>>

(* The host loses its power, and with it what was not synced: of a file    *)
(* that was only written, and of the directory.  An entry may be any it    *)
(* was since the last failure: a new one may be lost, a removed one may    *)
(* come back, and so may a temporary name.  No process lives on.           *)
PowerFailure ==
    /\ creation' = [c \in Creations |->
                       IF creation[c] \in {"idle", "done"} THEN creation[c]
                                                           ELSE "failed"]
    /\ content' \in {f \in [Creations -> Contents] :
                        \A c \in Creations :
                            \/ f[c] = content[c]
                            \/ content[c] = "written" /\ f[c] = "partial"}
    /\ temporary' \in {f \in [Creations -> BOOLEAN] :
                          \A c \in Creations : f[c] => content[c] # "none"}
    /\ artifact' \in {f \in [Instances -> Entries] :
                         \A i \in Instances : f[i] \in on_disk[i]}
    /\ on_disk' = [i \in Instances |-> {artifact'[i]}]
    /\ scan' = "idle"
    /\ unread' = {}
    /\ listed' = {}
    /\ throughout' = {}
    /\ during' = {}
    /\ UNCHANGED created_name

-----------------------------------------------------------------------------
(* input_proxy_installed_instance_enumerate.                               *)

(* opendir; readdir works on what it got of the directory.                 *)
OpenStore ==
    /\ scan = "idle"
    /\ scan' = "reading"
    /\ unread' = Installed
    /\ throughout' = Installed
    /\ during' = Installed
    /\ UNCHANGED <<file_vars, listed>>

(* readdir and fstatat.                                                    *)
ReadEntry(i) ==
    /\ scan = "reading"
    /\ i \in unread
    /\ artifact[i] # NotInstalled
    /\ unread' = unread \ {i}
    /\ listed' = listed \cup {i}
    /\ UNCHANGED <<file_vars, scan, seen_vars>>

EnumerationFails ==
    /\ scan' = "failed"
    /\ unread' = {}
    /\ listed' = {}
    /\ UNCHANGED <<file_vars, seen_vars>>

(* The entry that readdir returned has been removed since.                 *)
EntryVanished(i) ==
    /\ scan = "reading"
    /\ i \in unread
    /\ artifact[i] = NotInstalled
    /\ EnumerationFails

(* Faulty: an error of readdir is taken for the end.                       *)
EndOnError ==
    /\ scan = "reading"
    /\ scan' = "complete"
    /\ unread' = {}
    /\ UNCHANGED <<file_vars, listed, seen_vars>>

(* opendir, readdir or closedir fails.                                     *)
ReadStoreFails == scan \in {"idle", "reading"} /\ EnumerationFails

EndOfStore ==
    /\ scan = "reading"
    /\ unread = {}
    /\ scan' = "complete"
    /\ UNCHANGED <<file_vars, unread, listed, seen_vars>>

-----------------------------------------------------------------------------

Create(c) ==
    \/ MakeTemporary(c) \/ WriteContent(c) \/ SyncContent(c)
    \/ Publish(c) \/ AlreadyInstalled(c) \/ CreateFails(c)
    \/ RemoveTemporary(c)

StoreChanges ==
    \/ \E c \in Creations : Create(c)
    \/ \E i \in Instances : Remove(i)

Enumerate ==
    \/ OpenStore
    \/ \E i \in Instances : ReadEntry(i) \/ EntryVanished(i)
    \/ ReadStoreFails
    \/ EndOfStore

StoreNext == StoreChanges \/ Enumerate \/ PowerFailure

StoreSpec == StoreInit /\ [][StoreNext]_store_vars

-----------------------------------------------------------------------------
(* Properties.                                                             *)

(* A published artifact has its whole content, whatever fails and even if  *)
(* the power does: a service never reads half of a configuration.          *)
PublishedComplete ==
    \A i \in Installed :
        content[artifact[i]] \notin {"none", "empty", "partial"}

(* A list that is returned has every instance that was installed all the   *)
(* time and none that never was, although artifacts come and go while the  *)
(* directory is read.                                                      *)
EnumerationSound ==
    scan = "complete" => throughout \subseteq listed /\ listed \subseteq during

=============================================================================
