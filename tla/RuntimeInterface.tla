--------------------------- MODULE RuntimeInterface ---------------------------
(***************************************************************************)
(* What the clients of a session see on the bus: the owner of the service  *)
(* name comes and goes, and one notification at a time changes the runtime *)
(* properties, without dispatches, failed notifications, retries or timers. *)
(*                                                                         *)
(* A service that appears has no activity to report.  A notification tells *)
(* of one change: the mode, together with the end of the activity of the   *)
(* mode that is left; the source; or the beginning or the end of activity, *)
(* which begins only in its own mode and with a source.                    *)
(***************************************************************************)
CONSTANT Unowned    \* no service, and so no properties

VARIABLE view       \* the properties that are true for the clients

Indication(mode) ==
    IF mode = "paused" THEN "activity_while_paused" ELSE "activity_while_running"

Mode == IF "paused" \in view THEN "paused" ELSE "running"

Owned == view # Unowned

(* A session starts without a source.                                      *)
InterfaceInit == view \in {Unowned, {}, {"paused"}}

-----------------------------------------------------------------------------

Appear ==
    /\ ~Owned
    /\ view' \in SUBSET {"paused", "source_available"}

Vanish ==
    /\ Owned
    /\ view' = Unowned

Pause ==
    /\ Owned
    /\ Mode = "running"
    /\ view' = (view \ {Indication("running")}) \cup {"paused"}

Resume ==
    /\ Owned
    /\ Mode = "paused"
    /\ view' = view \ {"paused", Indication("paused")}

SourceAppears ==
    /\ Owned
    /\ view' = view \cup {"source_available"}

(* An indication that is up outlasts the source.                           *)
SourceDisappears ==
    /\ Owned
    /\ view' = view \ {"source_available"}

ActivityBegins ==
    /\ Owned
    /\ "source_available" \in view
    /\ view' = view \cup {Indication(Mode)}

ActivityEnds ==
    /\ Owned
    /\ view' = view \ {Indication(Mode)}

InterfaceNext ==
    \/ Appear \/ Vanish
    \/ Pause \/ Resume
    \/ SourceAppears \/ SourceDisappears
    \/ ActivityBegins \/ ActivityEnds

InterfaceSpec == InterfaceInit /\ [][InterfaceNext]_view

=============================================================================
