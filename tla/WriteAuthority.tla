--------------------------- MODULE WriteAuthority ---------------------------
(***************************************************************************)
(* What ADR-030 promises of application write authority, with nothing of   *)
(* how the traffic machine delivers it.  One holder at a time; authority   *)
(* never passes from one side to the other without a period in which       *)
(* nobody holds it; a side is granted authority only when the other side   *)
(* is quiet, that is fenced and drained since it last held it; and every   *)
(* change of holder opens a new epoch.                                     *)
(***************************************************************************)
EXTENDS Naturals

VARIABLES
  holder,   \* the side whose application writes are enabled, or "none"
  epoch,    \* the application-authority epoch
  quiet     \* the sides fenced and drained since they last held authority

avars == <<holder, epoch, quiet>>

Sides == {"source", "target"}

Other(s) == IF s = "source" THEN "target" ELSE "source"

Init ==
  /\ holder = "source"
  /\ epoch = 1
  /\ quiet = {"target"}

\* The holder is fenced: nobody may write.
Revoke ==
  /\ holder \in Sides
  /\ holder' = "none"
  /\ epoch' = epoch + 1
  /\ UNCHANGED quiet

\* While nobody holds authority, a side is proved drained.
Quiesce(s) ==
  /\ holder = "none"
  /\ quiet' = quiet \cup {s}
  /\ UNCHANGED <<holder, epoch>>

\* A side is granted authority over a quiet opposite side.
Grant(s) ==
  /\ holder = "none"
  /\ Other(s) \in quiet
  /\ holder' = s
  /\ epoch' = epoch + 1
  /\ quiet' = quiet \ {s}

Next ==
  \/ Revoke
  \/ \E s \in Sides : Quiesce(s) \/ Grant(s)

Spec == Init /\ [][Next]_avars
=============================================================================
