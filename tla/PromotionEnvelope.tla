-------------------------- MODULE PromotionEnvelope --------------------------
(***************************************************************************)
(* The promotion envelope, a one-use authorization to activate, roll back  *)
(* or stop a release, while several people fill it: the preparer puts the  *)
(* fields of a mode, reads the pointer twice (what the promotion expects   *)
(* and what was current), and owners approve, as the pointer moves.  Its   *)
(* schema accepts a document in exactly one of the branches of a oneOf.    *)
(* Fields that every branch requires or forbids together are one group.    *)
(***************************************************************************)
EXTENDS Naturals, FiniteSets

CONSTANTS
  Approvals,      \* the records that may be written: [role, approver]
  Circumstances,  \* [live, eligible, evidence]: what the inventory and the stage say
  MaxApprovals,   \* bound, and maxItems of approval_records
  MaxAmendments,  \* bound: groups put or taken beside those of the mode
  MaxMoves        \* bound: moves of the pointer

VARIABLES
  envelope,       \* the document
  pointerVersion, \* the pointer's version: 0 when there is no pointer
  amendments

promotionVars == <<envelope, pointerVersion, amendments>>

Modes ==
  {"activate", "rollback", "rollback_takeover", "genesis", "bootstrap_recovery",
   "emergency_recovery", "stop_supported", "stop_not_serving"}
\* What `mode' says; kind tells an ordinary activation from an ordinary rollback.
ModeName(m) == IF m \in {"activate", "rollback"} THEN "ordinary" ELSE m

(***************************************************************************)
(* The groups of fields.  "revocation" is the candidate's revocation with  *)
(* its receipt and chain, "incident_recovery" the stopped bindings and the *)
(* rollback candidates, "incident" the incident and the kind of target.    *)
(***************************************************************************)
Readiness == {"readiness"}
Rollback == {"rollback_target"}
RecoveryOnly == {"genesis", "revocation", "never_served", "incident_recovery"}
EmergencyStop == {"incident", "support_record", "open_fence"}
Takeover == {"takeover", "failed_activation"}
Groups == Readiness \cup Rollback \cup RecoveryOnly \cup EmergencyStop \cup Takeover

Ordinary == {"activate", "rollback"}
Recoveries == {"bootstrap_recovery", "emergency_recovery"}
Stops == {"stop_supported", "stop_not_serving"}

Required(m) ==
  CASE m \in Ordinary -> Readiness \cup Rollback \cup {"takeover"}
    [] m = "rollback_takeover" -> Readiness \cup Rollback \cup Takeover
    [] m = "genesis" -> Readiness \cup {"genesis"}
    [] m = "bootstrap_recovery" -> Readiness \cup {"genesis", "revocation", "never_served"}
    [] m = "emergency_recovery" -> Readiness \cup {"revocation", "incident_recovery"}
    [] m = "stop_supported" -> {"incident", "support_record"}
    [] m = "stop_not_serving" -> {"incident", "open_fence"}

Unserved == Rollback \cup EmergencyStop \cup Takeover
\* Mutant: the failed activation is not forbidden where nothing is taken over.
ForbiddenLoosely(m) ==
  CASE m \in Ordinary -> RecoveryOnly \cup EmergencyStop
    [] m = "rollback_takeover" -> RecoveryOnly \cup EmergencyStop
    [] m = "genesis" -> Unserved \cup (RecoveryOnly \ {"genesis"})
    [] m = "bootstrap_recovery" -> Unserved \cup {"incident_recovery"}
    [] m = "emergency_recovery" -> Unserved \cup {"genesis", "never_served"}
    [] m \in Stops -> Readiness \cup Rollback \cup RecoveryOnly \cup Takeover
                        \cup (EmergencyStop \ Required(m))
Forbidden(m) ==
  CASE m \in Ordinary -> RecoveryOnly \cup EmergencyStop \cup {"failed_activation"}
    [] m = "rollback_takeover" -> RecoveryOnly \cup EmergencyStop
    [] m = "genesis" -> Unserved \cup (RecoveryOnly \ {"genesis"})
    [] m = "bootstrap_recovery" -> Unserved \cup {"incident_recovery"}
    [] m = "emergency_recovery" -> Unserved \cup {"genesis", "never_served"}
    [] m \in Stops -> Readiness \cup Rollback \cup RecoveryOnly \cup Takeover
                        \cup (EmergencyStop \ Required(m))

(***************************************************************************)
(* What a branch asks of the fields every envelope has                     *)
(***************************************************************************)
Unread == 99

\* A stop says what is current and leaves what it expects open.
PointersHold(m, e) ==
  CASE m = "genesis" -> e.expected = 0 /\ e.observed = 0
    [] m \in Stops -> e.expected # Unread /\ e.observed \notin {0, Unread}
    [] OTHER -> {e.expected, e.observed} \cap {0, Unread} = {}

InventoryHolds(m, e) ==
  CASE m \in {"genesis", "bootstrap_recovery"} -> e.live = 0
    [] m = "emergency_recovery" -> e.eligible = 0
    [] OTHER -> TRUE

Roles(m) ==
  IF m \in Recoveries \cup Stops THEN {"release_owner", "security_owner", "incident_commander"}
  ELSE {"release_owner", "quality_owner"}
\* Each role once; the count the document states is that of its approvers.
ApprovalsHold(m, e) ==
  /\ \A r \in Roles(m) : Cardinality({a \in e.approvals : a.role = r}) = 1
  /\ Cardinality({a.approver : a \in e.approvals}) = Cardinality(Roles(m))

Evidence == {"fixture in isolated quality", "release in staging", "release in production"}

AcceptsEnvelope(m, e) ==
  /\ Required(m) \subseteq e.fields /\ Forbidden(m) \cap e.fields = {}
  /\ PointersHold(m, e) /\ InventoryHolds(m, e) /\ ApprovalsHold(m, e)
  /\ e.evidence \in Evidence

(***************************************************************************)
(* Filling it                                                              *)
(***************************************************************************)
Blank ==
  [fields |-> {}, expected |-> Unread, observed |-> Unread, approvals |-> {},
   live |-> 0, eligible |-> 0, evidence |-> "none"]
PromotionInit == envelope = Blank /\ pointerVersion = 0 /\ amendments = 0

Prepare(m, c) ==
  /\ envelope.fields = {} /\ amendments = 0
  /\ envelope' = [envelope EXCEPT !.fields = Required(m), !.live = c.live,
                                  !.eligible = c.eligible, !.evidence = c.evidence]
  /\ UNCHANGED <<pointerVersion, amendments>>

Amend(g) ==
  /\ envelope.fields # {} /\ amendments < MaxAmendments /\ amendments' = amendments + 1
  /\ envelope' = [envelope EXCEPT !.fields = IF g \in @ THEN @ \ {g} ELSE @ \cup {g}]
  /\ UNCHANGED pointerVersion

Read(part) ==
  /\ envelope.fields # {} /\ envelope[part] # pointerVersion
  /\ envelope' = [envelope EXCEPT ![part] = pointerVersion]
  /\ UNCHANGED <<pointerVersion, amendments>>

Approve(a) ==
  /\ envelope.fields # {} /\ a \notin envelope.approvals
  /\ Cardinality(envelope.approvals) < MaxApprovals
  /\ envelope' = [envelope EXCEPT !.approvals = @ \cup {a}]
  /\ UNCHANGED <<pointerVersion, amendments>>

MovePointer ==
  /\ pointerVersion < MaxMoves /\ pointerVersion' = pointerVersion + 1
  /\ UNCHANGED <<envelope, amendments>>

PromotionNext ==
  \/ \E m \in Modes, c \in Circumstances : Prepare(m, c)
  \/ \E g \in Groups : Amend(g)
  \/ \E part \in {"expected", "observed"} : Read(part)
  \/ \E a \in Approvals : Approve(a)
  \/ MovePointer

PromotionSpec == PromotionInit /\ [][PromotionNext]_promotionVars

(* However an envelope was filled, its shape names one mode: relabelled (kind,   *)
(* mode, purpose, rollback_takeover and emergency_target_mode rewritten) it is   *)
(* accepted for no other.  Only an ordinary activation and an ordinary rollback  *)
(* share a shape (the disjoint recovery shapes of the promotion envelope).       *)
DisjointShapes ==
  Cardinality({ModeName(m) : m \in {n \in Modes : AcceptsEnvelope(n, envelope)}}) <= 1
=============================================================================
