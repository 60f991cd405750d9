-------------------------- MODULE TrafficAuthority --------------------------
(***************************************************************************)
(* The traffic-authority machine of the contract                           *)
(* workflow/traffic-authority-state-machine.schema.json, as the generator  *)
(* internal/contracts/codegen/core_contracts.py builds it: a stored record *)
(* that only a transition envelope can move.  Envelopes are prepared from  *)
(* a read of the record and delivered later: they may be lost, delivered   *)
(* twice, overtaken by another client's envelope, or carry the arithmetic  *)
(* that JSON Schema cannot reject.                                         *)
(*                                                                         *)
(* Every branch of the schema pins the authority, write-flag, increment    *)
(* and receipt fields to constants of the edge, so an envelope is          *)
(* represented by its edge and the fields the branch leaves free; the      *)
(* pinned fields are operators of the edge.                                *)
(***************************************************************************)
EXTENDS Naturals, FiniteSets

CONSTANTS
  MaxVersion,      \* bound: transitions applied to one record
  MaxInFlight,     \* bound: envelopes prepared and not lost
  MaxCellEpoch     \* bound: cell generations seen by one record

ASSUME BoundsAssumption ==
  /\ MaxVersion \in Nat \ {0}
  /\ MaxInFlight \in Nat \ {0}
  /\ MaxCellEpoch \in Nat \ {0}

SourceHolds ==
  {"source_primary", "source_compatibility_deployed",
   "source_cohorts_activating", "source_primary_resynced",
   "reverify_for_cutover"}

TargetHolds ==
  {"target_primary_reverse_armed", "target_cohorts_activating",
   "watching_target", "target_primary_irreversible", "source_retired"}

NobodyHolds ==
  {"freezing_source", "source_fenced_and_drained", "rollback_draining",
   "target_fenced_and_reverse_drained", "source_restore_arming",
   "source_resume_stream_armed", "authority_conflict_frozen",
   "incident_recovery_decision", "rebaseline_required"}

States == SourceHolds \cup TargetHolds \cup NobodyHolds

Authorities == {"source", "none", "target"}

Authority(state) ==
  IF state \in SourceHolds THEN "source"
  ELSE IF state \in TargetHolds THEN "target" ELSE "none"

\* States in which writer attribution can still turn out to be in conflict.
Conflictable ==
  {"source_fenced_and_drained", "target_primary_reverse_armed",
   "target_cohorts_activating", "watching_target", "rollback_draining",
   "target_fenced_and_reverse_drained", "source_restore_arming",
   "source_resume_stream_armed", "source_cohorts_activating",
   "target_primary_irreversible"}

Edges ==
  { <<"source_primary", "source_compatibility_deployed">>,
    <<"source_compatibility_deployed", "freezing_source">>,
    <<"freezing_source", "source_restore_arming">>,
    <<"freezing_source", "source_fenced_and_drained">>,
    <<"source_restore_arming", "source_resume_stream_armed">>,
    <<"source_resume_stream_armed", "source_cohorts_activating">>,
    <<"source_cohorts_activating", "source_primary_resynced">>,
    <<"source_fenced_and_drained", "source_restore_arming">>,
    <<"source_fenced_and_drained", "target_primary_reverse_armed">>,
    <<"target_primary_reverse_armed", "target_cohorts_activating">>,
    <<"target_primary_reverse_armed", "rollback_draining">>,
    <<"target_cohorts_activating", "watching_target">>,
    <<"target_cohorts_activating", "rollback_draining">>,
    <<"watching_target", "rollback_draining">>,
    <<"watching_target", "target_primary_irreversible">>,
    <<"rollback_draining", "target_fenced_and_reverse_drained">>,
    <<"target_fenced_and_reverse_drained", "source_resume_stream_armed">>,
    <<"target_primary_irreversible", "source_retired">>,
    <<"source_primary_resynced", "reverify_for_cutover">>,
    <<"reverify_for_cutover", "freezing_source">>,
    <<"authority_conflict_frozen", "incident_recovery_decision">>,
    <<"incident_recovery_decision", "rollback_draining">>,
    <<"incident_recovery_decision", "rebaseline_required">> }
  \cup { <<state, "authority_conflict_frozen">> : state \in Conflictable }

\* application_authority_epoch_increment of an edge's branch.
EpochIncrement(from, to) ==
  IF Authority(from) # Authority(to) THEN 1 ELSE 0

\* source_ and target_application_writes_enabled of an edge's branch.
WritesEnabled(side, to) == Authority(to) = side

(***************************************************************************)
(* The receipts an edge's branch demands; every other receipt field of the *)
(* branch is pinned to null, so a valid envelope carries exactly these.    *)
(***************************************************************************)
Receipts(from, to) ==
  UNION {
    IF to \in {"freezing_source", "source_fenced_and_drained",
               "target_primary_reverse_armed", "authority_conflict_frozen"}
      THEN {"source_fence", "source_denial_canary"} ELSE {},
    IF to \in {"target_primary_reverse_armed", "target_cohorts_activating",
               "watching_target", "rollback_draining",
               "target_fenced_and_reverse_drained"}
      THEN {"reverse_health"} ELSE {},
    IF to \in {"rollback_draining", "target_fenced_and_reverse_drained",
               "source_resume_stream_armed", "source_cohorts_activating",
               "source_primary_resynced", "authority_conflict_frozen"}
      THEN {"target_fence", "target_denial_canary"} ELSE {},
    IF to \in {"target_cohorts_activating", "watching_target",
               "source_cohorts_activating", "source_primary_resynced"}
      THEN {"cohort_activation", "smoke"} ELSE {},
    IF to \in {"source_resume_stream_armed", "source_cohorts_activating",
               "source_primary_resynced"}
      THEN {"source_resume_stream", "source_parity"} ELSE {},
    IF to = "source_restore_arming" THEN {"target_no_effect"} ELSE {},
    IF to \in {"target_primary_irreversible", "source_retired"}
      THEN {"rollback_window_closure"} ELSE {},
    IF \/ to \in {"authority_conflict_frozen", "incident_recovery_decision",
                  "rebaseline_required"}
       \/ from = "incident_recovery_decision"
      THEN {"conflict_evidence"} ELSE {} }

-----------------------------------------------------------------------------

VARIABLES
  record,     \* the stored resource
  inflight,   \* envelopes prepared by clients and not lost
  drained,    \* history: sides fenced and drained since they last held authority
  periods     \* history: the <<epoch, authority>> pairs the record went through

vars == <<record, inflight, drained, periods>>

Sides == {"source", "target"}

Record ==
  [state : States, version : Nat, epoch : Nat \ {0}, cellEpoch : Nat \ {0},
   sourceWrites : BOOLEAN, targetWrites : BOOLEAN]

\* The fields of an envelope that its edge's branch leaves free.
Envelope ==
  [from : States, to : States,
   expectedVersion : Nat, resultingVersion : Nat \ {0},
   expectedEpoch : Nat \ {0}, resultingEpoch : Nat \ {0},
   expectedCell : Nat \ {0}, resultingCell : Nat \ {0},
   generationChanged : BOOLEAN]

TypeOK ==
  /\ record \in Record
  /\ inflight \in SUBSET Envelope
  /\ drained \in SUBSET Sides
  /\ periods \in SUBSET ((Nat \ {0}) \X Authorities)

Init ==
  /\ record = [state |-> "source_primary", version |-> 0, epoch |-> 1,
               cellEpoch |-> 1, sourceWrites |-> TRUE, targetWrites |-> FALSE]
  /\ inflight = {}
  /\ drained = {"target"}
  /\ periods = {<<1, "source">>}

\* Mutant: a rollback may skip the target's fence and reverse drain.
SchemaAcceptsShortcut(e) ==
  \/ <<e.from, e.to>> \in Edges
  \/ <<e.from, e.to>> = <<"rollback_draining", "source_resume_stream_armed">>

\* The schema's closed list of edges; the increments it pins are used below.
SchemaValid(e) == <<e.from, e.to>> \in Edges

\* Mutant: the epoch sum is left to the schema.
ArithmeticOfVersions(e) ==
  /\ e.resultingVersion = e.expectedVersion + 1
  /\ e.resultingCell = e.expectedCell + (IF e.generationChanged THEN 1 ELSE 0)

\* Sums across sibling fields, which the schema cannot state.
ArithmeticHolds(e) ==
  /\ e.resultingVersion = e.expectedVersion + 1
  /\ e.resultingEpoch = e.expectedEpoch + EpochIncrement(e.from, e.to)
  /\ e.resultingCell = e.expectedCell + (IF e.generationChanged THEN 1 ELSE 0)

\* The optimistic-concurrency precondition: a stale envelope is refused.
Current(e) ==
  /\ e.from = record.state
  /\ e.expectedVersion = record.version
  /\ e.expectedEpoch = record.epoch
  /\ e.expectedCell = record.cellEpoch

\* A resulting version one too high, an epoch that moves when it should not or
\* stays when it should move: errors the schema accepts.
Slips == [version : BOOLEAN, epoch : BOOLEAN]
NoSlip == [version |-> FALSE, epoch |-> FALSE]

\* The envelope a client builds from a read of the record.
EnvelopeFor(to, changed, slip) ==
  [from |-> record.state, to |-> to,
   expectedVersion |-> record.version,
   resultingVersion |-> record.version + (IF slip.version THEN 2 ELSE 1),
   expectedEpoch |-> record.epoch,
   resultingEpoch |->
     record.epoch + (IF slip.epoch THEN 1 - EpochIncrement(record.state, to)
                     ELSE EpochIncrement(record.state, to)),
   expectedCell |-> record.cellEpoch,
   resultingCell |-> record.cellEpoch + (IF changed THEN 1 ELSE 0),
   generationChanged |-> changed]

\* A client reads the record and prepares an envelope for one legal edge.
Prepare(to, changed, slip) ==
  /\ Cardinality(inflight) < MaxInFlight
  /\ record.version < MaxVersion
  /\ changed => record.cellEpoch < MaxCellEpoch
  /\ SchemaValid(EnvelopeFor(to, changed, slip))
  /\ inflight' = inflight \cup {EnvelopeFor(to, changed, slip)}
  /\ UNCHANGED <<record, drained, periods>>

\* The side a state's name says has been fenced and drained on entering it.
DrainedBy(to) ==
  IF to = "source_fenced_and_drained" THEN {"source"}
  ELSE IF to = "target_fenced_and_reverse_drained" THEN {"target"} ELSE {}

(***************************************************************************)
(* An envelope is delivered and applied.  It stays in flight: a second     *)
(* delivery finds it stale.                                                *)
(***************************************************************************)
Apply(e) ==
  /\ SchemaValid(e)
  /\ ArithmeticHolds(e)
  /\ Current(e)
  /\ record' = [state |-> e.to, version |-> e.resultingVersion,
                epoch |-> e.resultingEpoch, cellEpoch |-> e.resultingCell,
                sourceWrites |-> WritesEnabled("source", e.to),
                targetWrites |-> WritesEnabled("target", e.to)]
  /\ drained' = (drained \cup DrainedBy(e.to)) \ {Authority(e.to)}
  /\ periods' = periods \cup {<<e.resultingEpoch, Authority(e.to)>>}
  /\ UNCHANGED inflight

\* Delivery is at most once: an envelope may never arrive (again).
Lose(e) ==
  /\ inflight' = inflight \ {e}
  /\ UNCHANGED <<record, drained, periods>>

Next ==
  \/ \E to \in States, changed \in BOOLEAN, slip \in Slips :
       Prepare(to, changed, slip)
  \/ \E e \in inflight : Apply(e) \/ Lose(e)

Spec == Init /\ [][Next]_vars

-----------------------------------------------------------------------------

(***************************************************************************)
(* An epoch names one period of authority: no two periods with different   *)
(* holders ever share an epoch number, so a grant or a consent bound to an *)
(* epoch cannot be honoured under another holder                           *)
(* (application_authority_epoch_increment, core_contracts.py:2887).        *)
(***************************************************************************)
EpochNamesOnePeriod ==
  \A p, q \in periods : p[1] = q[1] => p[2] = q[2]

(***************************************************************************)
(* The stored write flags never disagree with the authority of the state,  *)
(* whatever the order in which envelopes were applied, and are never both  *)
(* set (ADR-030: never simultaneously enabled).                            *)
(***************************************************************************)
WritesFollowAuthority ==
  /\ record.sourceWrites = (Authority(record.state) = "source")
  /\ record.targetWrites = (Authority(record.state) = "target")
  /\ ~(record.sourceWrites /\ record.targetWrites)

\* The promise of ADR-030, with the write flags and the history as witness.
Holder ==
  IF record.sourceWrites THEN "source"
  ELSE IF record.targetWrites THEN "target" ELSE "none"

Promise == INSTANCE WriteAuthority
             WITH holder <- Holder, epoch <- record.epoch, quiet <- drained

(***************************************************************************)
(* The traffic machine implements ADR-030: authority is handed over only   *)
(* through a period without a holder, over an opposite side that has been  *)
(* fenced and drained since it last held it, one epoch per change.         *)
(***************************************************************************)
HandoverIsFenced == Promise!Spec
=============================================================================
