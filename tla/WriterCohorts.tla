---------------------------- MODULE WriterCohorts ----------------------------
(***************************************************************************)
(* The writer cohorts of one application estate under the traffic machine: *)
(* the writer-control projection and the writer grants of                  *)
(* internal/contracts/codegen/application_api_contracts.py composed with   *)
(* TrafficAuthority.  A cohort writes to the side its control state gives  *)
(* it authority for; grants are signed once, delivered late or never, and  *)
(* bound to an application-authority epoch and a cohort generation.        *)
(*                                                                         *)
(* The receipts of the traffic envelopes are tied to the cohorts here: a   *)
(* fence receipt of a side exists while no cohort writes to that side, an  *)
(* activation receipt once some cohort does.  The remaining receipts come  *)
(* from the engine and the providers and can always be produced.           *)
(***************************************************************************)
EXTENDS TrafficAuthority

CONSTANTS
  Cohorts,      \* the writer cohorts of the inventory
  MaxGrants     \* bound: live grants of one cohort

ASSUME CohortsAssumption ==
  /\ Cohorts # {} /\ IsFiniteSet(Cohorts)
  /\ MaxGrants \in Nat \ {0}

VARIABLES
  control,      \* writer_control state of each cohort
  generation,   \* current_cohort_generation
  reserved,     \* reserved_cohort_generation, or Null
  grants        \* writer grants that are neither expired, revoked nor tombstoned

cohortVars == <<control, generation, reserved, grants>>
allVars == <<record, inflight, drained, periods,
             control, generation, reserved, grants>>

Null == 0

\* authority_by_state of the writer_control machine.
ControlAuthority(state) ==
  IF state \in {"source_enabled", "source_resumed"} THEN "source"
  ELSE IF state = "target_enabled" THEN "target" ELSE "none"

ControlEdges ==
  { <<"source_enabled", "freezing">>,
    <<"freezing", "fenced">>,
    <<"fenced", "target_pending">>,
    <<"target_pending", "target_enabled">>,
    <<"target_enabled", "revoking">>,
    <<"revoking", "target_fenced">>,
    <<"revoking", "tombstoned">>,
    <<"target_fenced", "source_pending">>,
    <<"source_pending", "source_resumed">> }
  \cup { <<state, "blocked">> :
           state \in {"freezing", "fenced", "target_pending", "target_enabled",
                      "revoking", "target_fenced", "source_pending"} }

\* The control state in which a grant for a store is awaited, and the state it leads to.
PendingFor(store) == IF store = "target" THEN "target_pending" ELSE "source_pending"
EnabledFor(store) == IF store = "target" THEN "target_enabled" ELSE "source_resumed"

Grant ==
  [cohort : Cohorts, store : Sides, epoch : Nat \ {0}, generation : Nat \ {0},
   state : {"reserved", "signed_dormant", "active"}]

CohortInit ==
  /\ Init
  /\ control = [c \in Cohorts |-> "source_enabled"]
  /\ generation = [c \in Cohorts |-> 1]
  /\ reserved = [c \in Cohorts |-> Null]
  /\ grants = {}

-----------------------------------------------------------------------------

Writing(side) == {c \in Cohorts : ControlAuthority(control[c]) = side}

\* Which receipts the estate can produce now.
ReceiptHeld(kind) ==
  CASE kind \in {"source_fence", "source_denial_canary"} -> Writing("source") = {}
    [] kind \in {"target_fence", "target_denial_canary"} -> Writing("target") = {}
    [] kind \in {"cohort_activation", "smoke"} -> Writing("source") \cup Writing("target") # {}
    [] OTHER -> TRUE

\* Mutant: an edge is taken without its receipts.
MoveTrafficUnproved(to) ==
  /\ record.version < MaxVersion
  /\ Apply(EnvelopeFor(to, FALSE, NoSlip))
  /\ UNCHANGED cohortVars

\* The traffic machine moves along an edge whose receipts are all held.
MoveTraffic(to) ==
  /\ record.version < MaxVersion
  /\ \A kind \in Receipts(record.state, to) : ReceiptHeld(kind)
  /\ Apply(EnvelopeFor(to, FALSE, NoSlip))
  /\ UNCHANGED cohortVars

\* Some legal edge out of the current traffic state needs a receipt of this kind.
Wanted(kind) ==
  \E to \in States :
    /\ <<record.state, to>> \in Edges
    /\ kind \in Receipts(record.state, to)

(***************************************************************************)
(* A provider admits activation for a store only while the traffic record  *)
(* enables that side; the source is also admitted under the proven resume  *)
(* stream, because the edge to source_cohorts_activating already demands   *)
(* the activation receipt.                                                 *)
(***************************************************************************)
ProviderGate(store) ==
  \/ WritesEnabled(store, record.state)
  \/ store = "source" /\ record.state = "source_resume_stream_armed"

\* Mutant: the edge back to the source is missing.
MoveControlOneWay(c, to) ==
  /\ <<control[c], to>> \in ControlEdges \ {<<"target_fenced", "source_pending">>}
  /\ control' = [control EXCEPT ![c] = to]

\* A cohort's control state moves along one legal edge.
MoveControl(c, to) ==
  /\ <<control[c], to>> \in ControlEdges
  /\ control' = [control EXCEPT ![c] = to]

GrantsOf(c) == {g \in grants : g.cohort = c}

\* A frozen or revoked cohort keeps no usable grant.
Freeze(c) ==
  /\ Wanted("source_fence")
  /\ MoveControl(c, "freezing")
  /\ grants' = grants \ GrantsOf(c)
  /\ UNCHANGED <<vars, generation, reserved>>

Fence(c) ==
  /\ MoveControl(c, "fenced")
  /\ UNCHANGED <<vars, generation, reserved, grants>>

\* Mutant: a revoked cohort keeps its grants.
RevokeKeepingGrants(c) ==
  /\ Wanted("target_fence")
  /\ MoveControl(c, "revoking")
  /\ UNCHANGED <<vars, generation, reserved, grants>>

Revoke(c) ==
  /\ Wanted("target_fence")
  /\ MoveControl(c, "revoking")
  /\ grants' = grants \ GrantsOf(c)
  /\ UNCHANGED <<vars, generation, reserved>>

FenceTarget(c) ==
  /\ MoveControl(c, "target_fenced")
  /\ UNCHANGED <<vars, generation, reserved, grants>>

\* Terminal control states: the reservation is dropped with the grants.
Retire(c, to) ==
  /\ to \in {"tombstoned", "blocked"}
  /\ MoveControl(c, to)
  /\ reserved' = [reserved EXCEPT ![c] = Null]
  /\ grants' = grants \ GrantsOf(c)
  /\ UNCHANGED <<vars, generation>>

(***************************************************************************)
(* requestApplicationWriterGrant: a cohort waiting for a store asks for a  *)
(* grant, or renews one, naming the current epoch and its generation.      *)
(***************************************************************************)
RequestGrant(c, store) ==
  /\ Cardinality(GrantsOf(c)) < MaxGrants
  /\ \/ MoveControl(c, PendingFor(store)) /\ ProviderGate(store)
     \/ control[c] = PendingFor(store) /\ UNCHANGED control
  /\ reserved' = [reserved EXCEPT ![c] = generation[c] + 1]
  /\ grants' = grants \cup
       {[cohort |-> c, store |-> store, epoch |-> record.epoch,
         generation |-> generation[c] + 1, state |-> "reserved"]}
  /\ UNCHANGED <<vars, generation>>

SignGrant(g) ==
  /\ g.state = "reserved"
  /\ grants' = (grants \ {g}) \cup {[g EXCEPT !.state = "signed_dormant"]}
  /\ UNCHANGED <<vars, control, generation, reserved>>

\* Delivery of a signed grant, however late; activation_requires of the contract.
Activate(g) ==
  /\ g.state = "signed_dormant"
  /\ g.epoch = record.epoch
  /\ g.generation = generation[g.cohort] + 1
  /\ ProviderGate(g.store)
  /\ control[g.cohort] = PendingFor(g.store)
  /\ MoveControl(g.cohort, EnabledFor(g.store))
  /\ generation' = [generation EXCEPT ![g.cohort] = g.generation]
  /\ reserved' = [reserved EXCEPT ![g.cohort] = Null]
  /\ grants' = (grants \ {g}) \cup {[g EXCEPT !.state = "active"]}
  /\ UNCHANGED vars

\* A grant reaches its end of life, whatever became of it until then.
Expire(g) ==
  /\ grants' = grants \ {g}
  /\ UNCHANGED <<vars, control, generation, reserved>>

CohortStep(c) ==
  \/ Freeze(c) \/ Fence(c) \/ Revoke(c) \/ FenceTarget(c)
  \/ \E to \in {"tombstoned", "blocked"} : Retire(c, to)
  \/ \E store \in Sides : RequestGrant(c, store)

CohortNext ==
  \/ \E to \in States : MoveTraffic(to)
  \/ \E c \in Cohorts : CohortStep(c)
  \/ \E g \in grants : SignGrant(g) \/ Activate(g) \/ Expire(g)

CohortSpec == CohortInit /\ [][CohortNext]_allVars

(***************************************************************************)
(* What an operator who wants the handover keeps doing: cohorts and traffic *)
(* move on, no cohort is given up, writer attribution stays free of         *)
(* conflict.  Expiry is not prevented, but some grant is delivered in time. *)
(***************************************************************************)
Progress(c) ==
  \/ Freeze(c) \/ Fence(c) \/ Revoke(c) \/ FenceTarget(c)
  \/ \E store \in Sides : RequestGrant(c, store)

Fairness ==
  /\ \A to \in States \ {"authority_conflict_frozen", "rebaseline_required"} :
       WF_allVars(MoveTraffic(to))
  /\ \A c \in Cohorts :
       /\ WF_allVars(Progress(c))
       /\ SF_allVars(\E g \in GrantsOf(c) : SignGrant(g))
       /\ SF_allVars(\E g \in GrantsOf(c) : Activate(g))

FairCohortSpec == CohortSpec /\ Fairness

-----------------------------------------------------------------------------

(***************************************************************************)
(* ADR-030, "partial activation remains one-sided": while cohorts move one *)
(* by one and signed grants arrive late, no cohort writes to the source    *)
(* while another writes to the target.                                     *)
(***************************************************************************)
OneSidedWriters == Writing("source") = {} \/ Writing("target") = {}

(***************************************************************************)
(* A cohort writes to a side only while the traffic machine gives that     *)
(* side authority, except the source cohorts that activate under the       *)
(* proven resume stream, just before source_cohorts_activating             *)
(* (core_contracts.py:2872, the activation receipt the edge demands).      *)
(***************************************************************************)
WritersUnderAuthority ==
  \A side \in Sides : Writing(side) # {} =>
    \/ Authority(record.state) = side
    \/ side = "source" /\ record.state = "source_resume_stream_armed"

(***************************************************************************)
(* The cohorts and the traffic machine never disagree about who writes:    *)
(* one side at a time, and the side the record gives authority to.         *)
(***************************************************************************)
WritersUnderOneAuthority == OneSidedWriters /\ WritersUnderAuthority

(***************************************************************************)
(* Of all the grants requested, renewed and delivered for a cohort, at     *)
(* most one is active, it is the one of the cohort's current generation    *)
(* and it is for the store the cohort writes to: a superseded grant never  *)
(* keeps a credential alive (next_cohort_generation of activation_requires,*)
(* application_api_contracts.py:3367).                                     *)
(***************************************************************************)
ActiveGrantIsCurrent ==
  /\ \A g \in grants : g.state = "active" =>
       /\ g.generation = generation[g.cohort]
       /\ control[g.cohort] = EnabledFor(g.store)
  /\ \A g, h \in grants :
       g.state = "active" /\ h.state = "active" /\ g.cohort = h.cohort => g = h

BoundReached == record.version = MaxVersion

GivenUp == \E c \in Cohorts : control[c] \in {"blocked", "tombstoned"}

Conflicting ==
  record.state \in {"authority_conflict_frozen", "incident_recovery_decision",
                    "rebaseline_required"}

(***************************************************************************)
(* A rollback that begins once some cohort has reached the target ends     *)
(* with the source resynchronised, unless attribution conflicts or a       *)
(* cohort is given up (edges of core_contracts.py:2810 and of              *)
(* application_api_contracts.py:3369 together).                            *)
(***************************************************************************)
RollbackCompletes ==
  ( /\ record.state = "rollback_draining"
    /\ \E c \in Cohorts : control[c] \in {"target_enabled", "revoking", "target_fenced"} )
  ~> (record.state = "source_primary_resynced" \/ Conflicting \/ GivenUp \/ BoundReached)

=============================================================================
