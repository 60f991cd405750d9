-------------------------- MODULE AuthorityProofs --------------------------
(***************************************************************************)
(* Theorems about the write authority of a cutover: the traffic record,    *)
(* the promise of ADR-030 it implements, and the cohorts of writers that   *)
(* move over it.                                                           *)
(***************************************************************************)
EXTENDS WriterCohorts, TLAPS

-----------------------------------------------------------------------------

(***************************************************************************)
(* Theorems about TrafficAuthority, for every bound and every number of    *)
(* envelopes in flight.  None of them depends on what an in-flight         *)
(* envelope contains beyond its type: Apply checks the schema, the         *)
(* arithmetic and the preconditions again, so any set of stale, repeated   *)
(* or ill-computed envelopes is harmless.                                  *)
(***************************************************************************)

\* Every period seen is over, or is the current one and has its holder.
PeriodsAreOver ==
  \A p \in periods :
    /\ p[1] <= record.epoch
    /\ p[1] = record.epoch => p[2] = Authority(record.state)

\* What the path to a state has proved about the two sides.
DrainedOnTheWay ==
  /\ Authority(record.state) = "source" => drained = {"target"}
  /\ Authority(record.state) = "target" => drained = {"source"}
  /\ record.state \in {"freezing_source", "source_restore_arming",
                       "source_resume_stream_armed",
                       "target_fenced_and_reverse_drained"}
       => "target" \in drained
  /\ record.state = "source_fenced_and_drained" => drained = Sides

\* The inductive invariant.
IInv ==
  /\ TypeOK
  /\ WritesFollowAuthority
  /\ EpochNamesOnePeriod
  /\ PeriodsAreOver
  /\ DrainedOnTheWay

-----------------------------------------------------------------------------

\* The type of the record, of the envelopes and of the history is preserved.
LEMMA TypePreserved == TypeOK /\ [Next]_vars => TypeOK'
<1> SUFFICES ASSUME TypeOK, [Next]_vars PROVE TypeOK'
  OBVIOUS
<1>1. ASSUME NEW to \in States, NEW changed \in BOOLEAN, NEW slip \in Slips,
             Prepare(to, changed, slip)
      PROVE  TypeOK'
  <2>1. inflight' \in SUBSET Envelope
    BY <1>1 DEF Prepare, EnvelopeFor, TypeOK, Record, Envelope, Slips,
                EpochIncrement
  <2>2. QED
    BY <1>1, <2>1 DEF Prepare, TypeOK
<1>2. ASSUME NEW e \in inflight, Apply(e)
      PROVE  TypeOK'
  <2>1. e \in Envelope
    BY DEF TypeOK
  <2>2. record' \in Record
    BY <1>2, <2>1 DEF Apply, Envelope, Record, WritesEnabled
  <2>3. drained' \in SUBSET Sides
    BY <1>2 DEF Apply, DrainedBy, TypeOK, Sides
  <2>4. <<e.resultingEpoch, Authority(e.to)>> \in (Nat \ {0}) \X Authorities
    BY <2>1 DEF Envelope, Authority, Authorities
  <2>5. QED
    BY <1>2, <2>2, <2>3, <2>4 DEF Apply, TypeOK
<1>3. ASSUME NEW e \in inflight, Lose(e)
      PROVE  TypeOK'
  BY <1>3 DEF Lose, TypeOK
<1>4. CASE UNCHANGED vars
  BY <1>4 DEF vars, TypeOK
<1>5. QED
  BY <1>1, <1>2, <1>3, <1>4 DEF Next

\* Only Apply moves the record or the history.
LEMMA OnlyApplyMoves ==
  [Next]_vars =>
    \/ \E e \in inflight : Apply(e)
    \/ UNCHANGED <<record, drained, periods>>
BY DEF Next, Prepare, Lose, vars

\* A new period takes an epoch that no earlier period has.
LEMMA EpochOfStep ==
  ASSUME IInv, NEW e \in inflight, Apply(e)
  PROVE  PeriodsAreOver' /\ EpochNamesOnePeriod'
<1> DEFINE new == <<e.resultingEpoch, Authority(e.to)>>
           step == EpochIncrement(record.state, e.to)
<1>1. record.epoch \in Nat /\ \A p \in periods : p[1] \in Nat
  BY DEF IInv, TypeOK, Record
<1>2. /\ record'.state = e.to
      /\ record'.epoch = record.epoch + step
      /\ new[1] = record.epoch + step
      /\ periods' = periods \cup {new}
  BY DEF Apply, SchemaValid, ArithmeticHolds, Current
<1>3. step \in {0, 1} /\ (step = 0 => Authority(e.to) = Authority(record.state))
  BY DEF EpochIncrement
<1>4. \A p \in periods :
        /\ p[1] <= record.epoch + step
        /\ p[1] = record.epoch + step => p[2] = Authority(e.to)
  BY <1>1, <1>3 DEF IInv, PeriodsAreOver
<1>5. PeriodsAreOver'
  BY <1>1, <1>2, <1>3, <1>4 DEF PeriodsAreOver
<1>6. EpochNamesOnePeriod'
  BY <1>2, <1>4 DEF IInv, EpochNamesOnePeriod
<1>7. QED
  BY <1>5, <1>6

\* A step keeps what the path has proved about the two sides.
LEMMA DrainOfStep ==
  ASSUME IInv, NEW e \in inflight, Apply(e)
  PROVE  DrainedOnTheWay'
<1>1. /\ <<record.state, e.to>> \in Edges
      /\ record'.state = e.to
      /\ drained' = (drained \cup DrainedBy(e.to)) \ {Authority(e.to)}
  BY DEF Apply, SchemaValid, Current
<1>2. drained \subseteq Sides
  BY DEF IInv, TypeOK
<1>3. QED
  BY <1>1, <1>2 DEF IInv, DrainedOnTheWay, Edges, Conflictable, DrainedBy, Sides,
     Authority, SourceHolds, TargetHolds

\* An applied envelope is a step of the promise, or invisible to it.
LEMMA StepOfPromise ==
  ASSUME IInv, NEW e \in inflight, Apply(e)
  PROVE  [Promise!Next]_(Promise!avars)
<1>1. /\ <<record.state, e.to>> \in Edges
      /\ record'.state = e.to
      /\ record'.epoch = record.epoch + EpochIncrement(record.state, e.to)
      /\ record'.sourceWrites = (Authority(e.to) = "source")
      /\ record'.targetWrites = (Authority(e.to) = "target")
      /\ drained' = (drained \cup DrainedBy(e.to)) \ {Authority(e.to)}
  BY DEF Apply, SchemaValid, ArithmeticHolds, Current, WritesEnabled
<1>2. Holder = Authority(record.state) /\ Holder' = Authority(e.to)
  BY <1>1 DEF IInv, WritesFollowAuthority, Holder, Authority
<1>3. drained \subseteq Sides /\ record.epoch \in Nat
  BY DEF IInv, TypeOK, Record
<1>4. CASE Authority(e.to) = Authority(record.state)
  <2>1. Holder' = Holder /\ record'.epoch = record.epoch
    BY <1>1, <1>2, <1>3, <1>4 DEF EpochIncrement
  <2>2. \/ drained' = drained
        \/ Holder = "none" /\ \E s \in Sides : drained' = drained \cup {s}
    BY <1>1, <1>2, <1>3, <1>4 DEF IInv, DrainedOnTheWay, DrainedBy, Sides,
       Authority, SourceHolds, TargetHolds
  <2>3. QED
    BY <2>1, <2>2 DEF Promise!Next, Promise!Quiesce, Promise!avars, Sides,
                      Promise!Sides
<1>5. CASE Authority(e.to) # Authority(record.state)
  <2>1. record'.epoch = record.epoch + 1
    BY <1>1, <1>5 DEF EpochIncrement
  <2>2. \/ /\ Holder \in Sides /\ Holder' = "none"
           /\ drained' = drained
        \/ /\ Holder = "none" /\ Holder' \in Sides
           /\ Promise!Other(Holder') \in drained
           /\ drained' = drained \ {Holder'}
    BY <1>1, <1>2, <1>3, <1>5 DEF IInv, DrainedOnTheWay, DrainedBy, Sides, Edges,
       Conflictable, Authority, SourceHolds, TargetHolds, Promise!Other
  <2>3. QED
    BY <2>1, <2>2 DEF Promise!Next, Promise!Revoke, Promise!Grant, Sides,
                      Promise!Sides
<1>6. QED
  BY <1>4, <1>5

(***************************************************************************)
(* Type correctness: no order of deliveries, losses and slips of the       *)
(* clients leaves the record outside its type.                             *)
(***************************************************************************)
THEOREM TypeCorrect == Spec => []TypeOK
<1>1. Init => TypeOK
  BY DEF Init, TypeOK, Record, Sides, Authorities, States, SourceHolds
<1>2. QED
  BY <1>1, TypePreserved, PTL DEF Spec

(***************************************************************************)
(* The inductive invariant holds of every reachable state.                 *)
(***************************************************************************)
LEMMA InductiveInvariant == Spec => []IInv
<1>1. Init => IInv
  <2> SUFFICES ASSUME Init PROVE IInv
    OBVIOUS
  <2>1. TypeOK
    BY DEF Init, TypeOK, Record, Sides, Authorities, States, SourceHolds
  <2>2. Authority(record.state) = "source"
    BY DEF Init, Authority, SourceHolds
  <2>3. WritesFollowAuthority
    BY <2>2 DEF Init, WritesFollowAuthority
  <2>4. EpochNamesOnePeriod /\ PeriodsAreOver
    BY <2>2 DEF Init, EpochNamesOnePeriod, PeriodsAreOver
  <2>5. DrainedOnTheWay
    BY <2>2 DEF Init, DrainedOnTheWay
  <2>6. QED
    BY <2>1, <2>3, <2>4, <2>5 DEF IInv
<1>2. IInv /\ [Next]_vars => IInv'
  <2> SUFFICES ASSUME IInv, [Next]_vars PROVE IInv'
    OBVIOUS
  <2>1. TypeOK'
    BY TypePreserved DEF IInv
  <2>2. CASE UNCHANGED <<record, drained, periods>>
    BY <2>1, <2>2 DEF IInv, WritesFollowAuthority, EpochNamesOnePeriod,
                      PeriodsAreOver, DrainedOnTheWay
  <2>3. ASSUME NEW e \in inflight, Apply(e)
        PROVE  IInv'
    <3>1. /\ <<record.state, e.to>> \in Edges
          /\ record'.state = e.to
          /\ record'.epoch = record.epoch + EpochIncrement(record.state, e.to)
          /\ record'.sourceWrites = (Authority(e.to) = "source")
          /\ record'.targetWrites = (Authority(e.to) = "target")
      BY <2>3 DEF Apply, SchemaValid, ArithmeticHolds, Current, WritesEnabled
    <3>2. WritesFollowAuthority'
      BY <3>1 DEF WritesFollowAuthority
    <3>3. PeriodsAreOver' /\ EpochNamesOnePeriod'
      BY <2>3, <3>1, EpochOfStep
    <3>4. DrainedOnTheWay'
      BY <2>3, <3>1, DrainOfStep DEF IInv
    <3>5. QED
      BY <2>1, <3>2, <3>3, <3>4 DEF IInv
  <2>4. QED
    BY <2>2, <2>3, OnlyApplyMoves
<1>3. QED
  BY <1>1, <1>2, PTL DEF Spec

(***************************************************************************)
(* An epoch names one period of authority, whatever was in flight.         *)
(***************************************************************************)
THEOREM EpochsNamePeriods == Spec => []EpochNamesOnePeriod
<1>1. IInv => EpochNamesOnePeriod
  BY DEF IInv
<1>2. QED
  BY <1>1, InductiveInvariant, PTL

(***************************************************************************)
(* The stored write flags follow the authority of the state and are never  *)
(* both set.                                                               *)
(***************************************************************************)
THEOREM WriteFlagsFollow == Spec => []WritesFollowAuthority
<1>1. IInv => WritesFollowAuthority
  BY DEF IInv
<1>2. QED
  BY <1>1, InductiveInvariant, PTL

(***************************************************************************)
(* The traffic machine implements ADR-030's promise: every step is a       *)
(* revocation, a proof that a side is quiet, a grant over a quiet opposite *)
(* side, or invisible to the promise.                                      *)
(***************************************************************************)
THEOREM ImplementsPromise == Spec => HandoverIsFenced
<1>1. Init => Promise!Init
  BY DEF Init, Promise!Init, Holder
<1>2. IInv /\ IInv' /\ [Next]_vars => [Promise!Next]_(Promise!avars)
  <2> SUFFICES ASSUME IInv, IInv', [Next]_vars
               PROVE  [Promise!Next]_(Promise!avars)
    OBVIOUS
  <2>1. CASE UNCHANGED <<record, drained, periods>>
    BY <2>1 DEF Promise!avars, Holder
  <2>2. ASSUME NEW e \in inflight, Apply(e)
        PROVE  [Promise!Next]_(Promise!avars)
    BY <2>2, StepOfPromise
  <2>3. QED
    BY <2>1, <2>2, OnlyApplyMoves
<1>3. QED
  BY <1>1, <1>2, InductiveInvariant, PTL DEF Spec, HandoverIsFenced, Promise!Spec

-----------------------------------------------------------------------------

(***************************************************************************)
(* Theorems about WriterCohorts, for any number of cohorts, grants and     *)
(* transitions.  Nothing is assumed of which edges the operator takes or   *)
(* of when a grant is signed, delivered or expires.                        *)
(***************************************************************************)

\* Each cohort has a control state and a generation, and a grant is for a cohort
\* and a store.
Shapes ==
  /\ DOMAIN control = Cohorts /\ DOMAIN generation = Cohorts
  /\ \A g \in grants : g.cohort \in Cohorts /\ g.store \in Sides

\* The inductive invariant.
CohortInv == Shapes /\ WritersUnderAuthority /\ ActiveGrantIsCurrent

-----------------------------------------------------------------------------

\* Nobody writes while a grant is awaited, and whoever was granted a store writes to it.
LEMMA Enabled ==
  ASSUME NEW store \in Sides
  PROVE  /\ ControlAuthority(EnabledFor(store)) = store
         /\ ControlAuthority(PendingFor(store)) = "none"
         /\ \A other \in Sides : PendingFor(store) # EnabledFor(other)
BY DEF Sides, EnabledFor, PendingFor, ControlAuthority

\* An edge of the traffic machine that takes a side's authority away, or the
\* admission to the source that comes before it, demands the side's fence.
LEMMA FencedBeforehand ==
  ASSUME NEW side \in Sides, NEW to \in States, <<record.state, to>> \in Edges,
         \/ Authority(record.state) = side
         \/ side = "source" /\ record.state = "source_resume_stream_armed",
         Authority(to) # side
  PROVE  (side = "source" /\ "source_fence" \in Receipts(record.state, to))
         \/ (side = "target" /\ "target_fence" \in Receipts(record.state, to))
<1> DEFINE from == record.state
<1>1. CASE side = "source"
  <2>1. from \in SourceHolds \cup {"source_resume_stream_armed"}
    BY <1>1 DEF Authority
  <2>2. to \in {"freezing_source", "authority_conflict_frozen"}
    BY <1>1, <2>1 DEF Edges, Authority, SourceHolds, TargetHolds, Conflictable
  <2>3. "source_fence" \in Receipts(from, to)
    BY <2>2 DEF Receipts
  <2> QED BY <1>1, <2>3
<1>2. CASE side = "target"
  <2>1. from \in TargetHolds
    BY <1>2 DEF Authority
  <2>2. to \in {"rollback_draining", "authority_conflict_frozen"}
    BY <1>2, <2>1 DEF Edges, Authority, SourceHolds, TargetHolds, Conflictable
  <2>3. "target_fence" \in Receipts(from, to)
    BY <2>2 DEF Receipts
  <2> QED BY <1>2, <2>3
<1> QED BY <1>1, <1>2 DEF Sides

\* Writers stay where the record lets them while the traffic machine moves.
LEMMA MoveTrafficKeeps ==
  ASSUME CohortInv, NEW to \in States, MoveTraffic(to)
  PROVE  CohortInv'
<1>1. UNCHANGED cohortVars /\ <<record.state, to>> \in Edges /\ record'.state = to
  BY DEF MoveTraffic, Apply, SchemaValid, EnvelopeFor
<1>2. Shapes' /\ ActiveGrantIsCurrent'
  BY <1>1 DEF CohortInv, Shapes, ActiveGrantIsCurrent, cohortVars
<1>3. ASSUME NEW side \in Sides, Writing(side)' # {}
      PROVE  \/ Authority(record'.state) = side
             \/ side = "source" /\ record'.state = "source_resume_stream_armed"
  <2>1. Writing(side) # {}
    BY <1>1, <1>3 DEF Writing, cohortVars
  <2>2. \/ Authority(record.state) = side
        \/ side = "source" /\ record.state = "source_resume_stream_armed"
    BY <2>1 DEF CohortInv, WritersUnderAuthority
  <2>3. CASE Authority(to) # side
    <3>1. PICK kind \in Receipts(record.state, to) :
            kind = (IF side = "source" THEN "source_fence" ELSE "target_fence")
      BY <1>1, <2>2, <2>3, FencedBeforehand DEF Sides
    <3>2. ReceiptHeld(kind)
      BY <3>1 DEF MoveTraffic
    <3> QED BY <3>1, <3>2, <2>1 DEF ReceiptHeld, Sides
  <2> QED BY <2>3, <1>1
<1> QED BY <1>2, <1>3 DEF CohortInv, WritersUnderAuthority

\* A cohort moves to a state in which it does not write, and its active grants,
\* which there are only where it writes, are gone.
LEMMA MoveControlKeeps ==
  ASSUME CohortInv, NEW c \in Cohorts, NEW to, MoveControl(c, to),
         ControlAuthority(to) = "none", UNCHANGED vars, UNCHANGED generation,
         \A g \in grants' : g \in grants \/ g.state # "active",
         \A g \in grants' : g.cohort \in Cohorts /\ g.store \in Sides,
         \A g \in grants' : g.cohort = c => g.state # "active"
  PROVE  CohortInv'
<1>1. /\ DOMAIN control' = Cohorts
      /\ control'[c] = to
      /\ \A d \in Cohorts \ {c} : control'[d] = control[d]
  BY DEF MoveControl, CohortInv, Shapes
<1>2. Shapes'
  BY <1>1 DEF Shapes, CohortInv
<1>3. \A side \in Sides : Writing(side)' \subseteq Writing(side)
  BY <1>1 DEF Writing, Sides
<1>4. record' = record
  BY DEF vars
<1>5. WritersUnderAuthority'
  BY <1>3, <1>4 DEF CohortInv, WritersUnderAuthority
<1>6. ActiveGrantIsCurrent'
  BY <1>1 DEF CohortInv, ActiveGrantIsCurrent, Shapes
<1> QED BY <1>2, <1>5, <1>6 DEF CohortInv

\* No active grant belongs to a cohort that does not write.
LEMMA SilentHasNone ==
  ASSUME CohortInv, NEW c \in Cohorts, ControlAuthority(control[c]) = "none"
  PROVE  \A g \in grants : g.cohort = c => g.state # "active"
<1> SUFFICES ASSUME NEW g \in grants, g.cohort = c, g.state = "active" PROVE FALSE
  OBVIOUS
<1>1. control[c] = EnabledFor(g.store) /\ g.store \in Sides
  BY DEF CohortInv, ActiveGrantIsCurrent, Shapes
<1>2. ControlAuthority(control[c]) = g.store
  BY <1>1, Enabled
<1> QED BY <1>1, <1>2 DEF Sides

LEMMA CohortStepKeeps ==
  ASSUME CohortInv, NEW c \in Cohorts, CohortStep(c)
  PROVE  CohortInv'
<1>0. \A g \in grants : g.cohort \in Cohorts /\ g.store \in Sides
  BY DEF CohortInv, Shapes
<1>1. CASE Freeze(c)
  <2>1. ControlAuthority("freezing") = "none"
    BY DEF ControlAuthority
  <2> QED BY <1>0, <1>1, <2>1, MoveControlKeeps DEF Freeze, GrantsOf
<1>2. CASE Revoke(c)
  <2>1. ControlAuthority("revoking") = "none"
    BY DEF ControlAuthority
  <2> QED BY <1>0, <1>2, <2>1, MoveControlKeeps DEF Revoke, GrantsOf
<1>3. CASE Fence(c)
  <2>1. control[c] = "freezing"
    BY <1>3 DEF Fence, MoveControl, ControlEdges
  <2>2. ControlAuthority("freezing") = "none" /\ ControlAuthority("fenced") = "none"
    BY DEF ControlAuthority
  <2>3. \A g \in grants : g.cohort = c => g.state # "active"
    BY <2>1, <2>2, SilentHasNone
  <2> QED BY <1>0, <1>3, <2>2, <2>3, MoveControlKeeps DEF Fence
<1>4. CASE FenceTarget(c)
  <2>1. control[c] = "revoking"
    BY <1>4 DEF FenceTarget, MoveControl, ControlEdges
  <2>2. ControlAuthority("revoking") = "none" /\ ControlAuthority("target_fenced") = "none"
    BY DEF ControlAuthority
  <2>3. \A g \in grants : g.cohort = c => g.state # "active"
    BY <2>1, <2>2, SilentHasNone
  <2> QED BY <1>0, <1>4, <2>2, <2>3, MoveControlKeeps DEF FenceTarget
<1>5. ASSUME NEW to \in {"tombstoned", "blocked"}, Retire(c, to) PROVE CohortInv'
  <2>1. ControlAuthority(to) = "none"
    BY DEF ControlAuthority
  <2> QED BY <1>0, <1>5, <2>1, MoveControlKeeps DEF Retire, GrantsOf
<1>6. ASSUME NEW store \in Sides, RequestGrant(c, store) PROVE CohortInv'
  <2> DEFINE asked == [cohort |-> c, store |-> store, epoch |-> record.epoch,
                       generation |-> generation[c] + 1, state |-> "reserved"]
  <2>1. /\ grants' = grants \cup {asked} /\ UNCHANGED vars /\ UNCHANGED generation
        /\ asked.cohort \in Cohorts /\ asked.store \in Sides /\ asked.state # "active"
    BY <1>6 DEF RequestGrant
  <2>2. CASE UNCHANGED control
    <3>1. Shapes'
      BY <1>0, <2>1, <2>2 DEF CohortInv, Shapes
    <3>2. WritersUnderAuthority'
      BY <2>1, <2>2 DEF CohortInv, WritersUnderAuthority, Writing, vars
    <3>3. ActiveGrantIsCurrent'
      BY <2>1, <2>2 DEF CohortInv, ActiveGrantIsCurrent
    <3> QED BY <3>1, <3>2, <3>3 DEF CohortInv
  <2>3. CASE MoveControl(c, PendingFor(store))
    <3>1. ControlAuthority(control[c]) = "none"
      BY <2>3 DEF MoveControl, ControlEdges, PendingFor, ControlAuthority, Sides
    <3>2. \A g \in grants : g.cohort = c => g.state # "active"
      BY <3>1, SilentHasNone
    <3>3. ControlAuthority(PendingFor(store)) = "none"
      BY Enabled
    <3> QED BY <1>0, <2>1, <2>3, <3>2, <3>3, MoveControlKeeps
  <2> QED BY <1>6, <2>2, <2>3 DEF RequestGrant
<1> QED BY <1>1, <1>2, <1>3, <1>4, <1>5, <1>6 DEF CohortStep

\* A delivered grant: its store is one the record lets the cohort write to, and
\* its cohort had no other active one.
LEMMA ActivateKeeps ==
  ASSUME CohortInv, NEW g \in grants, Activate(g)
  PROVE  CohortInv'
<1> DEFINE c == g.cohort
           active == [g EXCEPT !.state = "active"]
<1>1. c \in Cohorts /\ g.store \in Sides /\ DOMAIN control = Cohorts
  BY DEF CohortInv, Shapes
<1>2. /\ control[c] = PendingFor(g.store) /\ UNCHANGED vars
      /\ control' = [control EXCEPT ![c] = EnabledFor(g.store)]
      /\ generation' = [generation EXCEPT ![c] = g.generation]
      /\ grants' = (grants \ {g}) \cup {active}
      /\ ProviderGate(g.store)
  BY DEF Activate, MoveControl
<1>3. /\ DOMAIN control' = Cohorts /\ DOMAIN generation' = Cohorts
      /\ control'[c] = EnabledFor(g.store) /\ generation'[c] = g.generation
      /\ \A d \in Cohorts \ {c} : control'[d] = control[d] /\ generation'[d] = generation[d]
  BY <1>1, <1>2 DEF CohortInv, Shapes
<1>4. active.cohort = c /\ active.store = g.store /\ active.generation = g.generation
  BY <1>2 DEF Activate
<1>5. Shapes'
  BY <1>1, <1>2, <1>3, <1>4 DEF CohortInv, Shapes
<1>6. WritersUnderAuthority'
  <2>1. record' = record
    BY <1>2 DEF vars
  <2>2. ASSUME NEW side \in Sides, side # g.store, Writing(side)' # {} PROVE Writing(side) # {}
    BY <1>1, <1>3, <2>2, Enabled DEF Writing
  <2>3. \/ Authority(record.state) = g.store
        \/ g.store = "source" /\ record.state = "source_resume_stream_armed"
    BY <1>2 DEF ProviderGate, WritesEnabled
  <2> QED BY <2>1, <2>2, <2>3 DEF CohortInv, WritersUnderAuthority
<1>7. ActiveGrantIsCurrent'
  <2>1. \A h \in grants : h.cohort = c => h.state # "active"
    <3>1. ControlAuthority(control[c]) = "none"
      BY <1>1, <1>2, Enabled
    <3> QED BY <1>1, <3>1, SilentHasNone
  <2>2. \A h \in grants' : h = active \/ (h \in grants /\ (h.state = "active" => h.cohort # c))
    BY <1>2, <2>1
  <2>3. ASSUME NEW h \in grants', h.state = "active"
        PROVE  h.generation = generation'[h.cohort] /\ control'[h.cohort] = EnabledFor(h.store)
    <3>1. CASE h = active
      BY <3>1, <1>3, <1>4
    <3>2. CASE h # active
      <4>1. h \in grants /\ h.cohort \in Cohorts \ {c}
        BY <2>2, <2>3, <3>2 DEF CohortInv, Shapes
      <4> QED BY <4>1, <2>3, <1>3 DEF CohortInv, ActiveGrantIsCurrent
    <3> QED BY <3>1, <3>2
  <2>4. ASSUME NEW h \in grants', NEW k \in grants', h.state = "active", k.state = "active",
               h.cohort = k.cohort
        PROVE  h = k
    BY <2>2, <2>4, <1>4 DEF CohortInv, ActiveGrantIsCurrent
  <2> QED BY <2>3, <2>4 DEF ActiveGrantIsCurrent
<1> QED BY <1>5, <1>6, <1>7 DEF CohortInv

\* Grants that are signed or expire change no cohort and activate nothing.
LEMMA LedgerKeeps ==
  ASSUME CohortInv, NEW g \in grants, SignGrant(g) \/ Expire(g)
  PROVE  CohortInv'
<1>1. UNCHANGED <<vars, control, generation>>
  BY DEF SignGrant, Expire
<1>2. \A h \in grants' : h \in grants \/ (h.state # "active" /\ h.cohort = g.cohort /\ h.store = g.store)
  <2>1. CASE SignGrant(g)
    <3> DEFINE signed == [g EXCEPT !.state = "signed_dormant"]
    <3>1. grants' = (grants \ {g}) \cup {signed}
      BY <2>1 DEF SignGrant
    <3>2. signed.state = "signed_dormant" /\ signed.cohort = g.cohort /\ signed.store = g.store
      BY <2>1 DEF SignGrant
    <3> HIDE DEF signed
    <3> QED BY <3>1, <3>2
  <2>2. CASE Expire(g)
    BY <2>2 DEF Expire
  <2> QED BY <2>1, <2>2
<1>3. Shapes'
  BY <1>1, <1>2 DEF CohortInv, Shapes
<1>4. WritersUnderAuthority'
  BY <1>1 DEF CohortInv, WritersUnderAuthority, Writing, vars
<1>5. ActiveGrantIsCurrent'
  BY <1>1, <1>2 DEF CohortInv, ActiveGrantIsCurrent
<1> QED BY <1>3, <1>4, <1>5 DEF CohortInv

-----------------------------------------------------------------------------

LEMMA CohortInvInitially == CohortInit => CohortInv
<1> SUFFICES ASSUME CohortInit PROVE CohortInv
  OBVIOUS
<1>1. Shapes /\ ActiveGrantIsCurrent
  BY DEF CohortInit, Shapes, ActiveGrantIsCurrent
<1>2. WritersUnderAuthority
  <2>1. record.state = "source_primary" /\ control = [c \in Cohorts |-> "source_enabled"]
    BY DEF CohortInit, Init
  <2>2. Writing("target") = {}
    BY <2>1 DEF Writing, ControlAuthority
  <2>3. Authority(record.state) = "source"
    BY <2>1 DEF Authority, SourceHolds
  <2> QED BY <2>2, <2>3 DEF WritersUnderAuthority, Sides
<1> QED BY <1>1, <1>2 DEF CohortInv

LEMMA CohortInvStep == CohortInv /\ [CohortNext]_allVars => CohortInv'
<1> SUFFICES ASSUME CohortInv, [CohortNext]_allVars PROVE CohortInv'
  OBVIOUS
<1>1. ASSUME NEW to \in States, MoveTraffic(to) PROVE CohortInv'
  BY <1>1, MoveTrafficKeeps
<1>2. ASSUME NEW c \in Cohorts, CohortStep(c) PROVE CohortInv'
  BY <1>2, CohortStepKeeps
<1>3. ASSUME NEW g \in grants, Activate(g) PROVE CohortInv'
  BY <1>3, ActivateKeeps
<1>4. ASSUME NEW g \in grants, SignGrant(g) \/ Expire(g) PROVE CohortInv'
  BY <1>4, LedgerKeeps
<1>5. CASE UNCHANGED allVars
  BY <1>5 DEF CohortInv, Shapes, WritersUnderAuthority, ActiveGrantIsCurrent, Writing, allVars
<1> QED BY <1>1, <1>2, <1>3, <1>4, <1>5 DEF CohortNext

LEMMA CohortsInvariant == CohortSpec => []CohortInv
BY CohortInvInitially, CohortInvStep, PTL DEF CohortSpec

(***************************************************************************)
(* ADR-030, partial activation remains one-sided: for any number of        *)
(* cohorts moving one by one, nobody writes to a side the traffic record   *)
(* does not give authority to, and so nobody writes on both sides.         *)
(***************************************************************************)
THEOREM CohortsAgree == CohortSpec => []WritersUnderOneAuthority
<1>1. CohortInv => WritersUnderOneAuthority
  <2> SUFFICES ASSUME CohortInv, Writing("source") # {}, Writing("target") # {} PROVE FALSE
    BY DEF CohortInv, WritersUnderOneAuthority, OneSidedWriters
  <2>1. Authority(record.state) = "target"
    BY DEF CohortInv, WritersUnderAuthority, Sides
  <2>2. Authority(record.state) = "source" \/ record.state = "source_resume_stream_armed"
    BY DEF CohortInv, WritersUnderAuthority, Sides
  <2> QED BY <2>1, <2>2 DEF Authority, SourceHolds, TargetHolds
<1> QED BY <1>1, CohortsInvariant, PTL

(***************************************************************************)
(* However often grants are renewed and however late one is delivered, a   *)
(* cohort has at most one active grant, that of its generation, for the    *)
(* store it writes to.                                                     *)
(***************************************************************************)
THEOREM GrantsAreCurrent == CohortSpec => []ActiveGrantIsCurrent
<1>1. CohortInv => ActiveGrantIsCurrent
  BY DEF CohortInv
<1> QED BY <1>1, CohortsInvariant, PTL

=============================================================================
