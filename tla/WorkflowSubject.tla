---------------------------- MODULE WorkflowSubject ----------------------------
(***************************************************************************)
(* A subject of one workflow machine under transition envelopes: an        *)
(* envelope is composed from a read of the subject and may be delivered    *)
(* after other envelopes and other operations have changed it, twice, or   *)
(* never.                                                                  *)
(***************************************************************************)
EXTENDS WorkflowMachines, FiniteSets

CONSTANTS
  MachinesChecked,  \* the machines a subject may have
  MaxVersion,       \* bound: machine -> changes of one subject
  MaxPending,       \* bound: envelopes on their way
  MaxNotes          \* bound: changes by operations other than transitions

ASSUME SubjectAssumption ==
  /\ MachinesChecked \subseteq Machines
  /\ MaxVersion \in [Machines -> Nat] /\ MaxPending \in Nat /\ MaxNotes \in Nat

VARIABLES
  machine,
  state,      \* dimension -> state
  facts,      \* what holds of the subject, or its record fields that are set
  recordVersion,
  pending,    \* envelopes on their way
  entered,    \* the states it has been in
  noteCount

subjectVars == <<machine, state, facts, recordVersion, pending, entered, noteCount>>

SubjectInit ==
  /\ machine \in MachinesChecked
  /\ state = Start(machine)
  /\ facts \in FirstFacts(machine)
  /\ recordVersion = 0
  /\ pending = {}
  /\ entered = {Start(machine)[d] : d \in Dimensions(machine)}
  /\ noteCount = 0

\* An envelope for an edge from where the subject is now.
Compose(d, to, human) ==
  /\ Cardinality(pending) < MaxPending
  /\ <<state[d], to>> \in Edges(machine, d)
  /\ Admits(machine, to, facts, human)
  /\ pending' = pending \cup
       {[dimension |-> d, from |-> state[d], to |-> to, version |-> recordVersion]}
  /\ UNCHANGED <<machine, state, facts, recordVersion, entered, noteCount>>

\* Mutant: the envelope is matched with the subject's state alone.
CurrentByState(e) == e.from = state[e.dimension]

\* The envelope was composed from the subject as it is.
Current(e) == e.from = state[e.dimension] /\ e.version = recordVersion

Deliver(e, again) ==
  /\ pending' = IF again THEN pending ELSE pending \ {e}
  /\ IF Current(e) /\ recordVersion < MaxVersion[machine]
       THEN /\ state' = [state EXCEPT ![e.dimension] = e.to]
            /\ facts' \in Continuations(machine, e.to, facts)
            /\ recordVersion' = recordVersion + 1
            /\ entered' = entered \cup {e.to}
       ELSE UNCHANGED <<state, facts, recordVersion, entered>>
  /\ UNCHANGED <<machine, noteCount>>

Lose(e) ==
  /\ pending' = pending \ {e}
  /\ UNCHANGED <<machine, state, facts, recordVersion, entered, noteCount>>

\* Another operation changes what holds of the subject.
Note(after) ==
  /\ noteCount < MaxNotes /\ recordVersion < MaxVersion[machine]
  /\ after # facts /\ WriteOnce \cap facts \subseteq after
  /\ \A d \in Dimensions(machine) : RecordValid(machine, state[d], after)
  /\ facts' = after
  /\ recordVersion' = recordVersion + 1
  /\ noteCount' = noteCount + 1
  /\ UNCHANGED <<machine, state, pending, entered>>

SubjectNext ==
  \/ \E d \in Dimensions(machine) : \E edge \in Edges(machine, d), human \in BOOLEAN :
       Compose(d, edge[2], human)
  \/ \E e \in pending : Lose(e) \/ \E again \in BOOLEAN : Deliver(e, again)
  \/ \E noted \in SUBSET Noted(machine) : Note((facts \ Noted(machine)) \cup noted)

SubjectSpec == SubjectInit /\ [][SubjectNext]_subjectVars

-----------------------------------------------------------------------------

\* A transition takes effect on what its envelope states, however late it comes: a card is
\* not resolved under a message that came meanwhile, nor an operation leased without lease
\* (the constraints of each machine's schema, held to the subject by expected_version).
FactsHold ==
  [][\A d \in Dimensions(machine) : state'[d] # state[d] =>
       \E human \in BOOLEAN : Admits(machine, state'[d], facts, human)]_subjectVars

\* What a subject must have been through in a state, and what it cannot have been through.
Through(s) ==
  CASE s \in {"executing", "executed"} /\ machine = "consent" ->
         {"ready", "challenge_issued", "pending_typed_consent", "consented"}
    [] s = "aborted" -> {"aborting"}
    [] s = "rolled_back" -> {"running", "rolling_back"}
    [] s = "deleted" -> {"sealed", "verified", "retained", "deletion_pending"}
    [] s = "destroyed" -> {"bootstrapping", "ready", "revoking"}
    [] s = "superseded" /\ machine = "decision" -> {"computing", "awaiting_human", "resolved"}
    [] s = "closed" /\ machine = "reversibility" -> {"open", "warning"}
    [] s \in AttemptEnds /\ machine = "attempt" -> {"queued", "running"}
    [] s = "succeeded" /\ machine = "operation" -> {"authorized", "leased", "running"}
    [] OTHER -> {}
Barred(s) ==
  CASE s \in {"executing", "executed"} -> {"declined", "expired", "invalidated"}
    [] s \in {"retained", "deleted"} -> {"corrupt"}
    [] s = "succeeded" /\ machine = "operation" ->
         {"denied", "canceled", "lease_expired", "failed_terminal"}
    [] s = "destroyed" -> {"failed"}
    [] s \in {"succeeded", "aborted", "rolled_back"} /\ machine = "migration" -> {"failed_terminal"}
    [] OTHER -> {}

\* No path leads around a step that gives a state its meaning: consent is executed only
\* after challenge, typed phrase and consent and never after an expiry, an artifact is
\* deleted only after it was verified and retained, and so on for each edge table.
NothingSkipped ==
  \A d \in Dimensions(machine) :
    Through(state[d]) \subseteq entered /\ Barred(state[d]) \cap entered = {}

=============================================================================
