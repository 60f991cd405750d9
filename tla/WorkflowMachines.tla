--------------------------- MODULE WorkflowMachines ---------------------------
(***************************************************************************)
(* The workflow machines of internal/contracts/codegen/core_contracts.py:  *)
(* states, edges, what an edge's envelope must say of the subject, and the *)
(* shapes the attempt and reversibility records may have in each state.    *)
(*                                                                         *)
(* What is said of a subject is a set of facts: a nullable field that is   *)
(* set, or a flag that is true.  Fields no constraint reads are left out.  *)
(***************************************************************************)
EXTENDS Naturals, Sequences

Machines ==
  {"migration", "decision", "consent", "artifact", "cell", "operation", "attempt", "reversibility"}

\* The machine's dimensions: a migration has a phase and an execution status.
Dimensions(m) ==
  IF m = "migration" THEN {"primary_phase", "execution_status"} ELSE {"state"}

Chain(states) == {<<states[i], states[i + 1]>> : i \in 1..(Len(states) - 1)}

MigrationPhaseEdges ==
  Chain(<<"connect", "discovery", "foundation", "provision", "snapshot", "census", "design",
          "rehearsal", "bulk_load", "sync", "verify", "cutover", "watch", "decommission",
          "complete">>)

MigrationExecutionEdges ==
  ({"running"} \X {"waiting_human", "blocked", "failed_recoverable", "failed_terminal",
                   "succeeded", "aborting", "rolling_back"})
  \cup ({"waiting_human"} \X {"running", "blocked", "aborting"})
  \cup ({"blocked"} \X {"running", "failed_terminal", "aborting"})
  \cup ({"failed_recoverable"} \X {"pending", "aborting"})
  \cup {<<"pending", "running">>, <<"aborting", "aborted">>, <<"rolling_back", "rolled_back">>}

DecisionEdges ==
  {<<"draft", "computing">>, <<"computing", "awaiting_human">>, <<"resolved", "superseded">>}
  \cup {<<"awaiting_human", "discussing">>, <<"discussing", "awaiting_human">>}
  \cup ({"awaiting_human", "discussing"} \X {"delegated", "resolved"})
  \cup {<<"delegated", "resolved">>}

\* Mutant: a typed consent is taken without the passkey challenge.
ConsentEdgesUnchallenged ==
  Chain(<<"closed", "ready", "challenge_issued", "pending_typed_consent", "consented",
          "executing", "executed">>)
  \cup {<<"ready", "pending_typed_consent">>}
  \cup ({"ready", "challenge_issued", "pending_typed_consent", "consented"} \X {"invalidated"})
  \cup ({"challenge_issued", "pending_typed_consent"} \X {"declined", "expired"})

ConsentEdges ==
  Chain(<<"closed", "ready", "challenge_issued", "pending_typed_consent", "consented",
          "executing", "executed">>)
  \cup ({"ready", "challenge_issued", "pending_typed_consent", "consented"} \X {"invalidated"})
  \cup ({"challenge_issued", "pending_typed_consent"} \X {"declined", "expired"})

ArtifactEdges ==
  Chain(<<"declared", "writing", "sealed", "verified", "retained", "deletion_pending", "deleted">>)
  \cup ({"writing", "sealed"} \X {"corrupt"})

CellEdges ==
  Chain(<<"planned", "provisioning", "bootstrapping", "ready", "active", "degraded",
          "restarting", "ready">>)
  \cup ({"provisioning", "bootstrapping", "ready", "restarting"} \X {"failed"})
  \cup ({"ready", "active", "degraded"} \X {"revoking"})
  \cup Chain(<<"revoking", "destroying", "destroyed">>)

OperationEdges ==
  Chain(<<"requested", "authorized", "leased", "running", "succeeded">>)
  \cup ({"requested", "authorized"} \X {"denied", "canceled"})
  \cup ({"running"} \X {"failed_retryable", "failed_terminal"})
  \cup {<<"leased", "lease_expired">>, <<"failed_retryable", "authorized">>}

AttemptEnds == {"succeeded", "failed_recoverable", "failed_terminal", "canceled"}
AttemptEdges ==
  Chain(<<"declared", "queued", "running", "waiting", "running">>)
  \cup ({"running"} \X AttemptEnds)

ReversibilityEdges ==
  Chain(<<"proposed", "open", "warning", "closed">>) \cup ({"open", "warning"} \X {"superseded"})

Edges(m, dimension) ==
  CASE m = "migration" /\ dimension = "primary_phase" -> MigrationPhaseEdges
    [] m = "migration" /\ dimension = "execution_status" -> MigrationExecutionEdges
    [] m = "decision" -> DecisionEdges
    [] m = "consent" -> ConsentEdges
    [] m = "artifact" -> ArtifactEdges
    [] m = "cell" -> CellEdges
    [] m = "operation" -> OperationEdges
    [] m = "attempt" -> AttemptEdges
    [] m = "reversibility" -> ReversibilityEdges

Start(m) ==
  [d \in Dimensions(m) |->
    CASE m = "migration" -> IF d = "primary_phase" THEN "connect" ELSE "pending"
      [] m = "decision" -> "draft"
      [] m = "consent" -> "closed"
      [] m = "artifact" -> "declared"
      [] m = "cell" -> "planned"
      [] m = "operation" -> "requested"
      [] m = "attempt" -> "declared"
      [] m = "reversibility" -> "proposed"]

-----------------------------------------------------------------------------
(* What an envelope must say.                                                *)

StartProof == {"start_readiness", "all_mandatory_connectors_proven", "start_transaction", "start_receipt"}
ConsentProof == {"challenge", "webauthn_assertion", "typed_phrase", "challenge_expiry"}

Classes ==
  {"free_until_cutover", "expensive_after_cutover", "closes_on_first_external_exposure",
   "closes_on_a_clock", "never_reversible"}

Facts(m) ==
  CASE m = "migration" -> StartProof \cup {"rehearsed_rollback"}
    [] m = "decision" -> {"answered", "computation_current", "unresolved_message",
                          "foundation_decision", "unknown_assumption"}
    [] m = "consent" -> ConsentProof
    [] m = "artifact" -> {"retain_until", "unreadable", "lifecycle_receipt"}
    [] m = "cell" -> {}
    [] m = "operation" -> {"lease", "terminal_receipt"}
    [] m = "attempt" -> {"started", "finished", "waits", "final", "retry", "later_ordinal"}
    [] m = "reversibility" -> Classes \cup
         {"closes_at", "cost", "viability_evidence", "exposure_subject", "warning_required",
          "closed_by", "superseded_by"}

Needs(m, to) ==
  CASE m = "migration" /\ to = "discovery" -> StartProof
    [] m = "migration" /\ to \in {"rolling_back", "rolled_back"} -> {"rehearsed_rollback"}
    [] m = "decision" /\ to = "resolved" -> {"answered"}
    [] m = "consent" /\ to \in {"consented", "executing", "executed"} -> ConsentProof
    [] m = "artifact" /\ to \in {"retained", "deletion_pending"} -> {"retain_until"}
    [] m = "artifact" /\ to = "deleted" -> {"lifecycle_receipt", "unreadable"}
    [] m = "operation" /\ to = "leased" -> {"lease"}
    [] m = "operation" /\ to \in {"succeeded", "failed_terminal", "denied", "canceled"} ->
         {"terminal_receipt"}
    [] OTHER -> {}

Excludes(m, to, facts) ==
  IF m = "decision" /\ to = "resolved"
    THEN {"computation_current", "unresolved_message"} \cup
         (IF "foundation_decision" \in facts THEN {"unknown_assumption"} ELSE {})
    ELSE {}

\* Whether the schema accepts an envelope that goes to a state on these facts.
Admits(m, to, facts, human) ==
  /\ Needs(m, to) \subseteq facts
  /\ Excludes(m, to, facts) \cap facts = {}
  /\ (m = "migration" /\ to = "discovery") => human

-----------------------------------------------------------------------------
(* The records of attempts and of reversibility.                             *)

AttemptValid(state, facts) ==
  /\ ("started" \in facts) = (state \notin {"declared", "queued"})
  /\ ("finished" \in facts) = (state \in AttemptEnds)
  /\ ("final" \in facts) = (state \in AttemptEnds)
  /\ ("waits" \in facts) = (state = "waiting")
  /\ "retry" \in facts => "later_ordinal" \in facts

ClassShape(facts) ==
  \E class \in Classes :
    /\ facts \cap Classes = {class}
    /\ "warning_required" \in facts
    /\ ("closes_at" \in facts) = (class = "closes_on_a_clock")
    /\ ("cost" \in facts) = (class = "expensive_after_cutover")
    /\ class = "expensive_after_cutover" => "viability_evidence" \in facts
    /\ ("exposure_subject" \in facts) = (class = "closes_on_first_external_exposure")

ReversibilityValid(state, facts) ==
  /\ ClassShape(facts)
  /\ state = "closed" => "closed_by" \in facts /\ "superseded_by" \notin facts
  /\ state = "superseded" => "superseded_by" \in facts
  /\ state \notin {"closed", "superseded"} => facts \cap {"closed_by", "superseded_by"} = {}

RecordValid(m, state, facts) ==
  CASE m = "attempt" -> AttemptValid(state, facts)
    [] m = "reversibility" -> ReversibilityValid(state, facts)
    [] OTHER -> TRUE

\* What operations other than transitions change on a subject, and what, once set, stays.
Noted(m) ==
  CASE m = "decision" -> Facts(m) \ {"foundation_decision"}
    [] m = "reversibility" -> {"viability_evidence"}
    [] m = "attempt" -> {}
    [] OTHER -> Facts(m)
WriteOnce == {"start_receipt", "unreadable", "lifecycle_receipt", "terminal_receipt"}

\* What a new subject may say of itself.
FirstFacts(m) ==
  CASE m = "decision" -> {{"computation_current"}, {"computation_current", "foundation_decision"}}
    [] m = "attempt" -> {{}, {"later_ordinal"}, {"retry", "later_ordinal"}}
    [] m = "reversibility" -> {facts \in SUBSET Facts(m) : ReversibilityValid("proposed", facts)}
    [] OTHER -> {{}}

\* The facts a transition may leave: it fills the timing and the result of an attempt and
\* the closure of a reversibility record, and nothing that was filled is emptied.
Filled == {"started", "finished", "final", "waits", "closed_by", "superseded_by"}
Continuations(m, to, facts) ==
  IF m \in {"attempt", "reversibility"}
    THEN {after \in {(facts \ {"waits"}) \cup new : new \in SUBSET (Filled \cap Facts(m))} :
            RecordValid(m, to, after)}
    ELSE {facts}
=============================================================================
