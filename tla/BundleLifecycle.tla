--------------------------- MODULE BundleLifecycle ---------------------------
(***************************************************************************)
(* The append-only lifecycle of an agent bundle.  A recorder reads the     *)
(* state of the bundle, prepares a transition and appends it later; the    *)
(* document names the state it leaves and the schema fixes, by edge, the   *)
(* class of evidence and the environment.  from_state is the only thing in *)
(* it that a stale transition could be told by.                            *)
(***************************************************************************)
EXTENDS Naturals, Sequences

CONSTANTS Recorders

VARIABLES
  chain,      \* the transitions recorded: [edge, after]
  prepared    \* recorder -> the transition it holds, with the length of the chain it read

lifecycleVars == <<chain, prepared>>

Quality == "isolated-quality"
Edge(from, to, evidence, environment) ==
  [from |-> from, to |-> to, evidence |-> evidence, environment |-> environment]
Advances ==
  {Edge("registered", "offline_qualified", "qualification", Quality),
   Edge("offline_qualified", "boundary_shadow", "boundary_fixture", Quality),
   Edge("boundary_shadow", "boundary_shadow_receipted", "boundary_fixture", Quality),
   Edge("boundary_shadow_receipted", "boundary_canary", "boundary_fixture", Quality),
   Edge("boundary_canary", "release_eligible", "boundary_fixture", Quality),
   Edge("release_eligible", "staging_authorized", "release", "staging"),
   Edge("staging_authorized", "production_authorized", "release", "production")}
Boundary == {"boundary_shadow", "boundary_shadow_receipted", "boundary_canary"}
RollBacks ==
  {Edge(s, "boundary_rolled_back", "boundary_fixture", Quality) :
     s \in Boundary \cup {"release_eligible"}}
Staged == {"release_eligible", "staging_authorized"}
Blocks ==
  {Edge("offline_qualified", "blocked", "qualification", Quality)}
    \cup {Edge(s, "blocked", "boundary_fixture", Quality) : s \in {"boundary_shadow", "boundary_canary"}}
    \cup {Edge(s, "blocked", "release", "staging") : s \in Staged}
Supersessions ==
  {Edge("offline_qualified", "superseded", "qualification", Quality),
   Edge("production_authorized", "superseded", "release", "production")}
    \cup {Edge(s, "superseded", "release", "staging") : s \in Staged}
\* Mutant: a rolled back bundle may be tried again.
EdgesWithRetry ==
  Advances \cup RollBacks \cup Blocks \cup Supersessions
    \cup {Edge("boundary_rolled_back", "boundary_shadow", "boundary_fixture", Quality)}
\* Mutant: an eligible bundle may go to production.
EdgesWithShortcut ==
  Advances \cup RollBacks \cup Blocks \cup Supersessions
    \cup {Edge("release_eligible", "production_authorized", "release", "production")}
Edges == Advances \cup RollBacks \cup Blocks \cup Supersessions

StateAfter(c) == IF c = <<>> THEN "registered" ELSE c[Len(c)].edge.to
Idle == [held |-> FALSE]

LifecycleInit == chain = <<>> /\ prepared = [r \in Recorders |-> Idle]

PrepareTransition(r, e) ==
  /\ ~prepared[r].held /\ e.from = StateAfter(chain)
  /\ prepared' = [prepared EXCEPT ![r] = [held |-> TRUE, edge |-> e, after |-> Len(chain)]]
  /\ UNCHANGED chain

\* What is appended leaves the state the chain ends in; anything else is refused.
RecordTransition(r) ==
  /\ prepared[r].held
  /\ prepared' = [prepared EXCEPT ![r] = Idle]
  /\ chain' = IF prepared[r].edge.from # StateAfter(chain) THEN chain
              ELSE Append(chain, [edge |-> prepared[r].edge, after |-> prepared[r].after])

LifecycleNext ==
  \E r \in Recorders : RecordTransition(r) \/ \E e \in Edges : PrepareTransition(r, e)
LifecycleSpec == LifecycleInit /\ [][LifecycleNext]_lifecycleVars

(* Naming the state a transition leaves is enough against races: no other        *)
(* transition was recorded between the reading and the recording of one, since   *)
(* no state is entered twice (the lifecycle edges).                              *)
NoStaleTransition == \A i \in DOMAIN chain : chain[i].after = i - 1

(* A bundle in production was in staging, and through shadow, receipt and canary  *)
(* before it was eligible, whatever was recorded by whom; and evidence of a       *)
(* fixture never follows evidence of a release.                                   *)
EarnedInOrder ==
  LET Entered(s) == {i \in DOMAIN chain : chain[i].edge.to = s}
      Before(s, t) == \A j \in Entered(t) : \E i \in Entered(s) : i < j
      Evidence(i) == chain[i].edge.evidence
  IN  /\ Before("boundary_shadow", "boundary_shadow_receipted")
      /\ Before("boundary_shadow_receipted", "boundary_canary")
      /\ Before("boundary_canary", "release_eligible")
      /\ Before("release_eligible", "staging_authorized")
      /\ Before("staging_authorized", "production_authorized")
      /\ \A i, j \in DOMAIN chain : i < j /\ Evidence(i) = "release" => Evidence(j) = "release"
=============================================================================
