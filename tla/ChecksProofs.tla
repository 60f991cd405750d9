---------------------------- MODULE ChecksProofs ----------------------------
(***************************************************************************)
(* Theorems about what the repository's checks may be believed for: a      *)
(* passing clean-clone report, the verdict of a gate, an accepted          *)
(* dependency receipt, a dependency review and the report of the           *)
(* architecture check.                                                     *)
(***************************************************************************)
EXTENDS CleanClone, GateRuns, AppliedReceipts, DependencyReview, Architecture,
        SequenceTheorems, FiniteSetTheorems, WellFoundedInduction, TLAPS

-----------------------------------------------------------------------------

(***************************************************************************)
(* Proof that a passing report of a clean-clone rehearsal is evidence of   *)
(* what it says, for any number of rehearsals, commits, checkouts and      *)
(* upgrades.  What a rehearsal read from git is stale at once; the proof   *)
(* shows that the two comparisons, of the clone's HEAD and of the copies'  *)
(* hashes, are what makes the report true of what was tested.              *)
(***************************************************************************)

Points ==
  {"status", "branch", "head", "tools", "clone", "copy", "accept", "create", "write", "done", "failed"}
Record == [at : Points, commit : Nat, hash : Nat, clone : Nat, copy : Nat, passed : BOOLEAN]

Typed ==
  /\ main \in Nat /\ head \in Nat /\ tool \in Nat /\ changes \in Nat
  /\ rehearsal \in [Rehearsals -> Record]

\* What a rehearsal that is in state x has established.
Established(x) ==
  /\ x.at \in {"copy", "accept", "create", "write"} => x.clone = x.commit /\ x.commit \in mains
  /\ x.at \in {"accept", "create", "write"} => x.copy = x.hash
  /\ x.at \in {"create", "write"} /\ x.passed = TRUE =>
       [commit |-> x.clone, copy |-> x.copy] \in tested

\* The inductive invariant.
CloneInv ==
  /\ Typed
  /\ main \in mains
  /\ \A r \in Rehearsals : Established(rehearsal[r])
  /\ EvidenceIsTrue

-----------------------------------------------------------------------------

\* A commit, a checkout or an upgrade takes nothing back that was established.
LEMMA ChangesKeep ==
  ASSUME CloneInv,
         EditWorktree \/ UpgradeTool \/ Commit \/ \E b \in {"main", "other"} : Checkout(b)
  PROVE  CloneInv'
<1>1. UNCHANGED <<rehearsal, report, tested>> /\ changes' = changes + 1
  BY DEF EditWorktree, UpgradeTool, Commit, Checkout, Change
<1>2. mains \subseteq mains' /\ main' \in mains'
  BY DEF EditWorktree, UpgradeTool, Commit, Checkout, Change, CloneInv
<1>3. main' \in Nat /\ head' \in Nat /\ tool' \in Nat
  BY DEF EditWorktree, UpgradeTool, Commit, Checkout, Change, CloneInv, Typed
<1>4. Typed'
  BY <1>1, <1>3 DEF CloneInv, Typed
<1>5. \A r \in Rehearsals : Established(rehearsal[r])'
  BY <1>1, <1>2 DEF CloneInv, Established
<1>6. EvidenceIsTrue'
  BY <1>1, <1>2 DEF CloneInv, EvidenceIsTrue
<1> QED BY <1>2, <1>4, <1>5, <1>6 DEF CloneInv

\* A step of a rehearsal to a state that is established leaves the others as they are.
LEMMA RehearsalKeeps ==
  ASSUME CloneInv, NEW r \in Rehearsals, NEW next \in Record,
         To(r, next), Established(next)', EvidenceIsTrue',
         UNCHANGED <<main, head, tool, changes, mains>>, tested \subseteq tested'
  PROVE  CloneInv'
<1>1. rehearsal' = [rehearsal EXCEPT ![r] = next]
  BY DEF To
<1>2. Typed'
  BY <1>1 DEF CloneInv, Typed
<1>3. ASSUME NEW q \in Rehearsals PROVE Established(rehearsal[q])'
  <2>1. CASE q = r
    <3>1. rehearsal'[q] = next
      BY <1>1, <2>1 DEF CloneInv, Typed
    <3> QED BY <3>1 DEF Established
  <2>2. CASE q # r
    <3>1. rehearsal'[q] = rehearsal[q]
      BY <1>1, <2>2 DEF CloneInv, Typed
    <3> QED BY <3>1 DEF CloneInv, Established
  <2> QED BY <2>1, <2>2
<1> QED BY <1>2, <1>3 DEF CloneInv

\* A rehearsal that fails has nothing to establish any more.
LEMMA RaiseKeeps ==
  ASSUME CloneInv, NEW r \in Rehearsals, Raise(r), EvidenceIsTrue',
         UNCHANGED <<main, head, tool, changes, mains, tested>>
  PROVE  CloneInv'
<1>1. PICK next \in Record : next = [rehearsal[r] EXCEPT !.at = "failed"]
  BY DEF CloneInv, Typed, Record, Points
<1>2. next.at = "failed"
  BY <1>1 DEF CloneInv, Typed, Record, Points
<1>3. Established(next)'
  BY <1>2 DEF Established
<1>4. To(r, next)
  BY <1>1 DEF Raise
<1> QED BY <1>3, <1>4, RehearsalKeeps

-----------------------------------------------------------------------------

\* The steps that only read: git's answers and the tools.
LEMMA QuestionsKeep ==
  ASSUME CloneInv, NEW r \in Rehearsals,
         Status(r) \/ Branch(r) \/ ReadHead(r) \/ ResolveTools(r)
  PROVE  CloneInv'
<1> DEFINE x == rehearsal[r]
<1>1. x \in Record /\ head \in Nat /\ tool \in Nat
  BY DEF CloneInv, Typed
<1>2. Unmoved
  BY DEF Status, Branch, ReadHead, ResolveTools
<1>3. EvidenceIsTrue'
  BY <1>2 DEF Unmoved, CloneInv, EvidenceIsTrue
<1>4. UNCHANGED <<main, head, tool, changes, mains, tested>>
  BY <1>2 DEF Unmoved
<1>5. ASSUME NEW next \in Record, To(r, next), next.at \in {"branch", "head", "tools", "clone"}
      PROVE  CloneInv'
  <2>1. Established(next)'
    BY <1>5 DEF Established
  <2> QED BY <1>3, <1>4, <1>5, <2>1, RehearsalKeeps
<1>6. CASE Raise(r)
  BY <1>3, <1>4, <1>6, RaiseKeeps
<1>7. ASSUME NEW at \in {"branch", "head"}, To(r, [x EXCEPT !.at = at]) PROVE CloneInv'
  <2>1. PICK next \in Record : next = [x EXCEPT !.at = at]
    BY <1>1 DEF Record, Points
  <2>2. next.at = at
    BY <1>1, <2>1 DEF Record, Points
  <2> QED BY <1>5, <1>7, <2>1, <2>2
<1>8. CASE To(r, [x EXCEPT !.at = "tools", !.commit = head])
  <2>1. PICK next \in Record : next = [x EXCEPT !.at = "tools", !.commit = head]
    BY <1>1 DEF Record, Points
  <2>2. next.at = "tools"
    BY <1>1, <2>1 DEF Record, Points
  <2> QED BY <1>5, <1>8, <2>1, <2>2
<1>9. CASE To(r, [x EXCEPT !.at = "clone", !.hash = tool])
  <2>1. PICK next \in Record : next = [x EXCEPT !.at = "clone", !.hash = tool]
    BY <1>1 DEF Record, Points
  <2>2. next.at = "clone"
    BY <1>1, <2>1 DEF Record, Points
  <2> QED BY <1>5, <1>9, <2>1, <2>2
<1> QED BY <1>6, <1>7, <1>8, <1>9 DEF Status, Branch, ReadHead, ResolveTools

\* The clone is of the commit that was read, and main was there when it was made.
LEMMA CloneKeeps ==
  ASSUME CloneInv, NEW r \in Rehearsals, Clone(r) PROVE CloneInv'
<1> DEFINE x == rehearsal[r]
<1>1. x \in Record /\ main \in Nat /\ main \in mains
  BY DEF CloneInv, Typed
<1>2. Unmoved
  BY DEF Clone
<1>3. EvidenceIsTrue'
  BY <1>2 DEF Unmoved, CloneInv, EvidenceIsTrue
<1>4. UNCHANGED <<main, head, tool, changes, mains, tested>>
  BY <1>2 DEF Unmoved
<1>5. CASE main = x.commit /\ To(r, [x EXCEPT !.at = "copy", !.clone = main])
  <2>1. PICK next \in Record : next = [x EXCEPT !.at = "copy", !.clone = main]
    BY <1>1 DEF Record, Points
  <2>2. next.at = "copy" /\ next.clone = main /\ next.commit = x.commit
    BY <1>1, <2>1 DEF Record, Points
  <2>3. Established(next)'
    BY <1>1, <1>4, <1>5, <2>2 DEF Established
  <2> QED BY <1>3, <1>4, <1>5, <2>1, <2>3, RehearsalKeeps
<1>6. CASE Raise(r)
  BY <1>3, <1>4, <1>6, RaiseKeeps
<1> QED BY <1>5, <1>6 DEF Clone

\* The copies are of the tools whose hash was taken.
LEMMA CopyKeeps ==
  ASSUME CloneInv, NEW r \in Rehearsals, CopyTools(r) PROVE CloneInv'
<1> DEFINE x == rehearsal[r]
<1>1. x \in Record /\ tool \in Nat /\ Established(x) /\ x.at = "copy"
  BY DEF CloneInv, Typed, CopyTools
<1>2. Unmoved
  BY DEF CopyTools
<1>3. EvidenceIsTrue'
  BY <1>2 DEF Unmoved, CloneInv, EvidenceIsTrue
<1>4. UNCHANGED <<main, head, tool, changes, mains, tested>>
  BY <1>2 DEF Unmoved
<1>5. CASE tool = x.hash /\ To(r, [x EXCEPT !.at = "accept", !.copy = tool])
  <2>1. PICK next \in Record : next = [x EXCEPT !.at = "accept", !.copy = tool]
    BY <1>1 DEF Record, Points
  <2>2. /\ next.at = "accept" /\ next.copy = tool /\ next.hash = x.hash
        /\ next.clone = x.clone /\ next.commit = x.commit
    BY <1>1, <2>1 DEF Record, Points
  <2>3. Established(next)'
    BY <1>1, <1>4, <1>5, <2>2 DEF Established
  <2> QED BY <1>3, <1>4, <1>5, <2>1, <2>3, RehearsalKeeps
<1>6. CASE Raise(r)
  BY <1>3, <1>4, <1>6, RaiseKeeps
<1> QED BY <1>5, <1>6 DEF CopyTools

\* What acceptance passed on is what was cloned and copied.
LEMMA AcceptKeeps ==
  ASSUME CloneInv, NEW r \in Rehearsals, Accept(r) PROVE CloneInv'
<1> DEFINE x == rehearsal[r]
<1>1. x \in Record /\ Established(x) /\ x.at = "accept"
  BY DEF CloneInv, Typed, Accept
<1>2. PICK passed \in {FALSE} \cup {x.clone \in Accepted} :
        /\ To(r, [x EXCEPT !.at = "create", !.passed = passed]) \/ Raise(r)
        /\ tested' = IF passed THEN tested \cup {[commit |-> x.clone, copy |-> x.copy]}
                     ELSE tested
  BY Zenon DEF Accept
<1>3. UNCHANGED <<main, head, tool, changes, mains, report>>
  BY DEF Accept
<1>4. tested \subseteq tested' /\ passed \in BOOLEAN
  <2>1. passed = FALSE \/ passed = (x.clone \in Accepted)
    BY <1>2
  <2>2. passed = FALSE \/ passed = TRUE
    BY <2>1
  <2>3. tested \subseteq tested'
    BY <1>2
  <2> QED BY <2>2, <2>3
<1>5. EvidenceIsTrue'
  BY <1>3, <1>4 DEF CloneInv, EvidenceIsTrue
<1>6. CASE To(r, [x EXCEPT !.at = "create", !.passed = passed])
  <2>1. PICK next \in Record : next = [x EXCEPT !.at = "create", !.passed = passed]
    BY <1>1, <1>4 DEF Record, Points
  <2>2. /\ next.at = "create" /\ next.passed = passed
        /\ next.copy = x.copy /\ next.hash = x.hash
        /\ next.clone = x.clone /\ next.commit = x.commit
    BY <1>1, <2>1 DEF Record, Points
  <2>3. next.passed = TRUE => [commit |-> next.clone, copy |-> next.copy] \in tested'
    BY <1>2, <2>2
  <2>4. Established(next)'
    BY <1>1, <1>3, <2>2, <2>3 DEF Established
  <2> QED BY <1>3, <1>4, <1>5, <1>6, <2>1, <2>4, RehearsalKeeps
<1>7. CASE Raise(r)
  <2>1. PICK failed \in Record : failed = [x EXCEPT !.at = "failed"]
    BY <1>1 DEF Record, Points
  <2>2. failed.at = "failed"
    BY <1>1, <2>1 DEF Record, Points
  <2>3. Established(failed)'
    BY <2>2 DEF Established
  <2>4. To(r, failed)
    BY <1>7, <2>1 DEF Raise
  <2> QED BY <1>3, <1>4, <1>5, <2>3, <2>4, RehearsalKeeps
<1> QED BY <1>2, <1>6, <1>7

\* A report that is created is not whole; the one who created it writes what it established.
LEMMA ReportKeeps ==
  ASSUME CloneInv, NEW r \in Rehearsals, Create(r) \/ Write(r) PROVE CloneInv'
<1> DEFINE x == rehearsal[r]
<1>1. x \in Record /\ Established(x)
  BY DEF CloneInv, Typed
<1>2. UNCHANGED <<main, head, tool, changes, mains, tested>>
  BY DEF Create, Write
<1>3. CASE Create(r)
  <2>1. EvidenceIsTrue'
    <3>1. CASE report' = report
      BY <1>2, <3>1 DEF CloneInv, EvidenceIsTrue
    <3>2. CASE report' = [Absent EXCEPT !.of = r]
      <4>1. report'.whole = FALSE
        BY <3>2 DEF Absent
      <4> QED BY <4>1 DEF EvidenceIsTrue
    <3> QED BY <1>3, <3>1, <3>2 DEF Create
  <2>2. CASE To(r, [x EXCEPT !.at = "write"])
    <3>1. PICK next \in Record : next = [x EXCEPT !.at = "write"]
      BY <1>1 DEF Record, Points
    <3>2. /\ next.at = "write" /\ next.passed = x.passed
          /\ next.copy = x.copy /\ next.hash = x.hash
          /\ next.clone = x.clone /\ next.commit = x.commit
      BY <1>1, <3>1 DEF Record, Points
    <3>3. x.at = "create"
      BY <1>3 DEF Create
    <3>4. Established(next)'
      BY <1>1, <1>2, <3>2, <3>3 DEF Established
    <3> QED BY <1>2, <2>1, <2>2, <3>1, <3>4, RehearsalKeeps
  <2>3. CASE Raise(r)
    BY <1>2, <2>1, <2>3, RaiseKeeps
  <2> QED BY <1>3, <2>2, <2>3 DEF Create
<1>4. CASE Write(r)
  <2>1. EvidenceIsTrue'
    <3>1. /\ report'.commit = x.commit /\ report'.hash = x.hash /\ report'.passed = x.passed
      BY <1>4 DEF Write
    <3>2. x.passed = TRUE => [commit |-> x.commit, copy |-> x.hash] \in tested /\ x.commit \in mains
      BY <1>1, <1>4 DEF Established, Write
    <3>3. x.passed \in BOOLEAN
      BY <1>1 DEF Record, Points
    <3> QED BY <1>2, <3>1, <3>2, <3>3 DEF EvidenceIsTrue
  <2>2. PICK end \in {"done", "failed"} : To(r, [x EXCEPT !.at = end])
    BY <1>4 DEF Write
  <2>3. PICK next \in Record : next = [x EXCEPT !.at = end]
    BY <1>1 DEF Record, Points
  <2>4. next.at = end
    BY <1>1, <2>3 DEF Record, Points
  <2>5. Established(next)'
    BY <2>4 DEF Established
  <2> QED BY <1>2, <2>1, <2>2, <2>3, <2>5, RehearsalKeeps
<1> QED BY <1>3, <1>4

LEMMA KillKeeps ==
  ASSUME CloneInv, NEW r \in Rehearsals, KillRehearsal(r) PROVE CloneInv'
<1>1. Unmoved /\ Raise(r)
  BY DEF KillRehearsal
<1>2. EvidenceIsTrue'
  BY <1>1 DEF Unmoved, CloneInv, EvidenceIsTrue
<1> QED BY <1>1, <1>2, RaiseKeeps DEF Unmoved

-----------------------------------------------------------------------------

LEMMA CloneInvInitially == CloneInit => CloneInv
<1> SUFFICES ASSUME CloneInit PROVE CloneInv
  OBVIOUS
<1>1. Typed /\ main \in mains
  BY DEF CloneInit, Typed, ToBegin, Record, Points, Nothing
<1>2. \A r \in Rehearsals : Established(rehearsal[r])
  BY DEF CloneInit, ToBegin, Established
<1>3. EvidenceIsTrue
  BY DEF CloneInit, Absent, EvidenceIsTrue
<1> QED BY <1>1, <1>2, <1>3 DEF CloneInv

LEMMA CloneInvStep == CloneInv /\ [CloneNext]_cloneVars => CloneInv'
<1> SUFFICES ASSUME CloneInv, [CloneNext]_cloneVars PROVE CloneInv'
  OBVIOUS
<1>1. CASE EditWorktree \/ UpgradeTool \/ Commit \/ \E b \in {"main", "other"} : Checkout(b)
  BY <1>1, ChangesKeep
<1>2. ASSUME NEW r \in Rehearsals, Status(r) \/ Branch(r) \/ ReadHead(r) \/ ResolveTools(r)
      PROVE  CloneInv'
  BY <1>2, QuestionsKeep
<1>3. ASSUME NEW r \in Rehearsals, Clone(r) \/ CopyTools(r) PROVE CloneInv'
  BY <1>3, CloneKeeps, CopyKeeps
<1>4. ASSUME NEW r \in Rehearsals, Accept(r) PROVE CloneInv'
  BY <1>4, AcceptKeeps
<1>5. ASSUME NEW r \in Rehearsals, Create(r) \/ Write(r) PROVE CloneInv'
  BY <1>5, ReportKeeps
<1>6. ASSUME NEW r \in Rehearsals, KillRehearsal(r) PROVE CloneInv'
  BY <1>6, KillKeeps
<1>7. CASE UNCHANGED cloneVars
  BY <1>7 DEF cloneVars, CloneInv, Typed, Established, EvidenceIsTrue
<1> QED BY <1>1, <1>2, <1>3, <1>4, <1>5, <1>6, <1>7 DEF CloneNext

(***************************************************************************)
(* A whole report that passes is true: acceptance passed in a clone of the *)
(* commit it names with tools of the hash it names, and the commit was at  *)
(* the head of main, for any number of rehearsals, commits, checkouts and  *)
(* upgrades between the questions.                                         *)
(***************************************************************************)
THEOREM EvidenceHolds == CloneSpec => []EvidenceIsTrue
<1>1. CloneInv => EvidenceIsTrue
  BY DEF CloneInv
<1> QED BY <1>1, CloneInvInitially, CloneInvStep, PTL DEF CloneSpec

-----------------------------------------------------------------------------

(***************************************************************************)
(* The gate runner, for any hooks, selectors and jobs. The invariant       *)
(* carries, for each target already run, the result it returned together   *)
(* with what was run for it; that the lifecycles are read once and the     *)
(* hooks dispatched later is no harm, since a hook's own exit decides.     *)
(***************************************************************************)

Lifecycles == {"planned", "present", "active"}
Outcomes == {"failed", "planned", "passed"}

\* What a job can run: its targets, and the hooks that are registered or referred to.
Runnable == Publics \cup GateHooks \cup UNION {s.refs : s \in GateSelectors}

GateRecord ==
  [phase : {"idle", "targets", "succeeded", "ended"}, job : Jobs \cup {CHOOSE j \in Jobs : TRUE},
   inventory : [Covered -> Lifecycles], results : Seq(Outcomes), ran : SUBSET Runnable]

GateTyped == lifecycle \in [Covered -> Lifecycles] /\ gate \in GateRecord

\* Target and the hooks the job selects were run.
CoveredBy(target, variables, ran) ==
  /\ target \in ran
  /\ target \in Dispatching => UNION {HooksOf(s) : s \in Matches(target, variables)} \subseteq ran

\* What the results so far say of the targets they are of.
ResultsEarned(g) ==
  /\ g.job \in Jobs
  /\ Len(g.results) <= Len(g.job.targets)
  /\ \A i \in 1..Len(g.results) :
       /\ g.results[i] = "passed" => CoveredBy(g.job.targets[i], g.job.variables, g.ran)
       /\ g.results[i] = "planned" =>
            ExpectedInactive(g.job.targets[i], g.inventory, g.job.variables) # {}

\* The inductive invariant.
GateInv ==
  /\ GateTyped
  /\ gate.phase = "targets" => ResultsEarned(gate)
  /\ VerdictIsEarned

-----------------------------------------------------------------------------

\* A target whose make passed was run with every hook the variables select: one that is
\* selected and not active would have made the dispatcher fail.
LEMMA DispatchCovers ==
  ASSUME NEW target \in Publics, NEW variables, NEW ran, Dispatches(target, variables),
         ran = gate.ran \cup {target} \cup ActiveHooks(target, variables)
  PROVE  CoveredBy(target, variables, ran)
<1>1. CASE Matches(target, variables) = {}
  BY <1>1 DEF CoveredBy
<1>2. ASSUME NEW s \in Matches(target, variables), target \in Dispatching
      PROVE  UNION {HooksOf(m) : m \in Matches(target, variables)} \subseteq ran
  <2>1. s.key \in Selected(variables)
    BY <1>2, SelectorsAssumption DEF Matches, Chosen, Selected
  <2>2. Candidates(target, variables) = UNION {HooksOf(m) : m \in Matches(target, variables)}
    BY <2>1 DEF Candidates
  <2>3. \A h \in Candidates(target, variables) : lifecycle[h] = "active"
    BY <1>2, <2>1 DEF Dispatches
  <2>4. ActiveHooks(target, variables) = Candidates(target, variables)
    BY <1>2, <2>3 DEF ActiveHooks
  <2> QED BY <2>2, <2>4
<1> QED BY <1>1, <1>2 DEF CoveredBy

\* One more result, of the target whose turn it is, and no target or hook forgotten.
LEMMA ResultsGrow ==
  ASSUME NEW g \in GateRecord, NEW h \in GateRecord, NEW status \in Outcomes,
         ResultsEarned(g), Len(g.results) < Len(g.job.targets),
         h.job = g.job, h.inventory = g.inventory, g.ran \subseteq h.ran,
         h.results = Append(g.results, status),
         LET target == g.job.targets[Len(g.results) + 1] IN
           /\ status = "passed" => CoveredBy(target, g.job.variables, h.ran)
           /\ status = "planned" => ExpectedInactive(target, g.inventory, g.job.variables) # {}
  PROVE  ResultsEarned(h)
<1>1. g.results \in Seq(Outcomes) /\ g.job.targets \in Seq(STRING)
  BY JobsAssumption DEF GateRecord, ResultsEarned
<1>2. /\ Len(h.results) = Len(g.results) + 1
      /\ \A i \in 1..Len(g.results) : h.results[i] = g.results[i]
      /\ h.results[Len(g.results) + 1] = status
  BY <1>1, AppendProperties
<1>3. Len(g.results) \in Nat /\ Len(g.job.targets) \in Nat
  BY <1>1, LenProperties
<1>4. Len(h.results) <= Len(h.job.targets)
  BY <1>2, <1>3
<1>5. ASSUME NEW i \in 1..Len(h.results)
      PROVE  /\ h.results[i] = "passed" => CoveredBy(h.job.targets[i], h.job.variables, h.ran)
             /\ h.results[i] = "planned" =>
                  ExpectedInactive(h.job.targets[i], h.inventory, h.job.variables) # {}
  <2>1. CASE i = Len(g.results) + 1
    BY <1>2, <2>1
  <2>2. CASE i \in 1..Len(g.results)
    <3>1. h.results[i] = g.results[i]
      BY <1>2, <2>2
    <3> QED BY <2>2, <3>1 DEF ResultsEarned, CoveredBy
  <2> QED BY <1>2, <1>3, <2>1, <2>2
<1> QED BY <1>4, <1>5 DEF ResultsEarned

\* What the steps of the target loop share: one result is added to a running gate.
LEMMA ResultKeeps ==
  ASSUME GateInv, AtTarget, NEW h \in GateRecord, Proceed(h), NEW status \in Outcomes,
         h.phase = "targets", h.job = gate.job, h.inventory = gate.inventory,
         gate.ran \subseteq h.ran, h.results = Append(gate.results, status),
         status = "passed" => CoveredBy(Target, gate.job.variables, h.ran),
         status = "planned" => ExpectedInactive(Target, gate.inventory, gate.job.variables) # {}
  PROVE  GateInv'
<1>1. PICK g \in GateRecord : g = gate
  BY DEF GateInv, GateTyped
<1>2. ResultsEarned(g) /\ Len(g.results) < Len(g.job.targets)
  BY <1>1 DEF GateInv, AtTarget
<1>3. ResultsEarned(h)
  BY <1>1, <1>2, ResultsGrow DEF Target
<1>4. gate' = h /\ UNCHANGED lifecycle
  BY DEF Proceed
<1>5. VerdictIsEarned'
  BY <1>4 DEF VerdictIsEarned
<1>6. GateTyped'
  BY <1>4 DEF GateInv, GateTyped
<1>7. ResultsEarned(gate')
  BY <1>3, <1>4
<1>8. ResultsEarned(gate)'
  BY <1>7 DEF ResultsEarned
<1> QED BY <1>5, <1>6, <1>8 DEF GateInv

\* A target that fails, for whatever reason, is the last one.
LEMMA FailureKeeps ==
  ASSUME GateInv, AtTarget, Proceed([gate EXCEPT !.results = Result("failed")])
  PROVE  GateInv'
<1>1. gate \in GateRecord /\ gate.phase = "targets"
  BY DEF GateInv, GateTyped, AtTarget
<1>2. Result("failed") \in Seq(Outcomes)
  BY <1>1, AppendProperties DEF Result, GateRecord, Outcomes
<1>3. PICK h \in GateRecord : h = [gate EXCEPT !.results = Result("failed")]
  BY <1>1, <1>2 DEF GateRecord
<1>4. /\ h.phase = "targets" /\ h.job = gate.job /\ h.inventory = gate.inventory
      /\ h.ran = gate.ran /\ h.results = Append(gate.results, "failed")
  BY <1>1, <1>3 DEF GateRecord, Result
<1> QED BY <1>3, <1>4, ResultKeeps DEF Outcomes

LEMMA SetAsideKeeps == ASSUME GateInv, SetAside PROVE GateInv'
<1>1. AtTarget /\ gate \in GateRecord /\ gate.phase = "targets"
  BY DEF SetAside, GateInv, GateTyped, AtTarget
<1>2. CASE Unclear(Target, gate.inventory, gate.job.variables)
  BY <1>1, <1>2, FailureKeeps DEF SetAside
<1>3. CASE ~ Unclear(Target, gate.inventory, gate.job.variables)
  <2>1. /\ ExpectedInactive(Target, gate.inventory, gate.job.variables) # {}
        /\ Proceed([gate EXCEPT !.results = Result("planned")])
    BY <1>3 DEF SetAside
  <2>2. Result("planned") \in Seq(Outcomes)
    BY <1>1, AppendProperties DEF Result, GateRecord, Outcomes
  <2>3. PICK h \in GateRecord : h = [gate EXCEPT !.results = Result("planned")]
    BY <1>1, <2>2 DEF GateRecord
  <2>4. /\ h.phase = "targets" /\ h.job = gate.job /\ h.inventory = gate.inventory
        /\ h.ran = gate.ran /\ h.results = Append(gate.results, "planned")
    BY <1>1, <2>3 DEF GateRecord, Result
  <2> QED BY <1>1, <2>1, <2>3, <2>4, ResultKeeps DEF Outcomes
<1> QED BY <1>2, <1>3

LEMMA RunTargetKeeps == ASSUME GateInv, RunTarget PROVE GateInv'
<1>1. AtTarget /\ gate \in GateRecord /\ gate.phase = "targets" /\ Target \in Publics
  BY DEF RunTarget, GateInv, GateTyped, AtTarget, Unclear
<1>2. CASE Proceed([gate EXCEPT !.results = Result("failed")])
  BY <1>1, <1>2, FailureKeeps
<1> DEFINE ran == gate.ran \cup {Target} \cup ActiveHooks(Target, gate.job.variables)
<1>3. CASE /\ Dispatches(Target, gate.job.variables)
           /\ Proceed([gate EXCEPT !.results = Result("passed"), !.ran = ran])
  <2>1. Result("passed") \in Seq(Outcomes)
    BY <1>1, AppendProperties DEF Result, GateRecord, Outcomes
  <2>2. ActiveHooks(Target, gate.job.variables) \subseteq Runnable
    BY DEF ActiveHooks, Candidates, HooksOf, Matches, Runnable
  <2>3. ran \in SUBSET Runnable
    BY <1>1, <2>2 DEF GateRecord, Runnable
  <2>4. PICK h \in GateRecord : h = [gate EXCEPT !.results = Result("passed"), !.ran = ran]
    BY <1>1, <2>1, <2>3 DEF GateRecord
  <2>5. /\ h.phase = "targets" /\ h.job = gate.job /\ h.inventory = gate.inventory
        /\ h.ran = ran /\ h.results = Append(gate.results, "passed")
    BY <1>1, <2>4 DEF GateRecord, Result
  <2>6. CoveredBy(Target, gate.job.variables, h.ran)
    BY <1>1, <1>3, <2>5, DispatchCovers
  <2>7. gate.ran \subseteq h.ran
    BY <2>5
  <2> HIDE DEF ran
  <2> QED BY <1>1, <1>3, <2>4, <2>5, <2>6, <2>7, ResultKeeps DEF Outcomes
<1> QED BY <1>2, <1>3 DEF RunTarget

\* The loop is over when a target failed or when there is a result of every target.
LEMMA ConcludeKeeps == ASSUME GateInv, Conclude PROVE GateInv'
<1> DEFINE undeclared == Planned /\ ~ gate.job.allowPlanned
           results == IF undeclared THEN Result("failed") ELSE gate.results
           ending == IF Failed \/ undeclared THEN "ended" ELSE "succeeded"
<1>1. /\ gate \in GateRecord /\ gate.phase = "targets" /\ ResultsEarned(gate)
      /\ Failed \/ ~ (Len(gate.results) < Len(gate.job.targets))
  BY DEF GateInv, GateTyped, Conclude, AtTarget
<1>2. /\ resultFile' = [run |-> runs, overall |-> Overall(Failed \/ undeclared, Planned),
                        results |-> results]
      /\ gate' = [gate EXCEPT !.phase = ending] /\ UNCHANGED <<runs, lifecycle>>
  BY DEF Conclude
<1>3. ending \in {"ended", "succeeded"}
  OBVIOUS
<1>4. /\ gate'.phase = ending /\ gate'.job = gate.job /\ gate'.inventory = gate.inventory
      /\ gate'.ran = gate.ran /\ gate'.results = gate.results /\ gate' \in GateRecord
  BY <1>1, <1>2, <1>3 DEF GateRecord
<1>5. GateTyped'
  BY <1>2, <1>4 DEF GateInv, GateTyped
<1>6. VerdictIsEarned'
  <2> SUFFICES ASSUME ending = "succeeded" PROVE VerdictIsEarned'
    BY <1>4 DEF VerdictIsEarned
  <2>1. ~ Failed /\ ~ undeclared
    OBVIOUS
  <2>2. /\ resultFile'.run = runs /\ resultFile'.results = gate.results
        /\ resultFile'.overall = IF Planned THEN "planned" ELSE "passed"
    BY <1>2, <2>1 DEF Overall
  <2>3. /\ gate.job \in Jobs /\ gate.job.targets \in Seq(STRING) /\ gate.results \in Seq(Outcomes)
    BY <1>1, JobsAssumption DEF ResultsEarned, GateRecord
  <2>4. /\ DOMAIN gate.results = 1..Len(gate.results) /\ Len(gate.results) \in Nat
        /\ DOMAIN gate.job.targets = 1..Len(gate.job.targets) /\ Len(gate.job.targets) \in Nat
    BY <2>3, LenProperties
  <2>5. Len(gate.results) = Len(gate.job.targets)
    BY <1>1, <2>1, <2>4 DEF ResultsEarned
  <2>6. ASSUME resultFile'.overall = "passed", NEW i \in DOMAIN gate.job.targets
        PROVE  CoveredBy(gate.job.targets[i], gate.job.variables, gate.ran)
    <3>1. gate.results[i] \in Outcomes
      BY <2>3, <2>4, <2>5, ElementOfSeq
    <3>2. ~ Planned
      BY <2>2, <2>6
    <3>3. gate.results[i] = "passed"
      BY <2>1, <2>4, <2>5, <3>1, <3>2 DEF Outcomes, Failed, Planned
    <3> QED BY <1>1, <2>4, <2>5, <3>3 DEF ResultsEarned
  <2>7. ASSUME resultFile'.overall = "planned"
        PROVE  /\ gate.job.allowPlanned
               /\ \E i \in DOMAIN gate.job.targets :
                    ExpectedInactive(gate.job.targets[i], gate.inventory, gate.job.variables) # {}
    <3>1. Planned
      BY <2>2, <2>7
    <3>2. gate.job.allowPlanned
      BY Zenon, <2>1, <3>1
    <3>3. \E i \in DOMAIN gate.job.targets :
            ExpectedInactive(gate.job.targets[i], gate.inventory, gate.job.variables) # {}
      BY <1>1, <2>4, <2>5, <3>1 DEF Planned, ResultsEarned
    <3> QED BY Zenon, <3>2, <3>3
  <2>8. /\ gate'.job = gate.job /\ gate'.inventory = gate.inventory /\ gate'.ran = gate.ran
        /\ resultFile'.run = runs' /\ resultFile'.results = gate'.results
    BY <1>2, <1>4, <2>2
  <2> HIDE DEF undeclared, ending, results
  <2>9. resultFile'.overall = "passed" =>
         \A i \in DOMAIN gate'.job.targets :
           CoveredBy(gate'.job.targets[i], gate'.job.variables, gate'.ran)
    BY <2>6, <2>8
  <2>10. resultFile'.overall = "planned" =>
         /\ gate'.job.allowPlanned
         /\ \E i \in DOMAIN gate'.job.targets :
              ExpectedInactive(gate'.job.targets[i], gate'.inventory, gate'.job.variables) # {}
    BY Zenon, <2>7, <2>8
  <2> QED BY Zenon, <2>8, <2>9, <2>10 DEF VerdictIsEarned, CoveredBy
<1> QED BY <1>3, <1>4, <1>5, <1>6 DEF GateInv

LEMMA StartKeeps == ASSUME GateInv, NEW job \in Jobs, Start(job) PROVE GateInv'
<1>1. lifecycle \in [Covered -> Lifecycles] /\ UNCHANGED lifecycle
  BY DEF GateInv, GateTyped, Start
<1>2. <<>> \in Seq(Outcomes) /\ Len(<<>>) = 0
  BY EmptySeq
<1>3. CASE gate' = [phase |-> "targets", job |-> job, inventory |-> lifecycle,
                    results |-> <<>>, ran |-> {}]
  <2>1. gate' \in GateRecord
    BY <1>1, <1>2, <1>3 DEF GateRecord
  <2>2. gate'.phase = "targets" /\ gate'.job = job /\ gate'.results = <<>>
    BY <1>3
  <2>3. Len(job.targets) \in Nat
    BY JobsAssumption, LenProperties
  <2>4. ResultsEarned(gate)'
    BY <1>2, <2>2, <2>3 DEF ResultsEarned
  <2>5. VerdictIsEarned'
    BY <2>2 DEF VerdictIsEarned
  <2> QED BY <1>1, <2>1, <2>4, <2>5 DEF GateInv, GateTyped
<1>4. CASE gate' = [IdleGate EXCEPT !.phase = "ended", !.job = job]
  <2>1. gate' = [phase |-> "ended", job |-> job, inventory |-> lifecycle,
                 results |-> <<>>, ran |-> {}]
    BY <1>4 DEF IdleGate
  <2>2. gate' \in GateRecord /\ gate'.phase = "ended"
    BY <1>1, <1>2, <2>1 DEF GateRecord
  <2> QED BY <1>1, <2>2 DEF GateInv, GateTyped, VerdictIsEarned
<1> QED BY <1>3, <1>4 DEF Start

LEMMA LandKeeps ==
  ASSUME GateInv, NEW c \in Covered, NEW status \in Lifecycles, Land(c, status) PROVE GateInv'
<1>1. UNCHANGED <<runs, gate, resultFile>> /\ lifecycle' \in [Covered -> Lifecycles]
  BY DEF Land, GateInv, GateTyped
<1> QED BY <1>1 DEF GateInv, GateTyped, ResultsEarned, CoveredBy, VerdictIsEarned

LEMMA EndKeeps == ASSUME GateInv, Leave \/ Kill PROVE GateInv'
<1>1. gate' = [gate EXCEPT !.phase = "ended"] /\ UNCHANGED lifecycle /\ gate \in GateRecord
  BY DEF Leave, Kill, Proceed, GateInv, GateTyped
<1>2. gate' \in GateRecord /\ gate'.phase = "ended"
  BY <1>1 DEF GateRecord
<1> QED BY <1>1, <1>2 DEF GateInv, GateTyped, VerdictIsEarned

LEMMA GateInvInitially == GateInit => GateInv
<1> SUFFICES ASSUME GateInit PROVE GateInv
  OBVIOUS
<1>1. gate.phase = "idle" /\ gate \in GateRecord /\ lifecycle \in [Covered -> Lifecycles]
  BY EmptySeq DEF GateInit, IdleGate, GateRecord, Lifecycles
<1> QED BY <1>1 DEF GateInv, GateTyped, VerdictIsEarned

LEMMA GateInvStep == GateInv /\ [GateNext]_gateVars => GateInv'
<1> SUFFICES ASSUME GateInv, [GateNext]_gateVars PROVE GateInv'
  OBVIOUS
<1>1. ASSUME NEW c \in Covered, NEW status \in {"planned", "present", "active"}, Land(c, status)
      PROVE  GateInv'
  BY <1>1, LandKeeps DEF Lifecycles
<1>2. ASSUME NEW job \in Jobs, Start(job) PROVE GateInv'
  BY <1>2, StartKeeps
<1>3. CASE SetAside \/ RunTarget \/ Conclude
  BY <1>3, SetAsideKeeps, RunTargetKeeps, ConcludeKeeps
<1>4. CASE Leave \/ Kill
  BY <1>4, EndKeeps
<1>5. CASE UNCHANGED gateVars
  BY <1>5 DEF gateVars, GateInv, GateTyped, ResultsEarned, CoveredBy, VerdictIsEarned
<1> QED BY <1>1, <1>2, <1>3, <1>4, <1>5 DEF GateNext

(***************************************************************************)
(* A gate of scripts/ci/run_gate.py that succeeds has left its own         *)
(* verdict, and the verdict is earned: passed means that make ran every    *)
(* target and every hook the job selected, planned that coverage was       *)
(* inactive and the job allows it.  For any hooks, selectors, jobs and     *)
(* changes of lifecycles between the inventory and the dispatch.           *)
(***************************************************************************)
THEOREM VerdictHolds == GateSpec => []VerdictIsEarned
<1>1. GateInv => VerdictIsEarned
  BY DEF GateInv
<1> QED BY <1>1, GateInvInitially, GateInvStep, PTL DEF GateSpec

-----------------------------------------------------------------------------

(***************************************************************************)
(* Receipts in history, for any number of commits, branches and drafts.    *)
(* The invariant says what every committed tree and every worktree may     *)
(* hold: the files of one application belong together, and a commit, once  *)
(* made, keeps what it changed.                                            *)
(***************************************************************************)

LockContents == Versions \cup {1}
ChangeRecords == [lock : Locks, before : LockContents, after : LockContents]

RequestFiles == {Request(d, s) : d \in Drafts, s \in Statuses \cup {"applied"}}

\* Receipts as an application writes them; a person may point one at other commits.
ReceiptFiles ==
  {r \in [status : {"complete"}, draft : Drafts, accepted : RequestFiles, applied : RequestFiles,
          base : Nat, candidate : Nat, rehearsed : Nat, changes : SUBSET ChangeRecords,
          manifest : LockContents, reviewed : {d.dependency : d \in Drafts}] :
     LET wanted == r.draft.dependency IN
       /\ r.accepted = Request(r.draft, "accepted")
       /\ r.applied = Request(r.draft, "applied")
       /\ r.reviewed = wanted
       /\ \A change \in r.changes : change.lock = wanted.lock => change.after = wanted.version
       /\ wanted.lock = Manifest => r.manifest = wanted.version}

Contents == LockContents \cup RequestFiles \cup ReceiptFiles \cup {NoFile}

\* What may be at a path, in the worktree and in a commit.
Fits(x, content) ==
  /\ \A p \in Packets : x = RequestPath(p) =>
       content \in {f \in RequestFiles : f.draft.packet = p} \cup {NoFile}
  /\ \A i \in Ids : x = ReceiptPath(i) => content \in ReceiptFiles \cup {NoFile}
  /\ \A l \in Locks : x = LockPath(l) => content \in LockContents

WorkTrees == {t \in [Paths -> Contents] : \A x \in Paths : Fits(x, t[x])}
CommitRecords == [parents : Seq(Nat), tree : WorkTrees]

ReceiptsTyped ==
  /\ commits \in Seq(CommitRecords) /\ Len(commits) >= 1
  /\ tip \in 1..Len(commits)
  /\ work \in WorkTrees

\* What an application found to be so of the commits c when it wrote a pair.
WrittenOf(pair, draft, c) ==
  LET r == pair.receipt
      before == c[r.base].tree
      after == c[r.candidate].tree
      wanted == draft.dependency
  IN /\ pair.request = Request(draft, "applied")
     /\ r # NoFile /\ NamesRequest(r, pair.request)
     /\ r.base \in 1..Len(c) /\ r.candidate \in 1..Len(c)
     /\ r.manifest = after[LockPath(Manifest)]
     /\ r.accepted = after[RequestPath(draft.packet)]
     /\ c[r.candidate].parents = <<r.base>>
     /\ Changed(before, after)
          = {LockPath(change.lock) : change \in r.changes} \cup {RequestPath(draft.packet)}
     /\ \A change \in r.changes :
          /\ change.before = before[LockPath(change.lock)]
          /\ change.after = after[LockPath(change.lock)]
     /\ after[LockPath(wanted.lock)] = wanted.version

\* The inductive invariant.
ReceiptsInv ==
  /\ ReceiptsTyped
  /\ \A pair \in sealed : \E draft \in Drafts : WrittenOf(pair, draft, commits)

-----------------------------------------------------------------------------

\* Paths of different files differ.
LEMMA PathsDiffer ==
  /\ \A l, k : LockPath(l) = LockPath(k) => l = k
  /\ \A p, q : RequestPath(p) = RequestPath(q) => p = q
  /\ \A i, j : ReceiptPath(i) = ReceiptPath(j) => i = j
  /\ \A l, p, i : /\ LockPath(l) # RequestPath(p) /\ LockPath(l) # ReceiptPath(i)
                  /\ RequestPath(p) # ReceiptPath(i)
                  /\ Other # LockPath(l) /\ Other # RequestPath(p) /\ Other # ReceiptPath(i)
BY DEF LockPath, RequestPath, ReceiptPath, Other

\* A tree stays one when a content that fits is put at a path.
LEMMA PutFits ==
  ASSUME NEW t \in WorkTrees, NEW x \in Paths, NEW content \in Contents, Fits(x, content)
  PROVE  [t EXCEPT ![x] = content] \in WorkTrees
<1> DEFINE u == [t EXCEPT ![x] = content]
<1>1. u \in [Paths -> Contents]
  BY DEF WorkTrees
<1>2. \A y \in Paths : u[y] = IF y = x THEN content ELSE t[y]
  BY DEF WorkTrees
<1>3. \A y \in Paths : Fits(y, t[y])
  BY DEF WorkTrees
<1> HIDE DEF u
<1>4. \A y \in Paths : Fits(y, u[y])
  BY <1>2, <1>3
<1>5. u \in WorkTrees
  BY <1>1, <1>4 DEF WorkTrees
<1> QED BY <1>5 DEF u

\* What is at a request's, a receipt's and a lock's path.
LEMMA TreeContents ==
  ASSUME NEW t \in WorkTrees
  PROVE  /\ \A p \in Packets : t[RequestPath(p)] \in {f \in RequestFiles : f.draft.packet = p} \cup {NoFile}
         /\ \A i \in Ids : t[ReceiptPath(i)] \in ReceiptFiles \cup {NoFile}
         /\ \A l \in Locks : t[LockPath(l)] \in LockContents
<1>1. \A x \in Paths : Fits(x, t[x])
  BY DEF WorkTrees
<1>2. /\ \A p \in Packets : RequestPath(p) \in Paths
      /\ \A i \in Ids : ReceiptPath(i) \in Paths
      /\ \A l \in Locks : LockPath(l) \in Paths
  BY DEF Paths
<1> QED BY <1>1, <1>2 DEF Fits

\* No file is neither a request nor a receipt, and a request's draft and status are its own.
LEMMA FilesDiffer ==
  /\ NoFile \notin RequestFiles /\ NoFile \notin ReceiptFiles
  /\ \A d, s : Request(d, s).draft = d /\ Request(d, s).status = s
  /\ \A d, s, e, u : Request(d, s) = Request(e, u) => d = e /\ s = u
<1>1. \A d, s : Request(d, s).draft = d /\ Request(d, s).status = s
  BY DEF Request
<1>2. NoFile \notin RequestFiles
  <2>1. DOMAIN NoFile = {"status"}
    BY DEF NoFile
  <2>2. \A f \in RequestFiles : "draft" \in DOMAIN f
    BY DEF RequestFiles, Request
  <2> QED BY <2>1, <2>2
<1>3. NoFile \notin ReceiptFiles
  <2>1. NoFile.status = "absent"
    BY DEF NoFile
  <2>2. \A f \in ReceiptFiles : f.status = "complete"
    BY DEF ReceiptFiles
  <2> QED BY <2>1, <2>2
<1> QED BY <1>1, <1>2, <1>3

\* Commits are only ever added: what was found of them stays so.
LEMMA WrittenStays ==
  ASSUME NEW c, NEW d, NEW pair, NEW draft \in Drafts, WrittenOf(pair, draft, c),
         Len(c) \in Nat, Len(d) \in Nat, Len(c) <= Len(d), \A k \in 1..Len(c) : d[k] = c[k]
  PROVE  WrittenOf(pair, draft, d)
<1>1. pair.receipt.base \in 1..Len(c) /\ pair.receipt.candidate \in 1..Len(c)
  BY DEF WrittenOf
<1>2. /\ d[pair.receipt.base] = c[pair.receipt.base]
      /\ d[pair.receipt.candidate] = c[pair.receipt.candidate]
      /\ pair.receipt.base \in 1..Len(d) /\ pair.receipt.candidate \in 1..Len(d)
  BY <1>1
<1> QED BY <1>2 DEF WrittenOf

-----------------------------------------------------------------------------

LEMMA AcceptedFollows == ReceiptsInv => AcceptedIsBound
<1> SUFFICES ASSUME ReceiptsInv, NEW p \in Packets,
                    work[RequestPath(p)] # NoFile, work[RequestPath(p)].status = "applied",
                    LifecycleHolds(p)
             PROVE  LET request == work[RequestPath(p)]
                        receipt == work[ReceiptPath(request.draft.id)]
                        candidate == commits[receipt.candidate]
                        changed == Changed(commits[candidate.parents[1]].tree, candidate.tree)
                        wanted == request.draft.dependency
                    IN /\ Len(candidate.parents) = 1
                       /\ candidate.tree[RequestPath(p)] = Request(request.draft, "accepted")
                       /\ changed \subseteq {RequestPath(p)} \cup {LockPath(l) : l \in request.draft.locks}
                       /\ \/ LockPath(wanted.lock) \in changed
                          \/ wanted.lock = Manifest
                          \/ [request |-> request, receipt |-> receipt] \in sealed
                          => candidate.tree[LockPath(wanted.lock)] = wanted.version
  BY DEF AcceptedIsBound
<1> DEFINE request == work[RequestPath(p)]
           draft == request.draft
           receipt == work[ReceiptPath(draft.id)]
           candidate == commits[receipt.candidate]
           wanted == draft.dependency
<1>1. request \in RequestFiles /\ draft.packet = p
  BY TreeContents DEF ReceiptsInv, ReceiptsTyped
<1>2. draft \in Drafts /\ request = Request(draft, "applied")
  BY <1>1, FilesDiffer DEF RequestFiles
<1>3. /\ receipt # NoFile /\ NamesRequest(receipt, request) /\ ManifestBound(receipt)
      /\ RangeBound(receipt, p)
  BY DEF LifecycleHolds
<1>4. receipt \in ReceiptFiles
  BY <1>2, <1>3, TreeContents DEF ReceiptsInv, ReceiptsTyped, Ids
<1>5. receipt.draft = draft
  <2>1. receipt.applied = request
    BY <1>3 DEF NamesRequest
  <2>2. receipt.applied = Request(receipt.draft, "applied")
    BY <1>4 DEF ReceiptFiles
  <2> HIDE DEF receipt, draft, request
  <2> QED BY <1>2, <2>1, <2>2, FilesDiffer
<1>6. /\ receipt.accepted = Request(draft, "accepted")
      /\ \A change \in receipt.changes : change.lock = wanted.lock => change.after = wanted.version
      /\ wanted.lock = Manifest => receipt.manifest = wanted.version
  BY <1>4, <1>5 DEF ReceiptFiles
<1>7. /\ receipt.accepted = candidate.tree[RequestPath(p)]
      /\ candidate.parents = <<receipt.base>>
      /\ Changed(commits[receipt.base].tree, candidate.tree)
          = {LockPath(change.lock) : change \in receipt.changes} \cup {RequestPath(p)}
      /\ \A change \in receipt.changes : change.after = candidate.tree[LockPath(change.lock)]
  BY <1>3 DEF RangeBound, Follows, CandidateChanges
<1> HIDE DEF candidate, receipt, draft
<1>8. Len(candidate.parents) = 1 /\ candidate.parents[1] = receipt.base
  BY <1>7
<1>9. {change.lock : change \in receipt.changes} \subseteq draft.locks
  BY <1>3 DEF NamesRequest, draft
<1>10. ASSUME LockPath(wanted.lock) \in Changed(commits[receipt.base].tree, candidate.tree)
       PROVE  candidate.tree[LockPath(wanted.lock)] = wanted.version
  <2>1. PICK change \in receipt.changes : LockPath(wanted.lock) = LockPath(change.lock)
    BY <1>7, <1>10, PathsDiffer
  <2> QED BY <1>6, <1>7, <2>1, PathsDiffer
<1>11. ASSUME wanted.lock = Manifest
       PROVE  candidate.tree[LockPath(wanted.lock)] = wanted.version
  BY <1>3, <1>6, <1>11 DEF ManifestBound, candidate
<1>12. ASSUME [request |-> request, receipt |-> receipt] \in sealed
       PROVE  candidate.tree[LockPath(wanted.lock)] = wanted.version
  <2>1. PICK e \in Drafts : WrittenOf([request |-> request, receipt |-> receipt], e, commits)
    BY <1>12 DEF ReceiptsInv
  <2>2. /\ request = Request(e, "applied")
        /\ candidate.tree[LockPath(e.dependency.lock)] = e.dependency.version
    BY <2>1 DEF WrittenOf, candidate
  <2>3. e = draft
    BY <1>2, <2>2, FilesDiffer
  <2> QED BY <2>2, <2>3
<1>13. Changed(commits[receipt.base].tree, candidate.tree)
         \subseteq {RequestPath(p)} \cup {LockPath(l) : l \in draft.locks}
  BY <1>7, <1>9
<1>14. candidate.tree[RequestPath(p)] = Request(draft, "accepted")
  BY <1>6, <1>7
<1> HIDE DEF wanted, request
<1> QED BY <1>8, <1>10, <1>11, <1>12, <1>13, <1>14 DEF candidate, wanted, receipt, draft, request

LEMMA SealedFollows == ReceiptsInv => SealedStaysAccepted
<1> SUFFICES ASSUME ReceiptsInv, NEW pair \in sealed,
                    work[RequestPath(pair.request.draft.packet)] = pair.request,
                    work[ReceiptPath(pair.request.draft.id)] = pair.receipt
             PROVE  LifecycleHolds(pair.request.draft.packet)
  BY DEF SealedStaysAccepted
<1>1. PICK draft \in Drafts : WrittenOf(pair, draft, commits)
  BY DEF ReceiptsInv
<1>2. pair.request.draft = draft /\ pair.request.status = "applied"
  BY <1>1, FilesDiffer DEF WrittenOf
<1>3. ManifestBound(pair.receipt)
  BY <1>1 DEF WrittenOf, ManifestBound
<1>4. RangeBound(pair.receipt, draft.packet)
  BY <1>1 DEF WrittenOf, RangeBound, Follows, CandidateChanges
<1>5. pair.receipt # NoFile /\ NamesRequest(pair.receipt, pair.request)
  BY <1>1 DEF WrittenOf
<1> QED BY <1>2, <1>3, <1>4, <1>5 DEF LifecycleHolds

-----------------------------------------------------------------------------

\* A step that makes no commit and seals nothing, and leaves a tree of contents that fit.
LEMMA WorkKeeps ==
  ASSUME ReceiptsInv, UNCHANGED <<commits, sealed>>, tip' \in 1..Len(commits), work' \in WorkTrees
  PROVE  ReceiptsInv'
<1>1. ReceiptsTyped'
  BY DEF ReceiptsInv, ReceiptsTyped
<1>2. \A pair \in sealed' : \E draft \in Drafts : WrittenOf(pair, draft, commits')
  BY DEF ReceiptsInv
<1> QED BY <1>1, <1>2 DEF ReceiptsInv, WrittenOf, NamesRequest, Changed

\* A step that puts a content that fits at a path.
LEMMA PutKeeps ==
  ASSUME ReceiptsInv, NEW x \in Paths, NEW content \in Contents, Fits(x, content), Put(x, content)
  PROVE  ReceiptsInv'
<1>1. work \in WorkTrees /\ tip \in 1..Len(commits)
  BY DEF ReceiptsInv, ReceiptsTyped
<1>2. work' = [work EXCEPT ![x] = content] /\ UNCHANGED <<commits, sealed, tip>>
  BY DEF Put
<1>3. work' \in WorkTrees
  BY <1>1, <1>2, PutFits
<1> QED BY <1>1, <1>2, <1>3, WorkKeeps

\* A commit is added, of a tree of contents that fit.
LEMMA CommitKeeps ==
  ASSUME ReceiptsInv, NEW commit \in CommitRecords, commits' = Append(commits, commit),
         tip' = Len(commits'), work' \in WorkTrees, UNCHANGED sealed
  PROVE  ReceiptsInv'
<1>1. commits \in Seq(CommitRecords) /\ Len(commits) >= 1
  BY DEF ReceiptsInv, ReceiptsTyped
<1>2. /\ commits' \in Seq(CommitRecords) /\ Len(commits') = Len(commits) + 1
      /\ \A k \in 1..Len(commits) : commits'[k] = commits[k]
  BY <1>1, AppendProperties
<1>3. Len(commits) \in Nat /\ Len(commits') \in Nat
  BY <1>1, <1>2, LenProperties
<1>4. ReceiptsTyped'
  BY <1>1, <1>2, <1>3 DEF ReceiptsTyped
<1>5. PICK c, d : c = commits /\ d = commits'
  OBVIOUS
<1>8. Len(c) \in Nat /\ Len(d) \in Nat /\ Len(c) <= Len(d) /\ \A k \in 1..Len(c) : d[k] = c[k]
  BY <1>2, <1>3, <1>5
<1>6. ASSUME NEW pair \in sealed
      PROVE  \E draft \in Drafts : WrittenOf(pair, draft, d)
  <2>1. PICK draft \in Drafts : WrittenOf(pair, draft, c)
    BY <1>5 DEF ReceiptsInv
  <2>2. WrittenOf(pair, draft, d)
    BY <1>8, <2>1, WrittenStays
  <2> QED BY <2>2
<1>7. \A pair \in sealed' : \E draft \in Drafts : WrittenOf(pair, draft, commits')
  BY <1>5, <1>6
<1> QED BY <1>4, <1>7 DEF ReceiptsInv, WrittenOf, NamesRequest, Changed

LEMMA RestoreFits ==
  ASSUME NEW t \in WorkTrees, NEW x \in Paths PROVE t[x] \in Contents /\ Fits(x, t[x])
BY DEF WorkTrees

LEMMA WritesKeep ==
  ASSUME ReceiptsInv, WriteRequest \/ WriteLock \/ WriteOther PROVE ReceiptsInv'
<1>1. ASSUME NEW d \in Drafts, NEW s \in Statuses, Put(RequestPath(d.packet), Request(d, s))
      PROVE  ReceiptsInv'
  <2>1. RequestPath(d.packet) \in Paths
    BY DEF Paths, Packets
  <2>2. PICK file \in RequestFiles : file = Request(d, s)
    BY DEF RequestFiles
  <2>3. file.draft.packet = d.packet /\ file \in Contents
    BY <2>2, FilesDiffer DEF Contents
  <2>4. Fits(RequestPath(d.packet), file)
    BY <2>3, PathsDiffer DEF Fits
  <2> QED BY <1>1, <2>1, <2>2, <2>3, <2>4, PutKeeps
<1>2. ASSUME NEW l \in Locks, NEW v \in Versions, Put(LockPath(l), v) PROVE ReceiptsInv'
  <2>1. LockPath(l) \in Paths /\ v \in Contents
    BY DEF Paths, Contents, LockContents
  <2>2. Fits(LockPath(l), v)
    BY PathsDiffer DEF Fits, LockContents
  <2> QED BY <1>2, <2>1, <2>2, PutKeeps
<1>3. ASSUME NEW v \in Versions, Put(Other, v) PROVE ReceiptsInv'
  <2>1. Other \in Paths /\ v \in Contents
    BY DEF Paths, Contents, LockContents
  <2>2. Fits(Other, v)
    BY PathsDiffer DEF Fits
  <2> QED BY <1>3, <2>1, <2>2, PutKeeps
<1> QED BY <1>1, <1>2, <1>3 DEF WriteRequest, WriteLock, WriteOther

LEMMA RestoreKeeps == ASSUME ReceiptsInv, Restore PROVE ReceiptsInv'
<1>1. PICK c \in DOMAIN commits, x \in Paths : Put(x, commits[c].tree[x])
  BY DEF Restore
<1>2. PICK t \in WorkTrees : t = commits[c].tree
  <2>1. commits \in Seq(CommitRecords)
    BY DEF ReceiptsInv, ReceiptsTyped
  <2>2. commits[c] \in CommitRecords
    BY <1>1, <2>1, LenProperties, ElementOfSeq
  <2> QED BY <2>2 DEF CommitRecords
<1>3. PICK content \in Contents : content = t[x] /\ Fits(x, content)
  BY RestoreFits
<1> QED BY <1>1, <1>2, <1>3, PutKeeps

\* What is changed in a receipt that is retargeted binds nothing but commits.
LEMMA RetargetKeeps == ASSUME ReceiptsInv, Retarget PROVE ReceiptsInv'
<1>1. PICK i \in Ids, c \in DOMAIN commits :
        /\ work[ReceiptPath(i)] # NoFile /\ Len(commits[c].parents) = 1
        /\ Put(ReceiptPath(i),
               [work[ReceiptPath(i)] EXCEPT !.base = commits[c].parents[1],
                                            !.candidate = c, !.rehearsed = c])
  BY DEF Retarget
<1>2. PICK r \in ReceiptFiles : r = work[ReceiptPath(i)]
  BY <1>1, TreeContents DEF ReceiptsInv, ReceiptsTyped
<1>3. c \in Nat /\ commits[c].parents[1] \in Nat
  <2>1. commits \in Seq(CommitRecords)
    BY DEF ReceiptsInv, ReceiptsTyped
  <2>2. c \in 1..Len(commits) /\ Len(commits) \in Nat
    BY <1>1, <2>1, LenProperties
  <2>3. commits[c].parents \in Seq(Nat)
    <3>1. commits[c] \in CommitRecords
      BY <2>1, <2>2, ElementOfSeq
    <3> QED BY <3>1 DEF CommitRecords
  <2>4. commits[c].parents[1] \in Nat
    BY <1>1, <2>3, ElementOfSeq
  <2> QED BY <2>2, <2>4
<1>4. PICK b \in Nat : b = commits[c].parents[1]
  BY <1>3
<1>5. PICK s : s = [r EXCEPT !.base = b, !.candidate = c, !.rehearsed = c]
  OBVIOUS
<1>6. /\ s \in [status : {"complete"}, draft : Drafts, accepted : RequestFiles,
                applied : RequestFiles, base : Nat, candidate : Nat, rehearsed : Nat,
                changes : SUBSET ChangeRecords, manifest : LockContents,
                reviewed : {d.dependency : d \in Drafts}]
      /\ s.draft = r.draft /\ s.accepted = r.accepted /\ s.applied = r.applied
      /\ s.changes = r.changes /\ s.manifest = r.manifest /\ s.reviewed = r.reviewed
  BY <1>3, <1>5 DEF ReceiptFiles
<1>7. s \in ReceiptFiles
  BY <1>6 DEF ReceiptFiles
<1>8. ReceiptPath(i) \in Paths /\ s \in Contents /\ Fits(ReceiptPath(i), s)
  BY <1>7, PathsDiffer DEF Paths, Contents, Fits
<1>9. Put(ReceiptPath(i), s)
  BY <1>1, <1>2, <1>4, <1>5
<1> QED BY <1>8, <1>9, PutKeeps

LEMMA CommitsKeep ==
  ASSUME ReceiptsInv, MakeCommit \/ Squash \/ \E c \in DOMAIN commits : Merge(c)
  PROVE  ReceiptsInv'
<1>1. /\ commits \in Seq(CommitRecords) /\ tip \in 1..Len(commits) /\ tip \in Nat
      /\ work \in WorkTrees /\ Len(commits) >= 1 /\ Len(commits) \in Nat
  BY LenProperties DEF ReceiptsInv, ReceiptsTyped
<1>2. CASE MakeCommit
  <2>1. PICK commit \in CommitRecords : commit = [parents |-> <<tip>>, tree |-> work]
    <3>1. <<tip>> \in Seq(Nat)
      BY <1>1
    <3> QED BY <1>1, <3>1 DEF CommitRecords
  <2>2. /\ commits' = Append(commits, commit) /\ tip' = Len(commits')
        /\ work' \in WorkTrees /\ UNCHANGED sealed
    BY <1>1, <1>2, <2>1 DEF MakeCommit
  <2> QED BY <2>2, CommitKeeps
<1>3. CASE Squash
  <2>1. commits[tip].parents \in Seq(Nat)
    <3>1. commits[tip] \in CommitRecords
      BY <1>1, ElementOfSeq
    <3> QED BY <3>1 DEF CommitRecords
  <2>2. PICK commit \in CommitRecords : commit = [parents |-> commits[tip].parents, tree |-> work]
    BY <1>1, <2>1 DEF CommitRecords
  <2>3. /\ commits' = Append(commits, commit) /\ tip' = Len(commits')
        /\ work' \in WorkTrees /\ UNCHANGED sealed
    BY <1>1, <1>3, <2>2 DEF Squash
  <2> QED BY <2>3, CommitKeeps
<1>4. ASSUME NEW c \in DOMAIN commits, Merge(c) PROVE ReceiptsInv'
  <2>1. c \in 1..Len(commits) /\ c \in Nat
    BY <1>1, LenProperties
  <2>2. PICK first \in WorkTrees, t \in WorkTrees : first = commits[1].tree /\ t = commits[c].tree
    <3>1. commits[c] \in CommitRecords /\ commits[1] \in CommitRecords
      BY <1>1, <2>1, ElementOfSeq
    <3> QED BY <3>1 DEF CommitRecords
  <2>3. work' = [x \in Paths |-> IF work[x] = first[x] THEN t[x] ELSE work[x]]
    BY <1>4, <2>2 DEF Merge
  <2>4. \A x \in Paths : work'[x] \in Contents /\ Fits(x, work'[x])
    <3> SUFFICES ASSUME NEW x \in Paths PROVE work'[x] \in Contents /\ Fits(x, work'[x])
      OBVIOUS
    <3>1. work'[x] = t[x] \/ work'[x] = work[x]
      BY <2>3
    <3> QED BY <1>1, <3>1, RestoreFits
  <2>5. work' \in WorkTrees
    BY <2>3, <2>4 DEF WorkTrees
  <2>6. PICK commit \in CommitRecords : commit = [parents |-> <<tip, c>>, tree |-> work']
    <3>1. <<tip, c>> \in Seq(Nat)
      BY <1>1, <2>1
    <3> QED BY <2>5, <3>1 DEF CommitRecords
  <2>7. /\ commits' = Append(commits, commit) /\ tip' = Len(commits') /\ UNCHANGED sealed
    BY <1>4, <2>6 DEF Merge
  <2> QED BY <2>5, <2>7, CommitKeeps
<1> QED BY <1>2, <1>3, <1>4

LEMMA SwitchKeeps == ASSUME ReceiptsInv, NEW c \in DOMAIN commits, Switch(c) PROVE ReceiptsInv'
<1>1. commits \in Seq(CommitRecords)
  BY DEF ReceiptsInv, ReceiptsTyped
<1>2. c \in 1..Len(commits) /\ commits[c] \in CommitRecords
  BY <1>1, LenProperties, ElementOfSeq
<1>3. tip' \in 1..Len(commits) /\ work' \in WorkTrees /\ UNCHANGED <<commits, sealed>>
  BY <1>2 DEF Switch, CommitRecords
<1> QED BY <1>3, WorkKeeps

-----------------------------------------------------------------------------

\* An application writes what it found of the commits: it was admitted on a clean worktree,
\* so that what it read there is what HEAD holds.
LEMMA ApplyKeeps ==
  ASSUME ReceiptsInv, NEW p \in Packets, NEW base \in DOMAIN commits, Apply(p, base)
  PROVE  ReceiptsInv'
<1> DEFINE request == work[RequestPath(p)]
           before == commits[base].tree
           after == commits[tip].tree
           altered == CandidateChanges(base, tip)
<1>1. /\ commits \in Seq(CommitRecords) /\ tip \in 1..Len(commits) /\ base \in 1..Len(commits)
      /\ work \in WorkTrees /\ base \in Nat /\ tip \in Nat /\ Len(commits) \in Nat
  BY LenProperties DEF ReceiptsInv, ReceiptsTyped
<1>2. /\ request # NoFile /\ request.status = "accepted" /\ work = after
      /\ commits[tip].parents = <<base>>
      /\ altered \subseteq {LockPath(l) : l \in request.draft.locks} \cup {RequestPath(p)}
      /\ RequestPath(p) \in altered /\ LocksOf(altered) # {}
      /\ Reviewed(request.draft)
  BY DEF Apply, Admitted, Clean, CandidateFollows, Follows
<1>3. before \in WorkTrees /\ after \in WorkTrees
  <2>1. commits[base] \in CommitRecords /\ commits[tip] \in CommitRecords
    BY <1>1, ElementOfSeq
  <2> QED BY <2>1 DEF CommitRecords
<1>4. PICK draft \in Drafts : /\ draft = request.draft /\ draft.packet = p
                              /\ request = Request(draft, "accepted")
  <2>1. request \in RequestFiles /\ request.draft.packet = p
    BY <1>1, <1>2, TreeContents
  <2> QED BY <1>2, <2>1, FilesDiffer DEF RequestFiles
<1> DEFINE wanted == draft.dependency
           bound == {[lock |-> l, before |-> before[LockPath(l)], after |-> after[LockPath(l)]] :
                        l \in LocksOf(altered)}
<1>5. PICK r : r = ReceiptOf(draft, base, tip)
  OBVIOUS
<1>6. /\ r = [status |-> "complete", draft |-> draft, accepted |-> after[RequestPath(p)],
              applied |-> Request(draft, "applied"), base |-> base, candidate |-> tip,
              rehearsed |-> tip, changes |-> bound, manifest |-> after[LockPath(Manifest)],
              reviewed |-> wanted]
  BY <1>4, <1>5 DEF ReceiptOf
<1>7. /\ r.status = "complete" /\ r.draft = draft /\ r.accepted = Request(draft, "accepted")
      /\ r.applied = Request(draft, "applied") /\ r.base = base /\ r.candidate = tip
      /\ r.rehearsed = tip /\ r.changes = bound /\ r.manifest = after[LockPath(Manifest)]
      /\ r.reviewed = wanted
  BY <1>2, <1>4, <1>6
<1>8. \A l \in Locks : before[LockPath(l)] \in LockContents /\ after[LockPath(l)] \in LockContents
  BY <1>3, TreeContents
<1>9. LocksOf(altered) \subseteq Locks
  BY DEF LocksOf
<1>10. bound \in SUBSET ChangeRecords
  BY <1>8, <1>9 DEF ChangeRecords
<1>11. \A change \in bound : /\ change.lock \in LocksOf(altered)
                             /\ change.before = before[LockPath(change.lock)]
                             /\ change.after = after[LockPath(change.lock)]
  OBVIOUS
<1>12. {change.lock : change \in bound} = LocksOf(altered)
  <2>1. ASSUME NEW l \in LocksOf(altered) PROVE \E change \in bound : change.lock = l
    <3>1. PICK change \in bound :
            change = [lock |-> l, before |-> before[LockPath(l)], after |-> after[LockPath(l)]]
      BY <2>1
    <3> QED BY <3>1
  <2> HIDE DEF bound
  <2> QED BY <1>11, <2>1
<1>13. after[LockPath(wanted.lock)] = wanted.version /\ wanted.lock \in Locks
  BY <1>2, <1>4, ReceiptsAssumption DEF Reviewed
<1> HIDE DEF bound, altered, before, after, request
<1>14. LocksOf(altered) \subseteq draft.locks
  BY <1>2, <1>4, PathsDiffer DEF LocksOf
<1>15. altered = {LockPath(change.lock) : change \in bound} \cup {RequestPath(p)}
  <2>1. ASSUME NEW x \in altered, x # RequestPath(p)
        PROVE  \E change \in bound : x = LockPath(change.lock)
    <3>1. PICK l \in draft.locks : x = LockPath(l)
      BY <1>2, <1>4, <2>1
    <3>2. l \in LocksOf(altered)
      BY <1>4, <2>1, <3>1, ReceiptsAssumption DEF LocksOf
    <3>3. PICK change \in bound : change.lock = l
      BY <1>12, <3>2
    <3> QED BY <3>1, <3>3
  <2>2. ASSUME NEW change \in bound PROVE LockPath(change.lock) \in altered
    BY <1>11 DEF LocksOf
  <2> QED BY <1>2, <2>1, <2>2
<1>16. NamesRequest(r, Request(draft, "applied"))
  <2>1. Request(draft, "accepted") # Request(draft, "applied")
    BY FilesDiffer
  <2>2. bound # {}
    BY <1>2, <1>12
  <2> QED BY <1>7, <1>12, <1>14, <2>1, <2>2, FilesDiffer DEF NamesRequest
<1>17. r \in ReceiptFiles
  <2>1. Request(draft, "accepted") \in RequestFiles /\ Request(draft, "applied") \in RequestFiles
    BY ReceiptsAssumption DEF RequestFiles
  <2>2. after[LockPath(Manifest)] \in LockContents
    BY <1>8, ReceiptsAssumption
  <2>3. wanted \in {d.dependency : d \in Drafts}
    OBVIOUS
  <2>4. after[RequestPath(p)] = Request(draft, "accepted")
    BY <1>6, <1>7
  <2>5. r \in [status : {"complete"}, draft : Drafts, accepted : RequestFiles,
               applied : RequestFiles, base : Nat, candidate : Nat, rehearsed : Nat,
               changes : SUBSET ChangeRecords, manifest : LockContents,
               reviewed : {d.dependency : d \in Drafts}]
    BY <1>1, <1>6, <1>10, <2>1, <2>2, <2>3, <2>4
  <2>6. \A change \in r.changes : change.lock = wanted.lock => change.after = wanted.version
    BY <1>7, <1>11, <1>13
  <2> QED BY <1>7, <1>13, <2>5, <2>6 DEF ReceiptFiles
<1>18. work' = [[work EXCEPT ![RequestPath(p)] = Request(draft, "applied")]
                 EXCEPT ![ReceiptPath(draft.id)] = r]
  BY <1>4, <1>5 DEF Apply, request
<1>19. work' \in WorkTrees
  <2>1. PICK file \in RequestFiles : file = Request(draft, "applied")
    BY DEF RequestFiles
  <2>2. RequestPath(p) \in Paths /\ ReceiptPath(draft.id) \in Paths
    BY DEF Paths, Ids
  <2>3. file \in Contents /\ Fits(RequestPath(p), file)
    BY <1>4, <2>1, FilesDiffer, PathsDiffer DEF Contents, Fits
  <2>4. PICK t \in WorkTrees : t = [work EXCEPT ![RequestPath(p)] = file]
    BY <1>1, <2>2, <2>3, PutFits
  <2>5. r \in Contents /\ Fits(ReceiptPath(draft.id), r)
    BY <1>17, PathsDiffer DEF Contents, Fits
  <2>6. [t EXCEPT ![ReceiptPath(draft.id)] = r] \in WorkTrees
    BY <2>2, <2>5, PutFits
  <2> QED BY <1>18, <2>1, <2>4, <2>6
<1>20. PICK pair : pair = [request |-> Request(draft, "applied"), receipt |-> r]
  OBVIOUS
<1>21. WrittenOf(pair, draft, commits)
  <2>1. r # NoFile
    BY <1>17, FilesDiffer
  <2>2. Changed(before, after) = altered
    BY DEF altered, CandidateChanges, before, after
  <2>3. pair.request = Request(draft, "applied") /\ pair.receipt = r
    BY <1>20
  <2>4. commits[tip].tree = after /\ commits[base].tree = before
    BY DEF after, before
  <2>5. after[RequestPath(draft.packet)] = Request(draft, "accepted")
    BY <1>4, <1>6, <1>7
  <2> QED BY <1>1, <1>2, <1>4, <1>7, <1>11, <1>13, <1>15, <1>16, <2>1, <2>2, <2>3, <2>4, <2>5
          DEF WrittenOf
<1>22. sealed' = sealed \cup {pair} /\ UNCHANGED <<commits, tip>>
  BY <1>4, <1>5, <1>20 DEF Apply, request
<1>23. ReceiptsTyped'
  BY <1>19, <1>22 DEF ReceiptsInv, ReceiptsTyped
<1>24. \A q \in sealed' : \E d \in Drafts : WrittenOf(q, d, commits)
  BY <1>21, <1>22 DEF ReceiptsInv
<1>25. PICK c : c = commits /\ c = commits'
  BY <1>22
<1>26. \A q \in sealed' : \E d \in Drafts : WrittenOf(q, d, c)
  BY <1>24, <1>25
<1>27. \A q \in sealed' : \E d \in Drafts : WrittenOf(q, d, commits')
  BY <1>25, <1>26
<1> QED BY <1>23, <1>27 DEF ReceiptsInv, WrittenOf, NamesRequest, Changed

-----------------------------------------------------------------------------

LEMMA ReceiptsInvInitially == ReceiptsInit => ReceiptsInv
<1> SUFFICES ASSUME ReceiptsInit PROVE ReceiptsInv
  OBVIOUS
<1> DEFINE first == [x \in Paths |-> IF x[1] \in {"lock", "other"} THEN 1 ELSE NoFile]
<1>1. commits = <<[parents |-> <<>>, tree |-> first]>> /\ tip = 1 /\ sealed = {}
  BY DEF ReceiptsInit
<1>2. ASSUME NEW x \in Paths PROVE first[x] \in Contents /\ Fits(x, first[x])
  <2>1. first[x] \in {1, NoFile}
    BY <1>2
  <2>2. first[x] \in Contents
    BY <2>1 DEF Contents, LockContents
  <2>3. \A p \in Packets : x = RequestPath(p) => first[x] = NoFile
    BY <1>2 DEF RequestPath
  <2>4. \A i \in Ids : x = ReceiptPath(i) => first[x] = NoFile
    BY <1>2 DEF ReceiptPath
  <2>5. \A l \in Locks : x = LockPath(l) => first[x] = 1
    BY <1>2 DEF LockPath
  <2> QED BY <2>2, <2>3, <2>4, <2>5 DEF Fits, LockContents
<1>3. first \in WorkTrees
  BY <1>2 DEF WorkTrees
<1> HIDE DEF first
<1>4. PICK commit \in CommitRecords : commit = [parents |-> <<>>, tree |-> first]
  BY <1>3, EmptySeq DEF CommitRecords
<1>5. commits = <<commit>> /\ Len(commits) = 1 /\ commits \in Seq(CommitRecords)
  BY <1>1, <1>4
<1>6. work = first
  <2>1. commits[1] = commit
    BY <1>5
  <2> QED BY <1>4, <2>1 DEF ReceiptsInit
<1> QED BY <1>1, <1>3, <1>5, <1>6 DEF ReceiptsInv, ReceiptsTyped

LEMMA ReceiptsInvStep == ReceiptsInv /\ [ReceiptsNext]_receiptVars => ReceiptsInv'
<1> SUFFICES ASSUME ReceiptsInv, [ReceiptsNext]_receiptVars PROVE ReceiptsInv'
  OBVIOUS
<1>1. ASSUME NEW p \in Packets, NEW base \in DOMAIN commits, Apply(p, base) PROVE ReceiptsInv'
  BY <1>1, ApplyKeeps
<1>2. CASE WriteRequest \/ WriteLock \/ WriteOther \/ Restore \/ Retarget
  BY <1>2, WritesKeep, RestoreKeeps, RetargetKeeps
<1>3. CASE MakeCommit \/ Squash \/ \E c \in DOMAIN commits : Merge(c)
  BY <1>3, CommitsKeep
<1>4. ASSUME NEW c \in DOMAIN commits, Switch(c) PROVE ReceiptsInv'
  BY <1>4, SwitchKeeps
<1>5. CASE UNCHANGED receiptVars
  BY <1>5, WorkKeeps DEF receiptVars, ReceiptsInv, ReceiptsTyped
<1> QED BY <1>1, <1>2, <1>3, <1>4, <1>5 DEF ReceiptsNext

(***************************************************************************)
(* A pair of request and receipt that an application wrote is accepted by  *)
(* the dependency check wherever it is checked out, whatever was           *)
(* committed, merged, restored or switched since.                          *)
(***************************************************************************)
THEOREM SealedAreAccepted == ReceiptsSpec => []SealedStaysAccepted
BY SealedFollows, ReceiptsInvInitially, ReceiptsInvStep, PTL DEF ReceiptsSpec

(***************************************************************************)
(* An applied request the dependency check accepts names a commit that     *)
(* accepted this very request and changed nothing but it and root locks it *)
(* declares, however the receipt came into the worktree or was retargeted. *)
(***************************************************************************)
THEOREM AcceptedAreBound == ReceiptsSpec => []AcceptedIsBound
BY AcceptedFollows, ReceiptsInvInitially, ReceiptsInvStep, PTL DEF ReceiptsSpec

-----------------------------------------------------------------------------

(***************************************************************************)
(* The dependency review, for any packages. The invariant carries what     *)
(* each validation run so far has established about the candidate; the     *)
(* numbers of the record then agree only if the sets they count do, each   *)
(* holding the next.                                                       *)
(***************************************************************************)

Stages == {"install", "licenses", "coverage", "audit", "review", "rehearsal", "recorded", "refused"}

IsEvidence(e) ==
  e = [supported |-> e.supported, covered |-> e.covered, inventoried |-> e.inventoried,
       derived |-> e.derived, reviewed |-> e.reviewed, tools |-> e.tools]

\* The record of the coverage is that of the candidate and of what was installed.
CoverageEarned ==
  /\ LockUsable
  /\ \A package \in Derived : TarballApproved(package)
  /\ evidence.supported = Coverage.supported /\ evidence.covered = Coverage.covered
  /\ evidence.inventoried = Coverage.inventoried /\ evidence.derived = Coverage.derived

\* What the validations that have been run have established.
ReviewInv ==
  /\ lockfile \in LockCandidates
  /\ stage \in Stages
  /\ IsEvidence(evidence)
  /\ stage \in Stages \ {"install", "refused"} => \A package \in installed : Genuine(package)
  /\ stage \in Stages \ {"install", "licenses", "refused"} => InventoryApproved
  /\ stage \in {"audit", "review", "rehearsal", "recorded"} => CoverageEarned
  /\ stage \in {"rehearsal", "recorded"} => evidence.reviewed = asked /\ evidence.tools = ToolLicenses

LEMMA ReviewStarts == ReviewInit => ReviewInv
BY DEF ReviewInit, ReviewInv, Stages, IsEvidence, NoEvidence

\* A step that changes neither the candidate nor what was installed keeps what is said of both.
LEMMA CandidateKept ==
  ASSUME UNCHANGED <<candidateVars, installed>>
  PROVE  /\ \A package : Genuine(package)' <=> Genuine(package)
         /\ InventoryApproved' <=> InventoryApproved
         /\ Coverage' = Coverage /\ (LockUsable' <=> LockUsable) /\ Derived' = Derived
         /\ \A package : TarballApproved(package)' <=> TarballApproved(package)
         /\ asked' = asked /\ lockfile' = lockfile
         /\ (evidence' = evidence => (CoverageEarned' <=> CoverageEarned))
BY DEF candidateVars, Genuine, InventoryApproved, Coverage, LockUsable, Derived, TarballApproved,
       SupportedLockRecords, InstallsOn, CoverageEarned

LEMMA ReviewStep ==
  ASSUME ReviewInv, [ReviewNext]_reviewVars
  PROVE  ReviewInv'
<1> USE DEF Stages
<1>1. CASE UNCHANGED reviewVars
  BY <1>1, CandidateKept DEF ReviewInv, reviewVars, IsEvidence, candidateVars
<1>2. CASE Install
  <2>1. CASE Refusal("install")
    BY <2>1 DEF Refusal, Step, ReviewInv, IsEvidence, candidateVars
  <2>2. CASE \E more \in SUBSET DOMAIN lockfile :
               /\ installed' = more \cup {package \in DOMAIN lockfile : InstallsOn(package, host)}
               /\ \A package \in installed' : Genuine(package)
               /\ Step("install", "licenses")
               /\ UNCHANGED <<candidateVars, evidence>>
    <3>1. /\ \A package \in installed' : Genuine(package)
          /\ stage' = "licenses" /\ UNCHANGED <<candidateVars, evidence>>
      BY <2>2 DEF Step
    <3>2. \A package \in installed' : Genuine(package)'
      BY <3>1 DEF Genuine, candidateVars
    <3> QED BY <3>1, <3>2 DEF ReviewInv, IsEvidence, candidateVars
  <2> QED BY <1>2, <2>1, <2>2 DEF Install
<1>3. CASE ListLicenses
  BY <1>3, CandidateKept DEF ListLicenses, Refusal, Step, ReviewInv, IsEvidence
<1>4. CASE CoverPlatforms
  <2>1. CASE Refusal("coverage")
    BY <2>1, CandidateKept DEF Refusal, Step, ReviewInv, IsEvidence
  <2>2. CASE ~ Refusal("coverage")
    <3>1. /\ LockUsable /\ \A package \in Derived : TarballApproved(package)
          /\ stage = "coverage" /\ stage' = "audit" /\ UNCHANGED <<candidateVars, installed>>
          /\ evidence' =
               [evidence EXCEPT !.supported = Coverage.supported, !.covered = Coverage.covered,
                                !.inventoried = Coverage.inventoried, !.derived = Coverage.derived]
      BY <1>4, <2>2 DEF CoverPlatforms, Step
    <3>2. PICK coverage : coverage = Coverage
      OBVIOUS
    <3>3. IsEvidence(evidence)
      BY DEF ReviewInv
    <3>4. /\ IsEvidence(evidence)'
          /\ evidence'.supported = coverage.supported /\ evidence'.covered = coverage.covered
          /\ evidence'.inventoried = coverage.inventoried /\ evidence'.derived = coverage.derived
      BY <3>1, <3>2, <3>3 DEF IsEvidence
    <3>5. CoverageEarned'
      BY <3>1, <3>2, <3>4, CandidateKept DEF CoverageEarned
    <3> QED BY <3>1, <3>4, <3>5, CandidateKept DEF ReviewInv
  <2> QED BY <2>1, <2>2
<1>5. CASE Audit
  BY <1>5, CandidateKept DEF Audit, Refusal, Step, ReviewInv, IsEvidence
<1>6. CASE ReviewDependencies
  <2>1. CASE Refusal("review")
    BY <2>1, CandidateKept DEF Refusal, Step, ReviewInv, IsEvidence
  <2>2. CASE ~ Refusal("review")
    <3>1. /\ stage = "review" /\ stage' = "rehearsal" /\ UNCHANGED <<candidateVars, installed>>
          /\ evidence' = [evidence EXCEPT !.reviewed = asked, !.tools = ToolLicenses]
      BY <1>6, <2>2 DEF ReviewDependencies, Step
    <3>2. PICK e : e = evidence
      OBVIOUS
    <3>3. IsEvidence(e) /\ CoverageEarned
      BY <3>1, <3>2 DEF ReviewInv
    <3>4. /\ IsEvidence(evidence)'
          /\ evidence'.supported = evidence.supported /\ evidence'.covered = evidence.covered
          /\ evidence'.inventoried = evidence.inventoried /\ evidence'.derived = evidence.derived
          /\ evidence'.reviewed = asked /\ evidence'.tools = ToolLicenses
      BY <3>1, <3>2, <3>3 DEF IsEvidence
    <3>5. CoverageEarned'
      BY <3>1, <3>3, <3>4, CandidateKept DEF CoverageEarned
    <3> QED BY <3>1, <3>4, <3>5, CandidateKept DEF ReviewInv, ToolLicenses
  <2> QED BY <2>1, <2>2
<1>7. CASE Rehearse
  BY <1>7, CandidateKept DEF Rehearse, Refusal, Step, ReviewInv, IsEvidence
<1> QED BY <1>1, <1>2, <1>3, <1>4, <1>5, <1>6, <1>7 DEF ReviewNext

\* The records of the packages taken from their tarballs are as many as the packages.
LEMMA DerivedCounted ==
  ASSUME IsFiniteSet(Derived)
  PROVE  Cardinality(Coverage.derived) = Cardinality(Derived)
<1> DEFINE record(package) ==
             [package |-> package, license |-> registry[package].license,
              integrity |-> lockfile[package].integrity]
           f == [package \in Derived |-> record(package)]
           records == {record(package) : package \in Derived}
<1>1. Coverage.derived = records
  BY DEF Coverage
<1>2. \A p, q \in Derived : record(p) = record(q) => p = q
  OBVIOUS
<1> HIDE DEF record
<1>3. f \in Bijection(Derived, records)
  BY <1>2 DEF Bijection, Injection, Surjection, IsInjective
<1>4. ExistsBijection(Derived, records)
  BY <1>3 DEF ExistsBijection
<1> QED BY <1>1, <1>4, FS_Bijection

LEMMA RecordsAccepted ==
  ASSUME ReviewInv, stage = "recorded"
  PROVE  ValidationsAccepted
<1> DEFINE supported == SupportedLockRecords
<1>1. CoverageEarned /\ evidence.reviewed = asked /\ evidence.tools = ToolLicenses
  BY DEF ReviewInv
<1>2. supported \subseteq PnpmPackages /\ IsFiniteSet(PnpmPackages)
  BY ReviewAssumption DEF ReviewInv, SupportedLockRecords
<1>3. IsFiniteSet(supported) /\ IsFiniteSet(Derived) /\ IsFiniteSet(supported \cap installed)
  BY <1>2, FS_Subset DEF Derived
<1>4. /\ Cardinality(supported) \in Nat /\ Cardinality(Derived) \in Nat
      /\ Cardinality(supported \cap installed) \in Nat
  BY <1>3, FS_CardinalityType
<1>5. Cardinality(Derived) = Cardinality(supported) - Cardinality(supported \cap installed)
  BY <1>3, FS_Difference DEF Derived
<1>6. Cardinality(supported) # 0
  BY <1>1, <1>3, FS_EmptySet DEF CoverageEarned, LockUsable
<1>7. /\ supported \cap (installed \cup Derived) = supported
      /\ supported \cap ((installed \cup Derived) \ Derived) = supported \cap installed
  BY DEF Derived
<1>8. /\ Coverage.supported = Cardinality(supported) /\ Coverage.covered = Cardinality(supported)
      /\ Coverage.inventoried = Cardinality(supported \cap installed)
  BY <1>7 DEF Coverage
<1>9. Cardinality(evidence.derived) = Cardinality(Derived)
  BY <1>1, <1>3, DerivedCounted DEF CoverageEarned
<1>10. \A item \in evidence.derived : item.license \in PackageLicenses /\ item.integrity # "malformed"
  <2> SUFFICES ASSUME NEW item \in evidence.derived
               PROVE  item.license \in PackageLicenses /\ item.integrity # "malformed"
    OBVIOUS
  <2>1. PICK package \in Derived :
          item = [package |-> package, license |-> registry[package].license,
                  integrity |-> lockfile[package].integrity]
    BY <1>1 DEF CoverageEarned, Coverage
  <2>2. TarballApproved(package) /\ lockfile[package].integrity # "malformed"
    BY <1>1 DEF CoverageEarned, LockUsable, Derived
  <2> QED BY <2>1, <2>2 DEF TarballApproved
<1>11. /\ evidence.supported = Cardinality(supported) /\ evidence.covered = Cardinality(supported)
       /\ evidence.inventoried = Cardinality(supported \cap installed)
  BY <1>1, <1>8 DEF CoverageEarned
<1>12. CoverageAccepted
  <2> HIDE DEF supported
  <2> QED BY <1>4, <1>5, <1>6, <1>9, <1>10, <1>11 DEF CoverageAccepted
<1> QED BY <1>1, <1>12 DEF ValidationsAccepted

LEMMA PlatformsReviewed ==
  ASSUME ReviewInv, stage = "recorded", NEW platform \in SupportedPlatforms,
         NEW package \in DOMAIN lockfile, InstallsOn(package, platform)
  PROVE  Genuine(package) /\ registry[package].license \in PackageLicenses
<1>1. package \in installed \/ package \in Derived
  BY DEF Derived, SupportedLockRecords
<1> QED BY <1>1 DEF ReviewInv, Stages, InventoryApproved, CoverageEarned, TarballApproved

\* Whatever the candidate, the host and the registry: a recorded application has reviewed what
\* every supported platform installs, and its record passes the dependency check.
THEOREM ReviewsAreComplete == ReviewSpec => []ReviewsComplete
<1>1. ReviewInv => ReviewsComplete
  BY RecordsAccepted, PlatformsReviewed
  DEF ReviewsComplete, EveryPlatformReviewed, RecordsAreAccepted
<1> QED BY <1>1, ReviewStarts, ReviewStep, PTL DEF ReviewSpec

-----------------------------------------------------------------------------

(***************************************************************************)
(* The architecture check, for any tree. A search goes breadth first:      *)
(* every way in its queue is a shortest one, the lengths there differ by   *)
(* one at most, and what was visited is below the start and either waits   *)
(* in the queue or has led on. So an empty queue has visited all that is   *)
(* below, and each forbidden package was met by a shortest way; what is    *)
(* below one guarded package is searched for each of its rules.            *)
(*                                                                         *)
(* The stack of the web is a chain of configurations, each below the ones  *)
(* under it and none of them validated: meeting one of the chain again is  *)
(* meeting a cycle. As long as nothing was reported, all that was          *)
(* validated is closed under extends and stays inside the web.             *)
(***************************************************************************)

\* A set of naturals that is not empty has a least element.
LEMMA LeastNatural == ASSUME NEW S, S \subseteq Nat, S # {} PROVE \E m \in S : \A k \in S : m <= k
<1> DEFINE R == OpToRel(<, Nat)
<1>1. IsWellFoundedOn(R, Nat)
  BY NatLessThanWellFounded
<1>2. \A i, j \in Nat : <<i, j>> \in R <=> i < j
  BY DEF OpToRel
<1> HIDE DEF R
<1>3. PICK m \in S : \A k \in S : <<k, m>> \notin R
  BY <1>1, WFMin
<1>4. ASSUME NEW k \in S PROVE m <= k
  <2>1. m \in Nat /\ k \in Nat /\ ~(k < m)
    BY <1>2, <1>3
  <2> QED BY <2>1
<1> QED BY <1>4

\* A set that holds 0, and each number up to n with the one before it, holds them all.
LEMMA Climbing ==
  ASSUME NEW S, NEW n \in Nat, 0 \in S, \A i \in 1..n : i - 1 \in S => i \in S
  PROVE  \A i \in 0..n : i \in S
<1> DEFINE Lost == {i \in 0..n : i \notin S}
<1> SUFFICES ASSUME Lost # {} PROVE FALSE
  OBVIOUS
<1>1. PICK m \in Lost : \A k \in Lost : m <= k
  <2> Lost \subseteq Nat
    OBVIOUS
  <2> HIDE DEF Lost
  <2> QED BY LeastNatural
<1>2. m # 0 /\ m \in 1..n /\ m - 1 \in 0..n
  BY <1>1
<1>3. m - 1 \notin Lost
  BY <1>1, <1>2
<1> QED BY <1>1, <1>2, <1>3

\* What is folded with a function of steps.
IsFold(g, S, a, n, G) ==
  /\ g \in [0..n -> S] /\ g[0] = a
  /\ \A i \in 1..n : g[i] = G[<<g[i - 1], i>>]

\* A fold over the steps 1..n exists, built one step at a time.
LEMMA FoldsExist ==
  ASSUME NEW S, NEW a \in S, NEW n \in Nat, NEW G \in [S \X (1..n) -> S]
  PROVE  \E g : IsFold(g, S, a, n, G)
<1> DEFINE T == {k \in 0..n : \E g : IsFold(g, S, a, k, G)}
<1>1. 0 \in T
  <2> DEFINE g == [i \in 0..0 |-> a]
  <2>1. IsFold(g, S, a, 0, G)
    BY DEF IsFold
  <2> HIDE DEF g
  <2> QED BY <2>1
<1>2. ASSUME NEW m \in 1..n, m - 1 \in T PROVE m \in T
  <2>1. PICK g : IsFold(g, S, a, m - 1, G)
    BY <1>2
  <2> DEFINE x == G[<<g[m - 1], m>>]
             h == [i \in 0..m |-> IF i = m THEN x ELSE g[i]]
  <2>2. m - 1 \in 0..(m - 1) /\ \A i \in 0..(m - 1) : i \in 0..m /\ i # m
    OBVIOUS
  <2>3. g \in [0..(m - 1) -> S] /\ g[0] = a /\ \A i \in 1..(m - 1) : g[i] = G[<<g[i - 1], i>>]
    BY <2>1 DEF IsFold
  <2>4. x \in S
    BY <2>2, <2>3
  <2> HIDE DEF x
  <2>5. h \in [0..m -> S]
    BY <2>3, <2>4
  <2>6. h[m] = x /\ \A i \in 0..(m - 1) : h[i] = g[i]
    BY <2>2
  <2> HIDE DEF h
  <2>7. h[0] = a
    BY <2>3, <2>6
  <2>8. ASSUME NEW i \in 1..m PROVE h[i] = G[<<h[i - 1], i>>]
    <3>1. h[i - 1] = g[i - 1]
      BY <2>6
    <3>2. CASE i = m
      BY <2>6, <3>1, <3>2 DEF x
    <3>3. CASE i # m
      <4>1. i \in 1..(m - 1) /\ i \in 0..(m - 1)
        BY <3>3
      <4> QED BY <2>3, <2>6, <3>1, <4>1
    <3> QED BY <3>2, <3>3
  <2>9. IsFold(h, S, a, m, G)
    BY <2>5, <2>7, <2>8 DEF IsFold
  <2> QED BY <2>9
<1> HIDE DEF T
<1>3. n \in T
  <2>1. \A i \in 0..n : i \in T
    BY <1>1, <1>2, Climbing
  <2> QED BY <2>1
<1> QED BY <1>3 DEF T

\* The states of a fold are the ones a recursive function of the same steps has.
LEMMA FoldStates ==
  ASSUME NEW S, NEW a \in S, NEW n \in Nat, NEW G \in [S \X (1..n) -> S],
         NEW g, g[0] = a, \A i \in 1..n : g[i - 1] \in S => g[i] = G[<<g[i - 1], i>>]
  PROVE  \A i \in 0..n : g[i] \in S
<1> DEFINE T == {k \in 0..n : g[k] \in S}
<1>1. 0 \in T
  OBVIOUS
<1>2. ASSUME NEW i \in 1..n, i - 1 \in T PROVE i \in T
  <2>1. <<g[i - 1], i>> \in S \X (1..n) /\ g[i] = G[<<g[i - 1], i>>]
    BY <1>2
  <2> QED BY <2>1
<1> HIDE DEF T
<1>3. \A i \in 0..n : i \in T
  BY <1>1, <1>2, Climbing
<1> QED BY <1>3 DEF T

-----------------------------------------------------------------------------
\* What a graph leads to.

Digraph(g) == IsFiniteSet(g.node) /\ \A e \in g.edge : e[1] \in g.node /\ e[2] \in g.node
Closed(g, Z) == \A a \in Z : Successors(g, a) \subseteq Z

\* The sets that n steps from the start lead to, one after the other.
Nearing(g, start, n, h) ==
  /\ h[0] = start
  /\ \A i \in 0..n : h[i] \in SUBSET g.node
  /\ \A i \in 1..n : h[i] = h[i - 1] \cup AllSuccessors(g, h[i - 1])

\* The steps of Onward, one after the other.
LEMMA OnwardSteps ==
  ASSUME NEW g, NEW start \in SUBSET g.node, NEW steps \in Nat
  PROVE  \E h : Onward(g, start, steps) = h[steps] /\ Nearing(g, start, steps, h)
<1> DEFINE n == steps
           D == SUBSET g.node
           G == [q \in D \X (1..n) |-> q[1] \cup AllSuccessors(g, q[1])]
           P(f) == f = [i \in 0..n |-> IF i = 0 THEN start ELSE f[i - 1] \cup AllSuccessors(g, f[i - 1])]
<1>1. n \in Nat /\ start \in D
  OBVIOUS
<1>2. \A q \in D \X (1..n) : q[1] \cup AllSuccessors(g, q[1]) \in D
  <2>1. \A X \in D : AllSuccessors(g, X) \subseteq g.node
    BY DEF AllSuccessors, Successors
  <2> QED BY <2>1
<1>3. G \in [D \X (1..n) -> D] /\ \A d \in D, i \in 1..n : G[<<d, i>>] = d \cup AllSuccessors(g, d)
  <2> HIDE DEF n, D
  <2> QED BY <1>2
<1> HIDE DEF n, D, G
<1>4. PICK f : IsFold(f, D, start, n, G)
  BY <1>1, <1>3, FoldsExist
<1>5. f \in [0..n -> D] /\ f[0] = start /\ \A i \in 1..n : f[i] = f[i - 1] \cup AllSuccessors(g, f[i - 1])
  <2>1. f \in [0..n -> D] /\ f[0] = start /\ \A i \in 1..n : f[i] = G[<<f[i - 1], i>>]
    BY <1>4 DEF IsFold
  <2>2. \A i \in 1..n : i - 1 \in 0..n
    BY <1>1
  <2> QED BY <1>3, <2>1, <2>2
<1>6. P(f)
  <2>1. \A i \in 0..n : f[i] = IF i = 0 THEN start ELSE f[i - 1] \cup AllSuccessors(g, f[i - 1])
    <3>1. \A i \in 0..n : i = 0 \/ i \in 1..n
      BY <1>1
    <3> QED BY <1>5, <3>1, Zenon
  <2>2. f = [i \in 0..n |-> f[i]]
    BY <1>5
  <2>3. [i \in 0..n |-> f[i]] = [i \in 0..n |-> IF i = 0 THEN start ELSE f[i - 1] \cup AllSuccessors(g, f[i - 1])]
    BY <2>1, Zenon
  <2> QED BY <2>2, <2>3, Zenon
<1> DEFINE h == CHOOSE z : P(z)
<1>7. P(h)
  BY <1>6, Zenon
<1>8. Onward(g, start, steps) = h[n]
  BY Zenon DEF Onward, n
<1> HIDE DEF h
<1>9. h[0] = start /\ \A i \in 1..n : h[i] = h[i - 1] \cup AllSuccessors(g, h[i - 1])
  <2> DEFINE k == [i \in 0..n |-> IF i = 0 THEN start ELSE h[i - 1] \cup AllSuccessors(g, h[i - 1])]
  <2>1. \A i \in 0..n : k[i] = IF i = 0 THEN start ELSE h[i - 1] \cup AllSuccessors(g, h[i - 1])
    OBVIOUS
  <2>2. h = k
    BY <1>7, Zenon
  <2>3. 0 \in 0..n /\ \A i \in 1..n : i \in 0..n /\ i # 0
    BY <1>1
  <2> HIDE DEF k
  <2> QED BY <2>1, <2>2, <2>3, Zenon
<1>10. \A i \in 0..n : h[i] \in D
  <2>1. \A i \in 1..n : h[i - 1] \in D => h[i] = G[<<h[i - 1], i>>]
    BY <1>3, <1>9
  <2> QED BY <1>1, <1>3, <1>9, <2>1, FoldStates
<1>11. Nearing(g, start, n, h)
  BY <1>9, <1>10, Zenon DEF Nearing, D
<1> QED BY <1>8, <1>11, Zenon DEF n

\* Onward begins with its start, and each step adds the successors of what is there.
LEMMA OnwardNext ==
  ASSUME NEW g, NEW start \in SUBSET g.node, NEW n \in Nat
  PROVE  /\ Onward(g, start, 0) = start
         /\ Onward(g, start, n) \in SUBSET g.node
         /\ Onward(g, start, n + 1) =
              Onward(g, start, n) \cup AllSuccessors(g, Onward(g, start, n))
<1>1. Onward(g, start, 0) = start
  <2>1. PICK h : Onward(g, start, 0) = h[0] /\ Nearing(g, start, 0, h)
    <3>1. 0 \in Nat
      OBVIOUS
    <3> QED BY <3>1, OnwardSteps, Zenon
  <2> QED BY <2>1, Zenon DEF Nearing
<1>20. PICK h : Onward(g, start, n) = h[n] /\ Nearing(g, start, n, h)
  BY OnwardSteps, Zenon
<1>2. /\ Onward(g, start, n) = h[n] /\ h[0] = start
      /\ \A i \in 0..n : h[i] \in SUBSET g.node
      /\ \A i \in 1..n : h[i] = h[i - 1] \cup AllSuccessors(g, h[i - 1])
  BY <1>20, Zenon DEF Nearing
<1>3. n + 1 \in Nat /\ n + 1 \in 1..(n + 1) /\ (n + 1) - 1 = n /\ n \in 0..n
  OBVIOUS
<1>40. PICK k : Onward(g, start, n + 1) = k[n + 1] /\ Nearing(g, start, n + 1, k)
  BY <1>3, OnwardSteps, Zenon
<1>4. /\ Onward(g, start, n + 1) = k[n + 1] /\ k[0] = start
      /\ \A i \in 1..(n + 1) : k[i] = k[i - 1] \cup AllSuccessors(g, k[i - 1])
  BY <1>40, Zenon DEF Nearing
<1> DEFINE T == {i \in 0..n : h[i] = k[i]}
<1>5. 0 \in T
  BY <1>2, <1>4
<1>6. ASSUME NEW i \in 1..n, i - 1 \in T PROVE i \in T
  <2>1. h[i - 1] = k[i - 1] /\ i \in 1..(n + 1) /\ i \in 0..n
    BY <1>6
  <2> QED BY <1>2, <1>4, <2>1
<1>7. h[n] = k[n]
  <2>1. \A i \in 0..n : i \in T
    <3> HIDE DEF T
    <3> QED BY <1>5, <1>6, Climbing
  <2> QED BY <1>3, <2>1
<1>8. k[n + 1] = k[n] \cup AllSuccessors(g, k[n])
  BY <1>3, <1>4
<1> QED BY <1>1, <1>2, <1>3, <1>4, <1>7, <1>8

\* What is closed and holds the start holds all it leads to.
LEMMA OnwardLeast ==
  ASSUME NEW g, NEW start \in SUBSET g.node, NEW n \in Nat, NEW Z, start \subseteq Z, Closed(g, Z)
  PROVE  Onward(g, start, n) \subseteq Z
<1>0. PICK h : Onward(g, start, n) = h[n] /\ Nearing(g, start, n, h)
  BY OnwardSteps, Zenon
<1>1. /\ Onward(g, start, n) = h[n] /\ h[0] = start
      /\ \A i \in 1..n : h[i] = h[i - 1] \cup AllSuccessors(g, h[i - 1])
  BY <1>0, Zenon DEF Nearing
<1> DEFINE T == {i \in 0..n : h[i] \subseteq Z}
<1>2. 0 \in T
  BY <1>1
<1>3. ASSUME NEW i \in 1..n, i - 1 \in T PROVE i \in T
  <2>1. AllSuccessors(g, h[i - 1]) \subseteq Z
    BY <1>3 DEF AllSuccessors, Closed
  <2> QED BY <1>1, <1>3, <2>1
<1>4. \A i \in 0..n : i \in T
  <2> HIDE DEF T
  <2> QED BY <1>2, <1>3, Climbing
<1> QED BY <1>1, <1>4

\* What onward started from stays in it.
LEMMA OnwardGrows ==
  ASSUME NEW g, NEW start \in SUBSET g.node, NEW n \in Nat
  PROVE  start \subseteq Onward(g, start, n)
<1>0. PICK h : Onward(g, start, n) = h[n] /\ Nearing(g, start, n, h)
  BY OnwardSteps, Zenon
<1>1. /\ Onward(g, start, n) = h[n] /\ h[0] = start
      /\ \A i \in 1..n : h[i] = h[i - 1] \cup AllSuccessors(g, h[i - 1])
  BY <1>0, Zenon DEF Nearing
<1> DEFINE T == {i \in 0..n : start \subseteq h[i]}
<1>2. 0 \in T
  BY <1>1
<1>3. ASSUME NEW i \in 1..n, i - 1 \in T PROVE i \in T
  BY <1>1, <1>3
<1>4. \A i \in 0..n : i \in T
  <2> HIDE DEF T
  <2> QED BY <1>2, <1>3, Climbing
<1> QED BY <1>1, <1>4

\* As many steps as there are nodes lead as far as any number of steps.
LEMMA OnwardCloses ==
  ASSUME NEW g, Digraph(g), NEW start \in SUBSET g.node
  PROVE  Closed(g, Onward(g, start, Cardinality(g.node)))
<1> DEFINE n == Cardinality(g.node)
<1>1. IsFiniteSet(g.node) /\ n \in Nat
  BY FS_CardinalityType DEF Digraph
<1>20. PICK h : Onward(g, start, n) = h[n] /\ Nearing(g, start, n, h)
  BY <1>1, OnwardSteps, Zenon
<1>2. /\ Onward(g, start, n) = h[n] /\ h[0] = start
      /\ \A i \in 0..n : h[i] \in SUBSET g.node
      /\ \A i \in 1..n : h[i] = h[i - 1] \cup AllSuccessors(g, h[i - 1])
  BY <1>20, Zenon DEF Nearing
<1>3. \A i \in 0..n : IsFiniteSet(h[i]) /\ Cardinality(h[i]) \in Nat /\ Cardinality(h[i]) <= n
  BY <1>1, <1>2, FS_Subset, FS_CardinalityType
<1> HIDE DEF n
<1> DEFINE T == {i \in 0..n : Closed(g, h[i]) \/ Cardinality(h[i]) >= i}
<1>4. 0 \in T
  <2>1. 0 \in 0..n /\ Cardinality(h[0]) \in Nat
    BY <1>1, <1>3
  <2> QED BY <2>1
<1>5. ASSUME NEW i \in 1..n, i - 1 \in T PROVE i \in T
  <2>0. i \in 0..n /\ i - 1 \in 0..n /\ i \in Nat
    BY <1>1
  <2>1. h[i] = h[i - 1] \cup AllSuccessors(g, h[i - 1])
    BY <1>2
  <2>2. CASE Closed(g, h[i - 1])
    <3>1. AllSuccessors(g, h[i - 1]) \subseteq h[i - 1]
      BY <2>2 DEF Closed, AllSuccessors
    <3>2. h[i] = h[i - 1]
      BY <2>1, <3>1
    <3> QED BY <2>0, <2>2, <3>2
  <2>3. CASE ~ Closed(g, h[i - 1]) /\ Cardinality(h[i - 1]) >= i - 1
    <3>0. PICK a \in h[i - 1] : ~ (Successors(g, a) \subseteq h[i - 1])
      BY <2>3 DEF Closed
    <3>1. PICK b \in Successors(g, a) : b \notin h[i - 1]
      BY <3>0
    <3>2. b \in h[i]
      BY <2>1, <3>1 DEF AllSuccessors
    <3>3. h[i - 1] \cup {b} \subseteq h[i]
      BY <2>1, <3>2
    <3>4. Cardinality(h[i - 1] \cup {b}) = Cardinality(h[i - 1]) + 1
      <4>1. IsFiniteSet(h[i - 1])
        BY <1>3, <2>0
      <4>2. \A S : IsFiniteSet(S) /\ b \notin S => Cardinality(S \cup {b}) = Cardinality(S) + 1
        BY FS_AddElement
      <4> QED BY <3>1, <4>1, <4>2
    <3>5. Cardinality(h[i - 1] \cup {b}) <= Cardinality(h[i])
      BY <1>3, <2>0, <3>3, FS_Subset
    <3>6. Cardinality(h[i]) \in Nat /\ Cardinality(h[i - 1]) \in Nat
      BY <1>3, <2>0
    <3>7. Cardinality(h[i]) >= i
      BY <2>0, <2>3, <3>4, <3>5, <3>6
    <3> QED BY <2>0, <3>7
  <2> QED BY <1>5, <2>2, <2>3
<1>6. Closed(g, h[n]) \/ Cardinality(h[n]) >= n
  <2>1. \A i \in 0..n : i \in T
    <3> HIDE DEF T
    <3> QED BY <1>1, <1>4, <1>5, Climbing
  <2> QED BY <1>1, <2>1
<1>7. CASE Cardinality(h[n]) >= n
  <2>1. n \in 0..n
    BY <1>1
  <2>2. h[n] \subseteq g.node /\ Cardinality(h[n]) \in Nat /\ Cardinality(h[n]) <= n
    BY <1>2, <1>3, <2>1
  <2>3. Cardinality(h[n]) = n
    BY <1>1, <1>7, <2>2
  <2>4. h[n] = g.node
    BY <1>1, <2>2, <2>3, FS_Subset DEF n
  <2>5. Closed(g, g.node)
    BY DEF Closed, Successors
  <2> QED BY <1>2, <2>4, <2>5 DEF n
<1> QED BY <1>2, <1>6, <1>7 DEF n

\* What lies below a node is the least closed set with its successors.
LEMMA BelowFacts ==
  ASSUME NEW g, Digraph(g), NEW a
  PROVE  /\ Below(g, a) \subseteq g.node /\ Successors(g, a) \subseteq Below(g, a)
         /\ Closed(g, Below(g, a))
         /\ \A Z : Successors(g, a) \subseteq Z /\ Closed(g, Z) => Below(g, a) \subseteq Z
<1>1. Successors(g, a) \in SUBSET g.node
  BY DEF Successors
<1>2. Cardinality(g.node) \in Nat
  BY FS_CardinalityType DEF Digraph
<1>3. Closed(g, Below(g, a))
  BY <1>1, OnwardCloses DEF Below
<1>4. Below(g, a) \subseteq g.node
  BY <1>1, <1>2, OnwardNext DEF Below
<1>5. Successors(g, a) \subseteq Below(g, a)
  BY <1>1, <1>2, OnwardGrows DEF Below
<1>6. \A Z : Successors(g, a) \subseteq Z /\ Closed(g, Z) => Below(g, a) \subseteq Z
  BY <1>1, <1>2, OnwardLeast DEF Below
<1> QED BY <1>3, <1>4, <1>5, <1>6

-----------------------------------------------------------------------------
\* Finite sets and sequences.

\* A set is written as a sequence that holds each of its elements once.
LEMMA SetInSequence ==
  ASSUME NEW S, IsFiniteSet(S)
  PROVE  LET s == SetToSeq(S) IN
         /\ s \in Seq(S) /\ Len(s) \in Nat /\ DOMAIN s = 1..Len(s)
         /\ S = {s[i] : i \in 1..Len(s)}
         /\ \A i, j \in 1..Len(s) : s[i] = s[j] => i = j
<1> DEFINE n == Cardinality(S)
           s == SetToSeq(S)
<1>1. n \in Nat /\ ExistsBijection(1..n, S)
  BY FS_CardinalityType
<1>2. \E f \in [1..n -> S] : IsInjective(f)
  BY <1>1 DEF ExistsBijection, Bijection, Injection
<1>3. s \in [1..n -> S] /\ IsInjective(s)
  BY <1>2 DEF SetToSeq
<1>4. IsFiniteSet(1..n) /\ Cardinality(1..n) = n
  <2>1. IsFiniteSet(1..n) /\ Cardinality(1..n) = IF 1 > n THEN 0 ELSE n - 1 + 1
    BY <1>1, FS_Interval
  <2> QED BY <1>1, <2>1
<1>5. s \in Surjection(1..n, S)
  <2>1. s \in Injection(1..n, S)
    BY <1>3 DEF Injection
  <2> QED BY <1>4, <2>1, FS_Injection
<1> HIDE DEF s, n
<1>6. s \in Seq(S) /\ Len(s) = n
  BY <1>1, <1>3
<1> QED BY <1>1, <1>3, <1>5, <1>6 DEF Surjection, IsInjective, s

\* The values of a function on a finite set are finitely many.
LEMMA ValuesFinite ==
  ASSUME NEW S, IsFiniteSet(S), NEW f, DOMAIN f = S
  PROVE  IsFiniteSet({f[x] : x \in S})
<1> DEFINE T == {f[x] : x \in S}
           h == [x \in S |-> f[x]]
<1>1. h \in Surjection(S, T)
  BY DEF Surjection
<1> HIDE DEF h, T
<1>2. IsFiniteSet(T)
  BY <1>1, FS_Surjection
<1> QED BY <1>2 DEF T

-----------------------------------------------------------------------------
\* Areas and rules.

\* The parts of a prefix are the first parts of the path.
LEMMA PrefixParts ==
  ASSUME NEW S, NEW path \in Seq(S), NEW T, NEW p \in Seq(T), IsPrefix(p, path)
  PROVE  Len(p) <= Len(path) /\ \A i \in 1..Len(p) : path[i] = p[i]
<1>1. Len(p) <= Len(path) /\ SubSeq(p, 1, Len(p)) = SubSeq(path, 1, Len(p))
  BY DEF IsPrefix
<1>2. Len(p) \in Nat /\ Len(path) \in Nat
  OBVIOUS
<1>3. ASSUME NEW i \in 1..Len(p) PROVE path[i] = p[i]
  <2>1. SubSeq(p, 1, Len(p))[i] = p[i] /\ SubSeq(path, 1, Len(p))[i] = path[i]
    BY <1>1, <1>2
  <2> QED BY <1>1, <2>1
<1> QED BY <1>1, <1>3

\* What a path starts with when one, two or three parts are a prefix of it.
LEMMA FirstParts ==
  ASSUME NEW S, NEW path \in Seq(S)
  PROVE  /\ \A a : IsPrefix(<<a>>, path) => Len(path) >= 1 /\ Head(path) = a
         /\ \A a, b : IsPrefix(<<a, b>>, path) => Len(path) >= 2 /\ Head(path) = a /\ path[2] = b
         /\ \A a, b, c : IsPrefix(<<a, b, c>>, path) => Len(path) >= 3 /\ Head(path) = a /\ path[2] = b
<1>1. ASSUME NEW a, IsPrefix(<<a>>, path)
      PROVE  Len(path) >= 1 /\ Head(path) = a
  <2>1. PICK p : p = <<a>>
    OBVIOUS
  <2>2. p \in Seq({a}) /\ Len(p) = 1 /\ p[1] = a
    BY <2>1
  <2>3. IsPrefix(p, path)
    BY <1>1, <2>1
  <2>4. Len(p) <= Len(path) /\ \A i \in 1..Len(p) : path[i] = p[i]
    BY <2>2, <2>3, PrefixParts
  <2> QED BY <2>2, <2>4
<1>2. ASSUME NEW a, NEW b, IsPrefix(<<a, b>>, path)
      PROVE  Len(path) >= 2 /\ Head(path) = a /\ path[2] = b
  <2>1. PICK p : p = <<a, b>>
    OBVIOUS
  <2>2. p \in Seq({a, b}) /\ Len(p) = 2 /\ p[1] = a /\ p[2] = b
    BY <2>1
  <2>3. IsPrefix(p, path)
    BY <1>2, <2>1
  <2>4. Len(p) <= Len(path) /\ \A i \in 1..Len(p) : path[i] = p[i]
    BY <2>2, <2>3, PrefixParts
  <2> QED BY <2>2, <2>4
<1>3. ASSUME NEW a, NEW b, NEW c, IsPrefix(<<a, b, c>>, path)
      PROVE  Len(path) >= 3 /\ Head(path) = a /\ path[2] = b
  <2>1. PICK p : p = <<a, b, c>>
    OBVIOUS
  <2>2. p \in Seq({a, b, c}) /\ Len(p) = 3 /\ p[1] = a /\ p[2] = b /\ p[3] = c
    BY <2>1
  <2>3. IsPrefix(p, path)
    BY <1>3, <2>1
  <2>4. Len(p) <= Len(path) /\ \A i \in 1..Len(p) : path[i] = p[i]
    BY <2>2, <2>3, PrefixParts
  <2> QED BY <2>2, <2>4
<1> QED BY <1>1, <1>2, <1>3

\* A path under internal areas has internal and one of their names as its first parts.
LEMMA UnderInternal ==
  ASSUME NEW S, NEW path \in Seq(S), NEW names, Under(path, Internal(names))
  PROVE  Len(path) >= 2 /\ Head(path) = "internal" /\ path[1] = "internal" /\ path[2] \in names
<1>1. PICK n \in names : IsPrefix(<<"internal", n>>, path)
  BY DEF Under, Internal
<1>3. Len(path) >= 2 /\ Head(path) = "internal" /\ path[2] = n
  BY <1>1, FirstParts, Zenon
<1> QED BY <1>3

\* A path under commands has cmd as its first part.
LEMMA UnderCommands ==
  ASSUME NEW S, NEW path \in Seq(S), NEW names, Under(path, Commands(names))
  PROVE  Len(path) >= 2 /\ Head(path) = "cmd" /\ path[1] = "cmd"
<1>1. PICK n \in names : IsPrefix(<<"cmd", n>>, path)
  BY DEF Under, Commands
<1>3. Len(path) >= 2 /\ Head(path) = "cmd" /\ path[2] = n
  BY <1>1, FirstParts, Zenon
<1> QED BY <1>3

\* A path under an area of one part begins with it.
LEMMA UnderOne ==
  ASSUME NEW S, NEW path \in Seq(S), NEW a, Under(path, {<<a>>})
  PROVE  Len(path) >= 1 /\ Head(path) = a
<1>1. IsPrefix(<<a>>, path)
  BY DEF Under
<1> QED BY <1>1, FirstParts, Zenon

\* A path under two collections of areas is under one of them.
LEMMA UnderEither ==
  ASSUME NEW path, NEW K, NEW L, Under(path, K \cup L)
  PROVE  Under(path, K) \/ Under(path, L)
BY DEF Under

\* An authority is driven directly, outside, under infra or the mothership's own.
LEMMA AuthorityParts ==
  ASSUME NEW S, NEW path \in Seq(S), Len(path) >= 2, Authority(path)
  PROVE  Head(path) \in {"internal", "infra", "external:"}
         /\ (Head(path) = "internal" => path[2] \in {"persistence", "corridors", "mothership"})
<1>1. CASE DirectDriver(path)
  <2>1. CASE IsPrefix(<<"internal", "persistence", "target">>, path)
    <3>1. Head(path) = "internal" /\ path[2] = "persistence"
      BY <2>1, FirstParts, Zenon
    <3> QED BY <3>1
  <2>2. CASE IsPrefix(<<"internal", "corridors">>, path)
    <3>1. Head(path) = "internal" /\ path[2] = "corridors"
      BY <2>2, FirstParts, Zenon
    <3> QED BY <3>1
  <2> QED BY <1>1, <2>1, <2>2 DEF DirectDriver
<1>2. CASE Imports(path, Provisioning \cup Drivers)
  BY <1>2 DEF Imports, Outside
<1>3. CASE Under(path, {<<"infra">>} \cup Internal({"mothership"}))
  <2>1. CASE Under(path, {<<"infra">>})
    <3>1. Head(path) = "infra"
      BY <2>1, UnderOne
    <3> QED BY <3>1
  <2>2. CASE Under(path, Internal({"mothership"}))
    <3>1. Head(path) = "internal" /\ path[2] \in {"mothership"}
      BY <2>2, UnderInternal
    <3> QED BY <3>1
  <2> QED BY <1>3, <2>1, <2>2, UnderEither
<1> QED BY <1>1, <1>2, <1>3 DEF Authority

\* No rule forbids what it guards.
LEMMA RulesSeparate ==
  ASSUME NEW S, NEW path \in Seq(S), NEW rule \in RuleNames, Guarded(rule, path)
  PROVE  ~ Forbidden(rule, path)
<1> SUFFICES ASSUME Forbidden(rule, path) PROVE FALSE
  OBVIOUS
<1>1. CASE rule = "mothership"
  <2>1. Under(path, Commands({"mothership"}) \cup Internal({"mothership"}))
    BY <1>1 DEF Guarded
  <2>2. Under(path, Internal({"harness", "engine", "decisions", "evidence"}))
    BY <1>1 DEF Forbidden
  <2>3. Head(path) = "internal" /\ path[2] \in {"harness", "engine", "decisions", "evidence"}
    BY <2>2, UnderInternal
  <2>4. Head(path) = "cmd" \/ path[2] \in {"mothership"}
    BY <2>1, UnderEither, UnderCommands, UnderInternal
  <2> QED BY <2>3, <2>4
<1>2. CASE rule = "harness"
  <2>1. Under(path, Commands({"cell-agent", "analysis-runner"}) \cup Internal({"harness"}))
    BY <1>2 DEF Guarded
  <2>2. Authority(path)
    BY <1>2 DEF Forbidden
  <2>3. Len(path) >= 2 /\ (Head(path) = "cmd" \/ (Head(path) = "internal" /\ path[2] \in {"harness"}))
    BY <2>1, UnderEither, UnderCommands, UnderInternal
  <2>4. /\ Head(path) \in {"internal", "infra", "external:"}
        /\ (Head(path) = "internal" => path[2] \in {"persistence", "corridors", "mothership"})
    BY <2>2, <2>3, AuthorityParts
  <2> QED BY <2>3, <2>4
<1>3. CASE rule = "engine-ports"
  <2>1. Under(path, Commands({"engine"}) \cup Internal({"engine"}))
    BY <1>3 DEF Guarded
  <2>2. Authority(path)
    BY <1>3 DEF Forbidden
  <2>3. Len(path) >= 2 /\ (Head(path) = "cmd" \/ (Head(path) = "internal" /\ path[2] \in {"engine"}))
    BY <2>1, UnderEither, UnderCommands, UnderInternal
  <2>4. /\ Head(path) \in {"internal", "infra", "external:"}
        /\ (Head(path) = "internal" => path[2] \in {"persistence", "corridors", "mothership"})
    BY <2>2, <2>3, AuthorityParts
  <2> QED BY <2>3, <2>4
<1>4. CASE rule = "engine-model"
  <2>1. Under(path, Commands({"engine"}) \cup Internal({"engine"}))
    BY <1>4 DEF Guarded
  <2>2. \/ Under(path, Internal({"provider", "providers"}) \cup {<<"internal", "harness", "provider">>})
        \/ Imports(path, ModelProviders)
    BY <1>4 DEF Forbidden
  <2>3. Len(path) >= 2 /\ (Head(path) = "cmd" \/ (Head(path) = "internal" /\ path[2] \in {"engine"}))
    BY <2>1, UnderEither, UnderCommands, UnderInternal
  <2>4. CASE Imports(path, ModelProviders)
    BY <2>3, <2>4 DEF Imports, Outside
  <2>5. CASE Under(path, Internal({"provider", "providers"}))
    <3>1. Head(path) = "internal" /\ path[2] \in {"provider", "providers"}
      BY <2>5, UnderInternal
    <3> QED BY <2>3, <3>1
  <2>6. CASE Under(path, {<<"internal", "harness", "provider">>})
    <3>1. IsPrefix(<<"internal", "harness", "provider">>, path)
      BY <2>6 DEF Under
    <3>3. Head(path) = "internal" /\ path[2] = "harness"
      BY <3>1, FirstParts, Zenon
    <3> QED BY <2>3, <3>3
  <2> QED BY <2>2, <2>4, <2>5, <2>6, UnderEither
<1>5. CASE rule = "quality"
  <2>1. Under(path, Internal({"quality"}))
    BY <1>5 DEF Guarded
  <2>2. Outside(path) \/ ~ Under(path, Internal({"quality"}))
    BY <1>5 DEF Forbidden
  <2>3. Head(path) = "internal"
    BY <2>1, UnderInternal
  <2> QED BY <2>1, <2>2, <2>3 DEF Outside
<1>6. CASE rule = "composition"
  <2> DEFINE K == Commands({"agent-quality", "agent-eval", "bundle-activator"})
             L == Internal({"cell", "cellidentity", "corridors", "evidence"})
             M == {<<"internal", "persistence", k>> : k \in {"cell", "target"}}
  <2>1. Under(path, K) \/ Under(path, {<<"evals">>})
    <3>1. Under(path, K \cup {<<"evals">>})
      BY <1>6 DEF Guarded
    <3> QED BY <3>1, UnderEither
  <2>2. Under(path, L) \/ Under(path, M)
    <3>1. Under(path, L \cup M)
      BY <1>6 DEF Forbidden
    <3> QED BY <3>1, UnderEither
  <2>3. Head(path) \in {"cmd", "evals"}
    BY <2>1, UnderCommands, UnderOne
  <2>4. CASE Under(path, L)
    BY <2>3, <2>4, UnderInternal
  <2>5. CASE Under(path, M)
    <3>1. PICK k \in {"cell", "target"} : IsPrefix(<<"internal", "persistence", k>>, path)
      BY <2>5 DEF Under
    <3>3. Head(path) = "internal"
      BY <3>1, FirstParts, Zenon
    <3> QED BY <2>3, <3>3
  <2> QED BY <2>2, <2>4, <2>5
<1>7. CASE rule = "contracts"
  <2>1. Under(path, {<<"contracts">>}) \/ Under(path, Internal({"contracts"}))
    <3>1. Under(path, {<<"contracts">>} \cup Internal({"contracts"}))
      BY <1>7 DEF Guarded
    <3> QED BY <3>1, UnderEither
  <2>2. Head(path) = "internal" /\ ~ Under(path, Internal({"contracts"}))
    BY <1>7 DEF Forbidden
  <2>3. Head(path) = "contracts"
    BY <2>1, <2>2, UnderOne
  <2> QED BY <2>2, <2>3
<1> QED BY <1>1, <1>2, <1>3, <1>4, <1>5, <1>6, <1>7 DEF RuleNames

-----------------------------------------------------------------------------
\* The graph of the imports.

\* The parts of a package; that the mark is a string is said here, as the provers do not know it.
Parts == STRING \cup {"external:"}

\* An external package is its import path with the mark in front.
LEMMA ExternalFacts ==
  ASSUME NEW import \in Seq(STRING)
  PROVE  /\ External(import) \in Seq(Parts) /\ Head(External(import)) = "external:"
         /\ Tail(External(import)) = import
<1>0. "external:" \in Parts /\ STRING \subseteq Parts
  BY DEF Parts
<1>1. PICK S : S = Parts /\ "external:" \in S /\ STRING \subseteq S
  BY <1>0
<1>2. PICK e \in S : e = "external:"
  BY <1>1
<1>3. import \in Seq(S)
  <2>1. import \in [1..Len(import) -> STRING] /\ Len(import) \in Nat
    OBVIOUS
  <2>2. import \in [1..Len(import) -> S]
    BY <1>1, <2>1
  <2> QED BY <2>1, <2>2
<1>4. <<e>> \o import \in Seq(S) /\ Head(<<e>> \o import) = e /\ Tail(<<e>> \o import) = import
  BY <1>3
<1> QED BY <1>1, <1>2, <1>4 DEF External

\* What an assumed tree holds.
LEMMA TreeFacts ==
  ASSUME tree \in Trees
  PROVE  /\ IsFiniteSet(tree.imports) /\ IsFiniteSet(tree.modules)
         /\ \A i \in tree.imports : i.from \in Seq(STRING) /\ i.import \in Seq(STRING)
         /\ \A m \in tree.modules : m.directory \in Seq(STRING) /\ m.path \in Seq(STRING)
         /\ IsFiniteSet(DOMAIN tree.configs) /\ tree.roots \subseteq DOMAIN tree.configs
BY ArchAssumption

\* An import resolves to finitely many directories of modules.
LEMMA ResolvedFacts ==
  ASSUME tree \in Trees, NEW import \in Seq(STRING)
  PROVE  IsFiniteSet(Resolved(import)) /\ Resolved(import) \subseteq Seq(STRING)
<1> DEFINE f == [m \in tree.modules |-> m.directory \o SubSeq(import, Len(m.path) + 1, Len(import))]
           claiming == {m \in tree.modules : IsPrefix(m.path, import)}
           S == Longest(Longest(claiming, "path"), "directory")
<1>1. S \subseteq claiming
  BY DEF Longest
<1>2. Resolved(import) = {m.directory \o SubSeq(import, Len(m.path) + 1, Len(import)) : m \in S}
  BY DEF Resolved
<1> HIDE DEF S
<1>3. Resolved(import) \subseteq {f[m] : m \in tree.modules}
  BY <1>1, <1>2
<1>4. IsFiniteSet({f[m] : m \in tree.modules})
  <2>1. IsFiniteSet(tree.modules) /\ DOMAIN f = tree.modules
    BY TreeFacts
  <2> HIDE DEF f
  <2> QED BY <2>1, ValuesFinite
<1>5. ASSUME NEW m \in claiming
      PROVE  m.directory \o SubSeq(import, Len(m.path) + 1, Len(import)) \in Seq(STRING)
  <2>1. m.directory \in Seq(STRING) /\ m.path \in Seq(STRING) /\ Len(m.path) <= Len(import)
    BY TreeFacts DEF IsPrefix
  <2>2. Len(m.path) \in Nat /\ Len(import) \in Nat
    BY <2>1
  <2>3. SubSeq(import, Len(m.path) + 1, Len(import)) \in Seq(STRING)
    BY <2>1, <2>2
  <2> QED BY <2>1, <2>3
<1>6. Resolved(import) \subseteq Seq(STRING)
  BY <1>1, <1>2, <1>5
<1>7. IsFiniteSet(Resolved(import))
  BY <1>3, <1>4, FS_Subset
<1> QED BY <1>6, <1>7

\* Sequences of strings are sequences of parts.
LEMMA StringParts == Seq(STRING) \subseteq Seq(Parts)
<1>1. PICK S : S = Parts /\ STRING \subseteq S
  BY DEF Parts
<1>2. ASSUME NEW s \in Seq(STRING) PROVE s \in Seq(S)
  <2>1. s \in [1..Len(s) -> STRING] /\ Len(s) \in Nat
    OBVIOUS
  <2>2. s \in [1..Len(s) -> S]
    BY <1>1, <2>1
  <2> QED BY <2>1, <2>2
<1> QED BY <1>1, <1>2

\* The targets of an import are finitely many packages.
LEMMA TargetsFacts ==
  ASSUME tree \in Trees, NEW import \in Seq(STRING)
  PROVE  IsFiniteSet(Targets(import)) /\ Targets(import) \subseteq Seq(Parts)
<1>1. Targets(import) \subseteq Resolved(import) \cup {External(import)}
  BY DEF Targets
<1>2. IsFiniteSet(Resolved(import) \cup {External(import)})
  BY ResolvedFacts, FS_AddElement
<1>3. Seq(STRING) \subseteq Seq(Parts)
  BY StringParts
<1>4. Resolved(import) \cup {External(import)} \subseteq Seq(Parts)
  BY <1>3, ResolvedFacts, ExternalFacts, Zenon
<1>5. IsFiniteSet(Targets(import))
  BY <1>1, <1>2, FS_Subset
<1>6. Targets(import) \subseteq Seq(Parts)
  BY <1>1, <1>4, Zenon
<1> QED BY <1>5, <1>6

\* An edge is an import of a file of a module, to one of its targets.
LEMMA EdgeFacts ==
  ASSUME tree \in Trees
  PROVE  \A e : e \in Edges <=>
           \E i \in tree.imports : InModule(i.from) /\ \E t \in Targets(i.import) : e = <<i.from, t>>
BY DEF Edges

\* Finitely many packages, each the sequence of its parts.
LEMMA GraphFacts ==
  ASSUME tree \in Trees
  PROVE  /\ ImportGraph.node = Nodes /\ ImportGraph.edge = Edges
         /\ Digraph(ImportGraph) /\ Nodes \subseteq Seq(Parts)
<1> DEFINE F == [i \in tree.imports |-> i.from]
           T == [i \in tree.imports |-> Targets(i.import)]
           All == {F[i] : i \in tree.imports} \cup UNION {T[i] : i \in tree.imports}
<1>1. ImportGraph.node = Nodes /\ ImportGraph.edge = Edges
  BY DEF ImportGraph
<1>2. \A e \in Edges : e[1] \in Nodes /\ e[2] \in Nodes
  BY Zenon DEF Nodes
<1>3. Nodes \subseteq All
  <2>1. ASSUME NEW e \in Edges PROVE e[1] \in All /\ e[2] \in All
    <3>2. PICK i \in tree.imports : \E t \in Targets(i.import) : e = <<i.from, t>>
      BY EdgeFacts
    <3>3. PICK t \in Targets(i.import) : e = <<i.from, t>>
      BY <3>2
    <3>4. e[1] = F[i] /\ e[2] \in T[i]
      BY <3>3
    <3> HIDE DEF F, T
    <3> QED BY <3>4
  <2> HIDE DEF All
  <2> QED BY <2>1 DEF Nodes
<1>4. IsFiniteSet(All)
  <2>1. IsFiniteSet(tree.imports) /\ DOMAIN F = tree.imports /\ DOMAIN T = tree.imports
    BY TreeFacts
  <2>2. \A i \in tree.imports : IsFiniteSet(T[i])
    BY TreeFacts, TargetsFacts
  <2> HIDE DEF F, T
  <2>3. IsFiniteSet({F[i] : i \in tree.imports}) /\ IsFiniteSet({T[i] : i \in tree.imports})
    BY <2>1, ValuesFinite
  <2>4. IsFiniteSet(UNION {T[i] : i \in tree.imports})
    BY <2>2, <2>3, FS_UNION
  <2> QED BY <2>3, <2>4, FS_Union
<1>5. All \subseteq Seq(Parts)
  <2>1. \A i \in tree.imports : F[i] \in Seq(Parts) /\ T[i] \subseteq Seq(Parts)
    <3>1. \A s \in Seq(STRING) : s \in Seq(Parts)
      BY StringParts
    <3>2. \A i \in tree.imports : i.from \in Seq(Parts) /\ Targets(i.import) \subseteq Seq(Parts)
      BY <3>1, TreeFacts, TargetsFacts
    <3> QED BY <3>2
  <2> HIDE DEF F, T
  <2> QED BY <2>1
<1> HIDE DEF All
<1>6. IsFiniteSet(Nodes) /\ Nodes \subseteq Seq(Parts)
  BY <1>3, <1>4, <1>5, FS_Subset
<1> QED BY <1>1, <1>2, <1>6 DEF Digraph

\* An import of a guarded kind leads outside, whatever module claims its path.
LEMMA GuardedImports ==
  ASSUME tree \in Trees, NEW i \in tree.imports, InModule(i.from),
         Imports(External(i.import), GuardedKinds)
  PROVE  External(i.import) \in Successors(ImportGraph, i.from)
<1>1. i.import \in Seq(STRING) /\ Tail(External(i.import)) = i.import
  BY TreeFacts, ExternalFacts
<1>2. PICK k \in GuardedKinds : IsPrefix(k, i.import)
  BY <1>1 DEF Imports, Under
<1>3. k \in Seq(STRING) /\ k # <<>> /\ ~ Standard(k)
  BY ArchAssumption
<1>4. Len(k) >= 1 /\ Len(i.import) >= 1 /\ i.import[1] = k[1]
  <2>1. Len(k) <= Len(i.import) /\ \A n \in 1..Len(k) : i.import[n] = k[n]
    BY <1>1, <1>2, <1>3, PrefixParts
  <2>2. Len(k) \in Nat /\ Len(k) >= 1 /\ Len(i.import) \in Nat
    BY <1>1, <1>3
  <2> QED BY <2>1, <2>2
<1>5. Head(i.import) = Head(k)
  BY <1>1, <1>3, <1>4
<1>6. ~ Standard(i.import)
  BY <1>3, <1>5 DEF Standard
<1>7. External(i.import) \in Targets(i.import)
  BY <1>6 DEF Targets
<1>8. <<i.from, External(i.import)>> \in Edges
  BY <1>7, EdgeFacts
<1>9. External(i.import) \in Nodes
  <2>1. <<i.from, External(i.import)>>[2] = External(i.import)
    OBVIOUS
  <2>2. PICK e \in Edges : e = <<i.from, External(i.import)>>
    BY <1>8
  <2>3. e[2] \in Nodes
    BY DEF Nodes
  <2> QED BY <2>1, <2>2, <2>3
<1> QED BY <1>8, <1>9, GraphFacts DEF Successors

-----------------------------------------------------------------------------
\* The invariant of the searches.

\* The guarded packages with their rules, and what the report holds.
GuardedPairs == {w \in RuleNames \X Nodes : Guarded(w[1], w[2])}
ReportOf(found, w, t) ==
  \E v \in found : v.rule = w[1] /\ Head(v.path) = w[2] /\ Last(v.path) = t

\* A way along the edges of a graph.
Way(g, p) ==
  /\ p \in Seq(g.node) /\ Len(p) \in Nat /\ Len(p) > 0
  /\ \A n \in 2..Len(p) : <<p[n - 1], p[n]>> \in g.edge

\* What is searched for from a start: the queue continues ways that leave it, the shortest
\* first; all that is nearer than the front of the queue was visited, and what was visited
\* waits in the queue or has led on.
VisitedBelow(g, start, visited) ==
  start \in visited /\ visited \subseteq g.node /\ visited \subseteq {start} \cup Below(g, start)
ShortestWay(g, start, p) ==
  /\ Way(g, p) /\ Head(p) = start
  /\ Len(p) >= 2 => Last(p) \notin Onward(g, {start}, Len(p) - 2)
LevelOrder(queue) ==
  /\ \A i \in 1..Len(queue) : Len(queue[i]) <= Len(queue[1]) + 1
  /\ \A i, j \in 1..Len(queue) : i <= j => Len(queue[i]) <= Len(queue[j])
LedOn(g, queue, visited) ==
  \A a \in visited :
    Successors(g, a) \subseteq visited \/ \E i \in 1..Len(queue) : Last(queue[i]) = a
Nearer(g, start, queue, visited) ==
  queue # <<>> => Onward(g, {start}, Len(queue[1]) - 1) \subseteq visited

Searching(g, start, queue, visited) ==
  /\ VisitedBelow(g, start, visited)
  /\ queue \in Seq(Seq(g.node))
  /\ \A i \in 1..Len(queue) : ShortestWay(g, start, queue[i]) /\ Last(queue[i]) \in visited
  /\ LevelOrder(queue)
  /\ LedOn(g, queue, visited)
  /\ Nearer(g, start, queue, visited)

\* The search s from a guarded package has reported what it visited.
Active(g, w, s, found) ==
  /\ s.rule = w[1] /\ Searching(g, w[2], s.queue, s.visited)
  /\ \A t \in s.visited \ {w[2]} : Forbidden(w[1], t) => ReportOf(found, w, t)

\* All that is below a guarded package was reported.
Complete(g, w, found) ==
  \A t \in Below(g, w[2]) : Forbidden(w[1], t) => ReportOf(found, w, t)

\* A violation is a shortest way from a guarded package to what its rule forbids.
Violation(g, W, v) ==
  /\ ShortestWay(g, Head(v.path), v.path) /\ Len(v.path) >= 2
  /\ <<v.rule, Head(v.path)>> \in W
  /\ Last(v.path) \in Below(g, Head(v.path)) /\ Forbidden(v.rule, Last(v.path))

\* The guarded packages W of the graph that are not to do any more are complete, or are
\* searched from.
GoState(g, W, ph, td, s, found) ==
  /\ s = [rule |-> s.rule, queue |-> s.queue, visited |-> s.visited]
  /\ td \subseteq W
  /\ ph = "web" => s = NoSearch /\ found = {}
  /\ ph # "go" => td = {} /\ s.queue = <<>>
  /\ ph # "web" => \A w \in W \ td : Active(g, w, s, found) \/ Complete(g, w, found)
  /\ s.queue # <<>> => \E w \in W \ td : Active(g, w, s, found)
  /\ \A v \in found : Violation(g, W, v)

GoInv ==
  /\ tree \in Trees /\ phase \in {"web", "go", "done"}
  /\ GoState(ImportGraph, GuardedPairs, phase, todo, search, goFound)

-----------------------------------------------------------------------------
\* One search.

\* A way goes on along an edge from its last package.
LEMMA WayGoesOn ==
  ASSUME NEW g, NEW p, Way(g, p), NEW t \in Successors(g, Last(p))
  PROVE  /\ Way(g, Append(p, t)) /\ Len(Append(p, t)) = Len(p) + 1
         /\ Head(Append(p, t)) = Head(p) /\ Last(Append(p, t)) = t
<1>1. p \in Seq(g.node) /\ Len(p) \in Nat /\ Len(p) > 0 /\ \A n \in 2..Len(p) : <<p[n - 1], p[n]>> \in g.edge
  BY DEF Way
<1>2. t \in g.node /\ <<p[Len(p)], t>> \in g.edge
  BY DEF Successors, Last
<1>3. PICK q : q = Append(p, t)
  OBVIOUS
<1>4. q \in Seq(g.node) /\ Len(q) = Len(p) + 1 /\ q[Len(p) + 1] = t /\ \A n \in 1..Len(p) : q[n] = p[n]
  BY <1>1, <1>2, <1>3
<1>5. Head(q) = Head(p) /\ Last(q) = t
  BY <1>1, <1>4 DEF Last
<1>6. ASSUME NEW n \in 2..Len(q) PROVE <<q[n - 1], q[n]>> \in g.edge
  <2>1. CASE n = Len(q)
    <3>1. q[n] = t /\ n - 1 = Len(p) /\ q[n - 1] = p[Len(p)]
      BY <1>1, <1>4, <2>1
    <3> QED BY <1>2, <3>1
  <2>2. CASE n # Len(q)
    <3>1. n \in 2..Len(p) /\ q[n] = p[n] /\ q[n - 1] = p[n - 1]
      BY <1>1, <1>4, <2>2
    <3> QED BY <1>1, <3>1
  <2> QED BY <2>1, <2>2
<1>7. Way(g, q)
  BY <1>1, <1>4, <1>6 DEF Way
<1> QED BY <1>3, <1>4, <1>5, <1>7

\* The queue without its front and with more behind.
QueueMoved(Q, R, s, T) ==
  /\ \A j \in 1..Len(R) : (j + 1 \in 2..Len(Q) /\ R[j] = Q[j + 1]) \/ (j >= Len(Q) /\ R[j] \in T)
  /\ \A i \in 2..Len(Q) : i - 1 \in 1..Len(R) /\ R[i - 1] = Q[i]
  /\ \A k \in 1..Len(s) : \E j \in 1..Len(R) : R[j] = s[k]

\* The queue of a visit: the first way is taken off, the ways on are put behind the others.
LEMMA QueueMoves ==
  ASSUME NEW S, NEW Q \in Seq(S), Q # <<>>, NEW T, NEW s \in Seq(T), T \subseteq S,
         NEW R, R = Tail(Q) \o s
  PROVE  R \in Seq(S) /\ Len(R) \in Nat /\ QueueMoved(Q, R, s, T)
<1>0. PICK U : U = Tail(Q)
  OBVIOUS
<1>1. Len(Q) \in Nat /\ Len(Q) >= 1 /\ Len(s) \in Nat
  OBVIOUS
<1>2. U \in Seq(S) /\ Len(U) = Len(Q) - 1 /\ \A i \in 1..Len(U) : U[i] = Q[i + 1]
  BY <1>0, <1>1
<1>3. s \in Seq(S)
  <2>1. s \in [1..Len(s) -> T]
    OBVIOUS
  <2>2. s \in [1..Len(s) -> S]
    BY <2>1
  <2> QED BY <1>1, <2>2
<1>4. /\ R \in Seq(S) /\ Len(R) = Len(U) + Len(s)
      /\ \A j \in 1..Len(R) : R[j] = IF j <= Len(U) THEN U[j] ELSE s[j - Len(U)]
  <2>1. R = U \o s
    BY <1>0
  <2> QED BY <1>2, <1>3, <2>1, ConcatProperties
<1>5. ASSUME NEW j \in 1..Len(R)
      PROVE  (j + 1 \in 2..Len(Q) /\ R[j] = Q[j + 1]) \/ (j >= Len(Q) /\ R[j] \in T)
  <2>1. CASE j <= Len(U)
    BY <1>1, <1>2, <1>4, <2>1
  <2>2. CASE ~ (j <= Len(U))
    <3>1. j - Len(U) \in 1..Len(s) /\ j >= Len(Q)
      BY <1>1, <1>2, <1>4, <2>2
    <3>2. s[j - Len(U)] \in T
      BY <3>1
    <3> QED BY <1>4, <2>2, <3>1, <3>2
  <2> QED BY <2>1, <2>2
<1>6. ASSUME NEW i \in 2..Len(Q) PROVE i - 1 \in 1..Len(R) /\ R[i - 1] = Q[i]
  <2>1. i - 1 \in 1..Len(U) /\ i - 1 \in 1..Len(R) /\ (i - 1) + 1 = i
    BY <1>1, <1>2, <1>4
  <2> QED BY <1>2, <1>4, <2>1
<1>7. ASSUME NEW k \in 1..Len(s) PROVE \E j \in 1..Len(R) : R[j] = s[k]
  <2>1. Len(U) + k \in 1..Len(R) /\ ~ (Len(U) + k <= Len(U)) /\ (Len(U) + k) - Len(U) = k
    BY <1>1, <1>2, <1>4
  <2>2. R[Len(U) + k] = s[k]
    BY <1>4, <2>1
  <2> QED BY <2>1, <2>2
<1>8. R \in Seq(S) /\ Len(R) \in Nat
  BY <1>4
<1>9. QueueMoved(Q, R, s, T)
  BY <1>5, <1>6, <1>7, Zenon DEF QueueMoved
<1> QED BY <1>8, <1>9

\* A sequence of one element.
LEMMA SingleFacts ==
  ASSUME NEW S, NEW v \in S
  PROVE  <<v>> \in Seq(S) /\ Len(<<v>>) = 1 /\ <<v>>[1] = v /\ Head(<<v>>) = v
OBVIOUS

\* The search of a package begins with the way that is the package alone.
LEMMA SearchBegins ==
  ASSUME NEW g, Digraph(g), NEW v \in g.node
  PROVE  Searching(g, v, <<<<v>>>>, {v})
<1>1. PICK p : p = <<v>>
  OBVIOUS
<1>2. p \in Seq(g.node) /\ Len(p) = 1 /\ p[1] = v /\ Head(p) = v
  BY <1>1, SingleFacts
<1>3. Way(g, p) /\ Last(p) = v
  BY <1>2 DEF Way, Last
<1>4. PICK Q : Q = <<p>>
  OBVIOUS
<1>5. Q \in Seq(Seq(g.node)) /\ Len(Q) = 1 /\ Q[1] = p
  BY <1>2, <1>4, SingleFacts
<1>6. Onward(g, {v}, Len(Q[1]) - 1) \subseteq {v}
  <2>1. Len(Q[1]) - 1 = 0
    BY <1>2, <1>5
  <2>2. Onward(g, {v}, 0) = {v}
    BY OnwardNext
  <2> QED BY <2>1, <2>2
<1>7. /\ Way(g, Q[1]) /\ Head(Q[1]) = v /\ Last(Q[1]) = v /\ Len(Q[1]) = 1
      /\ \A i \in 1..Len(Q) : i = 1
  BY <1>2, <1>3, <1>5
<1>8. VisitedBelow(g, v, {v})
  BY DEF VisitedBelow
<1>9. LevelOrder(Q)
  <2>1. PICK n : n = Len(Q[1])
    OBVIOUS
  <2>2. n = 1 /\ \A i \in 1..Len(Q) : Len(Q[i]) = n
    BY <1>7, <2>1
  <2>3. \A i \in 1..Len(Q) : Len(Q[i]) <= Len(Q[1]) + 1
    <3>1. Len(Q[1]) + 1 = 2 /\ 1 <= 2
      BY <1>7
    <3> QED BY <1>7, <2>1, <2>2, <3>1, Zenon
  <2>4. \A i, j \in 1..Len(Q) : Len(Q[i]) <= Len(Q[j])
    BY <2>2
  <2> QED BY <2>3, <2>4, Zenon DEF LevelOrder
<1>10. LedOn(g, Q, {v})
  <2>1. 1 \in 1..Len(Q)
    BY <1>5
  <2> QED BY <1>7, <2>1, Zenon DEF LedOn
<1>11. Nearer(g, v, Q, {v})
  BY <1>6, Zenon DEF Nearer
<1>12. ShortestWay(g, v, Q[1]) /\ Last(Q[1]) \in {v}
  <2>1. ~ (Len(Q[1]) >= 2)
    BY <1>7
  <2> QED BY <1>7, <2>1, Zenon DEF ShortestWay
<1>13. \A i \in 1..Len(Q) : ShortestWay(g, v, Q[i]) /\ Last(Q[i]) \in {v}
  BY <1>7, <1>12, Zenon
<1>14. Searching(g, v, Q, {v})
  BY <1>5, <1>8, <1>9, <1>10, <1>11, <1>13, Zenon DEF Searching
<1> QED BY <1>1, <1>4, <1>14

\* What is visited next: the ways on from the front of the queue.
Onwards(g, queue, visited) == Successors(g, Last(Head(queue))) \ visited
WaysOn(g, queue, visited) == {Append(Head(queue), t) : t \in Onwards(g, queue, visited)}

\* The ways on from the first of the queue are shortest ways, one package longer than it, to
\* packages below the start that were not visited, one way at least to each.
LEMMA WaysOnFacts ==
  ASSUME NEW g, Digraph(g), NEW v \in g.node, NEW Q, NEW V, Searching(g, v, Q, V), Q # <<>>
  PROVE  /\ WaysOn(g, Q, V) \subseteq Seq(g.node) /\ IsFiniteSet(WaysOn(g, Q, V))
         /\ Onwards(g, Q, V) \subseteq Below(g, v)
         /\ \A p \in WaysOn(g, Q, V) :
              /\ ShortestWay(g, v, p) /\ Last(p) \in Onwards(g, Q, V)
              /\ Len(p) = Len(Q[1]) + 1 /\ Len(p) >= 2
         /\ \A t \in Onwards(g, Q, V) : \E p \in WaysOn(g, Q, V) : Last(p) = t
<1> DEFINE path == Head(Q)
           A == Onwards(g, Q, V)
<1>1. /\ VisitedBelow(g, v, V) /\ Q \in Seq(Seq(g.node)) /\ Nearer(g, v, Q, V)
      /\ \A i \in 1..Len(Q) : ShortestWay(g, v, Q[i]) /\ Last(Q[i]) \in V
  BY Zenon DEF Searching
<1>2. 1 \in 1..Len(Q) /\ path = Q[1]
  BY <1>1
<1>3. ShortestWay(g, v, path) /\ Last(path) \in V
  BY <1>1, <1>2
<1>4. Way(g, path) /\ Head(path) = v /\ Len(path) \in Nat /\ Len(path) > 0
  BY <1>3 DEF ShortestWay, Way
<1>5. A = Successors(g, Last(path)) \ V
  BY DEF Onwards
<1>6. A \subseteq Below(g, v)
  <2>1. /\ Successors(g, v) \subseteq Below(g, v) /\ Closed(g, Below(g, v))
    BY BelowFacts
  <2>2. Last(path) = v \/ Last(path) \in Below(g, v)
    BY <1>1, <1>3 DEF VisitedBelow
  <2> QED BY <1>5, <2>1, <2>2 DEF Closed
<1>7. ASSUME NEW t \in A
      PROVE  /\ Append(path, t) \in Seq(g.node) /\ ShortestWay(g, v, Append(path, t))
             /\ Last(Append(path, t)) = t /\ Len(Append(path, t)) = Len(path) + 1
  <2>1. PICK p : p = Append(path, t)
    OBVIOUS
  <2>2. Way(g, p) /\ Len(p) = Len(path) + 1 /\ Head(p) = v /\ Last(p) = t
    BY <1>4, <1>5, <2>1, WayGoesOn
  <2>3. Onward(g, {v}, Len(path) - 1) \subseteq V
    BY <1>1, <1>2 DEF Nearer
  <2>4. Len(p) - 2 = Len(path) - 1
    BY <1>4, <2>2
  <2>5. t \notin V
    BY <1>5
  <2>6. Last(p) \notin Onward(g, {v}, Len(p) - 2)
    BY <2>2, <2>3, <2>4, <2>5
  <2>7. ShortestWay(g, v, p)
    BY <2>2, <2>6, Zenon DEF ShortestWay
  <2> QED BY <2>1, <2>2, <2>7 DEF Way
<1>8. WaysOn(g, Q, V) = {Append(path, t) : t \in A}
  BY DEF WaysOn
<1>9. IsFiniteSet(WaysOn(g, Q, V))
  <2> DEFINE f == [t \in A |-> Append(path, t)]
  <2>1. IsFiniteSet(A)
    <3>1. A \subseteq g.node /\ IsFiniteSet(g.node)
      BY <1>5 DEF Successors, Digraph
    <3> QED BY <3>1, FS_Subset
  <2>2. {f[t] : t \in A} = WaysOn(g, Q, V) /\ DOMAIN f = A
    BY <1>8
  <2> HIDE DEF f, A
  <2> QED BY <2>1, <2>2, ValuesFinite
<1>10. Len(path) = Len(Q[1]) /\ Len(path) + 1 >= 2
  BY <1>2, <1>4
<1> HIDE DEF path, A
<1>11. ASSUME NEW p \in WaysOn(g, Q, V)
       PROVE  /\ p \in Seq(g.node) /\ ShortestWay(g, v, p) /\ Last(p) \in A
              /\ Len(p) = Len(Q[1]) + 1 /\ Len(p) >= 2
  <2>1. PICK t \in A : p = Append(path, t)
    BY <1>8
  <2> QED BY <1>7, <1>10, <2>1
<1>12. \A t \in A : \E p \in WaysOn(g, Q, V) : Last(p) = t
  BY <1>7, <1>8
<1> QED BY <1>6, <1>9, <1>11, <1>12 DEF A

\* A search goes on.
LEMMA SearchGoesOn ==
  ASSUME NEW g, Digraph(g), NEW v \in g.node, NEW Q, NEW V, Searching(g, v, Q, V), Q # <<>>
  PROVE  Searching(g, v, Tail(Q) \o SetToSeq(WaysOn(g, Q, V)), V \cup Onwards(g, Q, V))
<1>1. PICK s : s = SetToSeq(WaysOn(g, Q, V))
  OBVIOUS
<1>2. PICK R : R = Tail(Q) \o s
  OBVIOUS
<1>3. PICK P : P = WaysOn(g, Q, V)
  OBVIOUS
<1>4. PICK A : A = Onwards(g, Q, V)
  OBVIOUS
<1> DEFINE W == V \cup A
           L == Len(Q[1])
<1>5. /\ VisitedBelow(g, v, V) /\ Q \in Seq(Seq(g.node)) /\ LevelOrder(Q)
      /\ LedOn(g, Q, V) /\ Nearer(g, v, Q, V)
  BY Zenon DEF Searching
<1>6. \A i \in 1..Len(Q) : ShortestWay(g, v, Q[i]) /\ Last(Q[i]) \in V
  BY Zenon DEF Searching
<1>7. /\ P \subseteq Seq(g.node) /\ IsFiniteSet(P) /\ A \subseteq Below(g, v)
      /\ \A p \in P : ShortestWay(g, v, p) /\ Last(p) \in A /\ Len(p) = L + 1
      /\ \A t \in A : \E p \in P : Last(p) = t
  BY <1>3, <1>4, WaysOnFacts
<1>8. s \in Seq(P) /\ P = {s[i] : i \in 1..Len(s)}
  <2>1. SetToSeq(P) \in Seq(P) /\ P = {SetToSeq(P)[i] : i \in 1..Len(SetToSeq(P))}
    BY <1>7, SetInSequence, Zenon
  <2> QED BY <1>1, <1>3, <2>1
<1>9. /\ R \in Seq(Seq(g.node)) /\ Len(R) \in Nat
      /\ \A j \in 1..Len(R) : (j + 1 \in 2..Len(Q) /\ R[j] = Q[j + 1]) \/ (j >= Len(Q) /\ R[j] \in P)
      /\ \A i \in 2..Len(Q) : i - 1 \in 1..Len(R) /\ R[i - 1] = Q[i]
      /\ \A k \in 1..Len(s) : \E j \in 1..Len(R) : R[j] = s[k]
  <2>1. R \in Seq(Seq(g.node)) /\ Len(R) \in Nat /\ QueueMoved(Q, R, s, P)
    <3>1. PICK S : S = Seq(g.node)
      OBVIOUS
    <3>2. Q \in Seq(S) /\ s \in Seq(P) /\ P \subseteq S
      BY <1>5, <1>7, <1>8, <3>1
    <3>3. R \in Seq(S) /\ Len(R) \in Nat /\ QueueMoved(Q, R, s, P)
      BY <1>2, <3>2, QueueMoves
    <3> QED BY <3>1, <3>3
  <2> QED BY <2>1, Zenon DEF QueueMoved
<1>10. Len(Q) \in Nat /\ Len(Q) >= 1 /\ 1 \in 1..Len(Q) /\ \A i \in 2..Len(Q) : i \in 1..Len(Q)
  BY <1>5
<1>11. L \in Nat
  <2>1. ShortestWay(g, v, Q[1])
    BY <1>6, <1>10
  <2> QED BY <2>1 DEF ShortestWay, Way
<1> HIDE DEF L
<1>12. VisitedBelow(g, v, W)
  <2>1. Below(g, v) \subseteq g.node
    BY BelowFacts
  <2> QED BY <1>5, <1>7, <2>1 DEF VisitedBelow
<1>13. \A j \in 1..Len(R) : ShortestWay(g, v, R[j]) /\ Last(R[j]) \in W
  BY <1>6, <1>7, <1>9, <1>10
<1>14. \A i \in 1..Len(Q) : Len(Q[i]) \in Nat /\ L <= Len(Q[i]) /\ Len(Q[i]) <= L + 1
  <2>1. \A i \in 1..Len(Q) : Len(Q[i]) \in Nat
    BY <1>6 DEF ShortestWay, Way
  <2>2. \A i \in 1..Len(Q) : 1 <= i
    BY <1>10
  <2> QED BY <1>5, <1>10, <2>1, <2>2 DEF LevelOrder, L
<1>15. \A j \in 1..Len(R) : Len(R[j]) \in Nat /\ L <= Len(R[j]) /\ Len(R[j]) <= L + 1
  <2>1. ASSUME NEW j \in 1..Len(R)
        PROVE  Len(R[j]) \in Nat /\ L <= Len(R[j]) /\ Len(R[j]) <= L + 1
    <3>1. CASE R[j] \in P
      <4>1. Len(R[j]) = L + 1
        BY <1>7, <3>1
      <4> QED BY <1>11, <4>1
    <3>2. CASE j + 1 \in 2..Len(Q) /\ R[j] = Q[j + 1]
      BY <1>10, <1>14, <3>2
    <3> QED BY <1>9, <3>1, <3>2
  <2> QED BY <2>1
<1>16. LevelOrder(R)
  <2>1. ASSUME NEW i \in 1..Len(R), NEW j \in 1..Len(R), i <= j PROVE Len(R[i]) <= Len(R[j])
    <3>1. CASE R[j] \in P
      <4>1. Len(R[j]) = L + 1
        BY <1>7, <3>1
      <4> QED BY <1>15, <4>1
    <3>2. CASE j + 1 \in 2..Len(Q) /\ R[j] = Q[j + 1]
      <4>1. i + 1 \in 2..Len(Q) /\ i + 1 <= j + 1 /\ ~ (i >= Len(Q))
        BY <1>9, <1>10, <2>1, <3>2
      <4>2. R[i] = Q[i + 1]
        BY <1>9, <4>1
      <4>3. i + 1 \in 1..Len(Q) /\ j + 1 \in 1..Len(Q)
        BY <1>10, <3>2, <4>1
      <4>4. Len(Q[i + 1]) <= Len(Q[j + 1])
        BY <1>5, <4>1, <4>3 DEF LevelOrder
      <4> QED BY <3>2, <4>2, <4>4
    <3> QED BY <1>9, <3>1, <3>2
  <2>2. ASSUME NEW i \in 1..Len(R) PROVE Len(R[i]) <= Len(R[1]) + 1
    <3>1. 1 \in 1..Len(R)
      BY <1>9
    <3> QED BY <1>11, <1>15, <3>1
  <2> QED BY <2>1, <2>2, Zenon DEF LevelOrder
<1>17. LedOn(g, R, W)
  <2>1. ASSUME NEW a \in V PROVE Successors(g, a) \subseteq W \/ \E j \in 1..Len(R) : Last(R[j]) = a
    <3>1. CASE Successors(g, a) \subseteq V
      BY <3>1
    <3>2. CASE \E i \in 1..Len(Q) : Last(Q[i]) = a
      <4>1. PICK i \in 1..Len(Q) : Last(Q[i]) = a
        BY <3>2
      <4>2. CASE i = 1
        <5>1. a = Last(Head(Q))
          BY <1>5, <1>10, <4>1, <4>2
        <5> QED BY <1>4, <5>1 DEF Onwards
      <4>3. CASE i # 1
        <5>1. i \in 2..Len(Q)
          BY <1>10, <4>3
        <5> QED BY <1>9, <4>1, <5>1
      <4> QED BY <4>2, <4>3
    <3> QED BY <1>5, <3>1, <3>2 DEF LedOn
  <2>2. ASSUME NEW a \in A PROVE \E j \in 1..Len(R) : Last(R[j]) = a
    <3>1. PICK p \in P : Last(p) = a
      BY <1>7
    <3>2. PICK k \in 1..Len(s) : p = s[k]
      BY <1>8
    <3> QED BY <1>9, <3>1, <3>2
  <2> QED BY <2>1, <2>2 DEF LedOn
<1>18. Nearer(g, v, R, W)
  <2>1. SUFFICES ASSUME R # <<>> PROVE Onward(g, {v}, Len(R[1]) - 1) \subseteq W
    BY DEF Nearer
  <2>2. 1 \in 1..Len(R)
    BY <1>9, <2>1
  <2>3. Onward(g, {v}, L - 1) \subseteq V
    BY <1>5 DEF Nearer, L
  <2>4. CASE Len(R[1]) = L
    BY <2>3, <2>4
  <2>5. CASE Len(R[1]) = L + 1
    <3>1. L >= 1 /\ L - 1 \in Nat /\ (L - 1) + 1 = L /\ Len(R[1]) - 1 = L
      <4>1. ShortestWay(g, v, Q[1])
        BY <1>6, <1>10
      <4>2. L > 0
        BY <4>1 DEF ShortestWay, Way, L
      <4> QED BY <1>11, <2>5, <4>2
    <3>2. Onward(g, {v}, L) = Onward(g, {v}, L - 1) \cup AllSuccessors(g, Onward(g, {v}, L - 1))
      BY <3>1, OnwardNext
    <3>3. ASSUME NEW a \in Onward(g, {v}, L - 1) PROVE Successors(g, a) \subseteq W
      <4>1. a \in V
        BY <2>3
      <4>2. ASSUME NEW j \in 1..Len(R), Last(R[j]) = a PROVE FALSE
        <5>1. Len(R[j]) = L + 1
          <6>1. Len(R[1]) <= Len(R[j])
            BY <1>9, <1>16, <2>2 DEF LevelOrder
          <6> QED BY <1>11, <1>15, <2>5, <6>1
        <5>2. Len(R[j]) >= 2 /\ Len(R[j]) - 2 = L - 1
          BY <1>11, <3>1, <5>1
        <5>3. Last(R[j]) \notin Onward(g, {v}, Len(R[j]) - 2)
          BY <1>13, <5>2 DEF ShortestWay
        <5> QED BY <4>2, <5>2, <5>3
      <4> QED BY <1>17, <4>1, <4>2 DEF LedOn
    <3>4. AllSuccessors(g, Onward(g, {v}, L - 1)) \subseteq W
      BY <3>3 DEF AllSuccessors
    <3>5. Onward(g, {v}, L) \subseteq W
      BY <2>3, <3>2, <3>4
    <3> QED BY <3>1, <3>5
  <2>6. Len(R[1]) = L \/ Len(R[1]) = L + 1
    BY <1>11, <1>15, <2>2
  <2> QED BY <2>4, <2>5, <2>6
<1>19. Searching(g, v, R, W)
  BY <1>9, <1>12, <1>13, <1>16, <1>17, <1>18, Zenon DEF Searching
<1> QED BY <1>1, <1>2, <1>4, <1>19

\* A search that has come to its end has visited all that is below its start.
LEMMA SearchEnds ==
  ASSUME NEW g, Digraph(g), NEW v \in g.node, NEW V, Searching(g, v, <<>>, V)
  PROVE  Below(g, v) \subseteq V
<1>1. VisitedBelow(g, v, V) /\ LedOn(g, <<>>, V)
  BY Zenon DEF Searching
<1>2. Closed(g, V)
  BY <1>1 DEF LedOn, Closed
<1>3. Successors(g, v) \subseteq V
  BY <1>1, <1>2 DEF Closed, VisitedBelow
<1> QED BY <1>2, <1>3, BelowFacts

-----------------------------------------------------------------------------
\* The searches, one after the other.

IsGuarding(g, W) ==
  /\ Digraph(g) /\ g.node \subseteq Seq(Parts)
  /\ \A w \in W : w[1] \in RuleNames /\ w[2] \in g.node /\ Guarded(w[1], w[2]) /\ w = <<w[1], w[2]>>

\* The guarded packages are packages of the import graph.
LEMMA GuardingFacts ==
  ASSUME tree \in Trees
  PROVE  IsGuarding(ImportGraph, GuardedPairs)
BY GraphFacts DEF IsGuarding, GuardedPairs

\* What is reported stays reported.
LEMMA ReportsGrow ==
  ASSUME NEW found, NEW more, found \subseteq more, NEW w, NEW t, ReportOf(found, w, t)
  PROVE  ReportOf(more, w, t)
BY DEF ReportOf

\* What a search visited at its end is all it has to report.
LEMMA EndsComplete ==
  ASSUME NEW g, NEW W, IsGuarding(g, W), NEW w \in W, NEW s, NEW found, s.queue = <<>>,
         Active(g, w, s, found)
  PROVE  Complete(g, w, found)
<1>1. Digraph(g) /\ w[2] \in g.node /\ w[1] \in RuleNames /\ Guarded(w[1], w[2]) /\ w[2] \in Seq(Parts)
  BY DEF IsGuarding
<1>2. Searching(g, w[2], <<>>, s.visited)
  BY DEF Active
<1>3. Below(g, w[2]) \subseteq s.visited
  BY <1>1, <1>2, SearchEnds
<1>4. ~ Forbidden(w[1], w[2])
  BY <1>1, RulesSeparate
<1>5. ASSUME NEW t \in Below(g, w[2]), Forbidden(w[1], t) PROVE ReportOf(found, w, t)
  <2>1. t \in s.visited \ {w[2]}
    BY <1>3, <1>4, <1>5
  <2> QED BY <1>5, <2>1 DEF Active
<1> QED BY <1>5 DEF Complete

\* A visit reports the forbidden packages it meets, by the shortest ways, and the search goes on.
LEMMA VisitKeeps ==
  ASSUME NEW g, NEW W, IsGuarding(g, W), NEW td, NEW r, NEW Q, NEW V, NEW found,
         GoState(g, W, "go", td, [rule |-> r, queue |-> Q, visited |-> V], found), Q # <<>>,
         NEW more, more = found \cup
           {[rule |-> r, path |-> p] : p \in {p \in WaysOn(g, Q, V) : Forbidden(r, Last(p))}}
  PROVE  GoState(g, W, "go", td,
           [rule |-> r, queue |-> Tail(Q) \o SetToSeq(WaysOn(g, Q, V)),
            visited |-> V \cup Onwards(g, Q, V)], more)
<1>0. PICK s : s = [rule |-> r, queue |-> Q, visited |-> V]
  OBVIOUS
<1>1. PICK n : n = [rule |-> r, queue |-> Tail(Q) \o SetToSeq(WaysOn(g, Q, V)),
                    visited |-> V \cup Onwards(g, Q, V)]
  OBVIOUS
<1>2. /\ s.rule = r /\ s.queue = Q /\ s.visited = V
      /\ n.rule = r /\ n.queue = Tail(Q) \o SetToSeq(WaysOn(g, Q, V)) /\ n.visited = V \cup Onwards(g, Q, V)
      /\ n = [rule |-> n.rule, queue |-> n.queue, visited |-> n.visited]
  BY <1>0, <1>1
<1>3. GoState(g, W, "go", td, s, found)
  BY <1>0
<1>4. /\ td \subseteq W /\ \A w \in W \ td : Active(g, w, s, found) \/ Complete(g, w, found)
      /\ \E w \in W \ td : Active(g, w, s, found)
      /\ \A v \in found : Violation(g, W, v)
  <2>1. "go" # "web"
    OBVIOUS
  <2> QED BY <1>2, <1>3, <2>1, Zenon DEF GoState
<1>5. Digraph(g) /\ \A w \in W : w[2] \in g.node /\ w = <<w[1], w[2]>>
  BY DEF IsGuarding
<1>6. found \subseteq more
  OBVIOUS
<1>7. ASSUME NEW w \in W, Active(g, w, s, found) PROVE Active(g, w, n, more)
  <2>1. r = w[1] /\ Searching(g, w[2], Q, V)
    BY <1>2, <1>7 DEF Active
  <2>2. Searching(g, w[2], n.queue, n.visited)
    BY <1>2, <1>5, <2>1, SearchGoesOn
  <2>3. ASSUME NEW t \in V \ {w[2]}, Forbidden(w[1], t) PROVE ReportOf(more, w, t)
    <3>1. ReportOf(found, w, t)
      BY <1>2, <1>7, <2>3 DEF Active
    <3> QED BY <1>6, <3>1, ReportsGrow
  <2>4. ASSUME NEW t \in Onwards(g, Q, V), Forbidden(w[1], t) PROVE ReportOf(more, w, t)
    <3>1. PICK p \in WaysOn(g, Q, V) : Last(p) = t
      BY <1>5, <2>1, WaysOnFacts
    <3>2. Head(p) = w[2]
      <4>1. ShortestWay(g, w[2], p)
        BY <1>5, <2>1, WaysOnFacts
      <4> QED BY <4>1 DEF ShortestWay
    <3>3. PICK v : v = [rule |-> r, path |-> p]
      OBVIOUS
    <3>4. v \in more /\ v.rule = w[1] /\ v.path = p
      BY <2>1, <2>4, <3>1, <3>3
    <3> QED BY <3>1, <3>2, <3>4 DEF ReportOf
  <2>5. \A t \in n.visited \ {w[2]} : Forbidden(w[1], t) => ReportOf(more, w, t)
    BY <1>2, <2>3, <2>4
  <2> QED BY <1>2, <2>1, <2>2, <2>5 DEF Active
<1>8. ASSUME NEW w \in W, Complete(g, w, found) PROVE Complete(g, w, more)
  BY <1>6, <1>8, ReportsGrow DEF Complete
<1>9. ASSUME NEW v \in more PROVE Violation(g, W, v)
  <2>1. CASE v \in found
    BY <1>4, <2>1
  <2>2. CASE v \notin found
    <3>1. PICK p \in WaysOn(g, Q, V) : v = [rule |-> r, path |-> p] /\ Forbidden(r, Last(p))
      BY <2>2
    <3>2. PICK w \in W \ td : Active(g, w, s, found)
      BY <1>4
    <3>3. r = w[1] /\ Searching(g, w[2], Q, V) /\ w \in W
      BY <1>2, <3>2 DEF Active
    <3>4. /\ ShortestWay(g, w[2], p) /\ Last(p) \in Onwards(g, Q, V) /\ Len(p) >= 2
          /\ Onwards(g, Q, V) \subseteq Below(g, w[2])
      BY <1>5, <3>3, WaysOnFacts
    <3>5. Head(p) = w[2]
      BY <3>4 DEF ShortestWay
    <3>6. v.rule = r /\ v.path = p
      BY <3>1
    <3>7. <<v.rule, Head(v.path)>> \in W
      BY <1>5, <3>3, <3>5, <3>6
    <3>8. Last(p) \in Below(g, w[2])
      BY <3>4
    <3> QED BY <3>1, <3>4, <3>5, <3>6, <3>7, <3>8, Zenon DEF Violation
  <2> QED BY <2>1, <2>2
<1>10. \A w \in W \ td : Active(g, w, n, more) \/ Complete(g, w, more)
  BY <1>4, <1>7, <1>8
<1>11. \E w \in W \ td : Active(g, w, n, more)
  BY <1>4, <1>7
<1>12. GoState(g, W, "go", td, n, more)
  <2>1. "go" # "web"
    OBVIOUS
  <2> QED BY <1>2, <1>4, <1>9, <1>10, <1>11, <2>1, Zenon DEF GoState
<1> QED BY <1>1, <1>12

\* When the queue is empty the search is complete, and the next one begins.
LEMMA NextKeeps ==
  ASSUME NEW g, NEW W, IsGuarding(g, W), NEW td, NEW s, NEW found,
         GoState(g, W, "go", td, s, found), s.queue = <<>>, NEW w \in td
  PROVE  GoState(g, W, "go", td \ {w}, Begin(w), found)
<1>1. /\ td \subseteq W /\ \A u \in W \ td : Active(g, u, s, found) \/ Complete(g, u, found)
      /\ \A v \in found : Violation(g, W, v)
  <2>1. "go" # "web"
    OBVIOUS
  <2> QED BY <2>1, Zenon DEF GoState
<1>2. \A u \in W \ td : Complete(g, u, found)
  BY <1>1, EndsComplete
<1>3. PICK n : n = Begin(w)
  OBVIOUS
<1>4. /\ n.rule = w[1] /\ n.queue = <<<<w[2]>>>> /\ n.visited = {w[2]}
      /\ n = [rule |-> n.rule, queue |-> n.queue, visited |-> n.visited]
  BY <1>3 DEF Begin
<1>5. Active(g, w, n, found)
  <2>1. Digraph(g) /\ w[2] \in g.node
    BY <1>1 DEF IsGuarding
  <2>2. Searching(g, w[2], n.queue, n.visited)
    BY <1>4, <2>1, SearchBegins
  <2> QED BY <1>4, <2>2 DEF Active
<1>6. w \in W \ (td \ {w}) /\ td \ {w} \subseteq W
  BY <1>1
<1>7. \A u \in W \ (td \ {w}) : Active(g, u, n, found) \/ Complete(g, u, found)
  BY <1>2, <1>5
<1>8. GoState(g, W, "go", td \ {w}, n, found)
  <2>1. "go" # "web"
    OBVIOUS
  <2>2. \E u \in W \ (td \ {w}) : Active(g, u, n, found)
    BY <1>5, <1>6
  <2> QED BY <1>1, <1>4, <1>6, <1>7, <2>1, <2>2, Zenon DEF GoState
<1> QED BY <1>3, <1>8

\* What a tree is read for stays as long as the tree does.
LEMMA SameTree ==
  ASSUME tree' = tree
  PROVE  ImportGraph' = ImportGraph /\ GuardedPairs' = GuardedPairs /\ Extending' = Extending
<1>1. Edges' = Edges
  BY DEF Edges, InModule, Targets, Resolved
<1>2. Nodes' = Nodes
  BY <1>1 DEF Nodes
<1>3. ImportGraph' = ImportGraph
  BY <1>1, <1>2 DEF ImportGraph
<1>4. GuardedPairs' = GuardedPairs
  BY <1>2 DEF GuardedPairs
<1>5. Extending' = Extending
  BY DEF Extending
<1> QED BY <1>3, <1>4, <1>5

\* The invariant of the searches holds at the start.
LEMMA GoStarts == ArchInit => GoInv
<1> SUFFICES ASSUME ArchInit PROVE GoInv
  OBVIOUS
<1>1. tree \in Trees /\ phase = "web" /\ todo = {} /\ search = NoSearch /\ goFound = {}
  BY DEF ArchInit
<1>2. PICK s : s = NoSearch
  OBVIOUS
<1>3. s = [rule |-> s.rule, queue |-> s.queue, visited |-> s.visited] /\ s.queue = <<>>
  BY <1>2 DEF NoSearch
<1>4. GoState(ImportGraph, GuardedPairs, "web", {}, s, {})
  BY <1>2, <1>3, Zenon DEF GoState
<1> QED BY <1>1, <1>2, <1>4 DEF GoInv

\* Each step of the check keeps the invariant of the searches.
LEMMA GoSteps == GoInv /\ [ArchNext]_archVars => GoInv'
<1> SUFFICES ASSUME GoInv, [ArchNext]_archVars PROVE GoInv'
  OBVIOUS
<1> DEFINE g == ImportGraph
           W == GuardedPairs
<1>0. /\ tree \in Trees /\ phase \in {"web", "go", "done"}
      /\ GoState(g, W, phase, todo, search, goFound)
  BY DEF GoInv
<1>1. IsGuarding(g, W)
  BY <1>0, GuardingFacts
<1>2. CASE UNCHANGED <<tree, phase, todo, search, goFound>>
  <2>1. ImportGraph' = ImportGraph /\ GuardedPairs' = GuardedPairs
    BY <1>2, SameTree
  <2> QED BY <1>0, <1>2, <2>1 DEF GoInv
<1>3. CASE ValidateRoot \/ Extend \/ Validated \/ UNCHANGED archVars
  BY <1>2, <1>3 DEF ValidateRoot, Extend, Validated, archVars, GoOver
<1>4. ASSUME tree' = tree, phase' \in {"web", "go", "done"},
             GoState(g, W, phase', todo', search', goFound')
      PROVE  GoInv'
  <2>1. ImportGraph' = ImportGraph /\ GuardedPairs' = GuardedPairs
    BY <1>4, SameTree
  <2> QED BY <1>0, <1>4, <2>1 DEF GoInv
<1> HIDE DEF g, W
<1>5. CASE ScanWeb
  <2>1. /\ tree' = tree /\ phase = "web" /\ phase' = "go" /\ search' = search /\ goFound' = goFound
        /\ todo' = W
    BY <1>5 DEF ScanWeb, GuardedPairs, W
  <2>2. /\ search = [rule |-> search.rule, queue |-> search.queue, visited |-> search.visited]
        /\ goFound = {} /\ search.queue = <<>>
    BY <1>0, <2>1, Zenon DEF GoState, NoSearch
  <2>3. W \ W = {}
    OBVIOUS
  <2>4. GoState(g, W, "go", W, search, {})
    BY <2>2, <2>3 DEF GoState
  <2> QED BY <1>4, <2>1, <2>2, <2>4
<1>6. CASE NextSearch
  <2>1. PICK w \in todo : w = CHOOSE u \in todo : TRUE
    BY <1>6 DEF NextSearch
  <2>2. /\ tree' = tree /\ phase = "go" /\ phase' = phase /\ search.queue = <<>> /\ goFound' = goFound
        /\ search' = Begin(w) /\ todo' = todo \ {w}
    BY <1>6, <2>1 DEF NextSearch
  <2>3. GoState(g, W, "go", todo \ {w}, Begin(w), goFound)
    BY <1>0, <1>1, <2>2, NextKeeps
  <2> QED BY <1>4, <2>2, <2>3
<1>7. CASE Visit
  <2>1. PICK r, Q, V : search = [rule |-> r, queue |-> Q, visited |-> V]
    BY <1>0 DEF GoState
  <2>2. search.rule = r /\ search.queue = Q /\ search.visited = V
    BY <2>1
  <2>3. /\ tree' = tree /\ phase = "go" /\ phase' = phase /\ todo' = todo /\ Q # <<>>
    BY <1>7, <2>2 DEF Visit
  <2>4. search' = [search EXCEPT !.queue = Tail(@) \o SetToSeq(WaysOn(g, Q, V)),
                                 !.visited = @ \cup Onwards(g, Q, V)]
    BY <1>7, <2>2, Zenon DEF Visit, WaysOn, Onwards, g
  <2>5. goFound' = goFound \cup
          {[rule |-> r, path |-> p] : p \in {p \in WaysOn(g, Q, V) : Forbidden(r, Last(p))}}
    BY <1>7, <2>2, Zenon DEF Visit, WaysOn, Onwards, g
  <2>6. search' = [rule |-> r, queue |-> Tail(Q) \o SetToSeq(WaysOn(g, Q, V)),
                   visited |-> V \cup Onwards(g, Q, V)]
    BY <2>1, <2>4
  <2>7. GoState(g, W, "go", todo, search', goFound')
    BY <1>0, <1>1, <2>1, <2>3, <2>5, <2>6, VisitKeeps
  <2> QED BY <1>4, <2>3, <2>7
<1>8. CASE Finish
  <2>1. /\ tree' = tree /\ phase = "go" /\ phase' = "done" /\ search' = search /\ goFound' = goFound
        /\ todo' = todo /\ todo = {} /\ search.queue = <<>>
    BY <1>8 DEF Finish, GoOver
  <2>2. GoState(g, W, "go", todo, search, goFound)
    BY <1>0, <2>1
  <2>3. "go" # "web" /\ "done" # "web"
    OBVIOUS
  <2>4. GoState(g, W, "done", todo, search, goFound)
    BY <2>1, <2>2, <2>3, Zenon DEF GoState
  <2> QED BY <1>4, <2>1, <2>4
<1> QED BY <1>3, <1>5, <1>6, <1>7, <1>8 DEF ArchNext

\* What is reported in the end.
LEMMA BoundariesFollow ==
  ASSUME GoInv
  PROVE  BoundariesReported
<1> SUFFICES ASSUME phase = "done"
             PROVE
    LET graph == ImportGraph
        guarded == {w \in RuleNames \X graph.node : Guarded(w[1], w[2])}
        below == [n \in {w[2] : w \in guarded} |-> Below(graph, n)]
        reported == {<<<<v.rule, Head(v.path)>>, Last(v.path)>> : v \in goFound} IN
    /\ reported = UNION {{<<w, t>> : t \in {t \in below[w[2]] : Forbidden(w[1], t)}} : w \in guarded}
    /\ \A v \in goFound :
         /\ \A n \in 2..Len(v.path) : <<v.path[n - 1], v.path[n]>> \in graph.edge
         /\ Last(v.path) \notin Onward(graph, {Head(v.path)}, Len(v.path) - 2)
    /\ \A w \in guarded, i \in tree.imports :
         /\ InModule(i.from) /\ i.from \in {w[2]} \cup below[w[2]]
         /\ Imports(External(i.import), GuardedKinds) /\ Forbidden(w[1], External(i.import))
         => <<w, External(i.import)>> \in reported
  BY Zenon DEF BoundariesReported
<1> DEFINE graph == ImportGraph
           guarded == {w \in RuleNames \X graph.node : Guarded(w[1], w[2])}
           below == [n \in {w[2] : w \in guarded} |-> Below(graph, n)]
           reported == {<<<<v.rule, Head(v.path)>>, Last(v.path)>> : v \in goFound}
<1>1. /\ tree \in Trees /\ GoState(graph, GuardedPairs, "done", todo, search, goFound)
  BY DEF GoInv
<1>2. IsGuarding(graph, GuardedPairs) /\ Digraph(graph)
  BY <1>1, GuardingFacts DEF IsGuarding
<1>3. guarded = GuardedPairs
  BY <1>1, GraphFacts DEF GuardedPairs
<1>4. \A w \in guarded : below[w[2]] = Below(graph, w[2])
  OBVIOUS
<1>5. search.queue = <<>> /\ todo = {} /\ \A v \in goFound : Violation(graph, GuardedPairs, v)
  <2>1. "done" # "go"
    OBVIOUS
  <2> QED BY <1>1, <2>1, Zenon DEF GoState
<1>6. \A w \in guarded : Complete(graph, w, goFound)
  <2>1. \A w \in guarded : Active(graph, w, search, goFound) \/ Complete(graph, w, goFound)
    <3>1. "done" # "web"
      OBVIOUS
    <3>2. \A w \in GuardedPairs \ todo : Active(graph, w, search, goFound) \/ Complete(graph, w, goFound)
      BY <1>1, <3>1, Zenon DEF GoState
    <3> QED BY <1>3, <1>5, <3>2
  <2> QED BY <1>2, <1>3, <1>5, <2>1, EndsComplete
<1>7. \A v \in goFound : /\ <<v.rule, Head(v.path)>> \in guarded /\ Way(graph, v.path)
                         /\ Last(v.path) \in Below(graph, Head(v.path)) /\ Forbidden(v.rule, Last(v.path))
                         /\ Last(v.path) \notin Onward(graph, {Head(v.path)}, Len(v.path) - 2)
  BY <1>3, <1>5 DEF Violation, ShortestWay
<1>8. \A w \in guarded : w = <<w[1], w[2]>>
  BY <1>2, <1>3 DEF IsGuarding
<1> HIDE DEF graph, guarded, below
<1>9. ASSUME NEW w \in guarded, NEW t \in below[w[2]], Forbidden(w[1], t) PROVE <<w, t>> \in reported
  <2>1. ReportOf(goFound, w, t)
    BY <1>4, <1>6, <1>9 DEF Complete
  <2>2. PICK v \in goFound : v.rule = w[1] /\ Head(v.path) = w[2] /\ Last(v.path) = t
    BY <2>1 DEF ReportOf
  <2>3. <<w, t>> = <<<<v.rule, Head(v.path)>>, Last(v.path)>>
    BY <1>8, <2>2
  <2> QED BY <2>3
<1>10. ASSUME NEW v \in goFound
       PROVE  \E w \in guarded : \E t \in below[w[2]] :
                Forbidden(w[1], t) /\ <<<<v.rule, Head(v.path)>>, Last(v.path)>> = <<w, t>>
  <2>1. PICK w \in guarded : w = <<v.rule, Head(v.path)>>
    BY <1>7
  <2>2. w[1] = v.rule /\ w[2] = Head(v.path)
    BY <2>1
  <2>3. Last(v.path) \in below[w[2]] /\ Forbidden(w[1], Last(v.path))
    BY <1>4, <1>7, <2>2
  <2> QED BY <2>1, <2>3
<1>11. reported = UNION {{<<w, t>> : t \in {t \in below[w[2]] : Forbidden(w[1], t)}} : w \in guarded}
  BY <1>9, <1>10
<1>12. \A v \in goFound :
         /\ \A n \in 2..Len(v.path) : <<v.path[n - 1], v.path[n]>> \in graph.edge
         /\ Last(v.path) \notin Onward(graph, {Head(v.path)}, Len(v.path) - 2)
  BY <1>7 DEF Way
<1>13. ASSUME NEW w \in guarded, NEW i \in tree.imports, InModule(i.from),
              i.from \in {w[2]} \cup below[w[2]], Imports(External(i.import), GuardedKinds),
              Forbidden(w[1], External(i.import))
       PROVE  <<w, External(i.import)>> \in reported
  <2>1. External(i.import) \in Successors(graph, i.from)
    BY <1>1, <1>13, GuardedImports DEF graph
  <2>2. Successors(graph, w[2]) \subseteq Below(graph, w[2]) /\ Closed(graph, Below(graph, w[2]))
    BY <1>2, BelowFacts
  <2>3. External(i.import) \in below[w[2]]
    BY <1>4, <1>13, <2>1, <2>2 DEF Closed
  <2> QED BY <1>9, <1>13, <2>3
<1> QED BY <1>11, <1>12, <1>13, Zenon DEF graph, guarded, below

-----------------------------------------------------------------------------
\* The invariant of the web.

\* A configuration with nothing to report, and the ones the tree uses.
Confined(t, E, c) ==
  /\ t.configs[c].parses /\ c \notin Below(E, c)
  /\ t.configs[c].extends \subseteq DOMAIN t.configs \cup {"package"}
  /\ \A e \in t.configs[c].entries : ~ Elsewhere(e)
Used(t, E) == UNION {{r} \cup Below(E, r) : r \in t.roots}

Frames(t) ==
  [config : DOMAIN t.configs, left : SUBSET UNION {t.configs[c].extends : c \in DOMAIN t.configs}]

\* The stack is a chain of configurations that parse, each below the ones before it.
Chain(t, E, R, st, va) ==
  /\ st \in Seq(Frames(t)) /\ va \subseteq R
  /\ \A i \in 1..Len(st) :
       /\ st[i].config \in R /\ st[i].config \notin va
       /\ t.configs[st[i].config].parses /\ st[i].left \subseteq t.configs[st[i].config].extends
  /\ \A i, j \in 1..Len(st) :
       i < j => st[j].config \in Below(E, st[i].config) /\ st[j].config # st[i].config

\* With nothing reported, the validated ones are confined with all they extend, and so is what
\* the stack has passed, but for what is about to be entered from its top.
KnownGood(t, E, va) ==
  \A c \in va : Confined(t, E, c) /\ t.configs[c].extends \cap DOMAIN t.configs \subseteq va
PassedOn(t, st, va, entering, i, x) ==
  \/ x \in va
  \/ i < Len(st) /\ x = st[i + 1].config
  \/ i = Len(st) /\ x \in entering
  \/ x = "package" /\ x \notin DOMAIN t.configs
Passed(t, st, va, entering) ==
  \A i \in 1..Len(st) :
    /\ \A e \in t.configs[st[i].config].entries : ~ Elsewhere(e)
    /\ \A x \in t.configs[st[i].config].extends \ st[i].left : PassedOn(t, st, va, entering, i, x)

WebState(t, E, R, st, va, wf, entering) ==
  /\ Chain(t, E, R, st, va)
  /\ wf = {} => KnownGood(t, E, va) /\ Passed(t, st, va, entering)
  /\ wf # {} => \E c \in R : ~ Confined(t, E, c)

AllConfined ==
  /\ \A k \in tree.webImports : ~ Elsewhere(k)
  /\ \A c \in Used(tree, Extending) : Confined(tree, Extending, c)

WebInv ==
  /\ tree \in Trees /\ phase \in {"web", "go", "done"}
  /\ phase = "web" =>
       WebState(tree, Extending, Used(tree, Extending), stack, validated, webFound, {})
  /\ phase # "web" => (webFound = {} <=> AllConfined)

-----------------------------------------------------------------------------
\* Configurations that extend each other.

IsExtending(t, E, R) ==
  /\ Digraph(E) /\ E.node = DOMAIN t.configs
  /\ \A c \in DOMAIN t.configs :
       t.configs[c].parses => Successors(E, c) = t.configs[c].extends \cap DOMAIN t.configs
  /\ R \subseteq DOMAIN t.configs /\ Closed(E, R) /\ t.roots \subseteq R

\* The configurations that are used: finitely many, closed under extends.
LEMMA ExtendingFacts ==
  ASSUME tree \in Trees
  PROVE  IsExtending(tree, Extending, Used(tree, Extending))
<1> DEFINE D == DOMAIN tree.configs
           E == Extending
           R == Used(tree, E)
<1>1. IsFiniteSet(D) /\ tree.roots \subseteq D
  BY TreeFacts
<1>2. E.node = D /\ \A e : e \in E.edge <=>
        \E c \in D : tree.configs[c].parses /\ \E x \in tree.configs[c].extends \cap D : e = <<c, x>>
  BY DEF Extending
<1>3. Digraph(E)
  BY <1>1, <1>2 DEF Digraph
<1>4. ASSUME NEW c \in D, tree.configs[c].parses
      PROVE  Successors(E, c) = tree.configs[c].extends \cap D
  <2>1. ASSUME NEW x \in D PROVE <<c, x>> \in E.edge <=> x \in tree.configs[c].extends
    <3>1. CASE x \in tree.configs[c].extends
      <4>1. <<c, x>> \in E.edge
        BY <1>2, <1>4, <3>1
      <4> QED BY <3>1, <4>1
    <3>2. CASE <<c, x>> \in E.edge
      <4>1. PICK d \in D : \E y \in tree.configs[d].extends \cap D : <<c, x>> = <<d, y>>
        BY <1>2, <3>2
      <4>2. PICK y \in tree.configs[d].extends \cap D : <<c, x>> = <<d, y>>
        BY <4>1
      <4>3. c = d /\ x = y
        BY <4>2
      <4> QED BY <3>2, <4>2, <4>3
    <3> QED BY <3>1, <3>2
  <2> HIDE DEF E, D
  <2> QED BY <1>2, <2>1 DEF Successors
<1> HIDE DEF E, D
<1>5. R \subseteq D /\ Closed(E, R) /\ tree.roots \subseteq R
  <2>1. \A r \in tree.roots : Below(E, r) \subseteq D /\ Successors(E, r) \subseteq Below(E, r) /\ Closed(E, Below(E, r))
    BY <1>2, <1>3, BelowFacts
  <2>2. R \subseteq D /\ tree.roots \subseteq R
    BY <1>1, <2>1 DEF Used
  <2>3. ASSUME NEW a \in R PROVE Successors(E, a) \subseteq R
    <3>1. PICK r \in tree.roots : a \in {r} \cup Below(E, r)
      BY DEF Used
    <3>2. Successors(E, a) \subseteq Below(E, r)
      BY <2>1, <3>1 DEF Closed
    <3>3. Below(E, r) \subseteq R
      BY DEF Used
    <3> QED BY <3>2, <3>3
  <2> HIDE DEF R
  <2> QED BY <2>2, <2>3 DEF Closed
<1> HIDE DEF R
<1>6. IsExtending(tree, E, R)
  BY <1>2, <1>3, <1>4, <1>5 DEF IsExtending, D
<1> QED BY <1>6 DEF E, R

\* Entering a configuration that was validated changes nothing.
LEMMA EnterValidated ==
  ASSUME NEW t, NEW E, NEW R, NEW st, NEW va, NEW wf, NEW c,
         WebState(t, E, R, st, va, wf, {c}), c \in va
  PROVE  WebState(t, E, R, st, va, wf, {})
<1>1. Passed(t, st, va, {c}) => Passed(t, st, va, {})
  BY DEF Passed, PassedOn
<1> QED BY <1>1, Zenon DEF WebState

\* What is reported of a configuration that is used keeps the web from being confined.
LEMMA ReportOne ==
  ASSUME NEW t, NEW E, NEW R, NEW st, NEW va, NEW wf, NEW c, NEW entering, NEW more,
         WebState(t, E, R, st, va, wf, entering), more # {}, c \in R, ~ Confined(t, E, c)
  PROVE  WebState(t, E, R, st, va, wf \cup more, {})
<1>1. wf \cup more # {}
  OBVIOUS
<1> QED BY <1>1, Zenon DEF WebState

\* A configuration met again on the stack is below itself.
LEMMA MetAgain ==
  ASSUME NEW t, NEW E, NEW R, IsExtending(t, E, R), NEW st, NEW va, NEW c,
         Chain(t, E, R, st, va), c \in Successors(E, Last(st).config),
         NEW i \in 1..Len(st), st[i].config = c
  PROVE  c \in Below(E, c)
<1>1. Len(st) \in Nat /\ Last(st) = st[Len(st)] /\ Len(st) \in 1..Len(st)
  BY DEF Chain, Last
<1>2. Successors(E, c) \subseteq Below(E, c) /\ Closed(E, Below(E, c))
  BY BelowFacts DEF IsExtending
<1>3. CASE i = Len(st)
  BY <1>1, <1>2, <1>3
<1>4. CASE i # Len(st)
  <2>1. i < Len(st)
    BY <1>1, <1>4
  <2>2. Last(st).config \in Below(E, c)
    BY <1>1, <2>1 DEF Chain
  <2> QED BY <1>2, <2>2 DEF Closed
<1> QED BY <1>3, <1>4

\* A configuration that parses is entered.
LEMMA EnterParsed ==
  ASSUME NEW t, NEW E, NEW R, IsExtending(t, E, R), NEW st, NEW va, NEW wf, NEW c \in R,
         WebState(t, E, R, st, va, wf, {c}), c \notin va, \A i \in 1..Len(st) : st[i].config # c,
         st = <<>> \/ c \in Successors(E, Last(st).config), t.configs[c].parses,
         NEW more, more = {} => \A e \in t.configs[c].entries : ~ Elsewhere(e),
         more # {} => ~ Confined(t, E, c)
  PROVE  WebState(t, E, R, Append(st, [config |-> c, left |-> t.configs[c].extends]), va, wf \cup more, {})
<1>1. PICK f : f = [config |-> c, left |-> t.configs[c].extends]
  OBVIOUS
<1>2. f \in Frames(t) /\ f.config = c /\ f.left = t.configs[c].extends
  BY <1>1 DEF Frames, IsExtending
<1>3. Chain(t, E, R, st, va)
  BY Zenon DEF WebState
<1>4. /\ st \in Seq(Frames(t)) /\ va \subseteq R /\ Len(st) \in Nat
      /\ \A i \in 1..Len(st) :
           /\ st[i].config \in R /\ st[i].config \notin va
           /\ t.configs[st[i].config].parses /\ st[i].left \subseteq t.configs[st[i].config].extends
      /\ \A i, j \in 1..Len(st) :
           i < j => st[j].config \in Below(E, st[i].config) /\ st[j].config # st[i].config
  BY <1>3 DEF Chain
<1>5. PICK n : n = Append(st, f)
  OBVIOUS
<1>6. n \in Seq(Frames(t)) /\ Len(n) = Len(st) + 1 /\ n[Len(st) + 1] = f /\ \A i \in 1..Len(st) : n[i] = st[i]
  BY <1>2, <1>4, <1>5
<1>7. \A i \in 1..Len(n) : i \in 1..Len(st) \/ i = Len(st) + 1
  BY <1>4, <1>6
<1>8. \A i \in 1..Len(n) :
        /\ n[i].config \in R /\ n[i].config \notin va
        /\ t.configs[n[i].config].parses /\ n[i].left \subseteq t.configs[n[i].config].extends
  BY <1>2, <1>4, <1>6, <1>7
<1>9. ASSUME NEW i \in 1..Len(st) PROVE c \in Below(E, st[i].config) /\ c # st[i].config
  <2>1. Len(st) \in 1..Len(st) /\ Last(st) = st[Len(st)]
    BY <1>4 DEF Last
  <2>2. c \in Successors(E, Last(st).config)
    BY <2>1, <1>4
  <2>3. Successors(E, st[i].config) \subseteq Below(E, st[i].config) /\ Closed(E, Below(E, st[i].config))
    BY BelowFacts DEF IsExtending
  <2>4. CASE i = Len(st)
    BY <2>1, <2>2, <2>3, <2>4
  <2>5. CASE i # Len(st)
    <3>1. i < Len(st)
      BY <1>4, <2>5
    <3>2. Last(st).config \in Below(E, st[i].config)
      BY <1>4, <2>1, <3>1
    <3> QED BY <2>2, <2>3, <3>2 DEF Closed
  <2> QED BY <2>4, <2>5
<1>10. ASSUME NEW i \in 1..Len(n), NEW j \in 1..Len(n), i < j
       PROVE  n[j].config \in Below(E, n[i].config) /\ n[j].config # n[i].config
  <2>1. i \in 1..Len(st)
    BY <1>4, <1>6, <1>10
  <2>2. CASE j \in 1..Len(st)
    BY <1>4, <1>6, <1>10, <2>1, <2>2
  <2>3. CASE j = Len(st) + 1
    BY <1>2, <1>6, <1>9, <2>1, <2>3
  <2> QED BY <1>7, <2>2, <2>3
<1>11. Chain(t, E, R, n, va)
  BY <1>4, <1>6, <1>8, <1>10 DEF Chain
<1>12. ASSUME wf \cup more = {} PROVE KnownGood(t, E, va) /\ Passed(t, n, va, {})
  <2>1. wf = {} /\ more = {}
    BY <1>12
  <2>2. KnownGood(t, E, va) /\ Passed(t, st, va, {c})
    BY <2>1, Zenon DEF WebState
  <2>3. ASSUME NEW i \in 1..Len(st)
        PROVE  /\ \A e \in t.configs[n[i].config].entries : ~ Elsewhere(e)
               /\ \A x \in t.configs[n[i].config].extends \ n[i].left : PassedOn(t, n, va, {}, i, x)
    <3>1. /\ \A e \in t.configs[st[i].config].entries : ~ Elsewhere(e)
          /\ \A x \in t.configs[st[i].config].extends \ st[i].left : PassedOn(t, st, va, {c}, i, x)
      BY <2>2 DEF Passed
    <3>2. ASSUME NEW x, PassedOn(t, st, va, {c}, i, x) PROVE PassedOn(t, n, va, {}, i, x)
      <4>1. CASE i < Len(st) /\ x = st[i + 1].config
        <5>1. i + 1 \in 1..Len(st) /\ i < Len(n)
          BY <1>4, <1>6, <4>1
        <5>2. n[i + 1] = st[i + 1]
          BY <1>6, <5>1
        <5> QED BY <4>1, <5>1, <5>2 DEF PassedOn
      <4>2. CASE i = Len(st) /\ x \in {c}
        <5>1. i < Len(n) /\ n[i + 1] = f
          BY <1>4, <1>6, <4>2
        <5> QED BY <1>2, <4>2, <5>1 DEF PassedOn
      <4> QED BY <3>2, <4>1, <4>2 DEF PassedOn
    <3>3. n[i] = st[i]
      BY <1>6
    <3> QED BY <3>1, <3>2, <3>3
  <2>4. \A e \in t.configs[c].entries : ~ Elsewhere(e)
    BY <2>1
  <2>5. t.configs[f.config].extends \ f.left = {}
    BY <1>2
  <2>6. ASSUME NEW i \in 1..Len(n)
        PROVE  /\ \A e \in t.configs[n[i].config].entries : ~ Elsewhere(e)
               /\ \A x \in t.configs[n[i].config].extends \ n[i].left : PassedOn(t, n, va, {}, i, x)
    <3>1. CASE i = Len(st) + 1
      BY <1>2, <1>6, <2>4, <2>5, <3>1
    <3> QED BY <1>7, <2>3, <3>1
  <2> QED BY <2>2, <2>6, Zenon DEF Passed
<1>13. ASSUME wf \cup more # {} PROVE \E d \in R : ~ Confined(t, E, d)
  <2>1. wf # {} => \E d \in R : ~ Confined(t, E, d)
    BY Zenon DEF WebState
  <2> QED BY <1>13, <2>1
<1>14. WebState(t, E, R, n, va, wf \cup more, {})
  BY <1>11, <1>12, <1>13, Zenon DEF WebState
<1> QED BY <1>1, <1>5, <1>14

\* One that does not parse is reported and done with.
LEMMA EnterInvalid ==
  ASSUME NEW t, NEW E, NEW R, NEW st, NEW va, NEW wf, NEW c \in R,
         WebState(t, E, R, st, va, wf, {c}), \A i \in 1..Len(st) : st[i].config # c,
         ~ t.configs[c].parses, NEW more, more # {}
  PROVE  WebState(t, E, R, st, va \cup {c}, wf \cup more, {})
<1>1. Chain(t, E, R, st, va)
  BY Zenon DEF WebState
<1>2. Chain(t, E, R, st, va \cup {c})
  BY <1>1 DEF Chain
<1>3. wf \cup more # {} /\ ~ Confined(t, E, c)
  BY DEF Confined
<1> QED BY <1>2, <1>3, Zenon DEF WebState

\* The stack when x was taken from what its last frame has left.
Taken(st, x) == [st EXCEPT ![Len(st)].left = @ \ {x}]

\* The next extends of the configuration on top is taken.
LEMMA TakeExtends ==
  ASSUME NEW t, NEW E, NEW R, NEW st, NEW va, NEW wf, NEW x, NEW n,
         WebState(t, E, R, st, va, wf, {}), st # <<>>, x \in Last(st).left, n = Taken(st, x)
  PROVE  /\ WebState(t, E, R, n, va, wf, {x}) /\ n # <<>> /\ Last(n).config = Last(st).config
         /\ Last(st).config \in R /\ x \in t.configs[Last(st).config].extends
         /\ t.configs[Last(st).config].parses
<1>1. Chain(t, E, R, st, va)
  BY Zenon DEF WebState
<1>2. /\ st \in Seq(Frames(t)) /\ va \subseteq R /\ Len(st) \in Nat /\ Len(st) >= 1 /\ Len(st) \in 1..Len(st)
      /\ \A i \in 1..Len(st) :
           /\ st[i].config \in R /\ st[i].config \notin va
           /\ t.configs[st[i].config].parses /\ st[i].left \subseteq t.configs[st[i].config].extends
      /\ \A i, j \in 1..Len(st) :
           i < j => st[j].config \in Below(E, st[i].config) /\ st[j].config # st[i].config
  BY <1>1 DEF Chain
<1>3. Last(st) = st[Len(st)]
  BY DEF Last
<1>4. PICK k : k = Len(st)
  OBVIOUS
<1>5. PICK f : f = [st[k] EXCEPT !.left = @ \ {x}]
  OBVIOUS
<1>6. f \in Frames(t) /\ f.config = st[k].config /\ f.left = st[k].left \ {x}
  <2>1. st[k] \in Frames(t)
    BY <1>2, <1>4
  <2> QED BY <1>5, <2>1 DEF Frames
<1>7. n = [st EXCEPT ![k] = f]
  BY <1>4, <1>5 DEF Taken
<1>8. n \in Seq(Frames(t)) /\ Len(n) = k /\ n[k] = f /\ \A i \in 1..k : i # k => n[i] = st[i]
  <2>1. PICK S : S = Frames(t)
    OBVIOUS
  <2>2. k \in Nat /\ k \in 1..k /\ st \in [1..k -> S] /\ f \in S
    BY <1>2, <1>4, <1>6, <2>1
  <2>3. n \in [1..k -> S] /\ n[k] = f /\ \A i \in 1..k : i # k => n[i] = st[i]
    BY <1>7, <2>2
  <2>4. n \in Seq(S) /\ Len(n) = k
    BY <2>2, <2>3
  <2> QED BY <2>1, <2>3, <2>4
<1>9. \A i \in 1..k : n[i].config = st[i].config /\ n[i].left \subseteq st[i].left
  BY <1>6, <1>8
<1>10. Chain(t, E, R, n, va)
  BY <1>2, <1>4, <1>8, <1>9 DEF Chain
<1>11. ASSUME Passed(t, st, va, {}) PROVE Passed(t, n, va, {x})
  <2>1. ASSUME NEW i \in 1..k, NEW y \in t.configs[n[i].config].extends \ n[i].left
        PROVE  PassedOn(t, n, va, {x}, i, y)
    <3>1. CASE y \in st[i].left
      <4>1. i = k /\ y = x
        BY <1>6, <1>8, <2>1, <3>1
      <4> QED BY <1>8, <4>1 DEF PassedOn
    <3>2. CASE y \notin st[i].left
      <4>1. PassedOn(t, st, va, {}, i, y)
        BY <1>4, <1>9, <1>11, <2>1, <3>2 DEF Passed
      <4>2. i < Len(st) => n[i + 1].config = st[i + 1].config /\ i < Len(n)
        <5>1. i < Len(st) => i + 1 \in 1..k
          BY <1>2, <1>4
        <5> QED BY <1>4, <1>8, <1>9, <5>1
      <4> QED BY <4>1, <4>2 DEF PassedOn
    <3> QED BY <3>1, <3>2
  <2>2. ASSUME NEW i \in 1..k PROVE \A e \in t.configs[n[i].config].entries : ~ Elsewhere(e)
    BY <1>4, <1>9, <1>11 DEF Passed
  <2> QED BY <1>8, <2>1, <2>2 DEF Passed
<1>12. WebState(t, E, R, n, va, wf, {x})
  BY <1>10, <1>11, Zenon DEF WebState
<1>13. n # <<>> /\ Last(n).config = Last(st).config
  BY <1>2, <1>3, <1>4, <1>6, <1>8 DEF Last
<1>14. st[k].config \in R /\ t.configs[st[k].config].parses /\ x \in t.configs[st[k].config].extends
  BY <1>2, <1>3, <1>4
<1> QED BY <1>3, <1>4, <1>12, <1>13, <1>14

\* What is no configuration is a package's, which is passed, or is reported.
LEMMA LeaveWeb ==
  ASSUME NEW t, NEW E, NEW R, NEW st, NEW va, NEW wf, NEW x, NEW c \in R,
         WebState(t, E, R, st, va, wf, {x}), x \notin DOMAIN t.configs,
         x \in t.configs[c].extends, NEW more, more = {} <=> x = "package"
  PROVE  WebState(t, E, R, st, va, wf \cup more, {})
<1>1. CASE x = "package"
  <2>1. wf \cup more = wf
    BY <1>1
  <2>2. Passed(t, st, va, {x}) => Passed(t, st, va, {})
    BY <1>1 DEF Passed, PassedOn
  <2> QED BY <2>1, <2>2, Zenon DEF WebState
<1>2. CASE x # "package"
  <2>1. ~ Confined(t, E, c)
    BY <1>2 DEF Confined
  <2> QED BY <1>2, <2>1, ReportOne
<1> QED BY <1>1, <1>2

\* A configuration is validated when all it extends is.
LEMMA LeaveTop ==
  ASSUME NEW t, NEW E, NEW R, IsExtending(t, E, R), NEW st, NEW va, NEW wf,
         WebState(t, E, R, st, va, wf, {}), st # <<>>, Last(st).left = {}
  PROVE  WebState(t, E, R, Front(st), va \cup {Last(st).config}, wf, {})
<1>1. Chain(t, E, R, st, va)
  BY Zenon DEF WebState
<1>2. PICK k : k = Len(st)
  OBVIOUS
<1>3. /\ st \in Seq(Frames(t)) /\ va \subseteq R /\ k \in Nat /\ k >= 1 /\ k \in 1..k
      /\ \A i \in 1..k :
           /\ st[i].config \in R /\ st[i].config \notin va
           /\ t.configs[st[i].config].parses /\ st[i].left \subseteq t.configs[st[i].config].extends
      /\ \A i, j \in 1..k :
           i < j => st[j].config \in Below(E, st[i].config) /\ st[j].config # st[i].config
  BY <1>1, <1>2 DEF Chain
<1>4. PICK c : c = st[k].config
  OBVIOUS
<1>5. Last(st) = st[k] /\ Last(st).config = c /\ st[k].left = {}
  BY <1>2, <1>4 DEF Last
<1>6. PICK n : n = Front(st)
  OBVIOUS
<1>7. n \in Seq(Frames(t)) /\ Len(n) = k - 1 /\ \A i \in 1..(k - 1) : n[i] = st[i]
  BY <1>2, <1>3, <1>6 DEF Front
<1>8. \A i \in 1..(k - 1) : i \in 1..k /\ i < k
  BY <1>3
<1> DEFINE V == va \cup {c}
<1>9. Chain(t, E, R, n, V)
  <2>1. c \in R
    BY <1>3, <1>4
  <2>2. \A i \in 1..(k - 1) : st[i].config # c
    BY <1>3, <1>4, <1>8
  <2>3. \A i \in 1..Len(n) :
          /\ n[i].config \in R /\ n[i].config \notin V
          /\ t.configs[n[i].config].parses /\ n[i].left \subseteq t.configs[n[i].config].extends
    BY <1>3, <1>7, <1>8, <2>2
  <2>4. \A i, j \in 1..Len(n) :
          i < j => n[j].config \in Below(E, n[i].config) /\ n[j].config # n[i].config
    BY <1>3, <1>7, <1>8
  <2> QED BY <1>3, <1>7, <2>1, <2>3, <2>4 DEF Chain
<1>10. ASSUME wf = {} PROVE KnownGood(t, E, V) /\ Passed(t, n, V, {})
  <2>1. KnownGood(t, E, va) /\ Passed(t, st, va, {})
    BY <1>10, Zenon DEF WebState
  <2>2. \A i \in 1..k :
          /\ \A e \in t.configs[st[i].config].entries : ~ Elsewhere(e)
          /\ \A x \in t.configs[st[i].config].extends \ st[i].left : PassedOn(t, st, va, {}, i, x)
    BY <1>2, <2>1 DEF Passed
  <2>3. \A x \in t.configs[c].extends : x \in va \/ (x = "package" /\ x \notin DOMAIN t.configs)
    <3>1. \A x \in t.configs[c].extends : PassedOn(t, st, va, {}, k, x)
      BY <1>3, <1>4, <1>5, <2>2
    <3>2. ~ (k < Len(st))
      BY <1>2, <1>3
    <3> QED BY <3>1, <3>2 DEF PassedOn
  <2>4. va \subseteq DOMAIN t.configs /\ c \in DOMAIN t.configs /\ c \notin va /\ t.configs[c].parses
    BY <1>3, <1>4 DEF IsExtending
  <2>5. Closed(E, va)
    <3>1. \A a \in va : Successors(E, a) = t.configs[a].extends \cap DOMAIN t.configs
      BY <2>1, <2>4 DEF KnownGood, Confined, IsExtending
    <3> QED BY <2>1, <3>1 DEF KnownGood, Closed
  <2>6. Successors(E, c) \subseteq va
    BY <2>3, <2>4 DEF IsExtending
  <2>7. c \notin Below(E, c)
    BY <2>4, <2>5, <2>6, BelowFacts DEF IsExtending
  <2>8. Confined(t, E, c)
    <3>1. \A e \in t.configs[c].entries : ~ Elsewhere(e)
      BY <1>3, <1>4, <2>2
    <3> QED BY <2>3, <2>4, <2>7, <3>1 DEF Confined
  <2>9. KnownGood(t, E, V)
    BY <2>1, <2>3, <2>8 DEF KnownGood
  <2>10. ASSUME NEW i \in 1..(k - 1), NEW x, PassedOn(t, st, va, {}, i, x)
         PROVE  PassedOn(t, n, V, {}, i, x)
    <3>1. i \in Nat /\ i < k
      BY <1>3
    <3>2. CASE i < Len(st) /\ x = st[i + 1].config
      <4>1. CASE i + 1 = k
        BY <1>4, <3>2, <4>1 DEF PassedOn
      <4>2. CASE i + 1 # k
        <5>1. i + 1 \in 1..(k - 1) /\ i < Len(n)
          BY <1>3, <1>7, <3>1, <4>2
        <5> QED BY <1>7, <3>2, <5>1 DEF PassedOn
      <4> QED BY <4>1, <4>2
    <3>3. CASE x \in va
      BY <3>3 DEF PassedOn
    <3>4. CASE x = "package" /\ x \notin DOMAIN t.configs
      BY <3>4 DEF PassedOn
    <3> QED BY <2>10, <3>2, <3>3, <3>4 DEF PassedOn
  <2>11. Passed(t, n, V, {})
    <3>1. ASSUME NEW i \in 1..Len(n)
          PROVE  /\ \A e \in t.configs[n[i].config].entries : ~ Elsewhere(e)
                 /\ \A x \in t.configs[n[i].config].extends \ n[i].left : PassedOn(t, n, V, {}, i, x)
      <4>1. i \in 1..(k - 1) /\ i \in 1..k /\ n[i] = st[i]
        BY <1>7, <1>8
      <4> QED BY <2>2, <2>10, <4>1
    <3> QED BY <3>1, Zenon DEF Passed
  <2> QED BY <2>9, <2>11
<1>11. wf # {} => \E d \in R : ~ Confined(t, E, d)
  BY Zenon DEF WebState
<1>12. WebState(t, E, R, n, V, wf, {})
  BY <1>9, <1>10, <1>11, Zenon DEF WebState
<1> QED BY <1>5, <1>6, <1>12

-----------------------------------------------------------------------------
\* The steps of the web.

\* A configuration that is used is entered, from the top of the stack or as a root.
LEMMA ValidateKeeps ==
  ASSUME tree \in Trees, NEW below, NEW c,
         LET E == Extending R == Used(tree, Extending) IN
           /\ WebState(tree, E, R, below, validated, webFound, {c})
           /\ c \in R /\ (below = <<>> \/ c \in Successors(E, Last(below).config)),
         Validate(c, below)
  PROVE  WebState(tree, Extending, Used(tree, Extending), stack', validated', webFound', {})
<1> DEFINE E == Extending
           R == Used(tree, E)
<1>1. IsExtending(tree, E, R)
  BY ExtendingFacts
<1>2. /\ WebState(tree, E, R, below, validated, webFound, {c})
      /\ c \in R /\ (below = <<>> \/ c \in Successors(E, Last(below).config))
  OBVIOUS
<1> HIDE DEF E, R
<1>3. Chain(tree, E, R, below, validated)
  BY <1>2, Zenon DEF WebState
<1>4. Len(below) \in Nat /\ DOMAIN below = 1..Len(below)
  BY <1>3 DEF Chain
<1>5. CASE c \in validated
  <2>1. stack' = below /\ validated' = validated /\ webFound' = webFound
    BY <1>5 DEF Validate
  <2> QED BY <1>2, <1>5, <2>1, EnterValidated DEF E, R
<1>6. CASE c \notin validated /\ \E i \in DOMAIN below : below[i].config = c
  <2>1. stack' = below /\ validated' = validated /\ webFound' = webFound \cup {<<c, "cycle">>}
    BY <1>6 DEF Validate
  <2>2. PICK i \in 1..Len(below) : below[i].config = c
    BY <1>4, <1>6
  <2>3. below # <<>>
    BY <1>4, <2>2
  <2>4. c \in Below(E, c)
    BY <1>1, <1>2, <1>3, <2>2, <2>3, MetAgain
  <2>5. ~ Confined(tree, E, c)
    BY <2>4 DEF Confined
  <2>6. {<<c, "cycle">>} # {}
    OBVIOUS
  <2>7. WebState(tree, E, R, below, validated, webFound \cup {<<c, "cycle">>}, {})
    BY <1>2, <2>5, <2>6, ReportOne
  <2> QED BY <2>1, <2>7 DEF E, R
<1>7. CASE c \notin validated /\ (\A i \in DOMAIN below : below[i].config # c) /\ tree.configs[c].parses
  <2>1. stack' = Entered(c, below) /\ validated' = validated /\ webFound' = webFound \cup Ways(c)
    BY <1>7 DEF Validate
  <2>2. Ways(c) = {} => \A e \in tree.configs[c].entries : ~ Elsewhere(e)
    BY DEF Ways
  <2>3. Ways(c) # {} => ~ Confined(tree, E, c)
    BY DEF Ways, Confined
  <2>4. Entered(c, below) = Append(below, [config |-> c, left |-> tree.configs[c].extends])
    BY DEF Entered
  <2>5. WebState(tree, E, R, Append(below, [config |-> c, left |-> tree.configs[c].extends]), validated,
                 webFound \cup Ways(c), {})
    BY <1>1, <1>2, <1>4, <1>7, <2>2, <2>3, EnterParsed
  <2> QED BY <2>1, <2>4, <2>5 DEF E, R
<1>8. CASE c \notin validated /\ (\A i \in DOMAIN below : below[i].config # c) /\ ~ tree.configs[c].parses
  <2>1. /\ stack' = below /\ validated' = validated \cup {c}
        /\ webFound' = webFound \cup {<<c, "invalid">>}
    BY <1>8 DEF Validate
  <2>2. {<<c, "invalid">>} # {}
    OBVIOUS
  <2>3. WebState(tree, E, R, below, validated \cup {c}, webFound \cup {<<c, "invalid">>}, {})
    BY <1>2, <1>4, <1>8, <2>2, EnterInvalid
  <2> QED BY <2>1, <2>3 DEF E, R
<1> QED BY <1>5, <1>6, <1>7, <1>8

\* The invariant of the web holds at the start.
LEMMA WebStarts == ArchInit => WebInv
<1> SUFFICES ASSUME ArchInit PROVE WebInv
  OBVIOUS
<1>1. tree \in Trees /\ phase = "web" /\ stack = <<>> /\ validated = {} /\ webFound = {}
  BY DEF ArchInit
<1>2. PICK E, R : E = Extending /\ R = Used(tree, Extending)
  OBVIOUS
<1>3. Chain(tree, E, R, <<>>, {}) /\ KnownGood(tree, E, {}) /\ Passed(tree, <<>>, {}, {})
  BY DEF Chain, KnownGood, Passed
<1>4. WebState(tree, E, R, <<>>, {}, {}, {})
  BY <1>3, Zenon DEF WebState
<1> QED BY <1>1, <1>2, <1>4 DEF WebInv

\* Each step of the check keeps the invariant of the web.
LEMMA WebSteps == WebInv /\ [ArchNext]_archVars => WebInv'
<1> SUFFICES ASSUME WebInv, [ArchNext]_archVars PROVE WebInv'
  OBVIOUS
<1> DEFINE E == Extending
           R == Used(tree, E)
<1>0. /\ tree \in Trees /\ phase \in {"web", "go", "done"}
      /\ phase = "web" => WebState(tree, E, R, stack, validated, webFound, {})
      /\ phase # "web" => (webFound = {} <=> AllConfined)
  BY DEF WebInv
<1>1. IsExtending(tree, E, R)
  BY <1>0, ExtendingFacts
<1>2. ASSUME tree' = tree
      PROVE  Extending' = E /\ Used(tree, Extending)' = R /\ (AllConfined' <=> AllConfined)
  <2>1. Extending' = Extending
    BY <1>2, SameTree
  <2> QED BY <1>2, <2>1 DEF AllConfined, Used
<1>3. ASSUME tree' = tree, phase' = phase, phase = "web",
             WebState(tree, E, R, stack', validated', webFound', {})
      PROVE  WebInv'
  BY <1>0, <1>2, <1>3 DEF WebInv
<1> HIDE DEF E, R
<1>4. CASE ValidateRoot
  <2>1. PICK c \in tree.roots : Validate(c, <<>>)
    BY <1>4 DEF ValidateRoot
  <2>2. tree' = tree /\ phase' = phase /\ phase = "web" /\ stack = <<>>
    BY <1>4 DEF ValidateRoot
  <2>3. c \in R
    BY <1>1 DEF IsExtending
  <2>4. WebState(tree, E, R, <<>>, validated, webFound, {c})
    <3>1. Passed(tree, <<>>, validated, {c})
      BY DEF Passed
    <3>2. WebState(tree, E, R, <<>>, validated, webFound, {})
      BY <1>0, <2>2
    <3> QED BY <3>1, <3>2, Zenon DEF WebState
  <2>5. WebState(tree, E, R, stack', validated', webFound', {})
    <3>1. PICK st : st = <<>>
      OBVIOUS
    <3> QED BY <1>0, <2>1, <2>3, <2>4, <3>1, ValidateKeeps DEF E, R
  <2> QED BY <1>3, <2>2, <2>5
<1>5. CASE Extend
  <2>1. tree' = tree /\ phase' = phase /\ phase = "web" /\ stack # <<>>
    BY <1>5 DEF Extend
  <2>2. PICK x \in Last(stack).left :
          LET below == [stack EXCEPT ![Len(stack)].left = @ \ {x}] IN
          IF x \in DOMAIN tree.configs THEN Validate(x, below)
          ELSE /\ stack' = below
               /\ webFound' = webFound \cup {<<Last(stack).config, k>> : k \in {x} \ {"package"}}
               /\ UNCHANGED validated
    BY <1>5, Zenon DEF Extend
  <2>3. PICK n : n = [stack EXCEPT ![Len(stack)].left = @ \ {x}]
    OBVIOUS
  <2>9. n = Taken(stack, x)
    BY <2>3 DEF Taken
  <2>4. PICK c : c = Last(stack).config
    OBVIOUS
  <2>5. /\ WebState(tree, E, R, n, validated, webFound, {x}) /\ n # <<>> /\ Last(n).config = c
        /\ c \in R /\ x \in tree.configs[c].extends /\ tree.configs[c].parses
    <3>1. WebState(tree, E, R, stack, validated, webFound, {})
      BY <1>0, <2>1
    <3>2. /\ WebState(tree, E, R, n, validated, webFound, {x}) /\ n # <<>> /\ Last(n).config = Last(stack).config
          /\ Last(stack).config \in R /\ x \in tree.configs[Last(stack).config].extends
          /\ tree.configs[Last(stack).config].parses
      <4>1. PICK e, r : e = E /\ r = R
        OBVIOUS
      <4>2. PICK t, st, va, wf : t = tree /\ st = stack /\ va = validated /\ wf = webFound
        OBVIOUS
      <4>3. WebState(t, e, r, st, va, wf, {}) /\ st # <<>> /\ x \in Last(st).left /\ n = Taken(st, x)
        BY <2>1, <2>9, <3>1, <4>1, <4>2
      <4>4. /\ WebState(t, e, r, n, va, wf, {x}) /\ n # <<>> /\ Last(n).config = Last(st).config
            /\ Last(st).config \in r /\ x \in t.configs[Last(st).config].extends
            /\ t.configs[Last(st).config].parses
        BY <4>3, TakeExtends
      <4> QED BY <4>1, <4>2, <4>4
    <3> QED BY <2>4, <3>2, Zenon
  <2>6. CASE x \in DOMAIN tree.configs
    <3>1. Validate(x, n)
      BY <2>2, <2>3, <2>6
    <3>2. x \in Successors(E, c) /\ c \in R
      BY <1>1, <2>5, <2>6 DEF IsExtending
    <3>3. x \in R
      BY <1>1, <3>2 DEF IsExtending, Closed
    <3>4. WebState(tree, E, R, stack', validated', webFound', {})
      BY <1>0, <2>5, <3>1, <3>2, <3>3, ValidateKeeps DEF E, R
    <3> QED BY <1>3, <2>1, <3>4
  <2>7. CASE x \notin DOMAIN tree.configs
    <3> DEFINE more == {<<c, k>> : k \in {x} \ {"package"}}
    <3>1. stack' = n /\ validated' = validated /\ webFound' = webFound \cup more
      BY <2>2, <2>3, <2>4, <2>7
    <3>2. more = {} <=> x = "package"
      OBVIOUS
    <3> HIDE DEF more
    <3>3. WebState(tree, E, R, n, validated, webFound \cup more, {})
      BY <2>5, <2>7, <3>2, LeaveWeb
    <3> QED BY <1>3, <2>1, <3>1, <3>3
  <2> QED BY <2>6, <2>7
<1>6. CASE Validated
  <2>1. /\ tree' = tree /\ phase' = phase /\ phase = "web" /\ stack # <<>> /\ Last(stack).left = {}
        /\ validated' = validated \cup {Last(stack).config} /\ stack' = Front(stack)
        /\ webFound' = webFound
    BY <1>6 DEF Validated
  <2>2. WebState(tree, E, R, stack', validated', webFound', {})
    BY <1>0, <1>1, <2>1, LeaveTop
  <2> QED BY <1>3, <2>1, <2>2
<1>7. CASE ScanWeb
  <2> DEFINE more == {<<"import", k>> : k \in {k \in tree.webImports : Elsewhere(k)}}
  <2>1. /\ tree' = tree /\ phase = "web" /\ phase' = "go" /\ stack = <<>> /\ tree.roots \subseteq validated
        /\ webFound' = webFound \cup more
    BY <1>7 DEF ScanWeb
  <2>2. more = {} <=> \A k \in tree.webImports : ~ Elsewhere(k)
    OBVIOUS
  <2> HIDE DEF more
  <2>3. WebState(tree, E, R, stack, validated, webFound, {})
    BY <1>0, <2>1
  <2>4. webFound # {} => ~ AllConfined
    <3>1. webFound # {} => \E c \in R : ~ Confined(tree, E, c)
      BY <2>3, Zenon DEF WebState
    <3> QED BY <3>1 DEF AllConfined, E, R
  <2>5. webFound = {} => \A c \in R : Confined(tree, E, c)
    <3>1. SUFFICES ASSUME webFound = {} PROVE R \subseteq validated /\ KnownGood(tree, E, validated)
      BY DEF KnownGood
    <3>2. KnownGood(tree, E, validated) /\ Chain(tree, E, R, stack, validated)
      BY <2>3, <3>1, Zenon DEF WebState
    <3>3. validated \subseteq DOMAIN tree.configs
      BY <1>1, <3>2 DEF IsExtending, Chain
    <3>4. Closed(E, validated)
      <4>1. \A a \in validated : Successors(E, a) = tree.configs[a].extends \cap DOMAIN tree.configs
        BY <1>1, <3>2, <3>3 DEF KnownGood, Confined, IsExtending
      <4> QED BY <3>2, <4>1 DEF KnownGood, Closed
    <3>5. \A r \in tree.roots : Below(E, r) \subseteq validated
      <4>1. \A r \in tree.roots : Successors(E, r) \subseteq validated
        BY <2>1, <3>4 DEF Closed
      <4> QED BY <1>1, <3>4, <4>1, BelowFacts DEF IsExtending
    <3>6. R \subseteq validated
      BY <2>1, <3>5 DEF Used, R
    <3> QED BY <3>2, <3>6
  <2>6. webFound' = {} <=> AllConfined
    <3>1. AllConfined <=> more = {} /\ \A c \in R : Confined(tree, E, c)
      BY <2>2 DEF AllConfined, E, R
    <3> QED BY <2>1, <2>4, <2>5, <3>1
  <2>7. AllConfined' <=> AllConfined
    BY <1>2, <2>1
  <2> QED BY <1>0, <2>1, <2>6, <2>7 DEF WebInv
<1>8. CASE NextSearch \/ Visit \/ Finish
  <2>1. tree' = tree /\ phase # "web" /\ phase' \in {"go", "done"} /\ webFound' = webFound
    BY <1>8 DEF NextSearch, Visit, Finish, WebOver
  <2>2. AllConfined' <=> AllConfined
    BY <1>2, <2>1
  <2> QED BY <1>0, <2>1, <2>2 DEF WebInv
<1>9. CASE UNCHANGED archVars
  <2>1. /\ tree' = tree /\ phase' = phase /\ stack' = stack /\ validated' = validated
        /\ webFound' = webFound
    BY <1>9 DEF archVars
  <2>2. (AllConfined' <=> AllConfined) /\ Extending' = E /\ Used(tree, Extending)' = R
    BY <1>2, <2>1
  <2> QED BY <1>0, <2>1, <2>2 DEF WebInv
<1> QED BY <1>4, <1>5, <1>6, <1>7, <1>8, <1>9 DEF ArchNext

\* When nothing of the web was found, nothing was there to find.
LEMMA WebFollows ==
  ASSUME WebInv
  PROVE  WebConfined
<1>1. phase = "done" => (webFound = {} <=> AllConfined)
  BY DEF WebInv
<1>2. AllConfined <=>
      /\ \A k \in tree.webImports : ~ Elsewhere(k)
      /\ \A c \in UNION {{r} \cup Below(Extending, r) : r \in tree.roots} :
           /\ tree.configs[c].parses /\ c \notin Below(Extending, c)
           /\ tree.configs[c].extends \subseteq DOMAIN tree.configs \cup {"package"}
           /\ \A e \in tree.configs[c].entries : ~ Elsewhere(e)
  BY Zenon DEF AllConfined, Used, Confined
<1> QED BY <1>1, <1>2, Zenon DEF WebConfined

-----------------------------------------------------------------------------
\* The report.

\* The answer of architecture_check is exact, for any tree: each guarded package is reported
\* with each forbidden one below it, by a shortest way, and nothing else is; and the web is
\* reported exactly when something that it uses leads out of it.
THEOREM ReportsAreExact == ArchSpec => []ReportsExact
<1>1. ArchInit => GoInv /\ WebInv
  BY GoStarts, WebStarts
<1>2. GoInv /\ WebInv /\ [ArchNext]_archVars => GoInv' /\ WebInv'
  BY GoSteps, WebSteps
<1>3. GoInv /\ WebInv => ReportsExact
  BY BoundariesFollow, WebFollows DEF ReportsExact
<1> QED BY <1>1, <1>2, <1>3, PTL DEF ArchSpec

=============================================================================
