------------------------------- MODULE GateRuns -------------------------------
(***************************************************************************)
(* scripts/ci/run_gate.py: a CI job asks for targets in turn.  The runner  *)
(* reads the inventory of lifecycles once and predicts which coverage of a *)
(* target is inactive; what it does not expect to be inactive it runs with *)
(* make, where `packets/check dispatch` selects hooks again, from the      *)
(* lifecycles of that moment.  Packets land and are reverted meanwhile,    *)
(* and a runner may be killed; its result file stays for the next one.     *)
(***************************************************************************)
EXTENDS Naturals, Sequences, FiniteSets

CONSTANTS
  Publics,       \* public targets, with those that dispatch hooks
  Dispatching,
  HookOf,        \* hook -> [target, key, value]
  GateSelectors, \* [target, key, value, refs]
  SelectorKeys,  \* variables the dispatcher selects by
  Jobs,          \* requests: [targets, variables: key -> value, permitted, allowPlanned]
  MaxLandings,   \* bound: changes of lifecycles
  MaxRuns        \* bound: runs of the gate in one artifact directory

\* validate_commands lets a selector be registered under the dispatcher's own keys only.
ASSUME SelectorsAssumption == \A s \in GateSelectors : s.key \in SelectorKeys
ASSUME JobsAssumption == \A job \in Jobs : job.targets \in Seq(STRING)

VARIABLES
  lifecycle,   \* target or hook -> planned, present or active
  landings,
  runs,        \* runs so far
  gate,        \* the running gate: [phase, job, inventory, results, ran]
  resultFile   \* [run, overall, results] or NoResult

gateVars == <<lifecycle, landings, runs, gate, resultFile>>

GateHooks == DOMAIN HookOf
Covered == Publics \cup GateHooks
NoResult == [run |-> 0, overall |-> "none", results |-> <<>>]

-----------------------------------------------------------------------------
(* Selection, by the runner and by the dispatcher.                           *)

Chosen(s, variables) == s.key \in DOMAIN variables /\ variables[s.key] = s.value
HooksOf(s) ==
  IF s.refs # {} THEN s.refs
  ELSE {h \in GateHooks : HookOf[h] = [target |-> s.target, key |-> s.key, value |-> s.value]}

\* expected_inactive_coverage, from an inventory; Unclear when it raises.
Matches(target, variables) == {s \in GateSelectors : s.target = target /\ Chosen(s, variables)}
Unclear(target, inventory, variables) ==
  \/ target \notin Publics
  \/ inventory[target] = "active" /\ Cardinality(Matches(target, variables)) > 1
ExpectedInactive(target, inventory, variables) ==
  IF inventory[target] # "active" THEN {target}
  ELSE {h \in UNION {HooksOf(s) : s \in Matches(target, variables)} : inventory[h] # "active"}

\* Variables given to make reach the dispatcher in its environment.
Selected(variables) == {k \in SelectorKeys : k \in DOMAIN variables}
Candidates(target, variables) ==
  IF Selected(variables) = {} THEN {h \in GateHooks : HookOf[h].target = target}
  ELSE UNION {HooksOf(s) : s \in Matches(target, variables)}

\* Mutant: inactive hooks are skipped although they were selected.
DispatchesSkipping(target, variables) ==
  /\ lifecycle[target] # "planned"
  /\ target \in Dispatching =>
       /\ Cardinality(Selected(variables)) <= 1
       /\ Selected(variables) # {} => Candidates(target, variables) # {}

\* make finds the target, and dispatch raises nothing before it runs the active hooks.
Dispatches(target, variables) ==
  /\ lifecycle[target] # "planned"
  /\ target \in Dispatching =>
       /\ Cardinality(Selected(variables)) <= 1
       /\ Selected(variables) # {} =>
            /\ Candidates(target, variables) # {}
            /\ \A h \in Candidates(target, variables) : lifecycle[h] = "active"

ActiveHooks(target, variables) ==
  IF target \in Dispatching
    THEN {h \in Candidates(target, variables) : lifecycle[h] = "active"} ELSE {}

-----------------------------------------------------------------------------

IdleGate == [phase |-> "idle", job |-> CHOOSE j \in Jobs : TRUE, inventory |-> lifecycle,
         results |-> <<>>, ran |-> {}]

GateInit ==
  /\ lifecycle \in [Covered -> {"planned", "active"}]
  /\ landings = 0 /\ runs = 0
  /\ gate = IdleGate
  /\ resultFile = NoResult

\* A packet lands, is reverted, or its requirements are recorded or withdrawn.
Land(c, status) ==
  /\ landings < MaxLandings /\ lifecycle[c] # status
  /\ lifecycle' = [lifecycle EXCEPT ![c] = status]
  /\ landings' = landings + 1
  /\ UNCHANGED <<runs, gate, resultFile>>

Proceed(g) == gate' = g /\ UNCHANGED <<lifecycle, landings, runs, resultFile>>

\* main, up to the inventory; a target or a variable that is not permitted, a directory
\* outside .ci-artifacts or an inventory that cannot be read end it with exit code 2.
Start(job) ==
  /\ gate.phase \in {"idle", "ended"} /\ runs < MaxRuns
  /\ runs' = runs + 1
  /\ \/ gate' = [phase |-> "targets", job |-> job, inventory |-> lifecycle, results |-> <<>>, ran |-> {}]
        /\ job.permitted
     \/ gate' = [IdleGate EXCEPT !.phase = "ended", !.job = job]
  /\ UNCHANGED <<lifecycle, landings, resultFile>>

Failed == \E i \in DOMAIN gate.results : gate.results[i] = "failed"
Planned == \E i \in DOMAIN gate.results : gate.results[i] = "planned"
Target == gate.job.targets[Len(gate.results) + 1]
Result(status) == Append(gate.results, status)

AtTarget ==
  /\ gate.phase = "targets"
  /\ ~ Failed /\ Len(gate.results) < Len(gate.job.targets)

\* A target whose coverage is unclear or expected to be inactive is not run.
SetAside ==
  /\ AtTarget
  /\ IF Unclear(Target, gate.inventory, gate.job.variables)
       THEN Proceed([gate EXCEPT !.results = Result("failed")])
       ELSE /\ ExpectedInactive(Target, gate.inventory, gate.job.variables) # {}
            /\ Proceed([gate EXCEPT !.results = Result("planned")])

\* run_target: make runs, dispatching or not, and passes or fails.
RunTarget ==
  /\ AtTarget
  /\ ~ Unclear(Target, gate.inventory, gate.job.variables)
  /\ ExpectedInactive(Target, gate.inventory, gate.job.variables) = {}
  /\ \/ /\ Dispatches(Target, gate.job.variables)
        /\ Proceed([gate EXCEPT !.results = Result("passed"),
                                !.ran = @ \cup {Target} \cup ActiveHooks(Target, gate.job.variables)])
     \/ Proceed([gate EXCEPT !.results = Result("failed")])

Overall(failed, planned) == IF failed THEN "failed" ELSE IF planned THEN "planned" ELSE "passed"

\* The rest of main: the verdict, the result file and the exit code.
Conclude ==
  /\ gate.phase = "targets" /\ ~ AtTarget
  /\ LET undeclared == Planned /\ ~ gate.job.allowPlanned
         results == IF undeclared THEN Result("failed") ELSE gate.results IN
     /\ resultFile' =
          [run |-> runs, overall |-> Overall(Failed \/ undeclared, Planned), results |-> results]
     /\ gate' = [gate EXCEPT !.phase = IF Failed \/ undeclared THEN "ended" ELSE "succeeded"]
  /\ UNCHANGED <<lifecycle, landings, runs>>

\* A succeeded run hands over to the job's next step; a killed one leaves what is on disk.
Leave == gate.phase = "succeeded" /\ Proceed([gate EXCEPT !.phase = "ended"])
Kill == gate.phase = "targets" /\ Proceed([gate EXCEPT !.phase = "ended"])

GateNext ==
  \/ \E c \in Covered, status \in {"planned", "present", "active"} : Land(c, status)
  \/ \E job \in Jobs : Start(job)
  \/ SetAside \/ RunTarget \/ Conclude \/ Leave \/ Kill

GateSpec == GateInit /\ [][GateNext]_gateVars

-----------------------------------------------------------------------------

\* A gate that succeeds has left its own verdict.  It says passed only when make ran every
\* target and every hook the job selected, although hooks came and went since the inventory
\* was read; it says planned only when coverage was inactive and the job allows that.
VerdictIsEarned ==
  gate.phase = "succeeded" =>
    /\ resultFile.run = runs /\ resultFile.results = gate.results
    /\ resultFile.overall = "passed" =>
         \A i \in DOMAIN gate.job.targets :
           LET target == gate.job.targets[i] IN
           /\ target \in gate.ran
           /\ target \in Dispatching =>
                UNION {HooksOf(s) : s \in Matches(target, gate.job.variables)} \subseteq gate.ran
    /\ resultFile.overall = "planned" =>
         /\ gate.job.allowPlanned
         /\ \E i \in DOMAIN gate.job.targets :
              ExpectedInactive(gate.job.targets[i], gate.inventory, gate.job.variables) # {}
=============================================================================
