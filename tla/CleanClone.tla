------------------------------ MODULE CleanClone ------------------------------
(***************************************************************************)
(* Clean-clone rehearsals: scripts/dev/clean_clone.py (P01) and            *)
(* scripts/ci/clean_clone_rehearsal.py (P03).  Each asks git about the     *)
(* worktree in separate commands, clones main, copies the Docker tools it  *)
(* found and runs the acceptance vector in the clone, while commits are    *)
(* made, branches checked out and tools upgraded.  The report is evidence: *)
(* it is created once and never written again.                             *)
(***************************************************************************)
EXTENDS Naturals, FiniteSets

CONSTANTS
  Rehearsals,    \* processes
  Writes,        \* rehearsal -> whether it writes its report before it fails (P01)
  Accepted,      \* commits whose acceptance may pass
  MaxChanges     \* bound: changes of the repository and the tools

VARIABLES
  main,          \* the commit at the head of main
  branch,        \* the branch checked out, and its head
  head,
  dirty,         \* the worktree has changes
  tool,          \* version of the Docker tool on disk
  changes,
  rehearsal,     \* process -> [at, commit, hash, clone, copy, passed]
  report,        \* the file: absent, [whole, commit, hash, passed, of]
  mains,         \* commits that were ever main's head
  tested         \* [commit, copy]: what acceptance passed on, in which clone

cloneVars == <<main, branch, head, dirty, tool, changes, rehearsal, report, mains, tested>>

Nothing == 0
Absent == [whole |-> FALSE, commit |-> Nothing, hash |-> Nothing, passed |-> FALSE, of |-> "nobody"]

ToBegin == [at |-> "status", commit |-> Nothing, hash |-> Nothing, clone |-> Nothing,
            copy |-> Nothing, passed |-> FALSE]

CloneInit ==
  /\ main = 1 /\ branch \in {"main", "other"} /\ head = 1
  /\ dirty \in BOOLEAN /\ tool = 1 /\ changes = 0
  /\ rehearsal = [r \in Rehearsals |-> ToBegin]
  /\ report = Absent
  /\ mains = {1} /\ tested = {}

-----------------------------------------------------------------------------
(* The repository and the machine.                                           *)

Change == changes < MaxChanges /\ changes' = changes + 1 /\ UNCHANGED <<rehearsal, report, tested>>

EditWorktree == Change /\ dirty' = ~ dirty /\ UNCHANGED <<main, branch, head, tool, mains>>

\* A commit, one that never was, on the branch that is checked out.
Commit ==
  /\ Change
  /\ head' = changes + 2
  /\ main' = IF branch = "main" THEN head' ELSE main
  /\ mains' = mains \cup {main'}
  /\ dirty' = FALSE
  /\ UNCHANGED <<branch, tool>>

\* The other branch is checked out, from where it is taken to be main's head or not.
Checkout(b) ==
  /\ Change /\ b # branch
  /\ branch' = b
  /\ head' = IF b = "main" THEN main ELSE head
  /\ UNCHANGED <<main, dirty, tool, mains>>

UpgradeTool == Change /\ tool' = tool + 1 /\ UNCHANGED <<main, branch, head, dirty, mains>>

-----------------------------------------------------------------------------
(* rehearse and _isolated_rehearsal.                                         *)

Unmoved == UNCHANGED <<main, branch, head, dirty, tool, changes, report, mains, tested>>
To(r, next) == rehearsal' = [rehearsal EXCEPT ![r] = next]
Raise(r) == To(r, [rehearsal[r] EXCEPT !.at = "failed"])

\* Each question to git is a command of its own.
Status(r) ==
  /\ rehearsal[r].at = "status"
  /\ IF dirty THEN Raise(r) ELSE To(r, [rehearsal[r] EXCEPT !.at = "branch"])
  /\ Unmoved

Branch(r) ==
  /\ rehearsal[r].at = "branch"
  /\ IF branch # "main" THEN Raise(r) ELSE To(r, [rehearsal[r] EXCEPT !.at = "head"])
  /\ Unmoved

ReadHead(r) ==
  /\ rehearsal[r].at = "head"
  /\ To(r, [rehearsal[r] EXCEPT !.at = "tools", !.commit = head])
  /\ Unmoved

\* _resolve_docker_cli, _resolve_compose_plugin: a candidate, its version and its hash.
ResolveTools(r) ==
  /\ rehearsal[r].at = "tools"
  /\ \/ To(r, [rehearsal[r] EXCEPT !.at = "clone", !.hash = tool])
     \/ Raise(r)
  /\ Unmoved

\* Mutant: the clone is taken for the commit that was read.
CloneUnchecked(r) ==
  /\ rehearsal[r].at = "clone"
  /\ To(r, [rehearsal[r] EXCEPT !.at = "copy", !.clone = main])
  /\ Unmoved

\* git clone --branch main, and its HEAD is compared.
Clone(r) ==
  /\ rehearsal[r].at = "clone"
  /\ IF main = rehearsal[r].commit
       THEN To(r, [rehearsal[r] EXCEPT !.at = "copy", !.clone = main])
       ELSE Raise(r)
  /\ Unmoved

\* The tools are copied into the isolated directories and the copies hashed.
CopyTools(r) ==
  /\ rehearsal[r].at = "copy"
  /\ IF tool = rehearsal[r].hash
       THEN To(r, [rehearsal[r] EXCEPT !.at = "accept", !.copy = tool])
       ELSE Raise(r)
  /\ Unmoved

\* The acceptance vector runs in the clone.
Accept(r) ==
  /\ rehearsal[r].at = "accept"
  /\ \E passed \in {FALSE} \cup {rehearsal[r].clone \in Accepted} :
       /\ IF passed \/ Writes[r]
            THEN To(r, [rehearsal[r] EXCEPT !.at = "create", !.passed = passed])
            ELSE Raise(r)
       /\ tested' = IF passed THEN tested \cup {[commit |-> rehearsal[r].clone, copy |-> rehearsal[r].copy]}
                    ELSE tested
  /\ UNCHANGED <<main, branch, head, dirty, tool, changes, report, mains>>

\* The report file is created exclusively.
Create(r) ==
  /\ rehearsal[r].at = "create"
  /\ IF report = Absent
       THEN /\ report' = [Absent EXCEPT !.of = r]
            /\ To(r, [rehearsal[r] EXCEPT !.at = "write"])
       ELSE /\ Raise(r)
            /\ UNCHANGED report
  /\ UNCHANGED <<main, branch, head, dirty, tool, changes, mains, tested>>

\* It is written and synced; a rehearsal whose acceptance failed raises then.
Write(r) ==
  /\ rehearsal[r].at = "write"
  /\ report' = [whole |-> TRUE, commit |-> rehearsal[r].commit, hash |-> rehearsal[r].hash,
                passed |-> rehearsal[r].passed, of |-> r]
  /\ To(r, [rehearsal[r] EXCEPT !.at = IF rehearsal[r].passed THEN "done" ELSE "failed"])
  /\ UNCHANGED <<main, branch, head, dirty, tool, changes, mains, tested>>

\* The process is killed; what it was writing stays as it is.
KillRehearsal(r) ==
  /\ rehearsal[r].at \notin {"done", "failed"}
  /\ Raise(r)
  /\ Unmoved

CloneNext ==
  \/ EditWorktree \/ UpgradeTool \/ Commit
  \/ \E b \in {"main", "other"} : Checkout(b)
  \/ \E r \in Rehearsals :
       \/ Status(r) \/ Branch(r) \/ ReadHead(r) \/ ResolveTools(r) \/ Clone(r) \/ CopyTools(r)
       \/ Accept(r) \/ Create(r) \/ Write(r) \/ KillRehearsal(r)

CloneSpec == CloneInit /\ [][CloneNext]_cloneVars

-----------------------------------------------------------------------------

\* A whole report that passes tells what was tested: its acceptance passed in a clone of its
\* commit with tools of its hash, and the commit was at the head of main, whatever was
\* committed, checked out or upgraded between the questions.
EvidenceIsTrue ==
  report.whole /\ report.passed =>
    /\ [commit |-> report.commit, copy |-> report.hash] \in tested
    /\ report.commit \in mains

=============================================================================
