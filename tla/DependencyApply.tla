--------------------------- MODULE DependencyApply ---------------------------
(***************************************************************************)
(* Serialized application of one accepted dependency request               *)
(* (scripts/dependency-locks/dependency_locks.py, apply_request) over a    *)
(* git worktree: the receipt journal, the compare-and-swap checks around   *)
(* it, the tool-operation lock (scripts/dev/tool_lock.py), kills and power *)
(* loss between any two steps, a person editing and committing meanwhile,  *)
(* and bootstraps that run the dependency check under the same lock.       *)
(*                                                                         *)
(* One request file and its one request id are modelled; file bytes are a  *)
(* body and a status, a SHA-256 is the bytes it is taken of.               *)
(***************************************************************************)
EXTENDS Naturals, FiniteSets

CONSTANTS
  Appliers,            \* apply-request commands
  Bootstraps,          \* bootstrap commands
  Bodies,              \* request contents that differ in more than the status
  Nobody,
  EvidenceDirDurable,  \* the receipt's directory is on stable storage from the start
  MaxEdits,            \* bound: edits of the worktree by hand, branch switches too
  MaxCommits,          \* bound: commits made
  MaxPowerCuts         \* bound: power losses

ASSUME ApplyAssumption ==
  /\ Nobody \notin Appliers \cup Bootstraps \cup Bodies
  /\ Appliers \cap Bootstraps = {}
  /\ Bodies # {}
  /\ EvidenceDirDurable \in BOOLEAN
  /\ MaxEdits \in Nat /\ MaxCommits \in Nat /\ MaxPowerCuts \in Nat

Procs == Appliers \cup Bootstraps

VARIABLES
  request,    \* the request file of the worktree
  receipt,    \* the canonical receipt file of the worktree
  temps,      \* appliers whose temporary request file exists
  dirty,      \* some other path differs from HEAD
  head,       \* HEAD: its number, branch, request, receipt, and whether it is a
              \* commit of exactly the request and declared root locks
  stable,     \* what stable storage holds for request and receipt
  lock,       \* holder of the tool-operation lock in exclusive mode
  pc,
  loaded,     \* the request as validate_request parsed it
  expected,   \* --expected-request-sha256
  candidate,  \* the HEAD number recorded under the lock
  edits, powerCuts

files == <<request, receipt, temps, stable>>
repository == <<dirty, head>>
memory == <<loaded, expected, candidate>>
bounds == <<edits, powerCuts>>
vars == <<request, receipt, temps, dirty, head, stable, lock, pc,
          loaded, expected, candidate, edits, powerCuts>>

Request == [body : Bodies, status : {"proposed", "accepted", "applied"}]

Receipt ==
  [stage : {"absent", "partial", "complete"}, by : Appliers \cup {Nobody},
   accepted : Bodies \cup {Nobody}, applied : Bodies \cup {Nobody}]

NoReceipt ==
  [stage |-> "absent", by |-> Nobody, accepted |-> Nobody, applied |-> Nobody]

Exists(file) == file.stage # "absent"

Journal == {"fill", "cas2", "temporary", "replace"}

Critical == {"candidate", "validate", "cas1", "create"} \cup Journal \cup {"finish", "check"}

Ended == {"sealed", "refused", "killed", "booted", "alarmed"}

TypeOK ==
  /\ request \in Request
  /\ receipt \in Receipt
  /\ temps \in SUBSET Appliers
  /\ dirty \in BOOLEAN
  /\ head \in [id : Nat, main : BOOLEAN, request : Request, receipt : Receipt,
               candidate : BOOLEAN]
  /\ stable \in [request : Request, receipt : Receipt]
  /\ lock \in Procs \cup {Nobody}
  /\ pc \in [Procs -> {"idle", "inspect", "digest", "lock"} \cup Critical \cup Ended]
  /\ loaded \in [Appliers -> Request]
  /\ expected \in [Appliers -> Request]
  /\ candidate \in [Appliers -> Nat]
  /\ edits \in Nat
  /\ powerCuts \in Nat

Init ==
  /\ request \in [body : Bodies, status : {"accepted"}]
  /\ receipt = NoReceipt
  /\ temps = {}
  /\ dirty = FALSE
  /\ head = [id |-> 1, main |-> TRUE, request |-> request, receipt |-> NoReceipt,
             candidate |-> TRUE]
  /\ stable = [request |-> request, receipt |-> NoReceipt]
  /\ lock = Nobody
  /\ pc = [p \in Procs |-> "idle"]
  /\ loaded = [p \in Appliers |-> request]
  /\ expected = [p \in Appliers |-> request]
  /\ candidate = [p \in Appliers |-> 0]
  /\ edits = 0
  /\ powerCuts = 0

-----------------------------------------------------------------------------
(* What a command reads of the repository.                                 *)

\* Paths git status reports.
StatusPaths ==
  (IF request # head.request THEN {"request"} ELSE {})
  \cup (IF receipt # head.receipt THEN {"receipt"} ELSE {})
  \cup (IF dirty \/ temps # {} THEN {"other"} ELSE {})

\* A request and its canonical receipt agree.
LifecycleHolds(req, rec) ==
  IF req.status = "applied"
  THEN rec.stage = "complete" /\ rec.applied = req.body
  ELSE ~Exists(rec)

ReceiptOf(p) ==
  [stage |-> "complete", by |-> p,
   accepted |-> expected[p].body, applied |-> loaded[p].body]

\* The receipt the second check expects is the very one this command wrote.
Unmoved(p, paths, file) ==
  /\ head.main
  /\ head.id = candidate[p]
  /\ StatusPaths = paths
  /\ request = expected[p]
  /\ head.request = expected[p]
  /\ receipt = file

-----------------------------------------------------------------------------
(* The steps of a command.                                                 *)

Goto(p, from, to) == pc[p] = from /\ pc' = [pc EXCEPT ![p] = to]

\* An exception unwinds both locks.
Refuse(p, from) ==
  /\ Goto(p, from, "refused")
  /\ lock' = IF lock = p THEN Nobody ELSE lock
  /\ UNCHANGED <<files, repository, memory, bounds>>

\* validate_request parses the file; the operator names the committed bytes.
Load(p) ==
  /\ Goto(p, "idle", "inspect")
  /\ loaded' = [loaded EXCEPT ![p] = request]
  /\ expected' = [expected EXCEPT ![p] = head.request]
  /\ UNCHANGED <<files, repository, lock, candidate, bounds>>

Inspect(p) ==
  \/ /\ LifecycleHolds(loaded[p], receipt)
     /\ Goto(p, "inspect", "digest")
     /\ UNCHANGED <<files, repository, lock, memory, bounds>>
  \/ ~LifecycleHolds(loaded[p], receipt) /\ Refuse(p, "inspect")

\* The file is read again for its digest.
Digest(p) ==
  \/ /\ request = expected[p]
     /\ Goto(p, "digest", "lock")
     /\ UNCHANGED <<files, repository, lock, memory, bounds>>
  \/ request # expected[p] /\ Refuse(p, "digest")

\* flock(LOCK_EX) blocks; the second lock of an apply is then always free.
Acquire(p, to) ==
  /\ lock = Nobody
  /\ Goto(p, "lock", to)
  /\ lock' = p
  /\ UNCHANGED <<files, repository, memory, bounds>>

CandidateHolds(p) ==
  /\ head.main
  /\ head.candidate
  /\ loaded[p].status = "accepted"
  /\ StatusPaths = {}
  /\ head.request = expected[p]
  /\ ~Exists(receipt)

CheckCandidate(p) ==
  \/ /\ CandidateHolds(p)
     /\ Goto(p, "candidate", "validate")
     /\ candidate' = [candidate EXCEPT ![p] = head.id]
     /\ UNCHANGED <<files, repository, lock, loaded, expected, bounds>>
  \/ ~CandidateHolds(p) /\ Refuse(p, "candidate")

\* The long validations, the dependency check among them, may fail.
Validate(p) ==
  \/ /\ LifecycleHolds(request, receipt)
     /\ Goto(p, "validate", "cas1")
     /\ UNCHANGED <<files, repository, lock, memory, bounds>>
  \/ Refuse(p, "validate")

FirstCheck(p) ==
  \/ /\ Unmoved(p, {}, NoReceipt)
     /\ Goto(p, "cas1", "create")
     /\ UNCHANGED <<files, repository, lock, memory, bounds>>
  \/ ~Unmoved(p, {}, NoReceipt) /\ Refuse(p, "cas1")

\* O_EXCL: the directory entry appears before the bytes.  Only the holder of
\* the lock creates receipts, so after the check above the call succeeds.
CreateReceipt(p) ==
  /\ ~Exists(receipt)
  /\ Goto(p, "create", "fill")
  /\ receipt' = [NoReceipt EXCEPT !.stage = "partial", !.by = p]
  /\ UNCHANGED <<request, temps, stable, repository, lock, memory, bounds>>

\* Mutant: the receipt is never synced.
FillReceiptUnsynced(p) ==
  /\ Goto(p, "fill", "cas2")
  /\ receipt' = ReceiptOf(p)
  /\ UNCHANGED <<request, temps, stable, repository, lock, memory, bounds>>

(***************************************************************************)
(* The bytes, fsync of the file and of its directory.  Directories the     *)
(* command had to create are not synced into their parents.                *)
(***************************************************************************)
FillReceipt(p) ==
  /\ Goto(p, "fill", "cas2")
  /\ receipt' = ReceiptOf(p)
  /\ stable' = IF EvidenceDirDurable
               THEN [stable EXCEPT !.receipt = ReceiptOf(p)] ELSE stable
  /\ UNCHANGED <<request, temps, repository, lock, memory, bounds>>

SecondCheck(p) ==
  \/ /\ Unmoved(p, {"receipt"}, ReceiptOf(p))
     /\ Goto(p, "cas2", "temporary")
     /\ UNCHANGED <<files, repository, lock, memory, bounds>>
  \/ ~Unmoved(p, {"receipt"}, ReceiptOf(p)) /\ Refuse(p, "cas2")

CreateTemporary(p) ==
  /\ Goto(p, "temporary", "replace")
  /\ temps' = temps \cup {p}
  /\ UNCHANGED <<request, receipt, stable, repository, lock, memory, bounds>>

Replace(p) ==
  /\ Goto(p, "replace", "finish")
  /\ request' = [loaded[p] EXCEPT !.status = "applied"]
  /\ temps' = temps \ {p}
  /\ UNCHANGED <<receipt, stable, repository, lock, memory, bounds>>

\* The directory is synced, success is reported, the locks are released.
Finish(p) ==
  /\ Goto(p, "finish", "sealed")
  /\ stable' = [stable EXCEPT !.request = request]
  /\ lock' = Nobody
  /\ UNCHANGED <<request, receipt, temps, repository, memory, bounds>>

\* A bootstrap runs the dependency check under the lock before it touches a tool.
StartBootstrap(b) ==
  /\ Goto(b, "idle", "lock")
  /\ UNCHANGED <<files, repository, lock, memory, bounds>>

DependencyCheck(b) ==
  /\ Goto(b, "check", IF LifecycleHolds(request, receipt) THEN "booted" ELSE "alarmed")
  /\ lock' = IF lock = b THEN Nobody ELSE lock
  /\ UNCHANGED <<files, repository, memory, bounds>>

\* Mutant: the lock outlives its holder, as a lock file would.
KillKeepsLock(p) ==
  /\ pc[p] \notin {"idle"} \cup Ended
  /\ pc' = [pc EXCEPT ![p] = "killed"]
  /\ UNCHANGED <<files, repository, lock, memory, bounds>>

Kill(p) ==
  /\ pc[p] \notin {"idle"} \cup Ended
  /\ pc' = [pc EXCEPT ![p] = "killed"]
  /\ lock' = IF lock = p THEN Nobody ELSE lock
  /\ UNCHANGED <<files, repository, memory, bounds>>

-----------------------------------------------------------------------------
(* The people around the command, and the machine under it.                *)

EditRequest ==
  /\ edits < MaxEdits
  /\ \E body \in Bodies, status \in {"proposed", "accepted"} :
       request' = [body |-> body, status |-> status]
  /\ stable' = [stable EXCEPT !.request = request']
  /\ edits' = edits + 1
  /\ UNCHANGED <<receipt, temps, repository, lock, pc, memory, powerCuts>>

EditOther ==
  /\ edits < MaxEdits
  /\ dirty' = TRUE
  /\ edits' = edits + 1
  /\ UNCHANGED <<files, head, lock, pc, memory, powerCuts>>

SwitchBranch ==
  /\ edits < MaxEdits
  /\ head' = [head EXCEPT !.main = ~head.main]
  /\ edits' = edits + 1
  /\ UNCHANGED <<files, dirty, lock, pc, memory, powerCuts>>

Commit(locksChanged) ==
  /\ head.id <= MaxCommits
  /\ StatusPaths # {} \/ locksChanged
  /\ head' = [id |-> head.id + 1, main |-> head.main,
              request |-> request, receipt |-> receipt,
              candidate |-> /\ locksChanged /\ ~dirty
                            /\ request # head.request /\ receipt = head.receipt]
  /\ dirty' = FALSE
  /\ stable' = [request |-> request, receipt |-> receipt]
  /\ UNCHANGED <<request, receipt, temps, lock, pc, memory, bounds>>

\* The steward inspects an interrupted journal and returns to HEAD; a sealed
\* result is committed, never discarded.
Resolve ==
  /\ lock = Nobody
  /\ request.status # "applied"
  /\ receipt = head.receipt \/ \A p \in Appliers : pc[p] = "sealed" => receipt.by # p
  /\ StatusPaths # {}
  /\ request' = head.request
  /\ receipt' = head.receipt
  /\ stable' = [request |-> head.request, receipt |-> head.receipt]
  /\ temps' = {}
  /\ dirty' = FALSE
  /\ UNCHANGED <<head, lock, pc, memory, bounds>>

\* Unsynced writes survive or not; every command dies.
PowerLoss ==
  /\ powerCuts < MaxPowerCuts
  /\ powerCuts' = powerCuts + 1
  /\ request' \in {request, stable.request}
  /\ receipt' \in {receipt, stable.receipt}
  /\ stable' = [request |-> request', receipt |-> receipt']
  /\ lock' = Nobody
  /\ pc' = [p \in Procs |-> IF pc[p] \in {"idle"} \cup Ended THEN pc[p] ELSE "killed"]
  /\ UNCHANGED <<temps, repository, memory, edits>>

Apply(p) ==
  \/ Load(p) \/ Inspect(p) \/ Digest(p) \/ Acquire(p, "candidate")
  \/ CheckCandidate(p) \/ Validate(p) \/ FirstCheck(p)
  \/ CreateReceipt(p) \/ FillReceipt(p) \/ SecondCheck(p)
  \/ CreateTemporary(p) \/ Replace(p) \/ Finish(p)

Bootstrap(b) ==
  StartBootstrap(b) \/ Acquire(b, "check") \/ DependencyCheck(b)

People ==
  EditRequest \/ EditOther \/ SwitchBranch \/ Resolve \/ \E b \in BOOLEAN : Commit(b)

Next ==
  \/ \E p \in Appliers : Apply(p)
  \/ \E b \in Bootstraps : Bootstrap(b)
  \/ \E p \in Procs : Kill(p)
  \/ People
  \/ PowerLoss

Spec == Init /\ [][Next]_vars

\* Every started command keeps running and every waiter is let in once.
FairSpec ==
  /\ Spec
  /\ \A p \in Appliers : WF_vars(Apply(p))
  /\ \A b \in Bootstraps : WF_vars(Bootstrap(b))

-----------------------------------------------------------------------------

(***************************************************************************)
(* An applied status always stands on a complete receipt of the bytes that *)
(* are on disk, whatever was killed, edited or committed in between        *)
(* (apply_request writes the receipt before the status,                    *)
(* dependency_locks.py:2367-2386; CONTRIBUTING.md:64-67).                  *)
(***************************************************************************)
ReceiptBeforeStatus ==
  request.status = "applied" =>
    receipt.stage = "complete" /\ receipt.applied = request.body

(***************************************************************************)
(* A command that is about to change the status stands on the journal it   *)
(* wrote itself: a journal left by another command is never completed      *)
(* (CONTRIBUTING.md:67-70, interrupted transitions block re-entry).        *)
(***************************************************************************)
OwnJournal ==
  \A p \in Appliers : pc[p] \in {"temporary", "replace"} => receipt = ReceiptOf(p)

(***************************************************************************)
(* A bootstrap reports an incomplete transition only when one was really   *)
(* left behind, never while an apply is between its receipt and its status *)
(* (tool_lock.py:49, one exclusive holder).                                *)
(***************************************************************************)
NoFalseAlarm ==
  [][\A b \in Bootstraps : pc'[b] = "alarmed" /\ pc[b] # "alarmed" =>
       \A p \in Appliers : pc[p] \notin Journal]_vars

(***************************************************************************)
(* Every command that asked for the lock ends: each exit, raised or        *)
(* killed, lets the next one in (tool_lock.py:66-71).                      *)
(***************************************************************************)
EveryCommandEnds ==
  \A p \in Procs : pc[p] = "lock" ~> pc[p] \in Ended

(***************************************************************************)
(* CONTRIBUTING.md:65-67: the receipt binds the accepted and the applied   *)
(* hash of one request whose status alone changed.                         *)
(***************************************************************************)
AppliedIsAccepted ==
  receipt.stage = "complete" => receipt.applied = receipt.accepted
=============================================================================
