--------------------------- MODULE AppliedReceipts ---------------------------
(***************************************************************************)
(* What an applied dependency request means to the dependency check once   *)
(* history goes on (scripts/dependency-locks/dependency_locks.py,          *)
(* apply_request and check_root_locks).  The receipt of an application     *)
(* binds the request to the commit it was accepted in and to that commit's *)
(* parent; later commits change the same locks and the same tool manifest, *)
(* merge, return to older commits, restore single files, and retarget a    *)
(* receipt after a rebase.                                                 *)
(*                                                                         *)
(* An application is one step here: DependencyApply takes it apart.  A     *)
(* digest is the content it is taken of.  A request asks for one           *)
(* dependency, pinned by one version of one root lock.                     *)
(***************************************************************************)
EXTENDS Naturals, Sequences, FiniteSets

CONSTANTS
  Drafts,      \* what requests say: [packet, id, locks, dependency]
  Statuses,    \* statuses a person writes into a request
  Locks,       \* paths of root locks, the tool manifest among them
  Manifest,
  Versions,    \* contents of a lock
  MaxCommits,  \* bound: commits
  MaxEdits,    \* bound: changes of the worktree by hand
  MaxMoves     \* bound: branch switches and merges

ASSUME ReceiptsAssumption ==
  /\ Manifest \in Locks
  /\ "accepted" \in Statuses
  /\ \A d \in Drafts : d.locks \subseteq Locks /\ d.dependency.lock \in Locks
  /\ MaxCommits \in Nat /\ MaxEdits \in Nat /\ MaxMoves \in Nat

NoFile == [status |-> "absent"]

Packets == {d.packet : d \in Drafts}
Ids == {d.id : d \in Drafts}

RequestPath(p) == <<"request", p>>
ReceiptPath(i) == <<"receipt", i>>
LockPath(l) == <<"lock", l>>
Other == <<"other", "source">>

Paths ==
  {RequestPath(p) : p \in Packets} \cup {ReceiptPath(i) : i \in Ids}
  \cup {LockPath(l) : l \in Locks} \cup {Other}

VARIABLES
  commits,  \* every commit made: its parents and its tree, a content per path
  tip,      \* the commit checked out
  onMain,   \* the branch is main
  work,     \* the tree of the worktree
  sealed,   \* history: the pairs of request and receipt an application wrote
  edits, moves

receiptVars == <<commits, tip, onMain, work, sealed, edits, moves>>

Request(draft, status) == [status |-> status, draft |-> draft]

ReceiptsInit ==
  /\ commits = <<[parents |-> <<>>,
                  tree |-> [x \in Paths |-> IF x[1] \in {"lock", "other"} THEN 1 ELSE NoFile]]>>
  /\ tip = 1
  /\ onMain = TRUE
  /\ work = commits[1].tree
  /\ sealed = {}
  /\ edits = 0
  /\ moves = 0

-----------------------------------------------------------------------------
(* What git answers.                                                       *)

Changed(before, after) == {x \in Paths : before[x] # after[x]}

Clean == work = commits[tip].tree

\* The paths changed, when base is the only parent of the candidate.
Follows(base, candidate) == commits[candidate].parents = <<base>>

CandidateChanges(base, candidate) == Changed(commits[base].tree, commits[candidate].tree)

LocksOf(paths) == {l \in Locks : LockPath(l) \in paths}

-----------------------------------------------------------------------------
(* The check of one request.                                               *)

ReceiptOf(draft, base, candidate) ==
  [status |-> "complete", draft |-> draft,
   accepted |-> commits[candidate].tree[RequestPath(draft.packet)],
   applied |-> Request(draft, "applied"),
   base |-> base, candidate |-> candidate, rehearsed |-> candidate,
   changes |-> {[lock |-> l, before |-> commits[base].tree[LockPath(l)],
                 after |-> commits[candidate].tree[LockPath(l)]] :
                  l \in LocksOf(CandidateChanges(base, candidate))},
   manifest |-> commits[candidate].tree[LockPath(Manifest)],
   reviewed |-> draft.dependency]

\* Mutant: the digest of the applied request is not compared.
NamesRequestLoosely(receipt, request) ==
  /\ receipt.draft.id = request.draft.id
  /\ receipt.accepted # request
  /\ receipt.changes # {}
  /\ {change.lock : change \in receipt.changes} \subseteq request.draft.locks
  /\ receipt.reviewed = request.draft.dependency
  /\ receipt.rehearsed = receipt.candidate

\* The fields bound to the request.
NamesRequest(receipt, request) ==
  /\ receipt.draft.id = request.draft.id
  /\ receipt.applied = request
  /\ receipt.accepted # request
  /\ receipt.changes # {}
  /\ {change.lock : change \in receipt.changes} \subseteq request.draft.locks
  /\ receipt.reviewed = request.draft.dependency
  /\ receipt.rehearsed = receipt.candidate

\* Mutant: the manifest is the one of the worktree.
ManifestBoundToWorktree(receipt) == receipt.manifest = work[LockPath(Manifest)]

\* The manifest is read from the candidate commit, whatever became of it since.
ManifestBound(receipt) ==
  receipt.manifest = commits[receipt.candidate].tree[LockPath(Manifest)]

\* The fields bound to the two commits: the candidate holds the accepted
\* request, and changes it and the locks named, and nothing else.
RangeBound(receipt, packet) ==
  LET before == commits[receipt.base].tree
      after == commits[receipt.candidate].tree
  IN /\ receipt.accepted = after[RequestPath(packet)]
     /\ Follows(receipt.base, receipt.candidate)
     /\ CandidateChanges(receipt.base, receipt.candidate)
          = {LockPath(change.lock) : change \in receipt.changes} \cup {RequestPath(packet)}
     /\ \A change \in receipt.changes :
          /\ change.before = before[LockPath(change.lock)]
          /\ change.after = after[LockPath(change.lock)]

\* Only an applied request has a receipt, and it has one that is bound.
LifecycleHolds(packet) ==
  LET request == work[RequestPath(packet)] IN
    request # NoFile =>
      LET receipt == work[ReceiptPath(request.draft.id)] IN
        IF request.status = "applied"
        THEN /\ receipt # NoFile
             /\ NamesRequest(receipt, request)
             /\ ManifestBound(receipt)
             /\ RangeBound(receipt, packet)
        ELSE receipt = NoFile

\* check_root_locks goes through every request of the worktree.
RootLocksCheck == \A p \in Packets : LifecycleHolds(p)

-----------------------------------------------------------------------------
(* The application of a request.                                           *)

\* The dependency asked for is the one the worktree pins.
Reviewed(draft) == work[LockPath(draft.dependency.lock)] = draft.dependency.version

\* --base-commit is the immediate and only parent of HEAD.
CandidateFollows(base) == Follows(base, tip)

Admitted(packet, base) ==
  LET request == work[RequestPath(packet)]
      changes == CandidateChanges(base, tip)
  IN /\ request # NoFile
     /\ LifecycleHolds(packet)
     /\ onMain
     /\ request.status = "accepted"
     /\ Clean
     /\ CandidateFollows(base)
     /\ changes \subseteq {LockPath(l) : l \in request.draft.locks} \cup {RequestPath(packet)}
     /\ RequestPath(packet) \in changes
     /\ LocksOf(changes) # {}

Apply(packet, base) ==
  LET draft == work[RequestPath(packet)].draft
      applied == Request(draft, "applied")
      receipt == ReceiptOf(draft, base, tip)
  IN /\ Admitted(packet, base)
     /\ RootLocksCheck
     /\ Reviewed(draft)
     /\ work' = [work EXCEPT ![RequestPath(packet)] = applied, ![ReceiptPath(draft.id)] = receipt]
     /\ sealed' = sealed \cup {[request |-> applied, receipt |-> receipt]}
     /\ UNCHANGED <<commits, tip, onMain, edits, moves>>

-----------------------------------------------------------------------------
(* People at work.                                                         *)

Put(path, content) ==
  /\ edits < MaxEdits
  /\ content # work[path]
  /\ work' = [work EXCEPT ![path] = content]
  /\ edits' = edits + 1
  /\ UNCHANGED <<commits, tip, onMain, sealed, moves>>

WriteRequest ==
  \E d \in Drafts, s \in Statuses : Put(RequestPath(d.packet), Request(d, s))

WriteLock == \E l \in Locks, v \in Versions : Put(LockPath(l), v)

WriteOther == \E v \in Versions : Put(Other, v)

\* git checkout <commit> -- <path>
Restore == \E c \in DOMAIN commits, x \in Paths : Put(x, commits[c].tree[x])

\* After a rebase the receipt is pointed at the commit that took the place of
\* its candidate.
Retarget ==
  \E i \in Ids, c \in DOMAIN commits :
    /\ work[ReceiptPath(i)] # NoFile
    /\ Len(commits[c].parents) = 1
    /\ Put(ReceiptPath(i),
             [work[ReceiptPath(i)] EXCEPT !.base = commits[c].parents[1],
                                          !.candidate = c, !.rehearsed = c])

MakeCommit ==
  /\ Len(commits) < MaxCommits
  /\ ~ Clean
  /\ commits' = Append(commits, [parents |-> <<tip>>, tree |-> work])
  /\ tip' = Len(commits')
  /\ UNCHANGED <<onMain, work, sealed, edits, moves>>

\* What is committed replaces HEAD, as a squash or an amended commit does.
Squash ==
  /\ Len(commits) < MaxCommits
  /\ moves < MaxMoves
  /\ Len(commits[tip].parents) = 1
  /\ commits' = Append(commits, [parents |-> commits[tip].parents, tree |-> work])
  /\ tip' = Len(commits')
  /\ moves' = moves + 1
  /\ UNCHANGED <<onMain, work, sealed, edits>>

\* A path HEAD left as the first commit has it takes the other side's content.
Merge(c) ==
  /\ Len(commits) < MaxCommits
  /\ moves < MaxMoves
  /\ Clean
  /\ c \in DOMAIN commits \ {tip}
  /\ work' = [x \in Paths |-> IF work[x] = commits[1].tree[x] THEN commits[c].tree[x] ELSE work[x]]
  /\ commits' = Append(commits, [parents |-> <<tip, c>>, tree |-> work'])
  /\ tip' = Len(commits')
  /\ moves' = moves + 1
  /\ UNCHANGED <<onMain, sealed, edits>>

Switch(c) ==
  /\ moves < MaxMoves
  /\ Clean
  /\ c \in DOMAIN commits \ {tip}
  /\ tip' = c
  /\ work' = commits[c].tree
  /\ onMain' \in BOOLEAN
  /\ moves' = moves + 1
  /\ UNCHANGED <<commits, sealed, edits>>

ReceiptsNext ==
  \/ \E p \in Packets, base \in DOMAIN commits : Apply(p, base)
  \/ WriteRequest
  \/ WriteLock
  \/ WriteOther
  \/ Restore
  \/ Retarget
  \/ MakeCommit
  \/ Squash
  \/ \E c \in DOMAIN commits : Merge(c)
  \/ \E c \in DOMAIN commits : Switch(c)

ReceiptsSpec == ReceiptsInit /\ [][ReceiptsNext]_receiptVars

-----------------------------------------------------------------------------
\* A pair an application wrote stays accepted wherever it is checked out:
\* later changes of the locks, of the tool manifest, of other requests and of
\* the branch do not turn history into an error (_receipt_validation_errors
\* reads the candidate commit, not the worktree).
SealedStaysAccepted ==
  \A pair \in sealed :
    LET draft == pair.request.draft IN
      (/\ work[RequestPath(draft.packet)] = pair.request
       /\ work[ReceiptPath(draft.id)] = pair.receipt)
      => LifecycleHolds(draft.packet)

\* An applied request the check accepts, however the worktree came by it, names
\* a commit on one parent that accepted this very request and changed nothing
\* but it and root locks it declares.  That commit pins the dependency asked for
\* if it changed the lock that pins it, or the tool manifest does; a commit that
\* left the lock alone does too when the receipt is the one an application wrote.
\* (A receipt that was retargeted may name a commit whose parent never pinned it:
\* the check compares no lock that did not change.)
AcceptedIsBound ==
  \A p \in Packets :
    LET request == work[RequestPath(p)] IN
      (request # NoFile /\ request.status = "applied" /\ LifecycleHolds(p)) =>
        LET receipt == work[ReceiptPath(request.draft.id)]
            candidate == commits[receipt.candidate]
            changed == Changed(commits[candidate.parents[1]].tree, candidate.tree)
            asked == request.draft.dependency
        IN /\ Len(candidate.parents) = 1
           /\ candidate.tree[RequestPath(p)] = Request(request.draft, "accepted")
           /\ changed \subseteq {RequestPath(p)} \cup {LockPath(l) : l \in request.draft.locks}
           /\ \/ LockPath(asked.lock) \in changed
              \/ asked.lock = Manifest
              \/ [request |-> request, receipt |-> receipt] \in sealed
              => candidate.tree[LockPath(asked.lock)] = asked.version

=============================================================================
