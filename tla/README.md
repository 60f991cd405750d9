# Jumpship: a verification development

TLA+ models, TLC runs and TLAPS proofs for the code of this repository. Jumpship
today is a set of *contracts*, the Python generators that build and check them,
the Go and TypeScript canonicalisation and client code, and the tooling that
pins, bootstraps, checks and seals the repository itself; the runtime commands
under `cmd/` are stubs. The hard behaviour is therefore in three places: in the
state machines the contracts define for everybody who will implement them, in
the code the generator writes for two languages that must agree, and in the
tooling that already runs concurrently on a developer's machine.

Paths below are relative to the repository (`src/` in `PROJECT.json`).

## 1. Inventory

`core` is `internal/contracts/codegen/core_contracts.py`, `app` is
`internal/contracts/codegen/application_api_contracts.py`, `quality-release` is
`internal/contracts/codegen/quality_release_contracts.py`, `generate` is
`internal/contracts/codegen/generate.py`.

| Part | State it keeps | Operations | What is hard | What makes it correct | Here |
|---|---|---|---|---|---|
| Traffic authority (`core` 2789-3026, 3574-3638) | one record per application: state, version, authority epoch, cell epoch, two write flags | 33 transition edges, each an envelope with pinned authority, flags, epoch increment and receipts | envelopes are prepared from a read and delivered late, twice or never; JSON Schema cannot state sums | at most one side writes; a handover passes through a fenced, drained, authority-free period; an epoch names one period | `TrafficAuthority`, `WriteAuthority`, proofs |
| Writer control and writer grants (`app` 936-1140, 3351-3406) | per cohort: control state, generation, reserved generation; grants | freeze, fence, revoke, request/sign/activate/expire a grant | two machines wait for each other's receipts; grants are delivered late | writers one-sided under the record's authority; a superseded grant never activates; rollback ends | `WriterCohorts`, proofs |
| Idempotent operation policy (`app` 2858-3012) | resource version, requests by idempotency key, one-time transactions | every mutation of `/v1` | retries, key reuse, stale versions, lost answers | a retried request takes effect once, a stale one not at all, and answers are true | `IdempotentApi`, proofs |
| Workflow machines (`core` 2589-2786, 3029-3446) | migration, decision, consent, artifact, cell, operation, attempt and reversibility records | transition envelopes; records of attempts and reversibility | envelopes composed from a read of a subject that moves on | a transition rests on what it states; no state is reached around the steps that give it meaning | `WorkflowMachines`, `WorkflowSubject`, proofs |
| Cell frames in JSON (`generate` 1217-1700) | a message with a oneof | marshal, unmarshal in Go | two spellings of a name, Go's random map order, quoted 64-bit numbers | inverse functions; a text has one reading | `ProtoJson`, proofs |
| Connect client stream (`generate` 1980-2270) | two mutexes, two `sync.Once`, a pipe, a context, a response | send, receive, close request, close response | goroutines block each other through the pipe; the transport answers, refuses or breaks off at any time | nothing is lost or invented, no leak, every call returns once the stream is given up | `ConnectStream`, proofs |
| Canonical JSON, identities, signatures (`internal/contracts/canonical/*.go`, `internal/contracts/codegen/client_templates.py`) | key registries, envelopes, associations kept by a registrar | canonicalise, digest, associate, sign, verify, in Go and in TypeScript | two implementations; rotated and revoked keys; re-identified documents; numbers and surrogates | both decide alike; accepted is vouched for; one identity, one content; one form per meaning | `CanonicalJson`, `ContentIdentity`, `DetachedSignatures`, proofs |
| Contract generator (`generate`, `internal/contracts/codegen/model.py`) | generated tree, compatibility baseline | generate, check, refresh the baseline | writes one after the other, kills, overlapping runs | a check accepts exactly what a run leaves; nothing published is forgotten | `ContractGenerator`, proofs |
| Schema corpus (`generate` 380-935) | a fixture under synthesis, reservations of array positions | synthesise, validate, record | conditions that depend on each other; several constraints on one array; lists told apart by address | a satisfiable schema gets its fixture | `SchemaCorpus`, proofs |
| Promotion envelope, bundle lifecycle (`quality-release` 2100-2818) | an envelope being filled; an append-only lifecycle | prepare, read the pointer, approve; record a transition | several authors, a moving pointer, racing recorders | a shape names one mode; no stale transition; production is earned | `PromotionEnvelope`, `BundleLifecycle`, proofs |
| Serialized dependency apply (`scripts/dependency-locks/dependency_locks.py`) | request file, receipt file, git HEAD, lock | apply-request, check | minutes of validation while people edit and commit; kills and power loss between receipt and status | an applied status stands on its complete receipt; no false alarm | `DependencyApply`, proofs |
| Dependency receipts in history (same file, 480-840) | commits, requests and receipts in a worktree | apply, commit, merge, restore, retarget; check | locks and manifest move on after an application | what was sealed stays accepted; what is accepted is bound to its commit | `AppliedReceipts`, proofs |
| Dependency validations (same file, 1080-2070) | a record of evidence | install, licences, coverage, audit, review, rehearse; check the record | one host stands for several platforms | every platform is reviewed; the check agrees with the record | `DependencyReview`, proofs |
| Tool-operation lock (`scripts/dev/tool_lock.py`) | one `flock`, exclusive or shared | acquire, release | readers against writers; a holder dies | mutual exclusion; everybody ends | `DependencyApply` (exclusive), `ToolBootstrap` (both modes) |
| Toolchain bootstrap and check (`scripts/dev/toolchain.py`, `scripts/dev/quality.py`) | `build/tools`: state file, tool directories, wrappers, `node_modules` | bootstrap, check, doctor, fmt, lint, test-unit | killed half way; manifest edited meanwhile; children that outlive the lock | a passed check stands on whole tools | `ToolBootstrap`, proofs |
| Generated-file writers (`scripts/dev/atomic_output.py`, `scripts/packets/packet_contract.py` 842-933) | an output file, its parent directory, a temporary file | replace through a descriptor, replace by path, write exclusively | the parent or the file is exchanged during the write; a step fails; power loss | whole bytes at every moment; answers that stay true | `AtomicOutput`, proofs |
| Packet graph and dispatch (`scripts/packets/packet_contract.py`, `scripts/packets/check`) | graph document; lifecycles, fragments, a running dispatch | expand, validate, sort; accept a contract, select and run hooks | start and completion requirements deadlock together; fragments change while makes run | exactly the cyclic graphs are rejected and accepted plans complete; success means coverage | `PacketGraph`, `PacketDispatch`, proofs |
| Gate runner (`scripts/ci/run_gate.py`) | inventory, result file | run a job's targets | packets land between inventory and make | a verdict is earned | `GateRuns`, proofs |
| Clean-clone rehearsals (`scripts/dev/clean_clone.py`, `scripts/ci/clean_clone_rehearsal.py`) | clone, copied tools, report | ask git, clone, copy, accept, report | the repository and the tools change between the questions | a passing report tells what was tested | `CleanClone`, proofs |
| Architecture check (`scripts/architecture/architecture_check.py`) | import graph, configurations | resolve, search, validate | cycles, shared parts, modules that claim paths | exactly the violations are reported | `Architecture`, proofs |
| Patch, pull request, external review; provider evidence, evaluation, agent runtime; release, certificates, cells (`app` 3270-3350, `quality-release`) | schemas of records | none in this repository | the records' relations are left to servers that do not exist yet | | not modelled (section 5) |
| Docs, capability, secret and workflow checks (`scripts/docs`, `scripts/capabilities`, `scripts/ci`) | none | parse files and report | none: one sequential pass over files | reports what it finds | not modelled |
| Local stack (`infra/local`), runtime commands (`cmd/*`), browser workspace | containers; none; none | up, down; print a stub | interrupted up/down | | not modelled |

How they interact. The generators write the contracts, their fixtures and the
clients; the contract tests validate the fixtures against the schemas and the
arithmetic the schemas cannot state
(`internal/contracts/tests/test_contracts.py`:169-224). The traffic machine and
the cohort machine share no state: they meet in receipts (a fence receipt exists
when no cohort writes, an activation receipt when one does) and in the epoch
that grants are bound to. A dependency apply runs its validations and an
unlocked bootstrap inside its own exclusive lock, the bootstrap runs the
dependency check, and the check reads the request and receipt the apply writes
and the commits they name: three models look at that from three sides
(`DependencyApply` at the steps, `DependencyReview` at the evidence,
`AppliedReceipts` at the years after). The gate runner runs make, which runs the
dispatcher, which runs makes of its own over the packets' fragments. Signed
documents are digested in canonical form, verified against a registry, and kept
by identity.

## 2. Modules

Every module opens with what it models and where. Here is how each corresponds
to the code, and what to know before reading it.

### WriteAuthority, TrafficAuthority

`WriteAuthority` is what ADR-030 promises: one holder, authority-free periods
between holders, a grant only over a quiet other side, a new epoch for each
change. `TrafficAuthority` is what the contract says: the states, edges,
authority partition, branch constants and receipts of
`workflow/traffic-authority-state-machine.schema.json`, a stored record, and
envelopes. Every branch of the schema pins most fields to constants of its edge,
so an envelope is its edge plus the fields the branch leaves free; the pinned
ones are operators of the edge (`EpochIncrement`, `WritesEnabled`, `Receipts`).
`Prepare` reads the record and puts an envelope in flight, possibly with one of
the slips the schema cannot reject; `Apply` is delivery: schema, arithmetic and
optimistic precondition, then the new record; an applied envelope stays in
flight, so it can be delivered again; `Lose` drops one. `drained` and `periods`
are history, for the properties only. The mapping to `WriteAuthority` is
holder = authority of the state, epoch = the record's epoch, quiet = `drained`.

### WriterCohorts

Composes `TrafficAuthority` with the writer-control machine and the grant
machine: `MoveTraffic` applies an edge when the receipts its branch demands can
be produced from the cohorts (`ReceiptHeld`), `Freeze`, `Fence`, `Revoke`,
`FenceTarget` and `Retire` move one cohort along one edge, `RequestGrant`,
`SignGrant`, `Activate` and `Expire` are the life of a grant. `Activate` is the
delivery of a signed grant, at any later time, and checks exactly
`activation_requires`. Envelope loss is not repeated here: an envelope is
prepared and applied in one step, because `TrafficAuthority` already shows that
stale ones change nothing.

### IdempotentApi

The policy `_operation` gives every mutation, for the three kinds of operation
it tells apart. `Call` sends a body, under a new key or transaction and the
version read; `Resend` repeats it, `Rewrite` sends another body under the same
key, `GiveUp` ends the call; `Serve` is the server's answer, in the order the
policy prescribes (`Outcome`: known key, then version), and the request may
still be on its way afterwards (`again`) and the answer lost (`answered`).

### WorkflowMachines, WorkflowSubject

`WorkflowMachines` holds the edge tables of eight machines, what the schema
demands of an envelope for an edge (`Admits`) and the shapes that attempt and
reversibility records may have, over a set of facts (a field that is set, a flag
that is true). `WorkflowSubject` lets one subject of any machine live: `Compose`
reads state and facts into an envelope, `Deliver` applies it if
`expected_version` and `from_state` match (and may leave it in flight), `Lose`
drops it, `Note` is any operation that changes the facts without a transition.

### ProtoJson

`MarshalJSON` is an operator that writes a text in an order Go chose;
`UnmarshalJSON` is `ReadMember`, `EndObject`, `Normalize`, `DecodeFields` and
`DecodeVariants`, in the order of the code. Members of the
object go through a Go map, so each step takes any of those that are left.

### ConnectStream

The generated `connectBidiStream`, one action per critical section or blocking
call. `call[p].at` is the line a goroutine waits at; `Step(p)` is a step it
takes alone; `TakePart` and `TakeRest` are its write meeting the transport's
read. The transport of net/http is external and modelled from how the client
uses it: it reads the pipe, answers with any of `Bodies`, fails once the context
is cancelled, or breaks the request off; the server sends and ends as it likes
and owes nothing.

### CanonicalJson, ContentIdentity, DetachedSignatures

Each holds the Go and the TypeScript version of an algorithm side by side
(`GoCanonical`/`ScriptCanonical`, `GoVerifies`/`ScriptVerifies`, and so on).
`CanonicalJson` canonicalises one object whose spelling producers change one
edit at a time (`Add`, `Rename`, `Rewrite`, `Reverse`, `Trail`); a name is a
sequence of raw characters and escapes, a number a digit and exponent.
`ContentIdentity` asks both registrars to keep catalogs, units and bindings,
also altered and re-identified ones. `DetachedSignatures` publishes registries,
signs, alters and replays envelopes and lets time pass; Go compares exact
instants, TypeScript milliseconds.

### ContractGenerator, SchemaCorpus

`ContractGenerator` is `main`: `Begin` collects the artifacts, `Compare` and
`Write` go through the files one by one, `Kill` stops a run between two of them;
`EditSources` and `EditFile` are people. `Changes` and `Breaking` are the
compatibility comparison with its approved replacements. `SchemaCorpus` lets an
author write a schema (`WriteCondition`, `WriteNeed`), then runs the passes of
`_apply_sample_branches` (`Pass`) and `RecordFixture`. Reservations of array
positions are kept by the address of a list, as the code keeps them, and each
pass places its list where the interpreter may.

### PromotionEnvelope, BundleLifecycle

`PromotionEnvelope` has the branches of the envelope's `oneOf` as groups of
required and forbidden fields (`Required`, `Forbidden`), and the people who fill
a document. `BundleLifecycle` has the lifecycle's edges, evidence classes and
environments; a recorder reads and prepares (`PrepareTransition`) and appends
later (`RecordTransition`).

### DependencyApply

`apply_request` step by step: parse, digest, lock, candidate checks,
validations, first compare-and-swap check, create and fill the receipt, second
check, temporary, rename, sync. A file is a body and a status; a digest is the
bytes it is taken of. A person edits the request or another path, switches
branches, commits and resolves a stuck journal; a command is killed between any
two steps; power is lost, when stable storage keeps or loses what was not
synced. `Bootstrap` commands run the dependency check under the same lock.
`_apply_lock`, the second and non-blocking lock, is left out: it is only taken
inside the exclusive tool lock, so it is always free then.

### AppliedReceipts, DependencyReview

`AppliedReceipts` has commits with trees, a worktree, and `LifecycleHolds`, the
check of one packet's request against its receipt and its candidate commit, with
every guard of `_receipt_validation_errors` that relates two things. `Apply` is
one step. `DependencyReview` is the validations of one candidate in order, with
the record they leave (`evidence`) and what the check later asks of it
(`ValidationsAccepted`). pnpm and the registry are external: an install takes
what the lock allows on the host, and perhaps more.

### ToolBootstrap

`_bootstrap_unlocked` step by step under the exclusive lock (withdraw the state,
remove, fetch and place each tool, write each wrapper, probe versions, run pnpm,
create and fill the state, check), and `Users`, the commands that take the lock
shared: they run `_check_unlocked` or only use the tools. Any step may fail and any command may be
killed; a killed command's pnpm child lives on (`orphans`). The manifest is
edited without a lock. A tool's bytes are the checksum they were extracted for;
`Torn` is a half-removed directory, whose executable may still report its
version.

### AtomicOutput, MCAtomicOutput

The three writers of generated files as one process shape with three kinds: the
replacing writer looks at the parent, makes it, opens it, compares it, remembers
the output's identity, stages and syncs a temporary file, compares again,
renames, syncs the directory and cleans up, all through its descriptor
(`Parent(w) = home[w]`); the other two do the same by path (`Parent(w) = at`),
and the exclusive one links instead of renaming. `held` is a sequence per name:
what it has held since its directory was last synced. Its last element is what a
reader sees, and a power loss may leave any of them, so a property about power
loss is a property of the sequence. Inode numbers are used again once free, as
file systems do, so an identity check may accept a different file. Other
programs move the parent away, back or behind a link (`Exchange`) and remove or
replace the output (`Disturb`). `Fail` is an error of any system call; a killed
call is one that takes no further step. The sixteen tries for a temporary name
are one: a collision of random names is an error like any other.

### PacketGraph, PacketDispatch

`PacketGraph` expands a document (`Reject` refuses a malformed one), then sorts
it one node per round of the loop (`Place`), then lets the plan run (`StartNode`,
`CompleteNode`; planctl is not in the repository). `PacketDispatch` is the
acceptance of a command contract (`Accepts`) and one `check dispatch`:
`ReadReceipts`, `Choose`, then for each hook a make that validates the fragments
(`MakeGate`) and includes them (`MakeRun`), while packets edit fragments and
move HEAD.

### GateRuns, CleanClone, Architecture

`GateRuns` is the life of gates in one artifact directory: set the old result
aside, predict inactive coverage from the inventory read once, run make for the
rest (whose dispatcher selects by what is in the tree then), conclude, leave.
`CleanClone` is both rehearsals, one action per command they run. `Architecture`
is the checker's work lists over one unchanging tree: `ValidateRoot`, `Extend`
and `Validated` walk the configurations, `NextSearch` and `Visit` the import
graph.

## 3. Runs

All bounds are constants named in the modules. Components that share no state and
answer the same kind of question are checked in one run: its initial states
choose one of them, whose behaviours are then the run's, so each keeps all of its
own interleavings and none multiplies another's (`MCPackets`, `MCContracts`,
`MCTrust`, `MCChecks`, `MCContractGenerator`).

| Run | Bounds | Shows |
|---|---|---|
| `traffic_authority` | 13 transitions, 2 envelopes in flight, 2 cell generations | `EpochNamesOnePeriod`; `HandoverIsFenced`, the refinement of `WriteAuthority`. 13 transitions reach every state, including a whole cutover and rollback and back to `freezing_source`; two envelopes suffice for one to overtake the other |
| `writer_cohorts` | 2 cohorts, 2 live grants each, 12 transitions | `WritersUnderOneAuthority` (one side at a time, and the side the record names), `ActiveGrantIsCurrent`; `RollbackCompletes`, with cohorts already on the target. Two cohorts are partial activation, two grants a renewal, 12 transitions a whole cutover and rollback |
| `dependency_apply` | 2 applies, 1 bootstrap, 2 bodies, 1 edit, 1 commit, 1 power loss | `ReceiptBeforeStatus`, `EveryCommandEnds`. The one commit is the acceptance or the commit of a result, and a command still waiting then is the rerun that must refuse |
| `dependency_apply_reread` | 1 apply, 2 edits | a code defect, section 6 |
| `tool_bootstrap` | 2 bootstraps, 1 shared-lock command, 2 tools, 2 versions, 1 edit | `CheckedToolsWhole`, `ToolsStable` under shared holders, `EveryCommandEnds`. Two tools are a partial installation, two versions an edit that matters, the second bootstrap the repair of what the first left |
| `atomic_output` | 1 replacing, 1 path-based, 2 exclusive writers, 2 directories, 3 inode numbers, 1 move by another program | `OutputsWhole`, `ReplacedDurably`, `AnswersHold` (receipts stay, refusals publish nothing, no temporary is left). Two exclusive writers race for one name; three numbers let a freed one be used again; one move is the parent or the output changed at any point of every call. Directories, numbers and the exclusive writers are symmetric |
| `packets` | packets 0-2 and one join over some 9,800 documents; 3 hooks of 2 owners, 1 edit; 4 approvals of 6, 1 amendment, 1 move of the pointer; 2 recorders | `RejectsExactlyCycles` and `AcceptedPlansComplete` of the graph, `SuccessIsCoverage` of the dispatch, `DisjointShapes` of the envelope, `NoStaleTransition` and `EarnedInOrder` of the lifecycle. A join between two packets makes cycles of every length that mix start and completion; the documents include malformed ones; two hooks share a key; approvals include one person with two roles and one role held twice; an amendment is any optional field that does not belong |
| `contract_generator` | 2 runs, 1 schema with 1 property, 2 parts, 2 edits; or schemas of 4 properties with 3 conditions, or an array of 3 roles with 2 constraints, 3 addresses | `GenerationConverges`, `V1IsImmutable`; `ChainsSettle`, `ConstraintsMetTogether`. Two edits are a change and its undoing; three conditions are as many as the passes, in every order; three addresses let a list lie where an earlier one lay |
| `contracts` | 2 clients, 3 keys together, 2 requests on their way; 8 changes of a subject (6 of a migration), 2 envelopes, 2 notes; frames of 2 ordinary fields and 2 variants, texts of 3 members | `ExactlyOnce`; `FactsHold`, `NothingSkipped`; `FramesAgree`. A second request on its way is the resent or rewritten one; 8 changes take each machine from its first to its last states; three members are two spellings of one field beside a variant |
| `trust` | 2 keys, 3 registries, 1 envelope, 3 ticks of half a millisecond; catalogs of up to 2 items, 2 registries, 2 projections; texts of 2 members over 6 names and 11 values | `RuntimesDecideAlike`, `AcceptedIsVouched`, `OneCatalogPerIdentity`, `OneFormPerMeaning`. Three registries are a key, its successor and its revocation; half milliseconds are what a JavaScript date cannot hold; names and values are those where UTF-16 and code points, minus zero, underflow and exponents differ |
| `checks` | 2 landings, 2 gate runs, 7 jobs; 2 rehearsals, 3 changes; 2^11 Go trees under 3 module layouts, 6,272 web trees; 4 commits, 4 edits, 1 move, 4 requests; 96 locks, 4 registries and 6 requests on 2 hosts | `VerdictIsEarned`, `EvidenceIsTrue`, `ReportsExact`, `SealedStaysAccepted`, `AcceptedIsBound`, `ReviewsComplete`. Four commits are an acceptance, an application, a later change and a merge or squash; the imports contain cycles that searches enter from several packages |
| `clients` | 3 goroutines with 1, 2 and 1 calls, 3 responses of 2 units | `StreamFaithful`, `NothingLeaks`, `CallsReturn`. One goroutine sends, one receives, one closes or competes with both |

`CHECK_DEADLOCK FALSE` stands where commands run once and the system then really
stops, and where a record reaches a terminal state or its bound.

Several properties are conjunctions of two or three named ones about the same
hazard; the parts are defined and explained beside them.

Fairness. `FairCohortSpec` assumes what an operator who wants the handover does:
each legal traffic edge other than the two that declare a conflict or a
rebaseline is taken if it stays possible, each cohort keeps moving, and of the
grants of a cohort some is signed and some delivered in time (strong fairness,
because grants may expire again and again). Nothing is assumed of conflicts,
expiry or blocking; the properties exclude them by name. In `DependencyApply`
and `ToolBootstrap` a command that can take a step takes one (the scheduler),
nothing is assumed of kills, edits or power; `flock` wakes its waiters.
`GraphFairness` says that the sort's loop runs and that some node of a plan
whose requirements are met is started or completed; it does not say which.
`StreamFairness` says that goroutines that can run do, and that the transport of
net/http reacts to a cancelled context and gives up a request it has to break;
a server owes nothing.

## 4. Proofs

The theorems are in eight modules, one for each neighbourhood of the system; each
has a section per component it extends. They hold for every value of the
constants, so for any number of processes, keys, files, packets and messages and
any value of the bounds. Each invariant below was first checked by TLC.

`AuthorityProofs`

- Traffic record: `TypeCorrect`; `EpochsNamePeriods` (strengthening: no recorded
  period has a later epoch than the record, and those of the record's epoch have
  its authority); `WriteFlagsFollow`; `ImplementsPromise`, the refinement of
  `WriteAuthority`: every `Apply` is a `Revoke`, `Quiesce`, `Grant` or stutter.
  The strengthening there says which sides a state implies drained, so that each
  granting edge finds the other side quiet.
- Cohorts: `CohortsAgree` and `GrantsAreCurrent`. The two need each other: a stale
  grant that activates would put a cohort on the side the record has left, and a
  cohort without authority has no active grant, which is what lets the next be
  activated (`SilentHasNone`).

`DependencyApplyProofs`: `TypeCorrect`, `StatusStandsOnReceipt`, `JournalIsOwn`
(both assuming that the receipt's directory is durable: the code does not sync
newly made directories into their parents, and without the assumption the status
can outlive its receipt), `AlarmsAreTrue`. The invariant: a command inside the
lock holds it (`Exclusive`), what its place implies about receipt and request
(`JournalHeld`), and the files of all that ended agree (`AllSettled`).

`ToolBootstrapProofs`: `TypeCorrect`, `StateIsTrusted`, `ChecksAreSound`,
`ReadersSeeStableTools`. The invariant: who is inside the lock (`LockOK`), how
many tools the one writer has placed and wrapped since it withdrew the state
(`Phases`), and what a comparison established (`Compared`).

`PacketsProofs`

- Graph: `PlacedInOrder`, each node is placed after all it requires (`SortInv`: the
  indegree of a node counts its requirements that are not placed, and `ready`
  holds exactly the unplaced nodes without any); `CyclesAreRejected`, the sort
  fails exactly if there is a cycle. The closure is computed by squaring: a
  shortest missing walk would split into two that are there, so every walk is in
  it; and a node the loop leaves over starts a walk of nodes left over, which
  must meet itself.
- Dispatch: `DispatchCovers` (a success has run all of the request),
  `RecipesAreOwned`, `HooksReachable` (each hook of an accepted contract can be
  selected, but for a root hook whose name a composite takes).
- Promotion: `OneShapeOneMode`. Each two branches of the `oneOf` are told apart by
  one field that one requires and the other forbids.
- Lifecycle: `NothingStaleIsRecorded`, `ProductionIsEarned`. Every edge leads
  upwards in one order of the states (`EdgesRise`), so no state is entered twice
  and the state a transition leaves tells where it was prepared; the states on
  the way to production have one edge into each (`OneWay`).

`ChecksProofs`

- Rehearsals: `EvidenceHolds`. The invariant says for each point what has been
  established by then; what git answered earlier never occurs in it, only what
  the two comparisons made sure of.
- Gates: `VerdictHolds`. Each result so far is kept together with what was run for
  it (`ResultsEarned`); that lifecycles are read once and hooks dispatched later
  does no harm, since a hook's own exit decides.
- Receipts: `SealedAreAccepted`, `AcceptedAreBound`. The pair an application wrote
  belongs to a commit with one parent, and commits never change (`WrittenOf`).
- Review: `ReviewsAreComplete`. The invariant carries what each validation has
  established about the candidate; the numbers in the record agree only if the
  sets they count do.
- Architecture: `ReportsAreExact`, for any tree. Of the import graph (`GoInv`): each
  search goes breadth first, so every way in its queue is a shortest one, their
  lengths differ by one at most and rise along the queue, and what was visited is
  below the start and either waits in the queue or has led on (`Searching`); a
  search with an empty queue has therefore visited all that is below and met it
  first by a shortest way (`EndsComplete`). The depth of a search is bounded by the
  number of packages, which is where `Below` stops as well (`BelowFacts`). Of the
  web (`WebInv`): the stack is a chain of configurations, each below those under it
  and none of them validated, so meeting one of them again is meeting a cycle; as
  long as nothing was reported, what was validated is closed under extends and
  stays inside the web.

`ContractsProofs`

- Idempotent operations: `RequestsCountOnce`. The ledger holds a key once and a
  versioned request at its own place (`LedgerSingle`), and what a client was told
  is about an entry of it (`ToldTruly`).
- Workflow machines: `NoStepSkipped`, machine by machine, by a set of states closed
  under the edges that avoid the step in question; `TransitionsOnFacts`.
- Generator: `GenerationIsConsistent`, `BaselinesAreKept`. A run that was not
  disturbed knows the files it has passed: writing, that they are as planned;
  checking, whether one is not (`RunHolds`).
- Schema corpus: `ConditionChainsSettle`, `ConstraintsAreMetTogether`. A pass over
  independent conditions undoes none and adds one, unless all are honoured
  (`Progress`). Serving one constraint leaves alone what the others hold
  (`Served`, `ReservedStays`), and there is room for the next as long as the array
  can hold what all ask for; a later pass finds the array's own constraints met,
  whatever positions it believes are taken (`ServedAgain`); a branch with room for
  its witnesses only appends (`BranchServed`).
- Cell frames: `FramesReadAlike`. The text is read in two passes; the invariant
  says which members the first has still to copy and under which name it copied
  the others, then the value of every field the second has come to. A text
  refused on the way is one no frame is written as (`Readable`).

`AtomicOutputProofs`: `NeverTorn`, `AnswersAreTrue`, `ReplacementsLast`. A power
loss may bring back any entry of a directory's history, so the invariant speaks of
all of them: a file under an output's name is whole, a temporary file is one
call's own, and a call past its sync has left its file as the oldest entry there
is to bring back.

`BoundaryProofs`

- Signatures: `AcceptedAreVouched`, `VerifiersDecideAlike`. A registry is trusted as
  the successor of one that was, so a key withdrawn stays withdrawn along the
  chain; that TypeScript climbs from a key while Go looks for a ring comes to the
  same because a climb longer than there are keys meets itself.
- Identities: `IdentitiesNameOneCatalog`, `RegistrarsAgree`.
- Canonical JSON: `CanonicalFormsAgree`, `MeaningsHaveOneForm`, for texts of any
  length and spelling. Both canonicalizers are shown to write one form (`Form`)
  of the same texts (`Accepted`). What they fold over a string is followed one
  character at a time: a lone surrogate shows among the escapes exactly when it
  shows among the units (`LoneAlike`), and the units of an accepted string come
  back from its runes (`UnitsRestored`). The order of units is total, so a name's
  rank is its place on either side (`Ordered`, `OrdersAlike`).
- `RuntimesAlwaysDecideAlike` puts the three together: a step of the boundary is a
  step of one part (`PartsKeepTheirSpecs`).
- The stream: `StreamsAreFaithful`, `StreamsLeakNothing`. `CallInv`: where a goroutine
  stands agrees with its call and with the holders of the mutexes, latches and the
  two `sync.Once`; `RequestInv`: the pipe holds whole envelopes of Sends that
  returned, before its end; `ResponseInv`: what was received is the front of the
  body; `LogInv`: the log of calls and returns says nothing else.

Induction over data, which the provers do not do by themselves, is done by hand
where it is needed: a set of naturals or of sequences that holds the first and
with each the next holds all (`Climbing`, `Lengthening`), or else there is a least
counterexample (`LeastNatural`, from the well-foundedness of `<`).

The proofs rest on the named assumptions of their modules about the constants and
on nothing else; TLC evaluates them in every run. They say that bounds are
naturals and sets finite, that marks such as `None` or `Nobody` are no member of
what they mark the absence of, that data has the shape its schema gives it
(`SurfaceAssumption`, `JobsAssumption`, `TextAssumption`, `ReviewAssumption`,
`CorpusAssumption`), and a
few things the code fixes: a gate's selectors are those of the environment
(`SelectorsAssumption`), the tool manifest is one of the locks
(`ReceiptsAssumption`), no field name of a frame is used for two kinds
(`JsonAssumption`), and no guarded import path is empty or the standard library's
(`ArchAssumption`, which also makes trees finite and their paths sequences).

What the proofs changed in the models. `AcceptedIsBound` used to say of every
accepted receipt that its commit pins the dependency asked for. With more moves
than the run has, a receipt retargeted to a commit that leaves the lock alone,
over a parent that never pinned it, is accepted as well: the check compares locks
that changed. The property now says when the pin is guaranteed. `ChainsSettle` used to
bound the conditions only by the run's bound, which happened to be the number of
passes, and did not exclude a condition on a required property, which every pass
samples anew; both are now said in it, and an array must have a legal length to
begin with. In `SchemaCorpus` the folds are recursive functions with a name each.
Elsewhere only assumptions were added, and in `CanonicalJson` names for parts of
an expression.

What stays with TLC. Liveness: `RollbackCompletes`, `EveryCommandEnds`,
`AcceptedPlansComplete` and `CallsReturn` need fairness and `ENABLED`, which the
provers do not handle. Every other property of a passing run is a theorem. The
run expected to fail is a finding, not a theorem. No module declares a RECURSIVE
operator.


## 5. Not modelled, and what is abstracted

Not modelled: the local stack and the runtime commands (shell over an external
engine; stubs); the docs, capability, secret and workflow checks (one pass of
patterns over a file tree each, no state); the records of patches, pull requests,
external reviews, provider evidence, evaluations, agent runtimes, releases and
cell commands. Of those last the repository has only schemas. Where a schema
relates one field to another or one document to the next it is modelled
(promotion, lifecycle, workflow envelopes, signatures); elsewhere the relation is
left to servers that are not here, and a model of them would be an invention.

Within the modelled parts:

- Digests and signatures are perfect: two contents have one digest only if they
  are one content, and a signature verifies under the key that made it.
- Text is data. Schemas, requests, lock files, import paths and JSON names are
  members of small sets chosen so that what the code tells apart differs.
  Lexers, redaction, wording, templates and help text are left out.
- base64 and DER decoding, `VerifyCustomerIncapabilityCatalogResponse`, unary
  API calls and their headers are left out; so are nested messages of the cell
  codec, which are read by the same code one level down.
- The screening of Makefiles for shell constructs is left out of the command
  contract; the archive safety checks and doctor's report of the toolchain.
- Symbolic links, bundler aliases and the source lexers are left out of the
  architecture check.
- In `DependencyApply` the validations are one step that may fail; their inside
  is `DependencyReview`. In `AppliedReceipts` an application is one step; its
  inside is `DependencyApply`.
- `WriterCohorts` and `WorkflowSubject` read and apply where envelopes add
  nothing to the question; `TrafficAuthority` and `WorkflowSubject` deliver late.
- External, modelled from their use: pnpm, git, make, Docker, planctl, the
  transport and pipe of net/http, the file system's inode numbers and durability.

## 6. Findings

**The request is read twice before it is bound**
(`scripts/dependency-locks/dependency_locks.py`:2284-2285, run
`dependency_apply_reread`). `validate_request` parses the file, then
`_digest_file` reads it again for the digest that every later comparison uses. An
edit that is undone in between leaves a request whose parsed body was never what
was committed, and its hash in the receipt is that of other bytes. CONTRIBUTING.md:65 and
:69 promise that accepted and applied hashes are bound and that a caller's bytes
can never cause a transition. Reading once and hashing those bytes would do.

Met while modelling, without a run of their own:

*Workflow contracts*

- A fenced writer has no edge back to the source
  (`app` 936-1140), so the automatic unfreeze of
  `contracts/capabilities/mvp-source-anchors.yaml`:1163 cannot happen for a cohort that was fenced; `source_resumed`
  has no outgoing edge, so a second cutover after a rollback cannot happen either.
- The forward edge to `target_primary_reverse_armed` carries no drain or parity
  receipt; `source_cohorts_activating` demands an activation receipt on entry,
  when authority is none; `target_primary_irreversible` can return to the source
  through a declared conflict; cohorts still waiting for the target when a
  rollback begins can only be blocked; active grants keep their epoch when the
  record's epoch advances.
- Dead ends: an operation whose lease expires; a waiting attempt, which cannot be
  cancelled; a failed cell; an executing consent, which cannot be invalidated;
  a consented one, which cannot expire; `boundary_shadow_receipted` and
  `production_authorized`, which cannot be blocked.
- A promotion envelope's `distinct_approver_count` is not tied to its approvers,
  expected and observed pointer are not compared, an emergency stop leaves the
  expected pointer's version open, receipts tie neither kind nor mode nor
  outcome, and qualification gates may be false.
- `dispatchExternalReview` and `recordCustomerValidation` take SHAs of 40 digits
  where bindings allow 40 to 64; `putDeploymentEvidenceProvider` and the provider
  schema name different signature algorithms.

*Generator and generated code*

- Array positions are reserved under the address of a list
  (`generate`:809). An array with `minItems = maxItems = 2` and two `contains`
  in a branch of a `oneOf` raises "cannot materialize contains within maxItems",
  because the interpreter reuses the first pass's address. No schema of the
  repository has this shape; `SchemaCorpus` reaches it and
  `ConstraintsMetTogether` names the case it excludes.
- Conditions on a tag are evaluated before a `oneOf` sets the tag.
- Two overlapping runs can restore an older baseline; an approved component
  replacement has no version check; a field number may be used again after a
  refresh with the component removed.
- Go's JSON decoder takes member names in any case, TypeScript's does not;
  TypeScript truncates times to milliseconds; a content identity is verified
  against the projection its own document states; registries need not be
  monotone, and each change of a registry makes every envelope need a new
  signature.
- Generated Go enums accept numbers only; 64-bit variants of a oneof and repeated
  64-bit fields are written unquoted.
- The Connect stream: `CloseResponse` never reports the response's error once the
  context is cancelled; without `CloseResponse` the context is never released;
  after an oversized or trailing envelope the next `Receive` reads inside it;
  after a cancellation `CloseRequest` may still end the request cleanly.
- API clients: their concurrency modes never trigger the If-Match guard;
  TypeScript turns an empty or non-JSON error body into a TypeError or
  SyntaxError.

*Tooling*

- Newly made receipt directories are not synced into their parents, so a power
  loss after the status is written may take the receipt
  (`EvidenceDirDurable = FALSE`).
- A manifest whose checksum is repinned between the load and the digest of a
  bootstrap is bound to tools it did not choose; a killed bootstrap's pnpm child
  goes on writing after the lock is free.
- `dependency-locks check` by hand takes no lock and can call a live apply
  incomplete; `oci-digest` requests are valid by the schema and never reviewable;
  a requested package that is not installed on the applying host cannot be
  applied; validations read the worktree, not the candidate commit.
- Atomic outputs compare an identity and then rename; nothing holds the name in
  between.
- A gate over an aggregate of which nothing is selected passes while its planned
  hooks are skipped; a clean-clone rehearsal reads a tool's version before its
  hash; the P03 rehearsal writes no report when acceptance fails, the P01 one
  does; the architecture check writes graph and report one after the other.

## 7. Plan

Done: the modules above, in the order traffic authority, cohorts, dependency
apply, bootstrap, atomic output, packets, generator, contracts, trust, checks,
clients; then theorems for every safety property of the passing runs.

Left, in order of what they would add:

1. The API clients (`generate` 937-1215): the guard of required headers, retries
   of a caller and the mapping of errors, composed with `IdempotentApi`.
2. `ToolBootstrap` and `DependencyApply` composed over their one lock, so that an
   apply competes with shared readers as well as with bootstraps.
3. The remaining parts of `DependencyReview` (audit results that age) and of the
   architecture check (aliases, links).
4. The stream with the limits on message sizes as numbers.
