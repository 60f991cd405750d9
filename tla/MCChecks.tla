------------------------------- MODULE MCChecks -------------------------------
EXTENDS GateRuns, CleanClone, Architecture, AppliedReceipts, DependencyReview,
        TLC

CONSTANTS p01, p03

Hook(value) == [target |-> "suite", key |-> "SUITE", value |-> value]
SuiteHooks == "basic" :> Hook("mvp") @@ "more" :> Hook("mvp-more")
Selector(key, value, refs) == [target |-> "suite", key |-> key, value |-> value, refs |-> refs]
SuiteSelectors ==
  {Selector("SUITE", "mvp", {}), Selector("PHASE", "cdc", {"basic", "more"})}

Job(targets, variables, allowPlanned) ==
  [targets |-> targets, variables |-> variables, permitted |-> TRUE, allowPlanned |-> allowPlanned]
CIJobs ==
  {Job(<<"lint", "suite">>, <<>>, FALSE),
   Job(<<"suite", "lint">>, "SUITE" :> "mvp", TRUE),
   Job(<<"suite">>, "PHASE" :> "cdc", FALSE),
   Job(<<"suite">>, ("PHASE" :> "cdc") @@ ("SUITE" :> "mvp"), TRUE),
   Job(<<"suite">>, "SUITE" :> "unknown", FALSE),
   Job(<<"lint", "missing">>, <<>>, TRUE),
   [Job(<<"lint">>, <<>>, TRUE) EXCEPT !.permitted = FALSE]}

ReportWrites == [r \in Rehearsals |-> r = p01]

App(directory) == <<"app">> \o directory
Bedrock == <<"bedrock">>
Pgx == <<"pgx">>
ModelSDKs == {Bedrock}
ProvisioningSDKs == {<<"ec2">>}
DatabaseDrivers == {Pgx}
Mothership == <<"cmd", "mothership">>
Workspaces == <<"internal", "workspaces">>
Adapter == <<"internal", "adapter">>
Harness == <<"internal", "harness">>
Engine == <<"internal", "engine">>
Quality == <<"internal", "quality">>
Contracts == <<"internal", "contracts">>

CandidateImports ==
  {[from |-> i[1], import |-> i[2]] :
     i \in {<<Mothership, App(Workspaces)>>, <<Workspaces, App(Harness)>>, <<Workspaces, App(Adapter)>>,
            <<Adapter, App(Workspaces)>>, <<Engine, App(Workspaces)>>, <<Adapter, Bedrock>>,
            <<Harness, Pgx>>, <<Mothership, <<"std">>>>, <<Quality, App(Trajectory)>>,
            <<Trajectory, App(Contracts)>>, <<Contracts, App(Quality)>>}}
Main == [directory |-> <<>>, path |-> <<"app">>]
Nested(path) == {Main, [directory |-> Adapter, path |-> path]}

Empty == [imports |-> {}, modules |-> {Main}, configs |-> <<>>, roots |-> {}, webImports |-> {}]
GoTrees ==
  {[Empty EXCEPT !.imports = I, !.modules = M] :
     I \in SUBSET CandidateImports, M \in {{Main}, Nested(<<"adapter">>), Nested(Bedrock)}}

Few(S) == {X \in SUBSET S : Cardinality(X) <= 2}
Configs(t, b, e, parses, entries) ==
  "tsconfig" :> [parses |-> TRUE, extends |-> t, entries |-> {}]
    @@ "base" :> [parses |-> parses, extends |-> b, entries |-> {"inside"}]
    @@ "extra" :> [parses |-> TRUE, extends |-> e, entries |-> entries]
Extendable == {"tsconfig", "base", "extra"}
WebTrees ==
  {[Empty EXCEPT !.configs = Configs(t, b, e, parses, entries), !.roots = R] :
     t \in Few(Extendable \cup {"package", "outside"}), b \in Few(Extendable), e \in Few(Extendable),
     parses \in BOOLEAN, entries \in {{}, {"outside"}}, R \in {{"tsconfig"}, {"base", "tsconfig"}}}
OtherTrees ==
  {[Empty EXCEPT !.webImports = k] :
     k \in SUBSET {"inside", "package", "outside", "domain", "dynamic"}}
CheckedTrees == GoTrees \cup WebTrees \cup OtherTrees

Draft(packet, id, locks, lock) ==
  [packet |-> packet, id |-> id, locks |-> locks,
   dependency |-> [lock |-> lock, version |-> 2]]
Both == {"pnpm-lock", "manifest"}
RequestDrafts ==
  {Draft("P02", "P02-1", {"pnpm-lock"}, "pnpm-lock"), Draft("P02", "P02-1", Both, "pnpm-lock"),
   Draft("P02", "P02-2", {"manifest"}, "manifest"), Draft("P03", "P03-1", Both, "manifest")}

Free == [not |-> {}, only |-> {}]
Only(v) == [not |-> {}, only |-> {v}]
Not(v) == [not |-> {v}, only |-> {}]
Constraints ==
  {[os |-> o, cpu |-> c, libc |-> l] :
     o \in {Free, Only("linux"), Not("linux"), Only("win32")}, c \in {Free, Only("x64")},
     l \in {Free, Only("musl"), Only("glibc"), Not("musl")}}
Entry(c, integrity) == [os |-> c.os, cpu |-> c.cpu, libc |-> c.libc, integrity |-> integrity]
Anywhere == [os |-> Free, cpu |-> Free, libc |-> Free]
PnpmLocks ==
  {"native" :> Entry(c, i) : c \in Constraints, i \in {"sri", "malformed"}}
  \cup {("native" :> Entry(c, "sri")) @@ ("web" :> Entry(Anywhere, "sri")) : c \in Constraints}
Contents ==
  {[p \in {"native", "web"} |-> IF p = "web" THEN [integrity |-> "sri", license |-> "MIT"] ELSE e] :
     e \in [integrity : {"sri", "other"}, license : {"MIT", "unknown"}]}
Asked(ecosystem, name, license, integrity, direct) ==
  [ecosystem |-> ecosystem, name |-> name, license |-> license, integrity |-> integrity,
   direct |-> direct]
AskedFor ==
  {{Asked("pnpm", "web", "MIT", "sri", TRUE)}, {Asked("pnpm", "native", "MIT", "sri", FALSE)},
   {Asked("go", "pgx", "MIT", "h1", TRUE), Asked("pnpm", "web", "MIT", "sri", TRUE)},
   {Asked("go", "indirect", "MIT", "h1", TRUE)},
   {Asked("tool", "buf", "GPL", "sha", FALSE)}, {Asked("tool", "blocked", "GPL", "sha", FALSE)}}
Declared == "web" :> {TRUE} @@ "native" :> {TRUE, FALSE}
Modules == "pgx" :> [indirect |-> FALSE, sum |-> "h1"] @@ "indirect" :> [indirect |-> TRUE, sum |-> "h1"]
Tools == "buf" :> [license |-> "GPL", blocked |-> FALSE, digests |-> {"sha"}]
           @@ "blocked" :> [license |-> "GPL", blocked |-> TRUE, digests |-> {"sha"}]
Machines == {Platform("darwin", "arm64", "none"), Platform("linux", "x64", "glibc")}

GateOff == gate.phase = "idle" /\ runs = 0 /\ landings = 0
CloneOff == changes = 0 /\ rehearsal = [r \in Rehearsals |-> ToBegin]

ArchOff == tree = Empty /\ phase = "web" /\ stack = <<>>

ReviewOff ==
  /\ stage = "install"
  /\ lockfile = ("native" :> Entry(Anywhere, "sri")) @@ ("web" :> Entry(Anywhere, "sri"))
  /\ registry = [p \in PnpmPackages |-> [integrity |-> "sri", license |-> "MIT"]]
  /\ asked = {Asked("pnpm", "web", "MIT", "sri", TRUE)}
  /\ host = Platform("linux", "x64", "glibc")
  /\ findings = FALSE

ReceiptsOff == edits = 0 /\ moves = 0

LandingsOff == lifecycle = [c \in Covered |-> "active"]
RehearsalsOff == CloneOff /\ branch = "main" /\ ~ dirty

\* Gates, rehearsals, a check of the architecture, requests being applied or the
\* validations of one, in a behavior of its own.
ChecksInit ==
  /\ ReceiptsInit
  /\ \/ tree = Empty /\ ArchInit /\ GateInit /\ CloneInit /\ ReviewOff /\ ReviewInit
     \/ /\ LandingsOff /\ GateInit
        /\ branch = "main" /\ dirty = FALSE /\ CloneInit
        /\ \/ ReviewOff /\ ReviewInit /\ ArchInit
           \/ tree = Empty /\ ArchInit /\ ReviewInit
ChecksNext ==
  \/ /\ RehearsalsOff /\ ArchOff /\ ReceiptsOff /\ ReviewOff
     /\ GateNext /\ UNCHANGED <<cloneVars, archVars, receiptVars, reviewVars>>
  \/ /\ GateOff /\ LandingsOff /\ ArchOff /\ ReceiptsOff /\ ReviewOff
     /\ CloneNext /\ UNCHANGED <<gateVars, archVars, receiptVars, reviewVars>>
  \/ /\ GateOff /\ RehearsalsOff /\ ReceiptsOff /\ ReviewOff
     /\ ArchNext /\ UNCHANGED <<gateVars, cloneVars, receiptVars, reviewVars>>
  \/ /\ GateOff /\ LandingsOff /\ RehearsalsOff /\ ArchOff /\ ReviewOff
     /\ ReceiptsNext /\ UNCHANGED <<gateVars, cloneVars, archVars, reviewVars>>
  \/ /\ GateOff /\ LandingsOff /\ RehearsalsOff /\ ArchOff /\ ReceiptsOff
     /\ ReviewNext /\ UNCHANGED <<gateVars, cloneVars, archVars, receiptVars>>
ChecksSpec ==
  ChecksInit /\ [][ChecksNext]_<<gateVars, cloneVars, archVars, receiptVars, reviewVars>>
=============================================================================
