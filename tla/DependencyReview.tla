--------------------------- MODULE DependencyReview ---------------------------
(***************************************************************************)
(* The validations an application of a dependency request runs over its    *)
(* candidate, and what the dependency check asks of their record           *)
(* (scripts/dependency-locks/dependency_locks.py,                          *)
(* _run_dependency_validations and _receipt_validation_errors): the frozen *)
(* install on one host, its license inventory, the tarballs of packages    *)
(* only other supported platforms install, the audits, the review of each  *)
(* dependency asked for, and the rehearsal in a clean clone.               *)
(*                                                                         *)
(* A package is a name and a version.  pnpm and the registry are external: *)
(* a frozen install takes what the lock allows on the host, and perhaps    *)
(* more, and fails on content that does not have the lock's integrity.     *)
(***************************************************************************)
EXTENDS Integers, FiniteSets

CONSTANTS
  PnpmPackages,       \* packages pnpm-lock.yaml may list
  LockCandidates,     \* pnpm-lock.yaml: packages to [os, cpu, libc, integrity]
  RegistryStates,     \* the registry: packages to [integrity, license]
  DeclaredBy,         \* package.json and web/package.json: packages to sets of BOOLEAN,
                      \* for each list that names one, whether it is a runtime list
  GoModules,          \* go list -m: modules to [indirect, sum], sum "none" if go.sum has none
  ToolRecords,        \* the tool manifest: names to [license, blocked, digests]
  Requests,           \* requests: sets of [ecosystem, name, license, integrity, direct]
  PackageLicenses,    \* PACKAGE_LICENSE_ALLOWLIST
  RequestLicenses,    \* REQUEST_LICENSE_ALLOWLIST
  Hosts               \* platforms the application may run on

ASSUME ReviewAssumption ==
  /\ PackageLicenses \subseteq RequestLicenses
  /\ IsFiniteSet(PnpmPackages)
  /\ \A lock \in LockCandidates : DOMAIN lock \subseteq PnpmPackages
  /\ \A registry \in RegistryStates : DOMAIN registry = PnpmPackages

Platform(os, cpu, libc) == [os |-> os, cpu |-> cpu, libc |-> libc]

SupportedPlatforms ==
  {Platform("darwin", "arm64", "none"), Platform("darwin", "x64", "none"),
   Platform("linux", "arm64", "glibc"), Platform("linux", "x64", "glibc")}

VARIABLES
  lockfile, registry, asked, host,  \* the candidate, and where it is applied
  findings,    \* the audits find a high or critical vulnerability
  stage,       \* the validation to run next
  installed,   \* what the install put on the host
  evidence     \* the record of the validations so far

reviewVars == <<lockfile, registry, asked, host, findings, stage, installed, evidence>>

candidateVars == <<lockfile, registry, asked, host, findings>>

NoEvidence ==
  [supported |-> 0, covered |-> 0, inventoried |-> 0, derived |-> {},
   reviewed |-> {}, tools |-> <<>>]

ReviewInit ==
  /\ lockfile \in LockCandidates
  /\ registry \in RegistryStates
  /\ asked \in Requests
  /\ host \in Hosts
  /\ findings \in BOOLEAN
  /\ stage = "install"
  /\ installed = {}
  /\ evidence = NoEvidence

-----------------------------------------------------------------------------
(* Which packages the supported platforms install.                         *)

\* A constraint is what it excludes and, unless that is empty, all it admits;
\* one on the C library is never met where there is none.
Allows(constraint, observed) ==
  \/ constraint.not = {} /\ constraint.only = {}
  \/ /\ observed # "none"
     /\ observed \notin constraint.not
     /\ constraint.only = {} \/ observed \in constraint.only

InstallsOn(package, platform) ==
  /\ Allows(lockfile[package].os, platform.os)
  /\ Allows(lockfile[package].cpu, platform.cpu)
  /\ Allows(lockfile[package].libc, platform.libc)

\* Mutant: the host stands for all the supported platforms.
HostLockRecords == {package \in DOMAIN lockfile : InstallsOn(package, host)}

SupportedLockRecords ==
  {package \in DOMAIN lockfile : \E platform \in SupportedPlatforms : InstallsOn(package, platform)}

\* Every one of them has an integrity of the registry's form, and there is one.
LockUsable ==
  /\ SupportedLockRecords # {}
  /\ \A package \in SupportedLockRecords : lockfile[package].integrity # "malformed"

-----------------------------------------------------------------------------
(* The evidence.                                                           *)

\* The registry's content has the integrity the lock names.
Genuine(package) == registry[package].integrity = lockfile[package].integrity

\* Licenses pnpm lists of what is installed.
InventoryApproved == \A package \in installed : registry[package].license \in PackageLicenses

Derived == SupportedLockRecords \ installed

TarballApproved(package) == Genuine(package) /\ registry[package].license \in PackageLicenses

Coverage ==
  [supported |-> Cardinality(SupportedLockRecords),
   covered |-> Cardinality(SupportedLockRecords \cap (installed \cup Derived)),
   inventoried |-> Cardinality(SupportedLockRecords \cap ((installed \cup Derived) \ Derived)),
   derived |-> {[package |-> package, license |-> registry[package].license,
                 integrity |-> lockfile[package].integrity] : package \in Derived}]

\* A tool whose activation is blocked has no digest that binds it.
ToolBinds(record, dependency) == ~ record.blocked /\ dependency.integrity \in record.digests

\* A dependency asked for is in the candidate, under the license, integrity and
\* directness the request claims.
DependencyHolds(dependency) ==
  /\ dependency.license \in RequestLicenses
  /\ \/ /\ dependency.ecosystem = "tool"
        /\ dependency.name \in DOMAIN ToolRecords
        /\ ToolRecords[dependency.name].license = dependency.license
        /\ ToolBinds(ToolRecords[dependency.name], dependency)
        /\ ~ dependency.direct
     \/ /\ dependency.ecosystem = "go"
        /\ dependency.name \in DOMAIN GoModules
        /\ dependency.direct = ~ GoModules[dependency.name].indirect
        /\ GoModules[dependency.name].sum # "none"
        /\ dependency.integrity = GoModules[dependency.name].sum
     \/ /\ dependency.ecosystem = "pnpm"
        /\ DeclaredBy[dependency.name] = {dependency.direct}
        /\ dependency.name \in installed
        /\ dependency.name \in DOMAIN lockfile
        /\ dependency.integrity = lockfile[dependency.name].integrity
        /\ registry[dependency.name].license = dependency.license

ToolLicenses == [name \in DOMAIN ToolRecords |-> ToolRecords[name].license]

-----------------------------------------------------------------------------
(* The validations, in order; any of them may refuse.                      *)

Step(from, to) == stage = from /\ stage' = to

Refusal(from) == Step(from, "refused") /\ UNCHANGED <<candidateVars, installed, evidence>>

\* pnpm install --frozen-lockfile --force
Install ==
  \/ \E more \in SUBSET DOMAIN lockfile :
       /\ installed' = more \cup {package \in DOMAIN lockfile : InstallsOn(package, host)}
       /\ \A package \in installed' : Genuine(package)
       /\ Step("install", "licenses")
       /\ UNCHANGED <<candidateVars, evidence>>
  \/ Refusal("install")

ListLicenses ==
  \/ /\ InventoryApproved
     /\ Step("licenses", "coverage")
     /\ UNCHANGED <<candidateVars, installed, evidence>>
  \/ ~ InventoryApproved /\ Refusal("licenses")

CoverPlatforms ==
  \/ /\ LockUsable
     /\ \A package \in Derived : TarballApproved(package)
     /\ Step("coverage", "audit")
     /\ evidence' =
          [evidence EXCEPT !.supported = Coverage.supported, !.covered = Coverage.covered,
                           !.inventoried = Coverage.inventoried, !.derived = Coverage.derived]
     /\ UNCHANGED <<candidateVars, installed>>
  \/ /\ ~ (LockUsable /\ \A package \in Derived : TarballApproved(package))
     /\ Refusal("coverage")

Audit ==
  \/ ~ findings /\ Step("audit", "review") /\ UNCHANGED <<candidateVars, installed, evidence>>
  \/ findings /\ Refusal("audit")

ReviewDependencies ==
  \/ /\ \A dependency \in asked : DependencyHolds(dependency)
     /\ Step("review", "rehearsal")
     /\ evidence' = [evidence EXCEPT !.reviewed = asked, !.tools = ToolLicenses]
     /\ UNCHANGED <<candidateVars, installed>>
  \/ ~ (\A dependency \in asked : DependencyHolds(dependency)) /\ Refusal("review")

Rehearse ==
  \/ Step("rehearsal", "recorded") /\ UNCHANGED <<candidateVars, installed, evidence>>
  \/ Refusal("rehearsal")

ReviewNext ==
  Install \/ ListLicenses \/ CoverPlatforms \/ Audit \/ ReviewDependencies \/ Rehearse

ReviewSpec == ReviewInit /\ [][ReviewNext]_reviewVars

-----------------------------------------------------------------------------
(* The dependency check of the record, at any later time.                  *)

CoverageAccepted ==
  /\ evidence.supported > 0
  /\ evidence.covered = evidence.supported
  /\ evidence.inventoried + Cardinality(evidence.derived) = evidence.supported
  /\ \A item \in evidence.derived :
       item.license \in PackageLicenses /\ item.integrity # "malformed"

ValidationsAccepted ==
  /\ CoverageAccepted
  /\ evidence.reviewed = asked
  /\ evidence.tools = ToolLicenses

-----------------------------------------------------------------------------
\* Whatever host the application ran on, a package any supported platform will
\* install from the candidate's lock has content under an approved license with
\* the integrity the lock names (_pnpm_license_coverage).
EveryPlatformReviewed ==
  stage = "recorded" =>
    \A platform \in SupportedPlatforms, package \in DOMAIN lockfile :
      InstallsOn(package, platform) =>
        Genuine(package) /\ registry[package].license \in PackageLicenses

\* What the validations record, the check accepts: an application that ended
\* well does not leave the repository failing its own dependency check.
RecordsAreAccepted == stage = "recorded" => ValidationsAccepted

\* A review that ended well is complete: it covers what every supported host installs,
\* and the check run next on the same candidate agrees with it.
ReviewsComplete == EveryPlatformReviewed /\ RecordsAreAccepted
=============================================================================
