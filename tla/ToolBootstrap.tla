---------------------------- MODULE ToolBootstrap ----------------------------
(***************************************************************************)
(* The repository-local tool root build/tools (scripts/dev/toolchain.py)   *)
(* and the reader/writer lock around it (scripts/dev/tool_lock.py).        *)
(*                                                                         *)
(* A bootstrap holds the lock exclusively while it deletes the state file, *)
(* replaces every pinned tool and every wrapper, installs node_modules     *)
(* with a pnpm child, and writes the state file again.  A check holds the  *)
(* lock shared and compares the state file with the manifest; the other    *)
(* readers (format, lint, doctor, provenance) hold it shared and use the   *)
(* tools.  Any command may fail at any step or be killed, and a person     *)
(* may edit tools/manifest.yaml at any time: the manifest has no lock.     *)
(***************************************************************************)
EXTENDS Naturals, FiniteSets

CONSTANTS Bootstraps,   \* commands that run bootstrap()
          Users,        \* commands that check or use tools, lock shared
          NumTools,     \* number of tools the bootstrap installs
          Versions,     \* versions a tool may be pinned at
          Sums,         \* artifact checksums a version may be pinned to
          MaxEdits,     \* bound on the edits of the manifest
          None          \* no process, no file

Procs == Bootstraps \union Users
Tools == 1..NumTools
Pins == [version: Versions, sum: Sums]
Manifests == [Tools -> Pins]

ASSUME ToolsAssumption == NumTools \in Nat \ {0}
ASSUME KindsAreDisjoint == Bootstraps \intersect Users = {}
ASSUME NoneIsNothing == None \notin Procs \union Versions

\* What a destination directory may hold besides the bytes of an artifact.
CONSTANTS Absent, Torn
ASSUME MarksAreMarks == {Absent, Torn} \intersect Sums = {} /\ Absent # Torn

VARIABLES manifest,   \* tools/manifest.yaml
          state,      \* build/tools/state.json
          dir,        \* _toolchains/<name>/<version>
          wrap,       \* build/tools/bin/<name>: the version it executes
          modules,    \* node_modules: Absent, Torn or "whole"
          orphans,    \* commands whose pnpm child outlived them
          writer,     \* the exclusive holder of .operation.lock
          readers,    \* its shared holders
          pc,         \* where each command is
          expects,    \* the versions compiled into its script
          loaded,     \* the manifest it read
          next,       \* the tool it is at
          edits

tree == <<state, dir, wrap>>
lock == <<writer, readers>>
mem == <<expects, loaded, next>>
vars == <<manifest, tree, modules, orphans, lock, pc, mem, edits>>

VersionsOf(m) == [t \in Tools |-> m[t].version]

\* state.json: the digest of the manifest's bytes and the versions it named,
\* and whether all of it has been written.
Seal(sha, m, whole) == [sha |-> sha, versions |-> VersionsOf(m), whole |-> whole]
Seals == [sha: Manifests, versions: [Tools -> Versions], whole: BOOLEAN]
ASSUME NoneIsNoSeal == None \notin Seals

Installing == {"remove", "removed", "fetch", "wrap"}
Working == Installing \union
           {"load", "deps", "verify", "pnpm", "installing", "state", "fill",
            "reload", "compare", "probe", "passed", "using"}
Over == {"ended", "failed", "killed"}

TypeOK ==
  /\ manifest \in Manifests
  /\ state \in Seals \union {None}
  /\ dir \in [Tools -> [Versions -> Sums \union {Absent, Torn}]]
  /\ wrap \in [Tools -> Versions \union {None}]
  /\ modules \in {Absent, Torn, "whole"}
  /\ orphans \subseteq Bootstraps
  /\ writer \in Bootstraps \union {None}
  /\ readers \subseteq Users
  /\ pc \in [Procs -> Working \union Over \union {"idle", "waiting"}]
  /\ expects \in [Procs -> [Tools -> Versions]]
  /\ loaded \in [Procs -> Manifests]
  /\ next \in [Procs -> Tools]
  /\ edits \in Nat

-----------------------------------------------------------------------------
\* Commands outside the lock hold no manifest.
Blank == CHOOSE m \in Manifests : TRUE

\* A fresh clone: nothing is installed.
Init ==
  /\ manifest \in Manifests
  /\ state = None
  /\ dir = [t \in Tools |-> [v \in Versions |-> Absent]]
  /\ wrap = [t \in Tools |-> None]
  /\ modules = Absent
  /\ orphans = {}
  /\ writer = None
  /\ readers = {}
  /\ pc = [p \in Procs |-> "idle"]
  /\ expects = [p \in Procs |-> VersionsOf(Blank)]
  /\ loaded = [p \in Procs |-> Blank]
  /\ next = [p \in Procs |-> 1]
  /\ edits = 0

Goto(p, here, there) == pc[p] = here /\ pc' = [pc EXCEPT ![p] = there]

\* A command gives up the lock and its memory.
Release(p) ==
  /\ writer' = IF writer = p THEN None ELSE writer
  /\ readers' = readers \ {p}
  /\ expects' = [expects EXCEPT ![p] = VersionsOf(Blank)]
  /\ loaded' = [loaded EXCEPT ![p] = Blank]
  /\ next' = [next EXCEPT ![p] = 1]

\* The script starts; its expected versions are those of the checkout then.
Begin(p) ==
  /\ Goto(p, "idle", "waiting")
  /\ expects' = [expects EXCEPT ![p] = VersionsOf(manifest)]
  /\ UNCHANGED <<manifest, tree, modules, orphans, lock,
                 loaded, next, edits>>

\* A plausible mistake: the bootstrap takes the lock over its shared holders.
AcquireOverReaders(p) ==
  /\ p \in Bootstraps
  /\ writer = None
  /\ Goto(p, "waiting", "load")
  /\ writer' = p
  /\ UNCHANGED <<manifest, tree, modules, orphans, readers, mem, edits>>

\* flock(LOCK_EX) of a bootstrap; flock(LOCK_SH) of a check or another user.
AcquireExclusive(p) ==
  /\ p \in Bootstraps
  /\ writer = None
  /\ readers = {}
  /\ Goto(p, "waiting", "load")
  /\ writer' = p
  /\ UNCHANGED <<manifest, tree, modules, orphans, readers, mem, edits>>

AcquireShared(p) ==
  /\ p \in Users
  /\ writer = None
  /\ \E there \in {"reload", "using"} : Goto(p, "waiting", there)
  /\ readers' = readers \union {p}
  /\ UNCHANGED <<manifest, tree, modules, orphans, writer, mem, edits>>

LoadManifest(p) ==
  /\ Goto(p, "load", "deps")
  /\ loaded' = [loaded EXCEPT ![p] = manifest]
  /\ UNCHANGED <<manifest, tree, modules, orphans, lock,
                 expects, next, edits>>

\* The dependency contracts hold: only now is the old state withdrawn.
RemoveState(p) ==
  /\ Goto(p, "deps", "remove")
  /\ state' = None
  /\ next' = [next EXCEPT ![p] = 1]
  /\ UNCHANGED <<manifest, dir, wrap, modules, orphans, lock,
                 expects, loaded, edits>>

Destination(p) == loaded[p][next[p]].version
SetDestination(p, content) ==
  dir' = [dir EXCEPT ![next[p]][Destination(p)] = content]

\* shutil.rmtree of an existing destination, which a kill may leave torn.
StartRemove(p) ==
  /\ Goto(p, "remove", "removed")
  /\ SetDestination(p, IF dir[next[p]][Destination(p)] = Absent
                       THEN Absent ELSE Torn)
  /\ UNCHANGED <<manifest, state, wrap, modules, orphans, lock, mem, edits>>

EndRemove(p) ==
  /\ Goto(p, "removed", "fetch")
  /\ SetDestination(p, Absent)
  /\ UNCHANGED <<manifest, state, wrap, modules, orphans, lock, mem, edits>>

\* After its tool the command turns to the next one, after the last to wrappers.
Advance(p, here, again, done) ==
  IF next[p] = NumTools
  THEN Goto(p, here, done) /\ next' = [next EXCEPT ![p] = 1]
  ELSE Goto(p, here, again) /\ next' = [next EXCEPT ![p] = @ + 1]

\* The archive matched the checksum of the loaded manifest; its extracted
\* stage is renamed over the destination.
Place(p) ==
  /\ Advance(p, "fetch", "remove", "wrap")
  /\ SetDestination(p, loaded[p][next[p]].sum)
  /\ UNCHANGED <<manifest, state, wrap, modules, orphans, lock,
                 expects, loaded, edits>>

\* A wrapper is written beside its name, synced and renamed over it.
WriteWrapper(p) ==
  /\ Advance(p, "wrap", "wrap", "verify")
  /\ wrap' = [wrap EXCEPT ![next[p]] = Destination(p)]
  /\ UNCHANGED <<manifest, state, dir, modules, orphans, lock,
                 expects, loaded, edits>>

\* Every wrapper reports the expected version.  A torn directory may still
\* hold the executable that does.
Reports(p) ==
  \A t \in Tools : /\ wrap[t] = expects[p][t]
                   /\ dir[t][wrap[t]] # Absent

Verify(p) ==
  /\ Goto(p, "verify", "pnpm")
  /\ Reports(p)
  /\ UNCHANGED <<manifest, tree, modules, orphans, lock, mem, edits>>

StartInstall(p) ==
  /\ Goto(p, "pnpm", "installing")
  /\ modules' = Torn
  /\ UNCHANGED <<manifest, tree, orphans, lock, mem, edits>>

EndInstall(p) ==
  /\ Goto(p, "installing", "state")
  /\ modules' = "whole"
  /\ UNCHANGED <<manifest, tree, orphans, lock, mem, edits>>

\* The state is built from the loaded manifest and a new digest of the file,
\* then the file is created exclusively, and filled and synced.
CreateState(p) ==
  /\ Goto(p, "state", "fill")
  /\ state = None
  /\ state' = Seal(manifest, loaded[p], FALSE)
  /\ UNCHANGED <<manifest, dir, wrap, modules, orphans, lock, mem, edits>>

FillState(p) ==
  /\ Goto(p, "fill", "reload")
  /\ state' = [state EXCEPT !.whole = TRUE]
  /\ UNCHANGED <<manifest, dir, wrap, modules, orphans, lock, mem, edits>>

\* _check_unlocked, the end of a bootstrap and the whole of a check.
Reload(p) ==
  /\ Goto(p, "reload", "compare")
  /\ loaded' = [loaded EXCEPT ![p] = manifest]
  /\ UNCHANGED <<manifest, tree, modules, orphans, lock,
                 expects, next, edits>>

\* A plausible mistake: the check compares the digest only.
CompareDigest(p) ==
  /\ Goto(p, "compare", "probe")
  /\ state # None
  /\ state.sha = manifest /\ state.whole
  /\ UNCHANGED <<manifest, tree, modules, orphans, lock, mem, edits>>

Compare(p) ==
  /\ Goto(p, "compare", "probe")
  /\ state = Seal(manifest, loaded[p], TRUE)
  /\ UNCHANGED <<manifest, tree, modules, orphans, lock, mem, edits>>

Probe(p) ==
  /\ Goto(p, "probe", "passed")
  /\ Reports(p)
  /\ UNCHANGED <<manifest, tree, modules, orphans, lock, mem, edits>>

End(p) ==
  /\ pc[p] \in {"passed", "using"}
  /\ pc' = [pc EXCEPT ![p] = "ended"]
  /\ Release(p)
  /\ UNCHANGED <<manifest, tree, modules, orphans, edits>>

\* A plausible mistake: an exception leaves the context without unlocking.
FailLocked(p) ==
  /\ pc[p] \in Working \ {"passed"}
  /\ pc' = [pc EXCEPT ![p] = "failed"]
  /\ UNCHANGED <<manifest, tree, modules, orphans, lock, mem, edits>>

\* Every step of the command may raise; the context manager unlocks.
Fail(p) ==
  /\ pc[p] \in Working \ {"passed"}
  /\ pc' = [pc EXCEPT ![p] = "failed"]
  /\ Release(p)
  /\ UNCHANGED <<manifest, tree, modules, orphans, edits>>

\* The kernel closes a killed command's lock; its pnpm child lives on.
Kill(p) ==
  /\ pc[p] \in Working \union {"waiting"}
  /\ pc' = [pc EXCEPT ![p] = "killed"]
  /\ Release(p)
  /\ orphans' = IF pc[p] = "installing" THEN orphans \union {p} ELSE orphans
  /\ UNCHANGED <<manifest, tree, modules, edits>>

OrphanEnds(p) ==
  /\ p \in orphans
  /\ orphans' = orphans \ {p}
  /\ modules' = "whole"
  /\ UNCHANGED <<manifest, tree, lock, pc, mem, edits>>

\* A person edits the manifest or checks out another commit.
EditManifest ==
  /\ edits < MaxEdits
  /\ \E m \in Manifests \ {manifest} : manifest' = m
  /\ edits' = edits + 1
  /\ UNCHANGED <<tree, modules, orphans, lock, pc, mem>>

Step(p) ==
  \/ AcquireExclusive(p) \/ AcquireShared(p)
  \/ LoadManifest(p) \/ RemoveState(p)
  \/ StartRemove(p) \/ EndRemove(p) \/ Place(p) \/ WriteWrapper(p)
  \/ Verify(p) \/ StartInstall(p) \/ EndInstall(p)
  \/ CreateState(p) \/ FillState(p)
  \/ Reload(p) \/ Compare(p) \/ Probe(p)
  \/ End(p) \/ Fail(p)

Next ==
  \/ \E p \in Procs : Begin(p) \/ Step(p) \/ Kill(p)
  \/ \E p \in Bootstraps : OrphanEnds(p)
  \/ EditManifest

Spec == Init /\ [][Next]_vars

\* A command keeps running.  Every holder of the lock ends and no command
\* runs twice, so in the end the lock stays free for whoever waits.
Fairness == \A p \in Procs : WF_vars(Step(p))

FairSpec == Spec /\ Fairness

-----------------------------------------------------------------------------
\* A state file that can be parsed vouches for the tools: every wrapper runs
\* the version it names, whole.  A kill at any step of a bootstrap, between
\* the unlink and the write (toolchain.py:630-659), must not leave one behind.
StateVouches ==
  state # None /\ state.whole =>
    \A t \in Tools : /\ wrap[t] = state.versions[t]
                     /\ dir[t][wrap[t]] \in Sums

\* While a check that passed still holds the lock, the tools are whole and at
\* the versions of the manifest it read (toolchain.py:597-611), whatever was
\* edited or killed, although the version probe alone accepts a torn tool.
CheckedToolsWhole ==
  \A p \in Procs : pc[p] = "passed" =>
    \A t \in Tools : /\ wrap[t] = loaded[p][t].version
                     /\ dir[t][wrap[t]] \in Sums

\* No tool, wrapper or state changes under a command that holds the lock
\* shared (tool_lock.py:65), whoever bootstraps, dies or waits.
ToolsStable ==
  [][readers \intersect readers' # {} => UNCHANGED tree]_vars

\* Every command that waits for the lock gets it and ends (tool_lock.py:67-71).
EveryCommandEnds == \A p \in Procs : pc[p] = "waiting" ~> pc[p] \in Over

=============================================================================
