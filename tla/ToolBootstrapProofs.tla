------------------------- MODULE ToolBootstrapProofs -------------------------
(***************************************************************************)
(* What a state file and a passed check are worth, for any number of       *)
(* commands, tools, edits and kills.                                       *)
(*                                                                         *)
(* StateVouches is not inductive: a command about to write the state must  *)
(* be known to have placed and wrapped every tool since it withdrew the    *)
(* old state, and nobody else may have touched them in between.  The       *)
(* invariant therefore says who is inside the lock (LockOK), how far the   *)
(* installation of the one writer has come (Phase), and what a comparison  *)
(* established (Compared).                                                 *)
(***************************************************************************)
EXTENDS ToolBootstrap, TLAPS

\* Where a command of each kind may be, and who holds the lock there.
Places == \A p \in Procs \ Bootstraps :
  pc[p] \in Over \union {"idle", "waiting", "reload", "compare", "probe",
                         "passed", "using"}
Exclusive == \A p \in Bootstraps : pc[p] \in Working => writer = p
Shared == \A p \in Procs \ Bootstraps : pc[p] \in Working => p \in readers
Apart == writer # None => readers = {}
LockOK == Places /\ Exclusive /\ Shared /\ Apart

\* Tool t is in place, and wrapped, as command p's manifest wants it.
Placed(p, t) == dir[t][loaded[p][t].version] \in Sums
Wrapped(p, t) == wrap[t] = loaded[p][t].version

Phase(p) ==
  /\ pc[p] \in Installing \union {"verify", "pnpm", "installing", "state"}
       => state = None
  /\ pc[p] \in {"remove", "removed", "fetch"} =>
       \A t \in Tools : t < next[p] => Placed(p, t)
  /\ pc[p] \in {"wrap", "verify", "pnpm", "installing", "state", "fill"} =>
       \A t \in Tools : Placed(p, t)
  /\ pc[p] = "wrap" => \A t \in Tools : t < next[p] => Wrapped(p, t)
  /\ pc[p] \in {"verify", "pnpm", "installing", "state", "fill"} =>
       \A t \in Tools : Wrapped(p, t)
  /\ pc[p] = "fill" => /\ state \in Seals
                       /\ ~state.whole
                       /\ state.versions = VersionsOf(loaded[p])

Phases == \A p \in Bootstraps : Phase(p)

Compared == \A p \in Procs : pc[p] \in {"probe", "passed"} =>
  state \in Seals /\ state.whole /\ state.versions = VersionsOf(loaded[p])

IInv == TypeOK /\ LockOK /\ Phases /\ StateVouches /\ Compared

-----------------------------------------------------------------------------
\* A working bootstrap is alone inside the lock.
LEMMA WriterIsAlone ==
  ASSUME TypeOK, LockOK, NEW p \in Bootstraps, pc[p] \in Working,
         NEW q \in Procs, q # p
  PROVE  pc[q] \notin Working
BY NoneIsNothing DEF TypeOK, LockOK, Exclusive, Shared, Apart, Procs

LEMMA VersionsTyped ==
  ASSUME NEW m \in Manifests
  PROVE  VersionsOf(m) \in [Tools -> Versions]
BY DEF Manifests, Pins, VersionsOf

LEMMA DestinationTyped ==
  ASSUME TypeOK, NEW p \in Procs
  PROVE  /\ next[p] \in Tools
         /\ Destination(p) \in Versions
         /\ loaded[p][next[p]].sum \in Sums
BY DEF TypeOK, Manifests, Pins, Destination

LEMMA AdvanceTyped ==
  ASSUME TypeOK, NEW p \in Procs, NEW here, NEW again, NEW done,
         Advance(p, here, again, done), {again, done} \subseteq Working
  PROVE  /\ pc' \in [Procs -> Working \union Over \union {"idle", "waiting"}]
         /\ next' \in [Procs -> Tools]
<1>1. /\ next[p] \in Nat
      /\ next[p] + 1 \in Tools \/ next[p] = NumTools
      /\ 1 \in Tools
  BY ToolsAssumption DEF TypeOK, Tools
<1>2. CASE next[p] = NumTools
  BY <1>1, <1>2 DEF TypeOK, Advance, Goto
<1>3. CASE next[p] # NumTools
  BY <1>1, <1>3 DEF TypeOK, Advance, Goto
<1> QED BY <1>2, <1>3

LEMMA BlankTyped == TypeOK \/ Init => Blank \in Manifests
BY DEF TypeOK, Init, Blank

LEMMA ReleaseTyped ==
  ASSUME TypeOK, NEW p \in Procs, Release(p)
  PROVE  /\ writer' \in Bootstraps \union {None}
         /\ readers' \subseteq Users
         /\ expects' \in [Procs -> [Tools -> Versions]]
         /\ loaded' \in [Procs -> Manifests]
         /\ next' \in [Procs -> Tools]
<1>1. 1 \in Tools
  BY ToolsAssumption DEF Tools
<1> QED BY <1>1, BlankTyped, VersionsTyped DEF Release, TypeOK

LEMMA TypeInit == Init => TypeOK
BY VersionsTyped, BlankTyped, ToolsAssumption
   DEF Init, TypeOK, Seal, Seals, Tools, Working, Over

LEMMA TypeStep == TypeOK /\ LockOK /\ Phases /\ [Next]_vars => TypeOK'
<1> SUFFICES ASSUME TypeOK, LockOK, Phases, [Next]_vars PROVE TypeOK'
  OBVIOUS
<1>1. CASE UNCHANGED vars
  BY <1>1 DEF TypeOK, vars, tree, lock, mem
<1>2. ASSUME NEW p \in Procs, Begin(p) \/ Step(p) \/ Kill(p) PROVE TypeOK'
  <2>1. CASE Begin(p)
    BY <2>1, VersionsTyped, ToolsAssumption
       DEF Begin, Goto, TypeOK, tree, lock, mem, Working, Over,
           Installing, Tools, Manifests, Pins, Procs
  <2>2. CASE AcquireExclusive(p)
    BY <2>2, VersionsTyped, ToolsAssumption
       DEF AcquireExclusive, Goto, TypeOK, tree, lock, mem, Working, Over,
           Installing, Tools, Manifests, Pins, Procs
  <2>3. CASE AcquireShared(p)
    BY <2>3, VersionsTyped, ToolsAssumption
       DEF AcquireShared, Goto, TypeOK, tree, lock, mem, Working, Over,
           Installing, Tools, Manifests, Pins, Procs
  <2>4. CASE LoadManifest(p)
    BY <2>4, VersionsTyped, ToolsAssumption
       DEF LoadManifest, Goto, TypeOK, tree, lock, mem, Working, Over,
           Installing, Tools, Manifests, Pins, Procs
  <2>5. CASE RemoveState(p)
    BY <2>5, VersionsTyped, ToolsAssumption
       DEF RemoveState, Goto, TypeOK, tree, lock, mem, Working, Over,
           Installing, Tools, Manifests, Pins, Procs
  <2>6. CASE StartRemove(p)
    BY <2>6, VersionsTyped, ToolsAssumption
       DEF StartRemove, Goto, SetDestination, Destination, TypeOK, tree, lock, mem, Working, Over,
           Installing, Tools, Manifests, Pins, Procs
  <2>7. CASE EndRemove(p)
    BY <2>7, VersionsTyped, ToolsAssumption
       DEF EndRemove, Goto, SetDestination, Destination, TypeOK, tree, lock, mem, Working, Over,
           Installing, Tools, Manifests, Pins, Procs
  <2>8. CASE Place(p)
    BY <2>8, DestinationTyped, AdvanceTyped
       DEF Place, SetDestination, TypeOK, tree, lock, Working, Installing
  <2>9. CASE WriteWrapper(p)
    BY <2>9, DestinationTyped, AdvanceTyped
       DEF WriteWrapper, TypeOK, tree, lock, Working, Installing
  <2>10. CASE Verify(p)
    BY <2>10, VersionsTyped, ToolsAssumption
       DEF Verify, Goto, TypeOK, tree, lock, mem, Working, Over,
           Installing, Tools, Manifests, Pins, Procs
  <2>11. CASE StartInstall(p)
    BY <2>11, VersionsTyped, ToolsAssumption
       DEF StartInstall, Goto, TypeOK, tree, lock, mem, Working, Over,
           Installing, Tools, Manifests, Pins, Procs
  <2>12. CASE EndInstall(p)
    BY <2>12, VersionsTyped, ToolsAssumption
       DEF EndInstall, Goto, TypeOK, tree, lock, mem, Working, Over,
           Installing, Tools, Manifests, Pins, Procs
  <2>13. CASE CreateState(p)
    BY <2>13, VersionsTyped, ToolsAssumption
       DEF CreateState, Goto, Seal, Seals, TypeOK, tree, lock, mem, Working, Over,
           Installing, Tools, Manifests, Pins, Procs
  <2>14. CASE FillState(p)
    <3>1. p \in Bootstraps
      BY <2>14 DEF FillState, Goto, LockOK, Places, Over
    <3>2. state \in Seals
      BY <2>14, <3>1 DEF FillState, Goto, Phases, Phase
    <3>3. state' \in Seals
      BY <2>14, <3>2 DEF FillState, Seals
    <3> QED BY <2>14, <3>3 DEF FillState, Goto, TypeOK, lock, mem, Working
  <2>15. CASE Reload(p)
    BY <2>15, VersionsTyped, ToolsAssumption
       DEF Reload, Goto, TypeOK, tree, lock, mem, Working, Over,
           Installing, Tools, Manifests, Pins, Procs
  <2>16. CASE Compare(p)
    BY <2>16, VersionsTyped, ToolsAssumption
       DEF Compare, Goto, Seal, Seals, TypeOK, tree, lock, mem, Working, Over,
           Installing, Tools, Manifests, Pins, Procs
  <2>17. CASE Probe(p)
    BY <2>17, VersionsTyped, ToolsAssumption
       DEF Probe, Goto, TypeOK, tree, lock, mem, Working, Over,
           Installing, Tools, Manifests, Pins, Procs
  <2>18. CASE End(p)
    BY <2>18, ReleaseTyped DEF End, TypeOK, LockOK, Places, tree, Working, Over
  <2>19. CASE Fail(p)
    BY <2>19, ReleaseTyped DEF Fail, TypeOK, LockOK, Places, tree, Working, Over
  <2>20. CASE Kill(p)
    BY <2>20, ReleaseTyped DEF Kill, TypeOK, LockOK, Places, tree, Working, Over
  <2> QED BY <1>2, <2>1, <2>2, <2>3, <2>4, <2>5, <2>6, <2>7, <2>8, <2>9, <2>10, <2>11, <2>12, <2>13, <2>14, <2>15, <2>16, <2>17, <2>18, <2>19, <2>20 DEF Step
<1>3. ASSUME NEW p \in Bootstraps, OrphanEnds(p) PROVE TypeOK'
  BY <1>3 DEF OrphanEnds, TypeOK, tree, lock, mem
<1>4. CASE EditManifest
  BY <1>4 DEF EditManifest, TypeOK, tree, lock, mem
<1> QED BY <1>1, <1>2, <1>3, <1>4 DEF Next

LEMMA LockInit == Init => LockOK
BY DEF Init, LockOK, Places, Exclusive, Shared, Apart, Working, Installing, Over,
       Procs

LEMMA LockStep == TypeOK /\ LockOK /\ [Next]_vars => LockOK'
<1> SUFFICES ASSUME TypeOK, LockOK, [Next]_vars PROVE LockOK'
  OBVIOUS
<1> USE DEF LockOK, Places, Exclusive, Shared, Apart
<1>1. CASE UNCHANGED vars
  BY <1>1 DEF vars, lock
<1>2. ASSUME NEW p \in Procs, Begin(p) \/ Step(p) \/ Kill(p) PROVE LockOK'
  <2>1. CASE Begin(p)
    BY <2>1, NoneIsNothing
       DEF Begin, Goto, TypeOK, tree, lock, mem, Working, Over, Installing, Procs
  <2>2. CASE AcquireExclusive(p)
    BY <2>2, NoneIsNothing
       DEF AcquireExclusive, Goto, TypeOK, tree, lock, mem, Working, Over, Installing, Procs
  <2>3. CASE AcquireShared(p)
    <3>1. /\ p \in Users /\ p \notin Bootstraps
          /\ writer = None /\ writer' = writer
          /\ readers' = readers \union {p}
      BY <2>3, KindsAreDisjoint DEF AcquireShared
    <3>2. \/ pc' = [pc EXCEPT ![p] = "reload"]
          \/ pc' = [pc EXCEPT ![p] = "using"]
      BY <2>3 DEF AcquireShared, Goto
    <3> QED BY <3>1, <3>2, NoneIsNothing
            DEF TypeOK, Working, Over, Installing, Procs
  <2>4. CASE LoadManifest(p)
    BY <2>4, NoneIsNothing
       DEF LoadManifest, Goto, TypeOK, tree, lock, mem, Working, Over, Installing, Procs
  <2>5. CASE RemoveState(p)
    BY <2>5, NoneIsNothing
       DEF RemoveState, Goto, TypeOK, tree, lock, mem, Working, Over, Installing, Procs
  <2>6. CASE StartRemove(p)
    BY <2>6, NoneIsNothing
       DEF StartRemove, Goto, SetDestination, Destination, TypeOK, tree, lock, mem, Working, Over, Installing, Procs
  <2>7. CASE EndRemove(p)
    BY <2>7, NoneIsNothing
       DEF EndRemove, Goto, SetDestination, Destination, TypeOK, tree, lock, mem, Working, Over, Installing, Procs
  <2>8. CASE Place(p)
    <3>1. pc[p] = "fetch" /\ (pc' = [pc EXCEPT ![p] = "wrap"]
                              \/ pc' = [pc EXCEPT ![p] = "remove"])
      BY <2>8 DEF Place, Advance, Goto
    <3> QED BY <2>8, <3>1 DEF Place, TypeOK, lock, Working, Over, Installing, Procs
  <2>9. CASE WriteWrapper(p)
    <3>1. pc[p] = "wrap" /\ (pc' = [pc EXCEPT ![p] = "wrap"]
                             \/ pc' = [pc EXCEPT ![p] = "verify"])
      BY <2>9 DEF WriteWrapper, Advance, Goto
    <3> QED BY <2>9, <3>1 DEF WriteWrapper, TypeOK, lock, Working, Over, Installing, Procs
  <2>10. CASE Verify(p)
    BY <2>10, NoneIsNothing
       DEF Verify, Goto, TypeOK, tree, lock, mem, Working, Over, Installing, Procs
  <2>11. CASE StartInstall(p)
    BY <2>11, NoneIsNothing
       DEF StartInstall, Goto, TypeOK, tree, lock, mem, Working, Over, Installing, Procs
  <2>12. CASE EndInstall(p)
    BY <2>12, NoneIsNothing
       DEF EndInstall, Goto, TypeOK, tree, lock, mem, Working, Over, Installing, Procs
  <2>13. CASE CreateState(p)
    BY <2>13, NoneIsNothing
       DEF CreateState, Goto, Seal, Seals, TypeOK, tree, lock, mem, Working, Over, Installing, Procs
  <2>14. CASE FillState(p)
    BY <2>14, NoneIsNothing
       DEF FillState, Goto, TypeOK, tree, lock, mem, Working, Over, Installing, Procs
  <2>15. CASE Reload(p)
    BY <2>15, NoneIsNothing
       DEF Reload, Goto, TypeOK, tree, lock, mem, Working, Over, Installing, Procs
  <2>16. CASE Compare(p)
    BY <2>16, NoneIsNothing
       DEF Compare, Goto, Seal, Seals, TypeOK, tree, lock, mem, Working, Over, Installing, Procs
  <2>17. CASE Probe(p)
    BY <2>17, NoneIsNothing
       DEF Probe, Goto, TypeOK, tree, lock, mem, Working, Over, Installing, Procs
  <2>18. CASE End(p)
    BY <2>18, NoneIsNothing
       DEF End, Goto, Release, TypeOK, tree, lock, mem, Working, Over, Installing, Procs
  <2>19. CASE Fail(p)
    BY <2>19, NoneIsNothing
       DEF Fail, Goto, Release, TypeOK, tree, lock, mem, Working, Over, Installing, Procs
  <2>20. CASE Kill(p)
    BY <2>20, NoneIsNothing
       DEF Kill, Goto, Release, TypeOK, tree, lock, mem, Working, Over, Installing, Procs
  <2> QED BY <1>2, <2>1, <2>2, <2>3, <2>4, <2>5, <2>6, <2>7, <2>8, <2>9, <2>10, <2>11, <2>12, <2>13, <2>14, <2>15, <2>16, <2>17, <2>18, <2>19, <2>20 DEF Step
<1>3. ASSUME NEW p \in Bootstraps, OrphanEnds(p) PROVE LockOK'
  BY <1>3 DEF OrphanEnds, lock
<1>4. CASE EditManifest
  BY <1>4 DEF EditManifest, lock
<1> QED BY <1>1, <1>2, <1>3, <1>4 DEF Next
-----------------------------------------------------------------------------
LEMMA PhaseOfOutsiders ==
  ASSUME NEW q, pc'[q] \notin Working
  PROVE  Phase(q)'
BY DEF Phase, Working, Installing

\* A step that leaves the tool root and the other commands alone disturbs
\* nothing but what is said of its own command.
Others(p) == \A q \in Procs : q # p =>
  pc'[q] = pc[q] /\ loaded'[q] = loaded[q] /\ next'[q] = next[q]

LEMMA LocalStep ==
  ASSUME IInv, NEW p \in Procs, UNCHANGED tree, Others(p),
         p \in Bootstraps => Phase(p)',
         pc'[p] \in {"probe", "passed"} =>
           /\ state \in Seals /\ state.whole
           /\ state.versions = VersionsOf(loaded'[p])
  PROVE  (Phases /\ StateVouches /\ Compared)'
<1>1. ASSUME NEW q \in Bootstraps, q # p PROVE Phase(q)'
  BY <1>1 DEF IInv, Phases, Phase, Others, Procs, Placed, Wrapped, tree,
              VersionsOf
<1>2. StateVouches'
  BY DEF IInv, StateVouches, tree
<1>3. Compared'
  BY DEF IInv, Compared, Others, tree, VersionsOf
<1> QED BY <1>1, <1>2, <1>3 DEF Phases

LEMMA PhaseInit == Init => Phases /\ StateVouches /\ Compared
BY NoneIsNoSeal
   DEF Init, Phases, Phase, StateVouches, Compared, Installing, Procs

LEMMA PhaseStep == IInv /\ [Next]_vars => (Phases /\ StateVouches /\ Compared)'
<1> DEFINE Goal == Phases /\ StateVouches /\ Compared
<1> SUFFICES ASSUME IInv, [Next]_vars PROVE Goal'
  OBVIOUS
<1> USE DEF IInv
<1>1. CASE UNCHANGED vars
  BY <1>1 DEF vars, tree, mem, Phases, Phase, Placed, Wrapped, VersionsOf,
              StateVouches, Compared
<1>2. ASSUME NEW p \in Procs, Begin(p) \/ Step(p) \/ Kill(p) PROVE Goal'
  <2> p \in Bootstraps => Phase(p)
    BY DEF Phases
  <2>1. CASE Begin(p)
    <3>1. UNCHANGED tree /\ Others(p)
      BY <2>1 DEF Begin, Goto, TypeOK, Others, mem
    <3>2. p \in Bootstraps => Phase(p)'
      BY <2>1 DEF Begin, Goto, TypeOK, Phase, Placed, Wrapped, VersionsOf,
                tree, mem, Working, Installing
    <3>3. pc'[p] \in {"probe", "passed"} =>
            /\ state \in Seals /\ state.whole
            /\ state.versions = VersionsOf(loaded'[p])
      BY <2>1 DEF Begin, Goto, TypeOK, Compared, mem
    <3> QED BY <3>1, <3>2, <3>3, LocalStep
  <2>2. CASE AcquireExclusive(p)
    <3>1. UNCHANGED tree /\ Others(p)
      BY <2>2 DEF AcquireExclusive, Goto, TypeOK, Others, mem
    <3>2. p \in Bootstraps => Phase(p)'
      BY <2>2 DEF AcquireExclusive, Goto, TypeOK, Phase, Placed, Wrapped, VersionsOf,
                tree, mem, Working, Installing
    <3>3. pc'[p] \in {"probe", "passed"} =>
            /\ state \in Seals /\ state.whole
            /\ state.versions = VersionsOf(loaded'[p])
      BY <2>2 DEF AcquireExclusive, Goto, TypeOK, Compared, mem
    <3> QED BY <3>1, <3>2, <3>3, LocalStep
  <2>3. CASE AcquireShared(p)
    <3>1. UNCHANGED tree /\ Others(p)
      BY <2>3 DEF AcquireShared, Goto, TypeOK, Others, mem
    <3>2. p \in Bootstraps => Phase(p)'
      BY <2>3 DEF AcquireShared, Goto, TypeOK, Phase, Placed, Wrapped, VersionsOf,
                tree, mem, Working, Installing
    <3>3. pc'[p] \in {"probe", "passed"} =>
            /\ state \in Seals /\ state.whole
            /\ state.versions = VersionsOf(loaded'[p])
      BY <2>3 DEF AcquireShared, Goto, TypeOK, Compared, mem
    <3> QED BY <3>1, <3>2, <3>3, LocalStep
  <2>4. CASE LoadManifest(p)
    <3>1. UNCHANGED tree /\ Others(p)
      BY <2>4 DEF LoadManifest, Goto, TypeOK, Others, mem
    <3>2. p \in Bootstraps => Phase(p)'
      BY <2>4 DEF LoadManifest, Goto, TypeOK, Phase, Placed, Wrapped, VersionsOf,
                tree, mem, Working, Installing
    <3>3. pc'[p] \in {"probe", "passed"} =>
            /\ state \in Seals /\ state.whole
            /\ state.versions = VersionsOf(loaded'[p])
      BY <2>4 DEF LoadManifest, Goto, TypeOK, Compared, mem
    <3> QED BY <3>1, <3>2, <3>3, LocalStep
  <2>5. CASE RemoveState(p)
    <3>1. p \in Bootstraps /\ pc[p] \in Working
      BY <2>5 DEF RemoveState, Goto, LockOK, Places, Working, Installing, Over
    <3>2. \A q \in Procs : q # p => pc'[q] \notin Working
      BY <2>5, <3>1, WriterIsAlone DEF RemoveState, Goto, TypeOK
    <3>3. Phase(p)'
      <4> \A t \in Tools : ~(t < 1)
        BY DEF Tools
      <4> QED BY <2>5, <3>1 DEF RemoveState, Goto, TypeOK, Phase, Working, Installing
    <3>4. StateVouches'
      BY <2>5, <3>1, NoneIsNoSeal DEF RemoveState, Goto, Phase, StateVouches, Installing
    <3>5. Compared'
      BY <2>5, <3>1, <3>2 DEF RemoveState, Goto, TypeOK, Compared, Working
    <3> QED BY <3>2, <3>3, <3>4, <3>5, PhaseOfOutsiders DEF Phases, Procs
  <2>6. CASE StartRemove(p)
    <3>1. p \in Bootstraps /\ pc[p] \in Working
      BY <2>6 DEF StartRemove, Goto, SetDestination, LockOK, Places, Working, Installing, Over
    <3>2. \A q \in Procs : q # p => pc'[q] \notin Working
      BY <2>6, <3>1, WriterIsAlone DEF StartRemove, Goto, SetDestination, TypeOK
    <3>3. Phase(p)'
      <4>1. \A t \in Tools : t < next[p] => dir'[t] = dir[t]
        BY <2>6, DestinationTyped DEF StartRemove, SetDestination, TypeOK, Tools
      <4> QED BY <2>6, <3>1, <4>1 DEF StartRemove, Goto, Phase, Placed, TypeOK, mem,
                                    Installing
    <3>4. StateVouches'
      BY <2>6, <3>1, NoneIsNoSeal DEF StartRemove, Goto, SetDestination, Phase, StateVouches, Installing
    <3>5. Compared'
      BY <2>6, <3>1, <3>2 DEF StartRemove, Goto, SetDestination, TypeOK, Compared, Working
    <3> QED BY <3>2, <3>3, <3>4, <3>5, PhaseOfOutsiders DEF Phases, Procs
  <2>7. CASE EndRemove(p)
    <3>1. p \in Bootstraps /\ pc[p] \in Working
      BY <2>7 DEF EndRemove, Goto, SetDestination, LockOK, Places, Working, Installing, Over
    <3>2. \A q \in Procs : q # p => pc'[q] \notin Working
      BY <2>7, <3>1, WriterIsAlone DEF EndRemove, Goto, SetDestination, TypeOK
    <3>3. Phase(p)'
      <4>1. \A t \in Tools : t < next[p] => dir'[t] = dir[t]
        BY <2>7, DestinationTyped DEF EndRemove, SetDestination, TypeOK, Tools
      <4> QED BY <2>7, <3>1, <4>1 DEF EndRemove, Goto, Phase, Placed, TypeOK, mem,
                                    Installing
    <3>4. StateVouches'
      BY <2>7, <3>1, NoneIsNoSeal DEF EndRemove, Goto, SetDestination, Phase, StateVouches, Installing
    <3>5. Compared'
      BY <2>7, <3>1, <3>2 DEF EndRemove, Goto, SetDestination, TypeOK, Compared, Working
    <3> QED BY <3>2, <3>3, <3>4, <3>5, PhaseOfOutsiders DEF Phases, Procs
  <2>8. CASE Place(p)
    <3>1. p \in Bootstraps /\ pc[p] \in Working
      BY <2>8 DEF Place, Goto, Advance, SetDestination, Destination, LockOK, Places, Working, Installing, Over
    <3>2. \A q \in Procs : q # p => pc'[q] \notin Working
      BY <2>8, <3>1, WriterIsAlone DEF Place, Goto, Advance, SetDestination, Destination, TypeOK
    <3>3. Phase(p)'
      <4>1. /\ loaded' = loaded /\ state' = state
            /\ dir' = [dir EXCEPT ![next[p]][Destination(p)]
                                  = loaded[p][next[p]].sum]
        BY <2>8 DEF Place, SetDestination
      <4>2. ASSUME NEW t \in Tools, t = next[p] PROVE Placed(p, t)'
        BY <4>1, <4>2, DestinationTyped DEF Placed, Destination, TypeOK
      <4>3. ASSUME NEW t \in Tools, t < next[p] PROVE Placed(p, t)'
        <5>1. pc[p] = "fetch"
          BY <2>8 DEF Place, Advance, Goto
        <5>2. Placed(p, t) /\ t # next[p]
          BY <3>1, <4>3, <5>1, DestinationTyped DEF Phase, Tools
        <5> QED BY <4>1, <5>2, DestinationTyped DEF Placed, TypeOK
      <4>4. state = None
        BY <2>8, <3>1 DEF Place, Advance, Goto, Phase, Installing
      <4>5. CASE next[p] = NumTools
        <5>1. pc'[p] = "wrap" /\ next'[p] = 1
          BY <2>8, <4>5 DEF Place, Advance, Goto, TypeOK
        <5>2. \A t \in Tools : Placed(p, t)' /\ ~(t < 1)
          BY <4>2, <4>3, <4>5, ToolsAssumption DEF Tools
        <5> QED BY <4>1, <4>4, <5>1, <5>2 DEF Phase, Installing
      <4>6. CASE next[p] # NumTools
        <5>1. pc'[p] = "remove" /\ next'[p] = next[p] + 1
          BY <2>8, <4>6 DEF Place, Advance, Goto, TypeOK
        <5>2. \A t \in Tools : t < next'[p] => Placed(p, t)'
          BY <4>2, <4>3, <5>1, DestinationTyped DEF Tools
        <5> QED BY <4>1, <4>4, <5>1, <5>2 DEF Phase, Installing
      <4> QED BY <4>5, <4>6
    <3>4. StateVouches'
      BY <2>8, <3>1, NoneIsNoSeal DEF Place, Goto, Advance, SetDestination, Destination, Phase, StateVouches, Installing
    <3>5. Compared'
      BY <2>8, <3>1, <3>2 DEF Place, Goto, Advance, SetDestination, Destination, TypeOK, Compared, Working
    <3> QED BY <3>2, <3>3, <3>4, <3>5, PhaseOfOutsiders DEF Phases, Procs
  <2>9. CASE WriteWrapper(p)
    <3>1. p \in Bootstraps /\ pc[p] \in Working
      BY <2>9 DEF WriteWrapper, Goto, Advance, Destination, LockOK, Places, Working, Installing, Over
    <3>2. \A q \in Procs : q # p => pc'[q] \notin Working
      BY <2>9, <3>1, WriterIsAlone DEF WriteWrapper, Goto, Advance, Destination, TypeOK
    <3>3. Phase(p)'
      <4>1. /\ loaded' = loaded /\ state' = state /\ dir' = dir
            /\ wrap' = [wrap EXCEPT ![next[p]] = Destination(p)]
            /\ pc[p] = "wrap"
        BY <2>9 DEF WriteWrapper, Advance, Goto
      <4>2. state = None /\ \A t \in Tools : Placed(p, t)'
        BY <3>1, <4>1 DEF Phase, Placed, Installing
      <4>3. \A t \in Tools : t < next[p] \/ t = next[p] => Wrapped(p, t)'
        BY <3>1, <4>1, DestinationTyped
           DEF Phase, Wrapped, Destination, TypeOK, Tools
      <4>4. CASE next[p] = NumTools
        <5>1. pc'[p] = "verify"
          BY <2>9, <4>4 DEF WriteWrapper, Advance, Goto, TypeOK
        <5>2. \A t \in Tools : Wrapped(p, t)'
          BY <4>3, <4>4, ToolsAssumption DEF Tools
        <5> QED BY <4>1, <4>2, <5>1, <5>2 DEF Phase, Installing
      <4>5. CASE next[p] # NumTools
        <5>1. pc'[p] = "wrap" /\ next'[p] = next[p] + 1
          BY <2>9, <4>5 DEF WriteWrapper, Advance, Goto, TypeOK
        <5>2. \A t \in Tools : t < next'[p] => Wrapped(p, t)'
          BY <4>3, <5>1, DestinationTyped DEF Tools
        <5> QED BY <4>1, <4>2, <5>1, <5>2 DEF Phase, Installing
      <4> QED BY <4>4, <4>5
    <3>4. StateVouches'
      BY <2>9, <3>1, NoneIsNoSeal DEF WriteWrapper, Goto, Advance, Destination, Phase, StateVouches, Installing
    <3>5. Compared'
      BY <2>9, <3>1, <3>2 DEF WriteWrapper, Goto, Advance, Destination, TypeOK, Compared, Working
    <3> QED BY <3>2, <3>3, <3>4, <3>5, PhaseOfOutsiders DEF Phases, Procs
  <2>10. CASE Verify(p)
    <3>1. UNCHANGED tree /\ Others(p)
      BY <2>10 DEF Verify, Goto, TypeOK, Others, mem
    <3>2. p \in Bootstraps => Phase(p)'
      BY <2>10 DEF Verify, Goto, TypeOK, Phase, Placed, Wrapped, VersionsOf,
                tree, mem, Working, Installing
    <3>3. pc'[p] \in {"probe", "passed"} =>
            /\ state \in Seals /\ state.whole
            /\ state.versions = VersionsOf(loaded'[p])
      BY <2>10 DEF Verify, Goto, TypeOK, Compared, mem
    <3> QED BY <3>1, <3>2, <3>3, LocalStep
  <2>11. CASE StartInstall(p)
    <3>1. UNCHANGED tree /\ Others(p)
      BY <2>11 DEF StartInstall, Goto, TypeOK, Others, mem
    <3>2. p \in Bootstraps => Phase(p)'
      BY <2>11 DEF StartInstall, Goto, TypeOK, Phase, Placed, Wrapped, VersionsOf,
                tree, mem, Working, Installing
    <3>3. pc'[p] \in {"probe", "passed"} =>
            /\ state \in Seals /\ state.whole
            /\ state.versions = VersionsOf(loaded'[p])
      BY <2>11 DEF StartInstall, Goto, TypeOK, Compared, mem
    <3> QED BY <3>1, <3>2, <3>3, LocalStep
  <2>12. CASE EndInstall(p)
    <3>1. UNCHANGED tree /\ Others(p)
      BY <2>12 DEF EndInstall, Goto, TypeOK, Others, mem
    <3>2. p \in Bootstraps => Phase(p)'
      BY <2>12 DEF EndInstall, Goto, TypeOK, Phase, Placed, Wrapped, VersionsOf,
                tree, mem, Working, Installing
    <3>3. pc'[p] \in {"probe", "passed"} =>
            /\ state \in Seals /\ state.whole
            /\ state.versions = VersionsOf(loaded'[p])
      BY <2>12 DEF EndInstall, Goto, TypeOK, Compared, mem
    <3> QED BY <3>1, <3>2, <3>3, LocalStep
  <2>13. CASE CreateState(p)
    <3>1. p \in Bootstraps /\ pc[p] \in Working
      BY <2>13 DEF CreateState, Goto, Seal, LockOK, Places, Working, Installing, Over
    <3>2. \A q \in Procs : q # p => pc'[q] \notin Working
      BY <2>13, <3>1, WriterIsAlone DEF CreateState, Goto, Seal, TypeOK
    <3>3. Phase(p)'
      <4>1. /\ Seal(manifest, loaded[p], FALSE) \in Seals
            /\ Seal(manifest, loaded[p], FALSE).versions = VersionsOf(loaded[p])
            /\ ~Seal(manifest, loaded[p], FALSE).whole
        BY VersionsTyped DEF Seal, Seals, TypeOK
      <4> QED BY <2>13, <3>1, <4>1 DEF CreateState, Goto, TypeOK, Phase, Placed,
                                   Wrapped, VersionsOf, mem, Installing
    <3>4. StateVouches'
      BY <2>13, <3>1, NoneIsNoSeal DEF CreateState, Goto, Seal, Phase, StateVouches, Installing
    <3>5. Compared'
      BY <2>13, <3>1, <3>2 DEF CreateState, Goto, Seal, TypeOK, Compared, Working
    <3> QED BY <3>2, <3>3, <3>4, <3>5, PhaseOfOutsiders DEF Phases, Procs
  <2>14. CASE FillState(p)
    <3>1. p \in Bootstraps /\ pc[p] \in Working
      BY <2>14 DEF FillState, Goto, LockOK, Places, Working, Installing, Over
    <3>2. \A q \in Procs : q # p => pc'[q] \notin Working
      BY <2>14, <3>1, WriterIsAlone DEF FillState, Goto, TypeOK
    <3>3. Phase(p)'
      BY <2>14, <3>1 DEF FillState, Goto, TypeOK, Phase, Placed, Wrapped, VersionsOf,
                    tree, mem, Working, Installing
    <3>4. StateVouches'
      <4>1. /\ state' = [state EXCEPT !.whole = TRUE] /\ dir' = dir /\ wrap' = wrap
            /\ pc[p] = "fill"
        BY <2>14 DEF FillState, Goto
      <4>2. /\ state \in Seals /\ state.versions = VersionsOf(loaded[p])
            /\ \A t \in Tools : Placed(p, t) /\ Wrapped(p, t)
        BY <3>1, <4>1 DEF Phase
      <4>3. \A t \in Tools : state'.versions[t] = loaded[p][t].version
        BY <4>1, <4>2 DEF VersionsOf, Seals
      <4> QED BY <4>1, <4>2, <4>3 DEF StateVouches, Placed, Wrapped
    <3>5. Compared'
      BY <2>14, <3>1, <3>2 DEF FillState, Goto, TypeOK, Compared, Working
    <3> QED BY <3>2, <3>3, <3>4, <3>5, PhaseOfOutsiders DEF Phases, Procs
  <2>15. CASE Reload(p)
    <3>1. UNCHANGED tree /\ Others(p)
      BY <2>15 DEF Reload, Goto, TypeOK, Others, mem
    <3>2. p \in Bootstraps => Phase(p)'
      BY <2>15 DEF Reload, Goto, TypeOK, Phase, Placed, Wrapped, VersionsOf,
                tree, mem, Working, Installing
    <3>3. pc'[p] \in {"probe", "passed"} =>
            /\ state \in Seals /\ state.whole
            /\ state.versions = VersionsOf(loaded'[p])
      BY <2>15 DEF Reload, Goto, TypeOK, Compared, mem
    <3> QED BY <3>1, <3>2, <3>3, LocalStep
  <2>16. CASE Compare(p)
    <3>1. UNCHANGED tree /\ Others(p)
      BY <2>16 DEF Compare, Goto, TypeOK, Others, mem
    <3>2. p \in Bootstraps => Phase(p)'
      BY <2>16 DEF Compare, Goto, TypeOK, Phase, Placed, Wrapped, VersionsOf,
                tree, mem, Working, Installing
    <3>3. state \in Seals /\ state.whole /\ state.versions = VersionsOf(loaded'[p])
      BY <2>16, VersionsTyped DEF Compare, Seal, Seals, TypeOK, mem
    <3> QED BY <3>1, <3>2, <3>3, LocalStep
  <2>17. CASE Probe(p)
    <3>1. UNCHANGED tree /\ Others(p)
      BY <2>17 DEF Probe, Goto, TypeOK, Others, mem
    <3>2. p \in Bootstraps => Phase(p)'
      BY <2>17 DEF Probe, Goto, TypeOK, Phase, Placed, Wrapped, VersionsOf,
                tree, mem, Working, Installing
    <3>3. pc'[p] \in {"probe", "passed"} =>
            /\ state \in Seals /\ state.whole
            /\ state.versions = VersionsOf(loaded'[p])
      BY <2>17 DEF Probe, Goto, TypeOK, Compared, mem
    <3> QED BY <3>1, <3>2, <3>3, LocalStep
  <2>18. CASE End(p)
    <3>1. UNCHANGED tree /\ Others(p)
      BY <2>18 DEF End, Release, TypeOK, Others, mem
    <3>2. p \in Bootstraps => Phase(p)'
      BY <2>18 DEF End, Release, TypeOK, Phase, Placed, Wrapped, VersionsOf,
                tree, mem, Working, Installing
    <3>3. pc'[p] \in {"probe", "passed"} =>
            /\ state \in Seals /\ state.whole
            /\ state.versions = VersionsOf(loaded'[p])
      BY <2>18 DEF End, Release, TypeOK, Compared, mem
    <3> QED BY <3>1, <3>2, <3>3, LocalStep
  <2>19. CASE Fail(p)
    <3>1. UNCHANGED tree /\ Others(p)
      BY <2>19 DEF Fail, Release, TypeOK, Others, mem
    <3>2. p \in Bootstraps => Phase(p)'
      BY <2>19 DEF Fail, Release, TypeOK, Phase, Placed, Wrapped, VersionsOf,
                tree, mem, Working, Installing
    <3>3. pc'[p] \in {"probe", "passed"} =>
            /\ state \in Seals /\ state.whole
            /\ state.versions = VersionsOf(loaded'[p])
      BY <2>19 DEF Fail, Release, TypeOK, Compared, mem
    <3> QED BY <3>1, <3>2, <3>3, LocalStep
  <2>20. CASE Kill(p)
    <3>1. UNCHANGED tree /\ Others(p)
      BY <2>20 DEF Kill, Release, TypeOK, Others, mem
    <3>2. p \in Bootstraps => Phase(p)'
      BY <2>20 DEF Kill, Release, TypeOK, Phase, Placed, Wrapped, VersionsOf,
                tree, mem, Working, Installing
    <3>3. pc'[p] \in {"probe", "passed"} =>
            /\ state \in Seals /\ state.whole
            /\ state.versions = VersionsOf(loaded'[p])
      BY <2>20 DEF Kill, Release, TypeOK, Compared, mem
    <3> QED BY <3>1, <3>2, <3>3, LocalStep
  <2> QED BY <1>2, <2>1, <2>2, <2>3, <2>4, <2>5, <2>6, <2>7, <2>8, <2>9, <2>10, <2>11, <2>12, <2>13, <2>14, <2>15, <2>16, <2>17, <2>18, <2>19, <2>20 DEF Step
<1>3. ASSUME NEW p \in Bootstraps, OrphanEnds(p) PROVE Goal'
  BY <1>3 DEF OrphanEnds, tree, mem, Phases, Phase, Placed, Wrapped, VersionsOf,
              StateVouches, Compared
<1>4. CASE EditManifest
  BY <1>4 DEF EditManifest, tree, mem, Phases, Phase, Placed, Wrapped,
              VersionsOf, StateVouches, Compared
<1> QED BY <1>1, <1>2, <1>3, <1>4 DEF Next
-----------------------------------------------------------------------------
LEMMA Inductive == Spec => []IInv
<1>1. Init => IInv
  BY TypeInit, LockInit, PhaseInit DEF IInv
<1>2. IInv /\ [Next]_vars => IInv'
  BY TypeStep, LockStep, PhaseStep DEF IInv
<1> QED BY <1>1, <1>2, PTL DEF Spec

\* Every reachable state has its type (all of toolchain.py's state).
THEOREM TypeCorrect == Spec => []TypeOK
BY Inductive, PTL DEF IInv

\* A parsed state file vouches for whole tools at the versions it names,
\* wherever bootstraps were killed or failed (toolchain.py:630-659).
THEOREM StateIsTrusted == Spec => []StateVouches
BY Inductive, PTL DEF IInv

\* A passed check stands on whole tools at its manifest's versions for as
\* long as it holds the lock (toolchain.py:597-611).
THEOREM ChecksAreSound == Spec => []CheckedToolsWhole
<1>1. IInv => CheckedToolsWhole
  <2> SUFFICES ASSUME IInv, NEW p \in Procs, pc[p] = "passed", NEW t \in Tools
               PROVE  /\ wrap[t] = loaded[p][t].version
                      /\ dir[t][wrap[t]] \in Sums
    BY DEF CheckedToolsWhole
  <2>1. state \in Seals /\ state.whole /\ state.versions = VersionsOf(loaded[p])
    BY DEF IInv, Compared
  <2>2. state.versions[t] = loaded[p][t].version
    BY <2>1 DEF VersionsOf
  <2> QED BY <2>1, <2>2, NoneIsNoSeal DEF IInv, StateVouches
<1> QED BY <1>1, Inductive, PTL

\* No tool, wrapper or state changes under a shared holder
\* (tool_lock.py:65, test_toolchain.py:622).
THEOREM ReadersSeeStableTools == Spec => ToolsStable
<1> DEFINE Stable == readers \intersect readers' # {} => UNCHANGED tree
<1>1. IInv /\ [Next]_vars => [Stable]_vars
  <2> SUFFICES ASSUME IInv, [Next]_vars, readers # {} PROVE UNCHANGED tree
    OBVIOUS
  <2>1. \A p \in Bootstraps : pc[p] \notin Working
    BY NoneIsNothing DEF IInv, LockOK, Exclusive, Apart, Procs
  <2>2. \A p \in Procs : pc[p] \notin Installing \union {"deps", "state", "fill"}
    BY <2>1 DEF IInv, TypeOK, LockOK, Places, Working, Installing, Over
  <2>3. ASSUME NEW p \in Procs, Begin(p) \/ Step(p) \/ Kill(p)
        PROVE  UNCHANGED tree
    BY <2>2, <2>3
       DEF Begin, Step, Kill, AcquireExclusive, AcquireShared, LoadManifest,
           RemoveState, StartRemove, EndRemove, Place, Advance, WriteWrapper,
           Verify, StartInstall, EndInstall, CreateState, FillState, Reload,
           Compare, Probe, End, Fail, Goto, Installing, tree
  <2>4. ASSUME NEW p \in Bootstraps, OrphanEnds(p) PROVE UNCHANGED tree
    BY <2>4 DEF OrphanEnds
  <2>5. CASE EditManifest
    BY <2>5 DEF EditManifest
  <2>6. CASE UNCHANGED vars
    BY <2>6 DEF vars
  <2> QED BY <2>3, <2>4, <2>5, <2>6 DEF Next
<1> QED BY <1>1, Inductive, PTL DEF Spec, ToolsStable
=============================================================================
