----------------------------- MODULE AtomicOutput -----------------------------
(***************************************************************************)
(* The three writers of generated files in the repository:                 *)
(*   Replacers   atomic_replace_regular (scripts/dev/atomic_output.py), the *)
(*               reports of the docs and architecture checks;              *)
(*   Pathers     write_atomic_output (scripts/packets/packet_contract.py), *)
(*               the generated packet manifest;                            *)
(*   Exclusives  write_exclusive_output (same file), the runtime inventory. *)
(* A Replacer keeps a descriptor of the parent directory and works through *)
(* it; the other two name the parent by its path at every call.  Meanwhile *)
(* other programs (a checkout, a clean, an editor) may exchange the parent *)
(* or change the output, and a writer may fail or be killed at any step.   *)
(***************************************************************************)
EXTENDS Naturals, Sequences

CONSTANTS Replacers, Pathers, Exclusives,   \* calls of the three writers
          Dirs,       \* directories the parent path may come to name
          Inodes,     \* inode numbers, used again once they are free
          MaxMoves,   \* bound on what other programs do
          Other, Odd, \* who left an entry: another program; not a regular file
          None        \* no directory, no entry, no file

Writers == Replacers \union Pathers \union Exclusives
Outputs == {"file", "receipt"}

ASSUME WritersAreApart ==
  /\ Replacers \intersect Pathers = {}
  /\ (Replacers \union Pathers) \intersect Exclusives = {}
ASSUME MarksAreApart ==
  /\ {Other, Odd} \intersect Writers = {}
  /\ None \notin Dirs \union Inodes \union [ino : Inodes,
                 by : Writers \union {Other, Odd}, whole : BOOLEAN]

VARIABLES at,       \* the directory the parent path names
          link,     \* whether it names it through a symbolic link
          held,     \* what a name has held since its directory was last
                    \* synced: the last is what it holds, and a power loss
                    \* may leave any of them
          pc, home, \* the step of a call; a Replacer's open directory
          seen,     \* the identity of the output it saw first
          temp,     \* its temporary file
          result,   \* how its call ended
          moves

fs == <<at, link, held>>
vars == <<fs, pc, home, seen, temp, result, moves>>

Entry == [ino : Inodes, by : Writers \union {Other, Odd}, whole : BOOLEAN]
Temp == [dir : Dirs, ino : Inodes, whole : BOOLEAN]

Output(w) == IF w \in Exclusives THEN "receipt" ELSE "file"

\* What a name holds.  A parent that is not there holds nothing.
Holds(d, o) == IF d = None THEN None ELSE held[d][o][Len(held[d][o])]
Regular(e) == e = None \/ e.by # Odd

Identity(e) == IF e = None THEN None ELSE e.ino
Used == {Identity(Holds(d, o)) : d \in Dirs, o \in Outputs}
          \union {temp[w].ino : w \in {v \in Writers : temp[v] # None}}
Put(d, o, e) == held' = [held EXCEPT ![d][o] = Append(@, e)]

\* Where the next system call of w goes.
Parent(w) == IF w \in Replacers THEN home[w] ELSE at

TypeOK ==
  /\ at \in Dirs \union {None}
  /\ link \in BOOLEAN
  /\ \A d \in Dirs, o \in Outputs :
       held[d][o] # <<>> /\ held[d][o] \in Seq(Entry \union {None})
  /\ pc \in [Writers -> {"look", "mkdir", "open", "assert", "inspect", "stage",
                         "fill", "recheck", "publish", "sync", "cleanup",
                         "done"}]
  /\ home \in [Writers -> Dirs \union {None}]
  /\ seen \in [Writers -> Inodes \union {None}]
  /\ temp \in [Writers -> Temp \union {None}]
  /\ result \in [Writers -> {"none", "published", "refused", "error"}]
  /\ moves \in 0..MaxMoves

\* The parent may not exist yet; the output may be there from an earlier run.
Init ==
  /\ link = FALSE
  /\ \E d \in Dirs, old \in {None} \union [ino : Inodes, by : {Other}, whole : {TRUE}] :
       /\ at \in {d, None}
       /\ held = [e \in Dirs |-> [o \in Outputs |->
                    <<IF e = d /\ o = "file" THEN old ELSE None>>]]
  /\ pc = [w \in Writers |-> "look"]
  /\ home = [w \in Writers |-> None]
  /\ seen = [w \in Writers |-> None]
  /\ temp = [w \in Writers |-> None]
  /\ result = [w \in Writers |-> "none"]
  /\ moves = 0
-----------------------------------------------------------------------------
Goto(w, step) == pc' = [pc EXCEPT ![w] = step] /\ UNCHANGED result

\* The call ends, through its finally clause once it has a temporary file.
Leave(w, how) ==
  /\ result' = [result EXCEPT ![w] = how]
  /\ pc' = [pc EXCEPT ![w] = IF temp[w] = None THEN "done" ELSE "cleanup"]

\* A parent that is a link is refused; otherwise the call goes on.
Enter(w) ==
  IF link THEN Leave(w, "refused")
          ELSE Goto(w, IF w \in Replacers THEN "open" ELSE "inspect")

Look(w) ==
  /\ pc[w] = "look"
  /\ IF at = None THEN Goto(w, "mkdir") ELSE Enter(w)
  /\ UNCHANGED <<fs, home, seen, temp, moves>>

\* Another call may have made the parent in between: only a Replacer accepts.
Mkdir(w) ==
  /\ pc[w] = "mkdir"
  /\ \/ /\ at = None
        /\ at' \in {d \in Dirs : /\ \A o \in Outputs : held[d][o] = <<None>>
                                 /\ \A v \in Writers : /\ home[v] # d
                                                       /\ temp[v] # None => temp[v].dir # d}
        /\ Enter(w)
     \/ /\ at # None
        /\ IF w \in Replacers THEN Enter(w) ELSE Leave(w, "error")
        /\ UNCHANGED at
  /\ UNCHANGED <<link, held, home, seen, temp, moves>>

Open(w) ==
  /\ pc[w] = "open"
  /\ IF at = None \/ link
       THEN Leave(w, "refused") /\ UNCHANGED home
       ELSE Goto(w, "assert") /\ home' = [home EXCEPT ![w] = at]
  /\ UNCHANGED <<fs, seen, temp, moves>>

\* The path still names the open directory, and not through a link.
SameParent(w) == at = home[w] /\ ~link

AssertParent(w) ==
  /\ pc[w] = "assert"
  /\ IF SameParent(w) THEN Goto(w, "inspect") ELSE Leave(w, "refused")
  /\ UNCHANGED <<fs, home, seen, temp, moves>>

\* An Exclusive wants nothing there, the others nothing but a regular file.
Acceptable(w, e) == IF w \in Exclusives THEN e = None ELSE Regular(e)

Inspect(w) ==
  /\ pc[w] = "inspect"
  /\ LET e == Holds(Parent(w), Output(w)) IN
       IF Acceptable(w, e)
         THEN /\ Goto(w, "stage")
              /\ seen' = [seen EXCEPT ![w] = IF w \in Replacers THEN Identity(e) ELSE None]
         ELSE Leave(w, "refused") /\ UNCHANGED seen
  /\ UNCHANGED <<fs, home, temp, moves>>

\* The temporary file is created exclusively, under a name no other call uses.
Stage(w) ==
  /\ pc[w] = "stage"
  /\ \/ /\ Parent(w) # None
        /\ \E i \in Inodes \ Used :
             temp' = [temp EXCEPT ![w] = [dir |-> Parent(w), ino |-> i, whole |-> FALSE]]
        /\ Goto(w, "fill")
     \/ Parent(w) = None /\ UNCHANGED temp /\ Leave(w, "error")
  /\ UNCHANGED <<fs, home, seen, moves>>

\* Mutant: the data is not synced before it is published.
FillUnsynced(w) ==
  /\ pc[w] = "fill"
  /\ Goto(w, IF w \in Exclusives THEN "publish" ELSE "recheck")
  /\ UNCHANGED <<fs, home, seen, temp, moves>>

\* Written and synced.
Fill(w) ==
  /\ pc[w] = "fill"
  /\ temp' = [temp EXCEPT ![w].whole = TRUE]
  /\ Goto(w, IF w \in Exclusives THEN "publish" ELSE "recheck")
  /\ UNCHANGED <<fs, home, seen, moves>>

\* A Replacer compares parent and output with what it saw, a Pather only asks
\* whether the parent is a link and the output still a regular file.
Recheck(w) ==
  /\ pc[w] = "recheck"
  /\ LET e == Holds(Parent(w), Output(w)) IN
       IF Regular(e) /\ IF w \in Replacers THEN SameParent(w) /\ Identity(e) = seen[w]
                                           ELSE ~link
         THEN Goto(w, "publish")
         ELSE Leave(w, "refused")
  /\ UNCHANGED <<fs, home, seen, temp, moves>>

Published(w) == [ino |-> temp[w].ino, by |-> w, whole |-> temp[w].whole]

\* os.replace, or os.link for an Exclusive.  By path, the temporary file is
\* not found once the parent was exchanged.
Publish(w) ==
  /\ pc[w] = "publish"
  /\ \/ /\ temp[w].dir = Parent(w)
        /\ w \in Exclusives => Holds(at, "receipt") = None
        /\ Put(Parent(w), Output(w), Published(w))
        /\ IF w \in Exclusives THEN UNCHANGED temp
                               ELSE temp' = [temp EXCEPT ![w] = None]
        /\ Goto(w, "sync")
     \/ /\ w \in Exclusives /\ temp[w].dir = at /\ Holds(at, "receipt") # None
        /\ UNCHANGED <<held, temp>>
        /\ Leave(w, "refused")
     \/ /\ temp[w].dir # Parent(w)
        /\ UNCHANGED <<held, temp>>
        /\ Leave(w, "error")
  /\ UNCHANGED <<at, link, home, seen, moves>>

\* fsync of the directory makes what its names hold now the only outcome.
Synced(d) == [held EXCEPT ![d] = [o \in Outputs |-> <<Holds(d, o)>>]]

\* Mutant: the directory is opened again by its path to be synced.
SyncByPath(w) ==
  /\ pc[w] = "sync"
  /\ UNCHANGED temp
  /\ IF at = None
       THEN Leave(w, "error") /\ UNCHANGED held
       ELSE Leave(w, "published") /\ held' = Synced(at)
  /\ UNCHANGED <<at, link, home, seen, moves>>

\* Mutant: the parent is compared again after the file was replaced.
SyncThenRecheck(w) ==
  /\ pc[w] = "sync"
  /\ UNCHANGED temp
  /\ IF Parent(w) = None
       THEN Leave(w, "error") /\ UNCHANGED held
       ELSE /\ Leave(w, IF w \in Replacers /\ ~SameParent(w) THEN "refused" ELSE "published")
            /\ held' = Synced(Parent(w))
  /\ UNCHANGED <<at, link, home, seen, moves>>

Sync(w) ==
  /\ pc[w] = "sync"
  /\ UNCHANGED temp
  /\ IF Parent(w) = None
       THEN Leave(w, "error") /\ UNCHANGED held
       ELSE Leave(w, "published") /\ held' = Synced(Parent(w))
  /\ UNCHANGED <<at, link, home, seen, moves>>

\* The unlink of the finally clause, which ignores a file that is not there.
Cleanup(w) ==
  /\ pc[w] = "cleanup"
  /\ temp' = [temp EXCEPT ![w] = IF @.dir = Parent(w) THEN None ELSE @]
  /\ Goto(w, "done")
  /\ UNCHANGED <<fs, home, seen, moves>>

\* Any system call may fail; what was done stays done.  A call that is killed
\* just takes no further step.
Fail(w) ==
  /\ pc[w] \notin {"cleanup", "done"}
  /\ UNCHANGED <<fs, home, seen, temp, moves>>
  /\ Leave(w, "error")

Move == moves < MaxMoves /\ moves' = moves + 1
        /\ UNCHANGED <<pc, home, seen, temp, result>>

\* A checkout or a clean moves the parent away, back, or behind a link.
Exchange ==
  /\ Move
  /\ at' \in Dirs \union {None}
  /\ link' \in IF at' = None THEN {FALSE} ELSE BOOLEAN
  /\ <<at, link>>' # <<at, link>>
  /\ UNCHANGED held

\* Another program removes the file, or puts its own or a link in its place.
Disturb ==
  /\ Move
  /\ at # None
  /\ \E e \in {None} \union [ino : Inodes \ Used, by : {Other, Odd}, whole : {TRUE}] :
       Put(at, "file", e)
  /\ UNCHANGED <<at, link>>

Step(w) ==
  \/ Look(w) \/ Mkdir(w) \/ Open(w) \/ AssertParent(w) \/ Inspect(w) \/ Stage(w)
  \/ Fill(w) \/ Recheck(w) \/ Publish(w) \/ Sync(w) \/ Cleanup(w)

Next ==
  \/ \E w \in Writers : Step(w) \/ Fail(w)
  \/ Exchange
  \/ Disturb

Spec == Init /\ [][Next]_vars
-----------------------------------------------------------------------------
\* What a name holds, and what a power loss may leave there, is a whole file:
\* the data is synced before the rename or link of atomic_replace_regular,
\* write_atomic_output and write_exclusive_output, whoever fails or is killed.
OutputsWhole ==
  \A d \in Dirs, o \in Outputs : \A k \in DOMAIN held[d][o] :
    held[d][o][k] # None => held[d][o][k].whole

\* A receipt write_exclusive_output reported as written is still there, however
\* many calls raced for the name: none overwrites another's.
ReceiptsStay ==
  \A w \in Exclusives : result[w] = "published" =>
    \E d \in Dirs : Holds(d, "receipt") # None /\ Holds(d, "receipt").by = w

\* Once atomic_replace_regular has returned, no power loss brings back what the
\* output held before it, even if the parent was exchanged meanwhile: the
\* directory synced is the one the file was replaced in.
ReplacedDurably ==
  \A w \in Replacers : result[w] = "published" =>
    \A d \in Dirs : \A k \in DOMAIN held[d]["file"] :
      k > 1 => held[d]["file"][k] = None \/ held[d]["file"][k].by # w

\* A call that says it refused has published nothing, and no power loss can
\* show a file of it: every refusal comes before the rename or link.
RefusedUnpublished ==
  \A w \in Writers : result[w] = "refused" =>
    \A d \in Dirs, o \in Outputs : \A k \in DOMAIN held[d][o] :
      held[d][o][k] # None => held[d][o][k].by # w

\* atomic_replace_regular leaves no temporary file behind when it ends, even in
\* a directory that was moved away: its unlink goes through the descriptor.
ReplacersTidy ==
  \A w \in Replacers : pc[w] = "done" => temp[w] = None

\* What a call reports is true of the directories afterwards, whoever raced it or moved
\* them: what it wrote stays, what it refused never shows, and it leaves no debris.
AnswersHold == ReceiptsStay /\ RefusedUnpublished /\ ReplacersTidy
=============================================================================
