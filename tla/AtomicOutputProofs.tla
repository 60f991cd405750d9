------------------------- MODULE AtomicOutputProofs -------------------------
(***************************************************************************)
(* Theorems about the three writers of an output, for any number of calls, *)
(* names and directories, with kills at every step and a power loss at any *)
(* moment.                                                                 *)
(*                                                                         *)
(* The directories' entries are histories since the last sync, and a power *)
(* loss may go back to any entry of one. The invariant therefore speaks of *)
(* every entry: a file under an output's name is whole and durable, a      *)
(* temporary file belongs to one call alone, and a call past its sync has  *)
(* left its file as the oldest entry a power loss can bring back.          *)
(***************************************************************************)
EXTENDS AtomicOutput, SequenceTheorems, TLAPS

-----------------------------------------------------------------------------

(***************************************************************************)
(* What the names have held, as a value: the two ways a writer changes it  *)
(***************************************************************************)
Contents == Entry \union {None}
Histories == [Dirs -> [Outputs -> Seq(Contents) \ {<<>>}]]
Latest(h, d, o) == h[d][o][Len(h[d][o])]
WithEntry(h, d, o, e) == [h EXCEPT ![d][o] = Append(@, e)]
WithSync(h, d) == [h EXCEPT ![d] = [o \in Outputs |-> <<Latest(h, d, o)>>]]
From(e, w) == e # None /\ e.by = w

Steps == {"look", "mkdir", "open", "assert", "inspect", "stage", "fill", "recheck",
          "publish", "sync", "cleanup", "done"}
Unstaged == {"look", "mkdir", "open", "assert", "inspect", "stage"}
Staged == {"fill", "recheck", "publish"}
Over == {"cleanup", "done"}

(***************************************************************************)
(* The inductive invariant: the types, and what is true of each call       *)
(***************************************************************************)
Typed ==
  /\ at \in Dirs \union {None}
  /\ held \in Histories
  /\ pc \in [Writers -> Steps]
  /\ home \in [Writers -> Dirs \union {None}]
  /\ temp \in [Writers -> Temp \union {None}]
  /\ result \in [Writers -> {"none", "published", "refused", "error"}]

\* The temporary file is there between Stage and Publish, complete once filled,
\* and a Replacer's is in the directory it holds open.
TempKept(w) ==
  /\ pc[w] \in Unstaged => temp[w] = None
  /\ pc[w] \in Staged => temp[w] \in Temp
  /\ pc[w] \in {"recheck", "publish"} => temp[w].whole = TRUE
  /\ w \in Replacers /\ (pc[w] \in Staged \/ temp[w] # None) => temp[w].dir = home[w]
  /\ w \in Replacers /\ pc[w] = "done" => temp[w] = None

\* An answer is given once, and nothing of a call shows before Publish.
AnsweredLast(w) ==
  /\ result[w] # "none" => pc[w] \in Over
  /\ pc[w] \in Unstaged \union Staged \/ result[w] = "refused" =>
       \A d \in Dirs, o \in Outputs : \A k \in DOMAIN held[d][o] : ~From(held[d][o][k], w)

\* What a Replacer published is in the directory it holds, and settled once it returned.
Settled(w) == w \in Replacers =>
  /\ \A d \in Dirs, o \in Outputs : \A k \in DOMAIN held[d][o] :
       From(held[d][o][k], w) => d = home[w]
  /\ result[w] = "published" =>
       \A d \in Dirs, o \in Outputs : \A k \in DOMAIN held[d][o] :
         k > 1 => ~From(held[d][o][k], w)

\* A receipt that was linked is what its name holds.
Linked(w) == w \in Exclusives /\ (pc[w] = "sync" \/ result[w] = "published") =>
  \E d \in Dirs : From(Latest(held, d, "receipt"), w)

Whole ==
  \A d \in Dirs, o \in Outputs : \A k \in DOMAIN held[d][o] :
    held[d][o][k] # None => held[d][o][k].whole = TRUE


CallInv(w) == TempKept(w) /\ AnsweredLast(w) /\ Settled(w) /\ Linked(w)
OutputInv == Typed /\ Whole /\ \A w \in Writers : CallInv(w)
-----------------------------------------------------------------------------
\* Putting an entry adds it to one name and makes it the latest there.
LEMMA PutAdds ==
  ASSUME NEW h \in Histories, NEW d \in Dirs, NEW o \in Outputs, NEW e \in Contents
  PROVE  LET g == WithEntry(h, d, o, e) IN
         /\ g \in Histories
         /\ \A c \in Dirs, p \in Outputs :
              /\ Latest(g, c, p) = IF c = d /\ p = o THEN e ELSE Latest(h, c, p)
              /\ \A k \in DOMAIN g[c][p] :
                   \/ k \in DOMAIN h[c][p] /\ g[c][p][k] = h[c][p][k]
                   \/ c = d /\ p = o /\ g[c][p][k] = e
<1> DEFINE g == WithEntry(h, d, o, e)
<1>1. h[d][o] \in Seq(Contents) /\ h[d][o] # <<>>
  BY DEF Histories
<1>2. /\ Append(h[d][o], e) \in Seq(Contents) \ {<<>>}
      /\ Len(Append(h[d][o], e)) = Len(h[d][o]) + 1
      /\ Append(h[d][o], e)[Len(h[d][o]) + 1] = e
      /\ \A k \in 1..Len(h[d][o]) : Append(h[d][o], e)[k] = h[d][o][k]
      /\ DOMAIN h[d][o] = 1..Len(h[d][o])
      /\ DOMAIN Append(h[d][o], e) = 1..(Len(h[d][o]) + 1)
      /\ Len(h[d][o]) \in Nat
  BY <1>1, AppendProperties, LenProperties
<1>3. g \in Histories
  BY <1>2 DEF Histories, WithEntry
<1>4. g[d][o] = Append(h[d][o], e)
  BY DEF Histories, WithEntry
<1>5. \A c \in Dirs, p \in Outputs : c # d \/ p # o => g[c][p] = h[c][p]
  BY DEF Histories, WithEntry
<1>6. ASSUME NEW k \in DOMAIN g[d][o]
      PROVE  (k \in DOMAIN h[d][o] /\ g[d][o][k] = h[d][o][k]) \/ g[d][o][k] = e
  BY <1>2, <1>4
<1>7. Latest(g, d, o) = e
  BY <1>2, <1>4 DEF Latest
<1> QED
  BY <1>3, <1>5, <1>6, <1>7 DEF Latest

\* A sync leaves one entry, the latest, in each name of a directory.
LEMMA SyncSettles ==
  ASSUME NEW h \in Histories, NEW d \in Dirs
  PROVE  LET g == WithSync(h, d) IN
         /\ g \in Histories
         /\ \A c \in Dirs, p \in Outputs :
              /\ Latest(g, c, p) = Latest(h, c, p)
              /\ \A k \in DOMAIN g[c][p] :
                   /\ c = d => k = 1
                   /\ \E j \in DOMAIN h[c][p] : g[c][p][k] = h[c][p][j] /\ (c # d => j = k)
<1> DEFINE g == WithSync(h, d)
<1>1. ASSUME NEW o \in Outputs
      PROVE  /\ Len(h[d][o]) \in DOMAIN h[d][o] /\ Latest(h, d, o) \in Contents
             /\ <<Latest(h, d, o)>> \in Seq(Contents) \ {<<>>}
  <2>1. h[d][o] \in Seq(Contents) /\ h[d][o] # <<>>
    BY DEF Histories
  <2>2. Len(h[d][o]) \in Nat /\ Len(h[d][o]) # 0 /\ DOMAIN h[d][o] = 1..Len(h[d][o])
    BY <2>1, LenProperties, EmptySeq
  <2>3. Latest(h, d, o) \in Contents
    BY <2>1, <2>2, ElementOfSeq DEF Latest
  <2> QED
    BY <2>2, <2>3
<1>2. [o \in Outputs |-> <<Latest(h, d, o)>>] \in [Outputs -> Seq(Contents) \ {<<>>}]
  BY <1>1
<1>3. g \in Histories
  BY <1>2 DEF Histories, WithSync
<1>4. g[d] = [o \in Outputs |-> <<Latest(h, d, o)>>]
  BY DEF Histories, WithSync
<1>5. \A c \in Dirs : c # d => g[c] = h[c]
  BY DEF Histories, WithSync
<1>6. ASSUME NEW p \in Outputs
      PROVE  /\ Latest(g, d, p) = Latest(h, d, p)
             /\ \A k \in DOMAIN g[d][p] : k = 1 /\ g[d][p][k] = Latest(h, d, p)
  <2> DEFINE e == Latest(h, d, p)
  <2>1. g[d][p] = <<e>>
    BY <1>4
  <2> HIDE DEF e
  <2>2. Len(<<e>>) = 1 /\ <<e>>[1] = e /\ DOMAIN <<e>> = {1}
    OBVIOUS
  <2> QED
    BY <2>1, <2>2 DEF Latest, e
<1>7. \A p \in Outputs : Latest(h, d, p) = h[d][p][Len(h[d][p])]
  BY DEF Latest
<1> QED
  BY <1>1, <1>3, <1>5, <1>6, <1>7 DEF Latest

\* What a name holds, in the terms of the lemmas.
LEMMA HoldsLatest ==
  ASSUME NEW d \in Dirs, NEW o \in Outputs
  PROVE  Holds(d, o) = Latest(held, d, o) /\ d # None
BY MarksAreApart DEF Holds, Latest

\* A step of one call leaves the others' local state alone.
Alone(w) ==
  /\ Typed'
  /\ \A v \in Writers \ {w} :
       pc'[v] = pc[v] /\ home'[v] = home[v] /\ temp'[v] = temp[v] /\ result'[v] = result[v]

\* A step that changes no name needs to be looked at for the call that takes it only.
LEMMA StillHeld ==
  ASSUME OutputInv, held' = held, NEW w \in Writers, Alone(w), CallInv(w)'
  PROVE  OutputInv'
<1>1. Whole'
  BY DEF OutputInv, Whole
<1>2. ASSUME NEW v \in Writers, v # w PROVE CallInv(v)'
  BY <1>2 DEF OutputInv, CallInv, Alone, TempKept, AnsweredLast, Settled, Linked, Latest, From
<1> QED
  BY <1>1, <1>2 DEF OutputInv, Alone

\* Ending a call that has published nothing, or whose output is settled.
LEMMA LeaveKeeps ==
  ASSUME OutputInv, NEW w \in Writers, NEW how \in {"refused", "error"},
         pc[w] \notin Over, how = "refused" => pc[w] # "sync",
         Leave(w, how), UNCHANGED <<held, home, temp>>, at' \in Dirs \union {None}
  PROVE  OutputInv'
<1>1. Typed /\ CallInv(w) /\ held' = held
  BY DEF OutputInv
<1>2. pc'[w] \in Over /\ result'[w] = how /\ (pc'[w] = "done" => temp[w] = None)
  BY <1>1 DEF Leave, Typed, Over
<1>3. Alone(w)
  BY <1>1 DEF Leave, Typed, Alone, Steps
<1>4. pc[w] # "sync" => pc[w] \in Unstaged \union Staged
  BY <1>1 DEF Typed, Steps, Unstaged, Staged, Over
<1>5. CallInv(w)'
  BY <1>1, <1>2, <1>4 DEF CallInv, TempKept, AnsweredLast, Settled, Linked, Latest, From, Over,
     Unstaged, Staged
<1> QED
  BY <1>3, <1>5, StillHeld

\* Going on to a step that is not yet Publish's outcome, with the temporary file it needs.
LEMMA GotoKeeps ==
  ASSUME OutputInv, NEW w \in Writers, NEW step \in Unstaged,
         pc[w] \in Unstaged, Goto(w, step), UNCHANGED <<held, home, temp>>,
         at' \in Dirs \union {None}
  PROVE  OutputInv'
<1>1. Typed /\ CallInv(w) /\ held' = held
  BY DEF OutputInv
<1>2. pc'[w] = step /\ result'[w] = result[w]
  BY <1>1 DEF Goto, Typed
<1>3. Alone(w)
  BY <1>1 DEF Goto, Typed, Alone, Steps, Unstaged
<1>4. CallInv(w)'
  BY <1>1, <1>2 DEF CallInv, TempKept, AnsweredLast, Settled, Linked, Latest, From, Over,
     Unstaged, Staged
<1> QED
  BY <1>3, <1>4, StillHeld
-----------------------------------------------------------------------------
LEMMA InitHolds == Init => OutputInv
<1> SUFFICES ASSUME Init PROVE OutputInv
  OBVIOUS
<1>1. PICK d \in Dirs, old \in {None} \union [ino : Inodes, by : {Other}, whole : {TRUE}] :
        /\ at \in {d, None}
        /\ held = [e \in Dirs |-> [o \in Outputs |->
                    <<IF e = d /\ o = "file" THEN old ELSE None>>]]
  BY DEF Init
<1>2. old \in Contents /\ (old # None => old.whole = TRUE /\ old.by = Other)
  BY DEF Contents, Entry
<1> DEFINE E(e, o) == IF e = d /\ o = "file" THEN old ELSE None
<1>3. ASSUME NEW e \in Dirs, NEW o \in Outputs
      PROVE  /\ E(e, o) \in Contents /\ (E(e, o) # None => E(e, o).whole = TRUE /\ E(e, o).by = Other)
             /\ <<E(e, o)>> \in Seq(Contents) \ {<<>>}
             /\ DOMAIN <<E(e, o)>> = {1} /\ <<E(e, o)>>[1] = E(e, o)
  <2>1. E(e, o) \in Contents /\ (E(e, o) # None => E(e, o).whole = TRUE /\ E(e, o).by = Other)
    BY <1>2 DEF Contents
  <2> HIDE DEF E
  <2> QED
    BY <2>1
<1>4. held = [e \in Dirs |-> [o \in Outputs |-> <<E(e, o)>>]]
  BY <1>1
<1> HIDE DEF E
<1>5. held \in Histories
  BY <1>3, <1>4 DEF Histories
<1>6. \A e \in Dirs, o \in Outputs : held[e][o] = <<E(e, o)>>
  BY <1>4
<1>7. \A e \in Dirs, o \in Outputs : \A k \in DOMAIN held[e][o] :
         held[e][o][k] # None => held[e][o][k].whole = TRUE /\ held[e][o][k].by = Other
  <2>1. ASSUME NEW e \in Dirs, NEW o \in Outputs, NEW k \in DOMAIN held[e][o],
               held[e][o][k] # None
        PROVE  held[e][o][k].whole = TRUE /\ held[e][o][k].by = Other
    <3>1. held[e][o] = <<E(e, o)>> /\ k \in DOMAIN <<E(e, o)>>
      BY <1>6
    <3>2. held[e][o][k] = E(e, o)
      BY <1>3, <3>1
    <3> QED
      BY <1>3, <2>1, <3>2
  <2> QED
    BY <2>1
<1>8. Typed
  BY <1>1, <1>5 DEF Init, Typed, Steps
<1>9. ASSUME NEW w \in Writers PROVE CallInv(w)
  <2>1. Other # w
    BY MarksAreApart
  <2>2. \A e \in Dirs, o \in Outputs : \A k \in DOMAIN held[e][o] : ~From(held[e][o][k], w)
    BY <1>7, <2>1 DEF From
  <2>3. pc[w] = "look" /\ temp[w] = None /\ result[w] = "none"
    BY DEF Init
  <2> QED
    BY <2>2, <2>3 DEF CallInv, TempKept, AnsweredLast, Settled, Linked, Unstaged, Staged
<1> QED
  BY <1>7, <1>8, <1>9 DEF OutputInv, Whole

LEMMA LooksKeep ==
  ASSUME OutputInv, NEW w \in Writers, Look(w) \/ Mkdir(w) \/ AssertParent(w)
  PROVE  OutputInv'
<1>1. Typed
  BY DEF OutputInv
<1>2. at' \in Dirs \union {None} /\ UNCHANGED <<held, home, temp>>
  BY <1>1 DEF Typed, Look, Mkdir, AssertParent, fs
<1>3. pc[w] \in {"look", "mkdir", "assert"}
  BY DEF Look, Mkdir, AssertParent
<1>4. Leave(w, "refused") \/ Leave(w, "error") \/ \E step \in Unstaged : Goto(w, step)
  BY DEF Look, Mkdir, AssertParent, Enter, Unstaged
<1> QED
  BY <1>2, <1>3, <1>4, LeaveKeeps, GotoKeeps DEF Over, Unstaged

LEMMA OpenKeeps == ASSUME OutputInv, NEW w \in Writers, Open(w) PROVE OutputInv'
<1>1. Typed /\ CallInv(w)
  BY DEF OutputInv
<1>2. CASE Leave(w, "refused") /\ UNCHANGED home
  BY <1>1, <1>2, LeaveKeeps DEF Open, Typed, fs, Over
<1>3. CASE Goto(w, "assert") /\ home' = [home EXCEPT ![w] = at]
  <2>1. pc'[w] = "assert" /\ result'[w] = result[w] /\ held' = held /\ temp' = temp /\ pc[w] = "open"
    BY <1>1, <1>3 DEF Open, Goto, Typed, fs
  <2>2. Alone(w)
    BY <1>1, <1>3, <2>1 DEF Open, Goto, Typed, Alone, Steps, fs
  <2>3. CallInv(w)'
    BY <1>1, <2>1 DEF CallInv, TempKept, AnsweredLast, Settled, Linked, Latest, From, Over,
       Unstaged, Staged
  <2> QED
    BY <2>1, <2>2, <2>3, StillHeld
<1> QED
  BY <1>2, <1>3 DEF Open

LEMMA InspectKeeps == ASSUME OutputInv, NEW w \in Writers, Inspect(w) PROVE OutputInv'
<1>1. Typed
  BY DEF OutputInv
<1>2. UNCHANGED <<held, home, temp, at>> /\ pc[w] = "inspect"
  BY DEF Inspect, fs
<1>3. Leave(w, "refused") \/ Goto(w, "stage")
  BY DEF Inspect
<1> QED
  BY <1>1, <1>2, <1>3, LeaveKeeps, GotoKeeps DEF Typed, Over, Unstaged

LEMMA StageKeeps == ASSUME OutputInv, NEW w \in Writers, Stage(w) PROVE OutputInv'
<1>1. Typed /\ CallInv(w) /\ UNCHANGED <<held, home, at>> /\ pc[w] = "stage"
  BY DEF OutputInv, Stage, fs
<1>2. CASE UNCHANGED temp /\ Leave(w, "error")
  BY <1>1, <1>2, LeaveKeeps DEF Typed, Over
<1>3. ASSUME NEW i \in Inodes, Parent(w) # None,
             temp' = [temp EXCEPT ![w] = [dir |-> Parent(w), ino |-> i, whole |-> FALSE]],
             Goto(w, "fill")
      PROVE  OutputInv'
  <2>1. Parent(w) \in Dirs /\ (w \in Replacers => Parent(w) = home[w])
    BY <1>1, <1>3 DEF Typed, Parent
  <2>2. temp'[w] \in Temp /\ temp'[w].dir = Parent(w) /\ temp' \in [Writers -> Temp \union {None}]
    BY <1>1, <1>3, <2>1 DEF Typed, Temp
  <2>3. pc'[w] = "fill" /\ result'[w] = result[w]
    BY <1>1, <1>3 DEF Goto, Typed
  <2>4. Alone(w)
    BY <1>1, <1>3, <2>2 DEF Goto, Typed, Alone, Steps
  <2>5. CallInv(w)'
    BY <1>1, <2>1, <2>2, <2>3 DEF CallInv, TempKept, AnsweredLast, Settled, Linked, Latest, From, Over,
       Unstaged, Staged
  <2> QED
    BY <1>1, <2>4, <2>5, StillHeld
<1> QED
  BY <1>2, <1>3 DEF Stage

LEMMA FillKeeps == ASSUME OutputInv, NEW w \in Writers, Fill(w) PROVE OutputInv'
<1>1. Typed /\ CallInv(w) /\ UNCHANGED <<held, home, at>> /\ pc[w] = "fill"
  BY DEF OutputInv, Fill, fs
<1>2. temp[w] \in Temp
  BY <1>1 DEF CallInv, TempKept, Staged
<1>3. temp' = [temp EXCEPT ![w] = [temp[w] EXCEPT !.whole = TRUE]]
  BY DEF Fill
<1>4. /\ temp'[w] \in Temp /\ temp'[w].dir = temp[w].dir /\ temp'[w].whole = TRUE
      /\ temp' \in [Writers -> Temp \union {None}]
  BY <1>1, <1>2, <1>3 DEF Typed, Temp
<1>5. pc'[w] \in {"publish", "recheck"} /\ result'[w] = result[w]
  BY <1>1 DEF Fill, Goto, Typed
<1>6. Alone(w)
  BY <1>1, <1>3, <1>4 DEF Fill, Goto, Typed, Alone, Steps
<1>7. CallInv(w)'
  BY <1>1, <1>4, <1>5 DEF CallInv, TempKept, AnsweredLast, Settled, Linked, Latest, From, Over,
     Unstaged, Staged
<1> QED
  BY <1>1, <1>6, <1>7, StillHeld

LEMMA RecheckKeeps == ASSUME OutputInv, NEW w \in Writers, Recheck(w) PROVE OutputInv'
<1>1. Typed /\ CallInv(w) /\ UNCHANGED <<held, home, temp, at>> /\ pc[w] = "recheck"
  BY DEF OutputInv, Recheck, fs
<1>2. CASE Leave(w, "refused")
  BY <1>1, <1>2, LeaveKeeps DEF Typed, Over
<1>3. CASE Goto(w, "publish")
  <2>1. pc'[w] = "publish" /\ result'[w] = result[w]
    BY <1>1, <1>3 DEF Goto, Typed
  <2>2. Alone(w)
    BY <1>1, <1>3 DEF Goto, Typed, Alone, Steps
  <2>3. CallInv(w)'
    BY <1>1, <2>1 DEF CallInv, TempKept, AnsweredLast, Settled, Linked, Latest, From, Over,
       Unstaged, Staged
  <2> QED
    BY <1>1, <2>2, <2>3, StillHeld
<1> QED
  BY <1>2, <1>3 DEF Recheck

LEMMA CleanupKeeps == ASSUME OutputInv, NEW w \in Writers, Cleanup(w) PROVE OutputInv'
<1>1. Typed /\ CallInv(w) /\ UNCHANGED <<held, home, at>> /\ pc[w] = "cleanup"
  BY DEF OutputInv, Cleanup, fs
<1>2. temp' = [temp EXCEPT ![w] = IF temp[w].dir = Parent(w) THEN None ELSE temp[w]]
  BY DEF Cleanup
<1>3. /\ temp' \in [Writers -> Temp \union {None}]
      /\ temp'[w] \in {None, temp[w]} /\ (w \in Replacers => temp'[w] = None)
  BY <1>1, <1>2 DEF Typed, CallInv, TempKept, Parent
<1>4. pc'[w] = "done" /\ result'[w] = result[w]
  BY <1>1 DEF Cleanup, Goto, Typed
<1>5. Alone(w)
  BY <1>1, <1>2, <1>3 DEF Cleanup, Goto, Typed, Alone, Steps
<1>6. CallInv(w)'
  BY <1>1, <1>3, <1>4 DEF CallInv, TempKept, AnsweredLast, Settled, Linked, Latest, From, Over,
     Unstaged, Staged
<1> QED
  BY <1>1, <1>5, <1>6, StillHeld

LEMMA ExchangeKeeps == ASSUME OutputInv, Exchange PROVE OutputInv'
<1>1. at' \in Dirs \union {None} /\ UNCHANGED <<held, pc, home, temp, result>>
  BY DEF Exchange, Move
<1> QED
  BY <1>1 DEF OutputInv, Typed, Whole, CallInv, TempKept, AnsweredLast, Settled, Linked, Latest, From
-----------------------------------------------------------------------------
LEMMA PublishKeeps == ASSUME OutputInv, NEW w \in Writers, Publish(w) PROVE OutputInv'
<1>1. Typed /\ Whole /\ CallInv(w) /\ UNCHANGED <<home, at>> /\ pc[w] = "publish"
  BY DEF OutputInv, Publish
<1>2. temp[w] \in Temp /\ temp[w].whole = TRUE
  BY <1>1 DEF CallInv, TempKept, Staged
<1>3. CASE UNCHANGED <<held, temp>> /\ (Leave(w, "refused") \/ Leave(w, "error"))
  BY <1>1, <1>3, LeaveKeeps DEF Typed, Over
<1>4. CASE /\ temp[w].dir = Parent(w)
           /\ w \in Exclusives => Holds(at, "receipt") = None
           /\ Put(Parent(w), Output(w), Published(w))
           /\ IF w \in Exclusives THEN UNCHANGED temp ELSE temp' = [temp EXCEPT ![w] = None]
           /\ Goto(w, "sync")
  <2> DEFINE d == Parent(w)
             o == Output(w)
             e == Published(w)
  <2>1. d \in Dirs /\ o \in Outputs
    BY <1>2, <1>4 DEF Temp, Output, Outputs
  <2>2. e \in Entry /\ e.by = w /\ e.whole = TRUE /\ e # None
    BY <1>2, MarksAreApart DEF Temp, Published, Entry
  <2>3. held' = WithEntry(held, d, o, e) /\ held \in Histories
    BY <1>1, <1>4 DEF Put, WithEntry, Typed
  <2>4. (w \in Replacers => d = home[w]) /\ (w \in Exclusives => d = at /\ o = "receipt")
        /\ (w \notin Exclusives => o = "file")
    BY WritersAreApart DEF Parent, Output
  <2>5. w \in Exclusives => ~\E v \in Writers : From(Latest(held, d, o), v)
    BY <1>4, <2>1, <2>4, HoldsLatest DEF From
  <2> HIDE DEF d, o, e
  <2>6. /\ held' \in Histories
        /\ \A c \in Dirs, p \in Outputs :
             /\ Latest(held', c, p) = IF c = d /\ p = o THEN e ELSE Latest(held, c, p)
             /\ \A k \in DOMAIN held'[c][p] :
                  \/ k \in DOMAIN held[c][p] /\ held'[c][p][k] = held[c][p][k]
                  \/ c = d /\ p = o /\ held'[c][p][k] = e
    BY <2>1, <2>2, <2>3, PutAdds DEF Contents
  <2>7. pc'[w] = "sync" /\ result'[w] = result[w] /\ temp'[w] \in {temp[w], None}
    BY <1>1, <1>4 DEF Goto, Typed
  <2>8. Alone(w)
    BY <1>1, <1>4, <2>6 DEF Goto, Typed, Alone, Steps
  <2>9. Whole'
    BY <1>1, <2>2, <2>6 DEF Whole
  <2>10. CallInv(w)'
    <3>1. TempKept(w)' /\ AnsweredLast(w)'
      BY <1>1, <2>7 DEF CallInv, TempKept, AnsweredLast, Over, Unstaged, Staged
    <3>2. Settled(w)'
      BY <1>1, <2>2, <2>4, <2>6, <2>7 DEF CallInv, AnsweredLast, Settled, From, Over
    <3>3. Linked(w)'
      BY <2>1, <2>2, <2>4, <2>6 DEF Linked, From
    <3> QED
      BY <3>1, <3>2, <3>3 DEF CallInv
  <2>11. ASSUME NEW v \in Writers, v # w PROVE CallInv(v)'
    <3>1. /\ CallInv(v) /\ pc'[v] = pc[v] /\ home'[v] = home[v] /\ temp'[v] = temp[v]
          /\ result'[v] = result[v]
      BY <2>8, <2>11 DEF OutputInv, Alone
    <3>2. \A c \in Dirs, p \in Outputs : \A k \in DOMAIN held'[c][p] :
            From(held'[c][p][k], v) => k \in DOMAIN held[c][p] /\ From(held[c][p][k], v)
      BY <2>2, <2>6, <2>11 DEF From
    <3>3. TempKept(v)'
      BY <3>1 DEF CallInv, TempKept
    <3>4. AnsweredLast(v)' /\ Settled(v)'
      BY <3>1, <3>2 DEF CallInv, AnsweredLast, Settled
    <3>5. Linked(v)'
      <4> SUFFICES ASSUME v \in Exclusives, pc[v] = "sync" \/ result[v] = "published"
                   PROVE  \E c \in Dirs : From(Latest(held', c, "receipt"), v)
        BY <3>1 DEF Linked
      <4>1. PICK c \in Dirs : From(Latest(held, c, "receipt"), v)
        BY <3>1 DEF CallInv, Linked
      <4>2. "receipt" \in Outputs /\ ~(c = d /\ "receipt" = o)
        BY <2>4, <2>5, <4>1 DEF Outputs
      <4> QED
        BY <2>6, <4>1, <4>2
    <3> QED
      BY <3>3, <3>4, <3>5 DEF CallInv
  <2> QED
    BY <2>8, <2>9, <2>10, <2>11 DEF OutputInv, Alone
<1> QED
  BY <1>3, <1>4 DEF Publish

LEMMA SyncKeeps == ASSUME OutputInv, NEW w \in Writers, Sync(w) PROVE OutputInv'
<1>1. Typed /\ Whole /\ CallInv(w) /\ UNCHANGED <<home, at, temp>> /\ pc[w] = "sync"
  BY DEF OutputInv, Sync
<1>2. CASE Leave(w, "error") /\ UNCHANGED held
  BY <1>1, <1>2, LeaveKeeps DEF Typed, Over
<1>3. CASE Parent(w) # None /\ Leave(w, "published") /\ held' = Synced(Parent(w))
  <2> DEFINE d == Parent(w)
  <2>1. d \in Dirs /\ (w \in Replacers => d = home[w])
    BY <1>1, <1>3 DEF Typed, Parent
  <2> HIDE DEF d
  <2>2. held' = WithSync(held, d) /\ held \in Histories
    <3>1. \A o \in Outputs : Holds(d, o) = Latest(held, d, o)
      BY <2>1, HoldsLatest
    <3> QED
      BY <1>1, <1>3, <3>1 DEF Synced, WithSync, Typed, d
  <2>3. /\ held' \in Histories
        /\ \A c \in Dirs, p \in Outputs :
              /\ Latest(held', c, p) = Latest(held, c, p)
              /\ \A k \in DOMAIN held'[c][p] :
                   /\ c = d => k = 1
                   /\ \E j \in DOMAIN held[c][p] :
                        held'[c][p][k] = held[c][p][j] /\ (c # d => j = k)
    BY <2>1, <2>2, SyncSettles
  <2>4. pc'[w] \in Over /\ result'[w] = "published" /\ (pc'[w] = "done" => temp[w] = None)
    BY <1>1, <1>3 DEF Leave, Typed, Over
  <2>5. Alone(w)
    BY <1>1, <1>3, <2>3 DEF Leave, Typed, Alone, Steps
  <2>6. Whole'
    BY <1>1, <2>3 DEF Whole
  <2>7. ASSUME NEW v \in Writers PROVE CallInv(v)'
    <3>1. CallInv(v)
      BY DEF OutputInv
    <3>2. home'[v] = home[v] /\ temp'[v] = temp[v]
          /\ (v # w => pc'[v] = pc[v] /\ result'[v] = result[v])
      BY <1>1, <2>5 DEF Alone
    <3>3. TempKept(v)'
      BY <2>4, <3>1, <3>2 DEF CallInv, TempKept, Over, Unstaged, Staged
    <3>4. AnsweredLast(v)'
      BY <2>3, <2>4, <3>1, <3>2 DEF CallInv, AnsweredLast, Over, Unstaged, Staged
    <3>5. Settled(v)'
      <4>1. \A c \in Dirs, p \in Outputs : \A k \in DOMAIN held'[c][p] :
              From(held'[c][p][k], v) =>
                \E j \in DOMAIN held[c][p] : From(held[c][p][j], v) /\ (c # d => j = k)
        BY <2>3
      <4>2. ASSUME v \in Replacers, NEW c \in Dirs, NEW p \in Outputs,
                   NEW k \in DOMAIN held'[c][p], From(held'[c][p][k], v)
            PROVE  c = home'[v] /\ (result'[v] = "published" => ~(k > 1))
        <5>1. PICK j \in DOMAIN held[c][p] : From(held[c][p][j], v) /\ (c # d => j = k)
          BY <4>1, <4>2
        <5>2. c = home[v] /\ (result[v] = "published" => ~(j > 1))
          BY <3>1, <4>2, <5>1 DEF CallInv, Settled
        <5>3. c = d => ~(k > 1)
          BY <2>3
        <5>4. c # d => v # w
          BY <2>1, <4>2, <5>2
        <5> QED
          BY <3>2, <5>1, <5>2, <5>3, <5>4
      <4> QED
        BY <4>2 DEF Settled
    <3>6. Linked(v)'
      BY <1>1, <2>3, <3>1, <3>2 DEF CallInv, Linked, Outputs
    <3> QED
      BY <3>3, <3>4, <3>5, <3>6 DEF CallInv
  <2> QED
    BY <2>5, <2>6, <2>7 DEF OutputInv, Alone
<1> QED
  BY <1>2, <1>3 DEF Sync

\* What another program leaves is whole, and no call's.
LEMMA DisturbKeeps == ASSUME OutputInv, Disturb PROVE OutputInv'
<1>1. PICK e \in {None} \union [ino : Inodes \ Used, by : {Other, Odd}, whole : {TRUE}] :
        Put(at, "file", e)
  BY DEF Disturb
<1>2. e \in Contents /\ (e # None => e.whole = TRUE) /\ \A v \in Writers : ~From(e, v)
  BY MarksAreApart DEF Contents, Entry, From
<1>3. Typed /\ Whole /\ at \in Dirs /\ UNCHANGED <<at, pc, home, temp, result>>
  BY DEF OutputInv, Disturb, Typed, Move
<1>4. held' = WithEntry(held, at, "file", e) /\ held \in Histories /\ "file" \in Outputs
  BY <1>1, <1>3 DEF Put, WithEntry, Typed, Outputs
<1>5. /\ held' \in Histories
      /\ \A c \in Dirs, p \in Outputs :
           /\ Latest(held', c, p) = IF c = at /\ p = "file" THEN e ELSE Latest(held, c, p)
           /\ \A k \in DOMAIN held'[c][p] :
                \/ k \in DOMAIN held[c][p] /\ held'[c][p][k] = held[c][p][k]
                \/ c = at /\ p = "file" /\ held'[c][p][k] = e
  BY <1>2, <1>3, <1>4, PutAdds
<1>6. Typed' /\ Whole'
  BY <1>2, <1>3, <1>5 DEF Typed, Whole
<1>7. ASSUME NEW v \in Writers PROVE CallInv(v)'
  <2>1. CallInv(v)
    BY DEF OutputInv
  <2>2. \A c \in Dirs, p \in Outputs : \A k \in DOMAIN held'[c][p] :
          From(held'[c][p][k], v) => k \in DOMAIN held[c][p] /\ From(held[c][p][k], v)
    BY <1>2, <1>5
  <2>3. TempKept(v)'
    BY <1>3, <2>1 DEF CallInv, TempKept
  <2>4. AnsweredLast(v)' /\ Settled(v)'
    BY <1>3, <2>1, <2>2 DEF CallInv, AnsweredLast, Settled
  <2>5. Linked(v)'
    BY <1>3, <1>5, <2>1 DEF CallInv, Linked, Outputs
  <2> QED
    BY <2>3, <2>4, <2>5 DEF CallInv
<1> QED
  BY <1>6, <1>7 DEF OutputInv
-----------------------------------------------------------------------------
LEMMA NextKeeps == OutputInv /\ [Next]_vars => OutputInv'
<1> SUFFICES ASSUME OutputInv, [Next]_vars PROVE OutputInv'
  OBVIOUS
<1>1. ASSUME NEW w \in Writers, Step(w) PROVE OutputInv'
  BY <1>1, LooksKeep, OpenKeeps, InspectKeeps, StageKeeps, FillKeeps, RecheckKeeps, PublishKeeps,
     SyncKeeps, CleanupKeeps DEF Step
<1>2. ASSUME NEW w \in Writers, Fail(w) PROVE OutputInv'
  BY <1>2, LeaveKeeps DEF Fail, OutputInv, Typed, fs, Over
<1>3. CASE UNCHANGED vars
  BY <1>3 DEF vars, fs, OutputInv, Typed, Whole, CallInv, TempKept, AnsweredLast, Settled, Linked,
     Latest, From
<1> QED
  BY <1>1, <1>2, <1>3, ExchangeKeeps, DisturbKeeps DEF Next

(***************************************************************************)
(* The theorems                                                            *)
(***************************************************************************)
LEMMA OutputInvariant == Spec => []OutputInv
<1> QED
  BY InitHolds, NextKeeps, PTL DEF Spec

\* However many calls of the three writers run, fail and are killed, in however many
\* directories, a name holds a whole file or none, before and after a power loss: the
\* temporary file is written and synced before os.replace or os.link gives it the name.
THEOREM NeverTorn == Spec => []OutputsWhole
<1>1. OutputInv => OutputsWhole
  BY DEF OutputInv, Whole, OutputsWhole
<1> QED
  BY <1>1, OutputInvariant, PTL

\* A receipt reported as written is what its name holds for ever, a refusal never shows,
\* and a Replacer that ended left no temporary file, for any number of calls and directories.
THEOREM AnswersAreTrue == Spec => []AnswersHold
<1>1. ASSUME OutputInv PROVE AnswersHold
  <2>1. ReceiptsStay
    <3> SUFFICES ASSUME NEW w \in Exclusives, result[w] = "published"
                 PROVE  \E d \in Dirs : Holds(d, "receipt") # None /\ Holds(d, "receipt").by = w
      BY DEF ReceiptsStay
    <3>1. PICK d \in Dirs : From(Latest(held, d, "receipt"), w)
      BY <1>1 DEF OutputInv, CallInv, Linked, Writers
    <3> QED
      BY <3>1, HoldsLatest DEF From, Outputs
  <2>2. RefusedUnpublished
    BY <1>1 DEF OutputInv, CallInv, AnsweredLast, From, RefusedUnpublished
  <2>3. ReplacersTidy
    BY <1>1 DEF OutputInv, CallInv, TempKept, ReplacersTidy, Writers
  <2> QED
    BY <2>1, <2>2, <2>3 DEF AnswersHold
<1> QED
  BY <1>1, OutputInvariant, PTL

\* What atomic_replace_regular reported as published survives a power loss wherever its
\* directory was moved: the directory it syncs is the one it replaced the file in.
THEOREM ReplacementsLast == Spec => []ReplacedDurably
<1>1. ASSUME OutputInv PROVE ReplacedDurably
  <2> SUFFICES ASSUME NEW w \in Replacers, result[w] = "published", NEW d \in Dirs,
                      NEW k \in DOMAIN held[d]["file"], k > 1
               PROVE  ~From(held[d]["file"][k], w)
    BY DEF ReplacedDurably, From
  <2>1. Settled(w) /\ "file" \in Outputs
    BY <1>1 DEF OutputInv, CallInv, Writers, Outputs
  <2> QED
    BY <2>1 DEF Settled
<1> QED
  BY <1>1, OutputInvariant, PTL

=============================================================================
