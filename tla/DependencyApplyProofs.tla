------------------------ MODULE DependencyApplyProofs ------------------------
(***************************************************************************)
(* Proofs about DependencyApply for any number of commands, contents,      *)
(* edits, commits and power losses.                                        *)
(*                                                                         *)
(* ReceiptBeforeStatus is not inductive: an applied status that survived a *)
(* power loss may meet the receipt that did not.  The inductive invariant  *)
(* therefore relates every request the disk can come back with to every    *)
(* receipt it can come back with, ties the journal phases to the holder of *)
(* the lock, and the receipt to the command in them.                       *)
(***************************************************************************)
EXTENDS DependencyApply, TLAPS

\* The command in its critical section is the holder of the lock.
Exclusive == \A p \in Procs : pc[p] \in Critical => lock = p

\* An applied status stands on a complete receipt of its bytes.
Settled(req, rec) ==
  req.status = "applied" => rec.stage = "complete" /\ rec.applied = req.body

\* Whatever combination of synced and unsynced files a power loss leaves.
AllSettled ==
  /\ Settled(request, receipt)
  /\ Settled(request, stable.receipt)
  /\ Settled(stable.request, receipt)
  /\ Settled(stable.request, stable.receipt)
  /\ Settled(head.request, head.receipt)

\* What a command in its journal phases knows of the receipt.
JournalHeld ==
  \A p \in Appliers :
    /\ pc[p] = "fill" => receipt.stage = "partial"
    /\ pc[p] \in {"cas2", "temporary", "replace"} =>
         receipt = ReceiptOf(p) /\ stable.receipt = ReceiptOf(p)

IInv == TypeOK /\ Exclusive /\ JournalHeld /\ AllSettled

-----------------------------------------------------------------------------

(***************************************************************************)
(* Every step of every actor preserves the types.                          *)
(***************************************************************************)
LEMMA TypePreserved == TypeOK /\ [Next]_vars => TypeOK'
<1> SUFFICES ASSUME TypeOK, [Next]_vars PROVE TypeOK'
  OBVIOUS
<1> USE ApplyAssumption
<1>1. ASSUME NEW p \in Appliers, Apply(p) PROVE TypeOK'
  <2> p \in Procs
    BY DEF Procs
  <2>1. ASSUME NEW from, Refuse(p, from) PROVE TypeOK'
    BY <2>1 DEF TypeOK, Refuse, Goto, files, repository, memory, bounds, Ended
  <2>2. CASE Load(p)
    BY <2>2 DEF TypeOK, Load, Goto, files, repository, bounds
  <2>3. CASE Inspect(p)
    BY <2>1, <2>3 DEF TypeOK, Inspect, Goto, files, repository, memory, bounds
  <2>4. CASE Digest(p)
    BY <2>1, <2>4 DEF TypeOK, Digest, Goto, files, repository, memory, bounds
  <2>5. CASE Acquire(p, "candidate")
    BY <2>5 DEF TypeOK, Acquire, Goto, files, repository, memory, bounds, Critical
  <2>6. CASE CheckCandidate(p)
    BY <2>1, <2>6 DEF TypeOK, CheckCandidate, Goto, files, repository, bounds, Critical
  <2>7. CASE Validate(p)
    BY <2>1, <2>7 DEF TypeOK, Validate, Goto, files, repository, memory, bounds, Critical
  <2>8. CASE FirstCheck(p)
    BY <2>1, <2>8 DEF TypeOK, FirstCheck, Goto, files, repository, memory, bounds, Critical
  <2>9. CASE CreateReceipt(p)
    <3>1. [NoReceipt EXCEPT !.stage = "partial", !.by = p] \in Receipt
      BY DEF NoReceipt, Receipt
    <3> HIDE DEF NoReceipt
    <3> QED
      BY <2>1, <2>9, <3>1 DEF TypeOK, CreateReceipt, Goto, repository, memory, bounds,
                              Critical, Journal
  <2>10. CASE FillReceipt(p)
    BY <2>10 DEF TypeOK, FillReceipt, ReceiptOf, Goto, Receipt, Request,
                 repository, memory, bounds, Critical, Journal
  <2>11. CASE SecondCheck(p)
    BY <2>1, <2>11 DEF TypeOK, SecondCheck, Goto, files, repository, memory, bounds,
                       Critical, Journal
  <2>12. CASE CreateTemporary(p)
    BY <2>12 DEF TypeOK, CreateTemporary, Goto, repository, memory, bounds, Critical, Journal
  <2>13. CASE Replace(p)
    BY <2>13 DEF TypeOK, Replace, Goto, Request, repository, memory, bounds, Critical
  <2>14. CASE Finish(p)
    BY <2>14 DEF TypeOK, Finish, Goto, repository, memory, bounds, Ended
  <2> QED
    BY <1>1, <2>2, <2>3, <2>4, <2>5, <2>6, <2>7, <2>8, <2>9, <2>10, <2>11, <2>12,
       <2>13, <2>14 DEF Apply
<1>2. ASSUME NEW b \in Bootstraps, Bootstrap(b) PROVE TypeOK'
  BY <1>2 DEF TypeOK, Bootstrap, StartBootstrap, Acquire, DependencyCheck, Goto, Procs,
              files, repository, memory, bounds, Critical, Ended
<1>3. ASSUME NEW p \in Procs, Kill(p) PROVE TypeOK'
  BY <1>3 DEF TypeOK, Kill, files, repository, memory, bounds, Ended
<1>4. CASE EditRequest
  BY <1>4 DEF TypeOK, EditRequest, Request, repository, memory
<1>5. CASE EditOther
  BY <1>5 DEF TypeOK, EditOther, files, memory
<1>6. CASE SwitchBranch
  <2> DEFINE main == ~head.main
  <2>1. main \in BOOLEAN
    OBVIOUS
  <2>2. head' = [head EXCEPT !.main = main]
    BY <1>6 DEF SwitchBranch
  <2> HIDE DEF main
  <2>3. head' \in [id : Nat, main : BOOLEAN, request : Request, receipt : Receipt,
                   candidate : BOOLEAN]
    BY <2>1, <2>2 DEF TypeOK
  <2> QED
    BY <1>6, <2>3 DEF TypeOK, SwitchBranch, files, memory
<1>7. ASSUME NEW changed \in BOOLEAN, Commit(changed) PROVE TypeOK'
  <2> DEFINE exact == /\ changed /\ ~dirty
                      /\ request # head.request /\ receipt = head.receipt
  <2>1. exact \in BOOLEAN
    OBVIOUS
  <2>2. head' = [id |-> head.id + 1, main |-> head.main, request |-> request,
                 receipt |-> receipt, candidate |-> exact]
    BY <1>7 DEF Commit
  <2> HIDE DEF exact
  <2>3. head' \in [id : Nat, main : BOOLEAN, request : Request, receipt : Receipt,
                   candidate : BOOLEAN]
    BY <2>1, <2>2 DEF TypeOK
  <2> QED
    BY <1>7, <2>3 DEF TypeOK, Commit, memory, bounds
<1>8. CASE Resolve
  BY <1>8 DEF TypeOK, Resolve, memory, bounds
<1>9. CASE PowerLoss
  BY <1>9 DEF TypeOK, PowerLoss, repository, memory, Ended
<1>10. CASE UNCHANGED vars
  BY <1>10 DEF TypeOK, vars
<1> QED
  BY <1>1, <1>2, <1>3, <1>4, <1>5, <1>6, <1>7, <1>8, <1>9, <1>10 DEF Next, People

(***************************************************************************)
(* Two commands are never in their critical sections at once: every exit,  *)
(* refusal or kill gives the lock back, and only the holder does.          *)
(***************************************************************************)
LEMMA ExclusivePreserved == TypeOK /\ Exclusive /\ [Next]_vars => Exclusive'
<1> SUFFICES ASSUME TypeOK, Exclusive, [Next]_vars PROVE Exclusive'
  OBVIOUS
<1> USE ApplyAssumption DEF Exclusive, TypeOK, Procs, Critical, Journal
<1>1. ASSUME NEW p \in Appliers, Apply(p) PROVE Exclusive'
  <2>1. ASSUME NEW from, Refuse(p, from) PROVE Exclusive'
    BY <2>1 DEF Refuse, Goto
  <2>2. CASE Load(p)
    BY <2>2 DEF Load, Goto
  <2>3. CASE Inspect(p)
    BY <2>1, <2>3 DEF Inspect, Goto
  <2>4. CASE Digest(p)
    BY <2>1, <2>4 DEF Digest, Goto
  <2>5. CASE Acquire(p, "candidate")
    BY <2>5 DEF Acquire, Goto
  <2>6. CASE CheckCandidate(p)
    BY <2>1, <2>6 DEF CheckCandidate, Goto
  <2>7. CASE Validate(p)
    BY <2>1, <2>7 DEF Validate, Goto
  <2>8. CASE FirstCheck(p)
    BY <2>1, <2>8 DEF FirstCheck, Goto
  <2>9. CASE CreateReceipt(p)
    BY <2>1, <2>9 DEF CreateReceipt, Goto
  <2>10. CASE FillReceipt(p)
    BY <2>10 DEF FillReceipt, Goto
  <2>11. CASE SecondCheck(p)
    BY <2>1, <2>11 DEF SecondCheck, Goto
  <2>12. CASE CreateTemporary(p)
    BY <2>12 DEF CreateTemporary, Goto
  <2>13. CASE Replace(p)
    BY <2>13 DEF Replace, Goto
  <2>14. CASE Finish(p)
    BY <2>14 DEF Finish, Goto
  <2> QED
    BY <1>1, <2>2, <2>3, <2>4, <2>5, <2>6, <2>7, <2>8, <2>9, <2>10, <2>11, <2>12,
       <2>13, <2>14 DEF Apply
<1>2. ASSUME NEW b \in Bootstraps, Bootstrap(b) PROVE Exclusive'
  BY <1>2 DEF Bootstrap, StartBootstrap, Acquire, DependencyCheck, Goto
<1>3. ASSUME NEW p \in Procs, Kill(p) PROVE Exclusive'
  BY <1>3 DEF Kill
<1>4. CASE People
  BY <1>4 DEF People, EditRequest, EditOther, SwitchBranch, Commit, Resolve
<1>5. CASE PowerLoss
  BY <1>5 DEF PowerLoss, Ended
<1>6. CASE UNCHANGED vars
  BY <1>6 DEF vars
<1> QED
  BY <1>1, <1>2, <1>3, <1>4, <1>5, <1>6 DEF Next

\* Only the holder of the lock writes a receipt, and it alone is in a journal phase.
LEMMA JournalPreserved ==
  ASSUME EvidenceDirDurable
  PROVE  TypeOK /\ Exclusive /\ JournalHeld /\ [Next]_vars => JournalHeld'
<1> SUFFICES ASSUME TypeOK, Exclusive, JournalHeld, [Next]_vars PROVE JournalHeld'
  OBVIOUS
<1> USE ApplyAssumption DEF Exclusive, TypeOK, Procs, Critical, Journal, JournalHeld
<1>1. ASSUME NEW p \in Appliers, Apply(p) PROVE JournalHeld'
  <2>1. ASSUME NEW from, Refuse(p, from) PROVE JournalHeld'
    BY <2>1 DEF Refuse, Goto, files, memory, ReceiptOf
  <2>2. CASE Load(p)
    BY <2>2 DEF Load, Goto, files, ReceiptOf
  <2>3. CASE Inspect(p)
    BY <2>1, <2>3 DEF Inspect, Goto, files, memory, ReceiptOf
  <2>4. CASE Digest(p)
    BY <2>1, <2>4 DEF Digest, Goto, files, memory, ReceiptOf
  <2>5. CASE Acquire(p, "candidate")
    BY <2>5 DEF Acquire, Goto, files, memory, ReceiptOf
  <2>6. CASE CheckCandidate(p)
    BY <2>1, <2>6 DEF CheckCandidate, Goto, files, ReceiptOf
  <2>7. CASE Validate(p)
    BY <2>1, <2>7 DEF Validate, Goto, files, memory, ReceiptOf
  <2>8. CASE FirstCheck(p)
    BY <2>1, <2>8 DEF FirstCheck, Goto, files, memory, ReceiptOf
  <2>9. CASE CreateReceipt(p)
    BY <2>1, <2>9 DEF CreateReceipt, Goto, NoReceipt, memory, ReceiptOf
  <2>10. CASE FillReceipt(p)
    BY <2>10 DEF FillReceipt, Goto, memory, ReceiptOf
  <2>11. CASE SecondCheck(p)
    BY <2>1, <2>11 DEF SecondCheck, Goto, files, memory, ReceiptOf
  <2>12. CASE CreateTemporary(p)
    BY <2>12 DEF CreateTemporary, Goto, memory, ReceiptOf
  <2>13. CASE Replace(p)
    BY <2>13 DEF Replace, Goto, memory, ReceiptOf
  <2>14. CASE Finish(p)
    BY <2>14 DEF Finish, Goto, memory, ReceiptOf
  <2> QED
    BY <1>1, <2>2, <2>3, <2>4, <2>5, <2>6, <2>7, <2>8, <2>9, <2>10, <2>11, <2>12,
       <2>13, <2>14 DEF Apply
<1>2. ASSUME NEW b \in Bootstraps, Bootstrap(b) PROVE JournalHeld'
  BY <1>2 DEF Bootstrap, StartBootstrap, Acquire, DependencyCheck, Goto, files, memory,
              ReceiptOf
<1>3. ASSUME NEW p \in Procs, Kill(p) PROVE JournalHeld'
  BY <1>3 DEF Kill, files, memory, ReceiptOf
<1>4. ASSUME People PROVE JournalHeld'
  <2>1. CASE EditRequest
    BY <2>1 DEF EditRequest, memory, ReceiptOf
  <2>2. CASE EditOther \/ SwitchBranch
    BY <2>2 DEF EditOther, SwitchBranch, files, memory, ReceiptOf
  <2>3. ASSUME NEW changed \in BOOLEAN, Commit(changed) PROVE JournalHeld'
    BY <2>3 DEF Commit, memory, ReceiptOf
  <2>4. CASE Resolve
    BY <2>4 DEF Resolve, memory, ReceiptOf
  <2> QED
    BY <1>4, <2>1, <2>2, <2>3, <2>4 DEF People
<1>5. CASE PowerLoss
  BY <1>5 DEF PowerLoss, Ended
<1>6. CASE UNCHANGED vars
  BY <1>6 DEF vars, ReceiptOf
<1> QED
  BY <1>1, <1>2, <1>3, <1>4, <1>5, <1>6 DEF Next

(***************************************************************************)
(* Whichever files survive a power loss, an applied status among them      *)
(* keeps its receipt: the receipt is on stable storage before the status   *)
(* is written, and no receipt is created under an applied status.          *)
(***************************************************************************)
LEMMA SettledPreserved ==
  TypeOK /\ JournalHeld /\ AllSettled /\ [Next]_vars => AllSettled'
<1> SUFFICES ASSUME TypeOK, JournalHeld, AllSettled, [Next]_vars PROVE AllSettled'
  OBVIOUS
<1> USE ApplyAssumption DEF TypeOK, JournalHeld, AllSettled, Settled
<1>1. ASSUME NEW p \in Appliers, Apply(p) PROVE AllSettled'
  <2>1. ASSUME NEW from, Refuse(p, from) PROVE AllSettled'
    BY <2>1 DEF Refuse, files, repository
  <2>2. CASE Load(p) \/ Inspect(p) \/ Digest(p) \/ Acquire(p, "candidate")
    BY <2>1, <2>2 DEF Load, Inspect, Digest, Acquire, files, repository
  <2>3. CASE CheckCandidate(p) \/ Validate(p) \/ FirstCheck(p) \/ SecondCheck(p)
    BY <2>1, <2>3 DEF CheckCandidate, Validate, FirstCheck, SecondCheck, files, repository
  <2>4. CASE CreateReceipt(p)
    BY <2>1, <2>4 DEF CreateReceipt, Exists, repository
  <2>5. CASE FillReceipt(p)
    <3>1. request.status # "applied" /\ stable.request.status # "applied"
      BY <2>5 DEF FillReceipt, Goto
    <3>2. stable'.request = stable.request
      BY <2>5 DEF FillReceipt
    <3> QED
      BY <2>5, <3>1, <3>2 DEF FillReceipt, repository
  <2>6. CASE CreateTemporary(p)
    BY <2>6 DEF CreateTemporary, repository
  <2>7. CASE Replace(p)
    <3>1. /\ receipt = ReceiptOf(p) /\ stable.receipt = ReceiptOf(p)
          /\ receipt' = receipt /\ stable' = stable /\ head' = head
      BY <2>7 DEF Replace, Goto, repository
    <3>2. request'.body = loaded[p].body
      BY <2>7 DEF Replace, Request
    <3> QED
      BY <3>1, <3>2 DEF ReceiptOf
  <2>8. CASE Finish(p)
    BY <2>8 DEF Finish, repository
  <2> QED
    BY <1>1, <2>2, <2>3, <2>4, <2>5, <2>6, <2>7, <2>8 DEF Apply
<1>2. ASSUME NEW b \in Bootstraps, Bootstrap(b) PROVE AllSettled'
  BY <1>2 DEF Bootstrap, StartBootstrap, Acquire, DependencyCheck, files, repository
<1>3. ASSUME NEW p \in Procs, Kill(p) PROVE AllSettled'
  BY <1>3 DEF Kill, files, repository
<1>4. CASE EditRequest
  <2>1. request'.status # "applied" /\ stable'.request = request'
    BY <1>4 DEF EditRequest
  <2> QED
    BY <1>4, <2>1 DEF EditRequest, repository
<1>5. CASE EditOther \/ SwitchBranch
  <2>1. head'.request = head.request /\ head'.receipt = head.receipt
    BY <1>5 DEF EditOther, SwitchBranch
  <2> QED
    BY <1>5, <2>1 DEF EditOther, SwitchBranch, files
<1>6. ASSUME NEW changed \in BOOLEAN, Commit(changed) PROVE AllSettled'
  <2>1. /\ head'.request = request /\ head'.receipt = receipt
        /\ stable'.request = request /\ stable'.receipt = receipt
        /\ request' = request /\ receipt' = receipt
    BY <1>6 DEF Commit
  <2> QED
    BY <2>1
<1>7. CASE Resolve
  BY <1>7 DEF Resolve
<1>8. CASE PowerLoss
  BY <1>8 DEF PowerLoss, repository
<1>9. CASE UNCHANGED vars
  BY <1>9 DEF vars
<1> QED
  BY <1>1, <1>2, <1>3, <1>4, <1>5, <1>6, <1>7, <1>8, <1>9 DEF Next, People

LEMMA InitialState == Init => IInv
<1> SUFFICES ASSUME Init PROVE IInv
  OBVIOUS
<1>1. TypeOK
  BY ApplyAssumption DEF Init, TypeOK, Request, Receipt, NoReceipt, Critical, Ended
<1>2. Exclusive /\ JournalHeld
  BY DEF Init, Exclusive, JournalHeld, Critical, Journal, Procs
<1>3. AllSettled
  BY DEF Init, AllSettled, Settled
<1> QED
  BY <1>1, <1>2, <1>3 DEF IInv

LEMMA InductiveInvariant ==
  ASSUME EvidenceDirDurable
  PROVE  Spec => []IInv
<1>1. IInv /\ [Next]_vars => IInv'
  BY TypePreserved, ExclusivePreserved, JournalPreserved, SettledPreserved DEF IInv
<1> QED
  BY <1>1, InitialState, PTL DEF Spec

-----------------------------------------------------------------------------

(***************************************************************************)
(* The files, the lock and every command's memory stay in their types.     *)
(***************************************************************************)
THEOREM TypeCorrect == Spec => []TypeOK
<1>1. Init => TypeOK
  BY InitialState DEF IInv
<1> QED
  BY <1>1, TypePreserved, PTL DEF Spec

(***************************************************************************)
(* With the receipt's directory on stable storage, an applied status never *)
(* outlives its receipt, for any number of commands, edits, commits, kills *)
(* and power losses.                                                       *)
(***************************************************************************)
THEOREM StatusStandsOnReceipt ==
  ASSUME EvidenceDirDurable
  PROVE  Spec => []ReceiptBeforeStatus
<1>1. IInv => ReceiptBeforeStatus
  BY DEF IInv, AllSettled, Settled, ReceiptBeforeStatus
<1> QED
  BY <1>1, InductiveInvariant, PTL

(***************************************************************************)
(* A command changes the status only over the receipt it wrote itself.     *)
(***************************************************************************)
THEOREM JournalIsOwn ==
  ASSUME EvidenceDirDurable
  PROVE  Spec => []OwnJournal
<1>1. IInv => OwnJournal
  BY DEF IInv, JournalHeld, OwnJournal
<1> QED
  BY <1>1, InductiveInvariant, PTL

(***************************************************************************)
(* A bootstrap under the lock never mistakes a live apply for an           *)
(* interrupted one.                                                        *)
(***************************************************************************)
THEOREM AlarmsAreTrue == Spec => NoFalseAlarm
<1>1. TypeOK /\ Exclusive /\ [Next]_vars =>
        [\A b \in Bootstraps : pc'[b] = "alarmed" /\ pc[b] # "alarmed" =>
           \A p \in Appliers : pc[p] \notin Journal]_vars
  <2> SUFFICES ASSUME TypeOK, Exclusive, Next,
                      NEW b \in Bootstraps, pc'[b] = "alarmed", pc[b] # "alarmed",
                      NEW p \in Appliers
               PROVE  pc[p] \notin Journal
    BY DEF vars
  <2>1. pc[b] = "check"
    <3> USE ApplyAssumption DEF TypeOK, Procs
    <3>1. ASSUME NEW q \in Appliers, Apply(q) PROVE FALSE
      BY <3>1 DEF Apply, Load, Inspect, Digest, Acquire, CheckCandidate, Validate,
                  FirstCheck, CreateReceipt, FillReceipt, SecondCheck, CreateTemporary,
                  Replace, Finish, Refuse, Goto
    <3>2. ASSUME NEW c \in Bootstraps, Bootstrap(c) PROVE pc[b] = "check"
      BY <3>2 DEF Bootstrap, StartBootstrap, Acquire, DependencyCheck, Goto
    <3>3. ASSUME NEW q \in Procs, Kill(q) PROVE FALSE
      BY <3>3 DEF Kill
    <3>4. CASE People
      BY <3>4 DEF People, EditRequest, EditOther, SwitchBranch, Commit, Resolve
    <3>5. CASE PowerLoss
      BY <3>5 DEF PowerLoss, Ended
    <3> QED
      BY <3>1, <3>2, <3>3, <3>4, <3>5 DEF Next
  <2> QED
    BY <2>1, ApplyAssumption DEF Exclusive, Procs, Critical, Journal
<1>2. TypeOK /\ Exclusive /\ [Next]_vars => TypeOK' /\ Exclusive'
  BY TypePreserved, ExclusivePreserved
<1>3. Init => TypeOK /\ Exclusive
  BY InitialState DEF IInv
<1> QED
  BY <1>1, <1>2, <1>3, PTL DEF Spec, NoFalseAlarm
=============================================================================
