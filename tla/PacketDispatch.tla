---------------------------- MODULE PacketDispatch ----------------------------
(***************************************************************************)
(* The command contract and the hook dispatcher of scripts/packets: which  *)
(* contracts packet_contract.py accepts, and one `check dispatch` that     *)
(* reads receipts and Make fragments, selects hooks and runs each through  *)
(* a make of its own, while packets edit fragments and commit receipts.    *)
(*                                                                         *)
(* A hidden target's name is injective in its dispatcher, key, selector    *)
(* and owner, so a hook is its own name.                                   *)
(***************************************************************************)
EXTENDS Naturals, FiniteSets

CONSTANTS
  Owners,        \* packets that own fragments; Root is the owner of composites (P01)
  Root,
  OwnerStart,    \* the expanded start requirements of each owner
  TargetKind,    \* public target -> direct, aggregate, composite or dispatcher
  Hook,          \* hooks: [dispatcher, key, selector, owner]
  Contracts,     \* contracts considered: [hooks, selectors]
  MaxEdits       \* bound: fragment edits and receipt commits during a dispatch

ASSUME DispatchAssumption ==
  /\ IsFiniteSet(Owners) /\ Root \in Owners
  /\ OwnerStart \in [Owners -> SUBSET Owners]
  /\ MaxEdits \in Nat

VARIABLES
  contract,      \* the command contract
  fragments,     \* owner -> hidden target -> absent, rule or unfit (no phony or no recipe)
  markers,       \* nodes with a committed complete receipt
  edits,         \* edits and commits so far
  request,       \* [dispatcher, selected, complete]
  step,          \* where the dispatch is
  seen,          \* receipts the dispatch has read
  pending,       \* hooks still to run
  checked,       \* the fragments the gate of the running make has validated
  ran            \* [hook, by, stale]: recipes run, by whom, fragments changed since the gate

dispatchVars ==
  <<contract, fragments, markers, edits, request, step, seen, pending, checked, ran>>

Dispatchers == {t \in DOMAIN TargetKind : TargetKind[t] # "direct"}

-----------------------------------------------------------------------------

Registers(s, h) ==
  s.target = h.dispatcher /\ s.key = h.key /\ s.value = h.selector

Identified(selectors) ==
  \A s, t \in selectors :
    s.target = t.target /\ s.key = t.key /\ s.value = t.value => s = t

HooksOwnedOnce(hooks) ==
  \A g, h \in hooks :
    g.dispatcher = h.dispatcher /\ g.key = h.key /\ g.selector = h.selector => g = h

\* Hooks some composite selector refers to.
Referenced(c) == UNION {s.refs : s \in c.selectors}

\* validate_commands.
Accepts(c) ==
  /\ Identified(c.selectors) /\ HooksOwnedOnce(c.hooks)
  /\ \A h \in c.hooks : TargetKind[h.dispatcher] # "direct"
  /\ \A s \in c.selectors :
       /\ s.refs \subseteq {h \in c.hooks : h.dispatcher = s.target}
       /\ s.refs # {} => s.owner = Root
  /\ \A s, t \in c.selectors : s # t => s.refs \cap t.refs = {}
  /\ \A h \in c.hooks :
       /\ \/ \E s \in c.selectors : Registers(s, h)
          \/ h \in Referenced(c)
       /\ \A s \in c.selectors : Registers(s, h) => s.owner = h.owner

\* The hooks one public selector stands for.
Selected(c, s) ==
  IF s.refs # {} THEN s.refs ELSE {h \in c.hooks : Registers(s, h)}

-----------------------------------------------------------------------------

Definers(h) == {o \in Owners : fragments[o][h] # "absent"}

(***************************************************************************)
(* _validated_make_definitions: one definition of a target, declared and   *)
(* with a substantive recipe, catalogued and in its owner's fragment.      *)
(***************************************************************************)
Safe(c) ==
  \A h \in Hook :
    /\ Definers(h) \subseteq {h.owner}
    /\ Definers(h) # {} => h \in c.hooks
    /\ \A o \in Definers(h) : fragments[o][h] = "rule"

\* What the environment of `check dispatch` asks for.
Requests ==
  [dispatcher : DOMAIN TargetKind,
   selected : {{}} \cup {{s, t} : s, t \in contract.selectors},
   complete : BOOLEAN]

DispatchInit ==
  /\ contract \in Contracts
  /\ \E present \in SUBSET Hook :
       fragments = [o \in Owners |->
         [h \in Hook |-> IF h.owner = o /\ h \in present THEN "rule" ELSE "absent"]]
  /\ markers \in SUBSET Owners
  /\ edits = 0
  /\ request \in Requests
  /\ step = "begin"
  /\ seen = {} /\ pending = {} /\ ran = {}
  /\ checked = fragments

\* A packet rewrites a target of its fragment.
EditFragment(o, h, content) ==
  /\ edits < MaxEdits
  /\ fragments[o][h] # content
  /\ fragments' = [fragments EXCEPT ![o][h] = content]
  /\ edits' = edits + 1
  /\ UNCHANGED <<contract, markers, request, step, seen, pending, checked, ran>>

\* HEAD moves: a receipt is committed or reverted.
MoveHead(o) ==
  /\ edits < MaxEdits
  /\ markers' = IF o \in markers THEN markers \ {o} ELSE markers \cup {o}
  /\ edits' = edits + 1
  /\ UNCHANGED <<contract, fragments, request, step, seen, pending, checked, ran>>

Busy == UNCHANGED <<contract, fragments, markers, edits, request>>

End(result) == step' = result /\ Busy /\ UNCHANGED <<seen, pending, checked, ran>>

\* The catalog is built and the receipts at HEAD are read.
ReadReceipts ==
  /\ step = "begin"
  /\ IF Accepts(contract)
       THEN /\ step' = "inventory"
            /\ seen' = markers
            /\ Busy /\ UNCHANGED <<pending, checked, ran>>
       ELSE End("failed")

\* Hooks among which the request chooses; {} when the selector has none.
Candidates ==
  IF request.selected = {}
  THEN {h \in contract.hooks : h.dispatcher = request.dispatcher}
  ELSE UNION {Selected(contract, s) : s \in request.selected}

Active(h) == Definers(h) # {} /\ OwnerStart[h.owner] \subseteq seen

Unavailable == {h \in Candidates : ~Active(h)}

\* Mutant: unavailable hooks are skipped whatever was asked.
RefusedSkipping ==
  \/ ~Safe(contract)
  \/ request.dispatcher \notin Dispatchers
  \/ Cardinality({s.key : s \in request.selected}) > 1
  \/ \E s \in request.selected : s.target # request.dispatcher
  \/ request.selected # {} /\ Candidates = {}

\* dispatch raises before it runs anything.
Refused ==
  \/ ~Safe(contract)
  \/ request.dispatcher \notin Dispatchers
  \/ Cardinality({s.key : s \in request.selected}) > 1
  \/ \E s \in request.selected : s.target # request.dispatcher
  \/ request.selected # {} /\ Candidates = {}
  \/ (request.complete \/ request.selected # {}) /\ Unavailable # {}

\* The fragments are read and the hooks chosen.
Choose ==
  /\ step = "inventory"
  /\ IF Refused
       THEN End("failed")
       ELSE /\ pending' = Candidates \ Unavailable
            /\ step' = "running"
            /\ Busy /\ UNCHANGED <<seen, checked, ran>>

\* make parses the root Makefile: the safety gate validates the live fragments.
MakeGate ==
  /\ step = "running" /\ pending # {}
  /\ IF Safe(contract)
       THEN /\ checked' = fragments
            /\ step' = "gated"
            /\ Busy /\ UNCHANGED <<seen, pending, ran>>
       ELSE End("failed")

\* make includes the fragments and runs the recipe; the last definition counts.
MakeRun(h) ==
  /\ step = "gated" /\ h \in pending
  /\ \/ /\ \E o \in Definers(h) :
             ran' = ran \cup {[hook |-> h, by |-> o, stale |-> checked # fragments]}
        /\ pending' = pending \ {h}
        /\ step' = "running"
        /\ Busy /\ UNCHANGED <<seen, checked>>
     \/ End("failed")   \* no such target, or its recipe fails

Finish ==
  /\ step = "running" /\ pending = {}
  /\ End("succeeded")

DispatchNext ==
  \/ \E o \in Owners, h \in Hook, content \in {"absent", "rule", "unfit"} :
       EditFragment(o, h, content)
  \/ \E o \in Owners : MoveHead(o)
  \/ ReadReceipts \/ Choose \/ MakeGate \/ Finish
  \/ \E h \in Hook : MakeRun(h)

DispatchSpec == DispatchInit /\ [][DispatchNext]_dispatchVars

-----------------------------------------------------------------------------

\* A composite selector registered under a root hook's identity hides that hook.
Shadowed(c, h) ==
  \E s \in c.selectors : Registers(s, h) /\ s.refs # {} /\ h \notin s.refs

(***************************************************************************)
(* "hidden hook ... has no public selector registration",                  *)
(* packet_contract.py:420: in an accepted contract some public selector    *)
(* dispatches every hook, and it belongs to the hook's owner or to the     *)
(* root.  A root hook whose own selector is a composite that leaves it out *)
(* escapes: validation accepts it and no selector runs it.                 *)
(***************************************************************************)
EveryHookSelectable ==
  Accepts(contract) =>
    \A h \in contract.hooks : ~Shadowed(contract, h) =>
      \E s \in contract.selectors :
        h \in Selected(contract, s) /\ s.owner \in {h.owner, Root}

(***************************************************************************)
(* scripts/packets/check:92: a dispatch that succeeds although complete    *)
(* coverage or a selector was asked for has run every hook of the request, *)
(* each with the requirements of its owner on record when it was read,     *)
(* whatever happened to fragments and receipts since.                      *)
(***************************************************************************)
SuccessIsCoverage ==
  step = "succeeded" =>
    /\ \A r \in ran : OwnerStart[r.hook.owner] \subseteq seen
    /\ request.complete => Candidates = {r.hook : r \in ran}
    /\ request.selected # {} => Candidates = {r.hook : r \in ran} /\ ran # {}

(***************************************************************************)
(* packet_contract.py:546, "a parse-safe later fragment can otherwise      *)
(* replace an earlier packet's public recipe": a recipe comes from its     *)
(* owner's fragment, unless the fragments change between the gate and the  *)
(* include of the same make.                                               *)
(***************************************************************************)
OwnRecipe == \A r \in ran : r.by = r.hook.owner \/ r.stale
=============================================================================
