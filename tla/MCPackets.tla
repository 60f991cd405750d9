------------------------------ MODULE MCPackets ------------------------------
EXTENDS PacketGraph, PacketDispatch, PromotionEnvelope, BundleLifecycle, TLC

CONSTANTS w1, w2

Node(n) == [kind |-> "node", node |-> n]
Range(a, b) == [kind |-> "range", first |-> a, last |-> b]

MCJoinOwner == [j \in {13} |-> 1]
MCJoinStart == [j \in {13} |-> {1, 2}]

Entry(owner, starts, completions) ==
  [owner : {owner}, start : starts, completion : completions]

\* Reversed, overlong, repeated and unknown expressions, and a foreign owner.
Malformed ==
  Entry(2, {<<Range(1, 0)>>, <<Range(1, 3)>>, <<Node(1), Range(0, 1)>>, <<Node(9)>>}, {<<>>})
  \cup Entry(1, {<<>>}, {<<>>})

MCDocuments ==
  { 0 :> p @@ 1 :> q @@ 2 :> r @@ 13 :> j :
      p \in Entry(0, {<<>>, <<Node(1)>>, <<Node(13)>>, <<Range(1, 2)>>},
                     {<<>>, <<Node(1)>>, <<Node(13)>>}),
      q \in Entry(1, {<<>>, <<Node(0)>>, <<Node(13)>>, <<Node(0), Range(1, 2)>>},
                     {<<>>, <<Node(0)>>, <<Node(2)>>}),
      r \in Malformed \cup Entry(2, {<<>>, <<Node(0)>>, <<Node(13)>>, <<Range(0, 1)>>},
                                    {<<>>, <<Node(0)>>, <<Node(1)>>}),
      j \in Entry(1, {<<Range(1, 2)>>, <<Node(1)>>}, {<<>>, <<Node(0)>>}) }

-----------------------------------------------------------------------------

MCOwners == {"P01", "P02"}
MCOwnerStart == [o \in MCOwners |-> IF o = "P01" THEN {} ELSE {"P01"}]
MCTargetKind == [t \in {"test", "help"} |-> IF t = "test" THEN "dispatcher" ELSE "direct"]

MCHook(key, owner) ==
  [dispatcher |-> "test", key |-> key, selector |-> "a", owner |-> owner]
MCHooks == {MCHook("SUITE", "P01"), MCHook("LAYER", "P01"), MCHook("LAYER", "P02")}
MCSelectors ==
  [target : {"test"}, key : {"SUITE", "LAYER"}, value : {"a"}, owner : MCOwners,
   refs : SUBSET MCHooks]
  \cup [target : {"help"}, key : {"SUITE"}, value : {"a"}, owner : {"P01"}, refs : {{}}]
\* The accepted contracts with two hooks or more, and some that are not accepted.
MCContracts ==
  LET all == [hooks : {g \in SUBSET MCHooks : Cardinality(g) \in 1..2},
              selectors : {{s, t} : s, t \in MCSelectors}]
  IN {c \in all : Accepts(c) /\ Cardinality(c.hooks) = 2}
     \cup {[hooks |-> {MCHook("SUITE", "P01")}, selectors |-> {}]}

GraphOff ==
  /\ document = CHOOSE d \in MCDocuments : TRUE
  /\ phase = "off"
  /\ indegree = [n \in Nodes |-> 0]
  /\ ready = {} /\ topological = <<>> /\ started = {} /\ completed = {}

DispatchOff ==
  /\ contract = [hooks |-> {}, selectors |-> {}]
  /\ fragments = [o \in Owners |-> [h \in Hook |-> "absent"]]
  /\ markers = {} /\ edits = MaxEdits
  /\ request = [dispatcher |-> "help", selected |-> {}, complete |-> FALSE]
  /\ step = "off"
  /\ seen = {} /\ pending = {} /\ ran = {}
  /\ checked = fragments

-----------------------------------------------------------------------------

\* Two people may hold one role, and one person two roles.
Approval(role, approver) == [role |-> role, approver |-> approver]
RoleApprovals ==
  {Approval("release_owner", "ann"), Approval("release_owner", "bob"),
   Approval("quality_owner", "bob"), Approval("security_owner", "cleo"),
   Approval("incident_commander", "ann"), Approval("incident_commander", "dan")}
Circumstance(live, eligible, evidence) ==
  [live |-> live, eligible |-> eligible, evidence |-> evidence]
Inventories ==
  {Circumstance(0, 0, "release in staging"), Circumstance(1, 1, "release in production")}

BuildOff == phase = "off" /\ step = "off"
EnvelopeOff == envelope = Blank /\ pointerVersion = 0
LifecycleOff == chain = <<>> /\ \A r \in Recorders : ~prepared[r].held

\* A graph document, a dispatch, an envelope or the lifecycle of a bundle, one of them in
\* a behavior: none writes another's state.
PacketsInit ==
  /\ PromotionInit /\ LifecycleInit
  /\ \/ GraphInit /\ DispatchOff
     \/ DispatchInit /\ GraphOff
     \/ GraphOff /\ DispatchOff

PacketsNext ==
  \/ GraphNext /\ UNCHANGED <<dispatchVars, promotionVars, lifecycleVars>>
  \/ DispatchNext /\ UNCHANGED <<graphVars, promotionVars, lifecycleVars>>
  \/ /\ BuildOff /\ LifecycleOff
     /\ PromotionNext /\ UNCHANGED <<graphVars, dispatchVars, lifecycleVars>>
  \/ /\ BuildOff /\ EnvelopeOff
     /\ LifecycleNext /\ UNCHANGED <<graphVars, dispatchVars, promotionVars>>

PacketsSpec ==
  /\ PacketsInit /\ [][PacketsNext]_<<graphVars, dispatchVars, promotionVars, lifecycleVars>>
  /\ GraphFairness
=============================================================================
