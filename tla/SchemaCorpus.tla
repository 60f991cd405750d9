---------------------------- MODULE SchemaCorpus ----------------------------
(***************************************************************************)
(* The fixtures render_schema_corpus writes for a contract: a value        *)
(* synthesized from the schema, checked against it, and recorded with a    *)
(* copy the schema must refuse.  A schema here has a text, properties with *)
(* an enumeration (property 1 required, the others optional) under         *)
(* conditions (if ... then ...), and a required array of items of one      *)
(* property, role, under `contains' constraints that stand in the array    *)
(* itself or in a branch of the document's oneOf.  Enumerated values and   *)
(* roles are numbers in the order of their enumeration.                    *)
(***************************************************************************)
EXTENDS Naturals, Sequences, FiniteSets, SequencesExt

CONSTANTS
  PropertyCount,   \* enumerated properties of a document
  RoleCount,       \* roles an item may have
  Shapes,          \* [text, items, closed, about]: what a schema says at first
                   \* (bound: conditions or contains constraints follow, not both)
  Candidates,      \* the texts the generator tries, in order: [form, length]
  Conditions,      \* the conditions an author may write
  MaxConditions,   \* bound: conditions of a schema
  MaxNeeds,        \* bound: contains constraints of a schema
  Addresses        \* where the interpreter may place a list: id() of a live one is unique

VARIABLES
  schema,          \* the schema being written, then sampled
  pass,            \* passes of _apply_sample_branches made
  document,        \* the value under synthesis: [text, properties, items]
  address,         \* where the document's list lies
  reservations,    \* array_reservations: by the address of a list, not by the list
  fixture          \* "none", "recorded", or why render_schema_corpus raised

corpusVars == <<schema, pass, document, address, reservations, fixture>>

Places == {"array", "branch"}
NeedSet == [role : 1..RoleCount, least : 1..2]
Unset == 0

ASSUME CorpusAssumption ==
  /\ PropertyCount \in Nat \ {0} /\ RoleCount \in Nat
  /\ MaxConditions \in Nat /\ MaxNeeds \in Nat
  /\ Conditions \subseteq [on : 1..PropertyCount, equals : Nat \ {Unset}, present : BOOLEAN,
                           target : 1..PropertyCount, becomes : Nat \ {Unset}]
  /\ \A s \in Shapes : s.items \in [least : Nat, most : Nat, unique : BOOLEAN]

(***************************************************************************)
(* Synthesis                                                               *)
(***************************************************************************)
\* The first candidate within the bounds of the length and of the pattern.
Fits(candidate, text) ==
  /\ candidate.form \in text.forms
  /\ candidate.length \in text.shortest..text.longest
SampleString(text) == SelectInSeq(Candidates, LAMBDA c : Fits(c, text))

\* The i-th of unique items is varied to the i-th value of the enumeration; past its
\* end the variation is a text of its own, which no enumeration holds.
VarySample(i, unique) == IF unique THEN i ELSE 1
BaseItems(items) == [i \in 1..items.least |-> VarySample(i, items.unique)]

(* An array under synthesis: its items, the positions that already serve a     *)
(* constraint, and whether the synthesis gave up.                              *)
Array(items, taken) == [items |-> items, taken |-> taken, failed |-> FALSE]
Matching(array, need) == {i \in DOMAIN array.items : array.items[i] = need.role}
Lacking(array, need) ==
  IF Cardinality(Matching(array, need)) < need.least
  THEN need.least - Cardinality(Matching(array, need)) ELSE 0

\* The first items that match are kept for the constraint.
KeepMatching(array, need) ==
  [array EXCEPT !.taken = @ \cup
     {i \in Matching(array, need) :
        Cardinality({j \in Matching(array, need) : j < i}) < need.least}]

\* Mutant: a witness may take any item that is not one already.
AddWitnessAnywhere(array, need, most) ==
  LET free == DOMAIN array.items \ Matching(array, need)
  IN  IF array.failed THEN array
      ELSE IF free = {} THEN [array EXCEPT !.failed = TRUE]
      ELSE [array EXCEPT !.items[CHOOSE i \in free : \A j \in free : i <= j] = need.role]

\* One more witness: appended while there is room, else in place of an item that
\* serves no other constraint.
Replaceable(array, need) == DOMAIN array.items \ (array.taken \cup Matching(array, need))
AddWitness(array, need, most) ==
  LET free == Replaceable(array, need)
      place == IF Len(array.items) < most THEN Len(array.items) + 1
               ELSE CHOOSE i \in free : \A j \in free : i <= j
  IN  IF array.failed THEN array
      ELSE IF Len(array.items) >= most /\ free = {} THEN [array EXCEPT !.failed = TRUE]
      ELSE [array EXCEPT
              !.items = IF place > Len(@) THEN Append(@, need.role)
                        ELSE [@ EXCEPT ![place] = need.role],
              !.taken = @ \cup {place}]

\* The witnesses one constraint lacks, and the constraints one after the other.
ServeNeed(array, need, most) ==
  LET served[i \in 0..Lacking(array, need)] ==
        IF i = 0 THEN KeepMatching(array, need) ELSE AddWitness(served[i - 1], need, most)
  IN  served[Lacking(array, need)]
MergeArraySample(array, needs, most) ==
  LET merged[i \in 0..Len(needs)] ==
        IF i = 0 THEN array ELSE ServeNeed(merged[i - 1], needs[i], most)
  IN  merged[Len(needs)]

\* uniqueItems is looked at where it is written: with the array's own constraints.
MergeOwnConstraints(array, s) ==
  LET merged == MergeArraySample(array, s.needs["array"], s.items.most)
  IN  [merged EXCEPT !.failed = @ \/ (s.items.unique /\ ~IsInjective(merged.items))]

SampleArray(s) == MergeOwnConstraints(Array(BaseItems(s.items), {}), s)

\* An absent property satisfies a condition that does not require it.
ConditionMatches(properties, c) ==
  \/ properties[c.on] = c.equals
  \/ properties[c.on] = Unset /\ ~c.present
MergeCondition(properties, c) ==
  IF ConditionMatches(properties, c) THEN [properties EXCEPT ![c.target] = c.becomes]
  ELSE properties
MergeConditions(properties, conditions) ==
  LET merged[i \in 0..Len(conditions)] ==
        IF i = 0 THEN properties ELSE MergeCondition(merged[i - 1], conditions[i])
  IN  merged[Len(conditions)]

(***************************************************************************)
(* The strict validation of the fixture                                    *)
(***************************************************************************)
Holds(need, items) ==
  Cardinality({i \in DOMAIN items : items[i] = need.role}) >= need.least
SatisfiesSchema(d, s) ==
  /\ d.text # 0
  /\ \A i \in DOMAIN s.conditions :
        LET c == s.conditions[i] IN
        ConditionMatches(d.properties, c) => d.properties[c.target] = c.becomes
  /\ Len(d.items) \in s.items.least..s.items.most
  /\ \A i \in DOMAIN d.items : d.items[i] \in 1..RoleCount
  /\ s.items.unique => IsInjective(d.items)
  /\ \A p \in Places : \A i \in DOMAIN s.needs[p] : Holds(s.needs[p][i], d.items)
RefusesUnknownProperty(s) == s.closed

(***************************************************************************)
(* The author writes a schema; the generator then samples it               *)
(***************************************************************************)
Unsampled == [text |-> 0, properties |-> [p \in 1..PropertyCount |-> Unset], items |-> <<>>]

CorpusInit ==
  /\ schema \in {[text |-> s.text, items |-> s.items, closed |-> s.closed, about |-> s.about,
                  conditions |-> <<>>, needs |-> [p \in Places |-> <<>>]] : s \in Shapes}
  /\ pass = 0 /\ document = Unsampled /\ fixture = "none"
  /\ address = CHOOSE a \in Addresses : TRUE
  /\ reservations = [a \in Addresses |-> {}]

Writing == pass = 0 /\ fixture = "none"
NeedCount == Len(schema.needs["array"]) + Len(schema.needs["branch"])

WriteCondition(c) ==
  /\ Writing /\ schema.about = "conditions" /\ Len(schema.conditions) < MaxConditions
  /\ schema' = [schema EXCEPT !.conditions = Append(@, c)]
  /\ UNCHANGED <<pass, document, address, reservations, fixture>>
WriteNeed(place, need) ==
  /\ Writing /\ schema.about = "contains" /\ NeedCount < MaxNeeds
  /\ schema' = [schema EXCEPT !.needs[place] = Append(@, need)]
  /\ UNCHANGED <<pass, document, address, reservations, fixture>>

\* Mutant: a pass fewer.
PassesTwo == 2
Passes == 3

(* One of the passes: the required properties are sampled anew, the new list    *)
(* while the one it replaces is still alive; then the array's own constraints,  *)
(* the conditions and the branch of the oneOf are merged.                       *)
Pass(next) ==
  LET sampled == SampleArray(schema)
      own == MergeOwnConstraints(Array(sampled.items, reservations[next]), schema)
      merged == MergeArraySample(own, schema.needs["branch"], schema.items.most)
      required == [document.properties EXCEPT ![1] = 1]
  IN
  /\ fixture = "none" /\ pass < Passes /\ next # address
  /\ pass' = pass + 1 /\ address' = next
  /\ document' = [text |-> SampleString(schema.text),
                  properties |-> MergeConditions(required, schema.conditions),
                  items |-> merged.items]
  /\ reservations' = [reservations EXCEPT ![next] = merged.taken]
  /\ fixture' = IF SampleString(schema.text) = 0 THEN "no text"
                ELSE IF sampled.failed \/ merged.failed THEN "no items"
                ELSE "none"
  /\ UNCHANGED schema

RecordFixture ==
  /\ fixture = "none" /\ pass = Passes
  /\ fixture' = IF ~SatisfiesSchema(document, schema) THEN "not valid"
                ELSE IF ~RefusesUnknownProperty(schema) THEN "not refused"
                ELSE "recorded"
  /\ UNCHANGED <<schema, pass, document, address, reservations>>

CorpusNext ==
  \/ \E c \in Conditions : WriteCondition(c)
  \/ \E p \in Places, n \in NeedSet : WriteNeed(p, n)
  \/ \E a \in Addresses : Pass(a)
  \/ RecordFixture

CorpusSpec == CorpusInit /\ [][CorpusNext]_corpusVars

(***************************************************************************)
(* Properties                                                              *)
(***************************************************************************)
Plain(s) == /\ s.closed /\ SampleString(s.text) # 0 /\ s.items.least <= s.items.most
            /\ IF s.items.unique THEN s.items.least <= RoleCount ELSE RoleCount >= 1

\* No two conditions set one property, and none a required one, which each pass samples anew.
Independent(conditions) ==
  /\ IsInjective([i \in DOMAIN conditions |-> conditions[i].target])
  /\ \A i \in DOMAIN conditions : conditions[i].target # 1

(* Three independent conditions are all honoured, in whatever order the author  *)
(* wrote them: a chain written backwards settles one link a pass                *)
(* (_apply_sample_branches).                                                    *)
ChainsSettle ==
  (/\ fixture # "none" /\ Plain(schema) /\ NeedCount = 0
   /\ Len(schema.conditions) <= 3 /\ Independent(schema.conditions))
  => fixture = "recorded"

Demand(needs) ==
  LET total[i \in 0..Len(needs)] == IF i = 0 THEN 0 ELSE total[i - 1] + needs[i].least
  IN  total[Len(needs)]
Demanded(s) == Demand(s.needs["array"]) + Demand(s.needs["branch"])
Satisfiable(s) ==
  /\ Demanded(s) <= s.items.most
  /\ s.items.unique => \A p \in Places : \A i \in DOMAIN s.needs[p] : s.needs[p][i].least = 1

(* Constraints an array states itself, or that can all be met by appending, are *)
(* met together: a witness for one is never taken from another, in any of the   *)
(* passes (_merge_array_sample and its reserved indices).                       *)
ConstraintsMetTogether ==
  (/\ fixture # "none" /\ Plain(schema) /\ schema.conditions = <<>> /\ Satisfiable(schema)
   /\ \/ schema.needs["branch"] = <<>>
      \/ schema.items.least + Demanded(schema) <= schema.items.most)
  => fixture = "recorded"

=============================================================================
