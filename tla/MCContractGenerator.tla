------------------------- MODULE MCContractGenerator -------------------------
(* The contract generator on a surface of one schema, one property, one      *)
(* protobuf field number and one approved component; or the fixture it       *)
(* synthesizes for one schema.                                               *)
EXTENDS ContractGenerator, SchemaCorpus

CONSTANTS r1, r2, catalog, note, field, component

Twins == Permutations(Runs)

Catalog(root, version, text) ==
  [root |-> root, version |-> version, properties |-> [q \in Properties |-> text]]

Start ==
  {[schemas |-> [p \in Paths |-> Catalog(1, OldVersion, 1)],
    parts |-> [k \in Parts |-> IF k = component THEN 1 ELSE Absent]]}

(* The approved replacement, the same change under the old version, and the     *)
(* removal of the schema.                                                       *)
CatalogEdits ==
  {Catalog(2, NewVersion, 2), Catalog(2, OldVersion, 1), NoSchema}

Texts == <<[form |-> "version", length |-> 5], [form |-> "word", length |-> 5],
           [form |-> "digest", length |-> 64]>>
AnyText == [forms |-> {"version", "word", "digest"}, shortest |-> 1, longest |-> 128]
LongText == [forms |-> {"version", "word", "digest"}, shortest |-> 30, longest |-> 128]
LongWord == [forms |-> {"word"}, shortest |-> 30, longest |-> 128]

Items(least, most, unique) == [least |-> least, most |-> most, unique |-> unique]
Shape(text, items, closed, about) ==
  [text |-> text, items |-> items, closed |-> closed, about |-> about]
CorpusShapes ==
  {Shape(AnyText, Items(least, most, FALSE), TRUE, "contains") : least \in 0..2, most \in 2..4}
    \cup {Shape(AnyText, Items(least, most, TRUE), TRUE, "contains") :
            least \in {2, 4}, most \in {4, 5}}
    \cup {Shape(LongText, Items(0, 0, FALSE), TRUE, "conditions")}
    \cup {Shape(t, Items(1, 2, FALSE), FALSE, "contains") : t \in {LongText, LongWord}}

Condition(on, equals, present, target, becomes) ==
  [on |-> on, equals |-> equals, present |-> present, target |-> target, becomes |-> becomes]
CorpusConditions ==
  {Condition(on, 1, present, target, 1) :
     on \in 1..PropertyCount, present \in BOOLEAN, target \in 2..PropertyCount}
    \cup {Condition(1, 1, TRUE, 3, 2), Condition(3, 2, FALSE, 2, 1)}

OffSchema == [text |-> AnyText, items |-> Items(0, 1, FALSE), closed |-> FALSE, about |-> "off",
              conditions |-> <<>>, needs |-> [p \in Places |-> <<>>]]
CorpusOff ==
  /\ schema = OffSchema /\ pass = Passes /\ document = Unsampled /\ fixture = "recorded"
  /\ address = CHOOSE a \in Addresses : TRUE
  /\ reservations = [a \in Addresses |-> {}]

GenerateInit == GeneratorInit /\ (CorpusOff \/ CorpusInit)
GenerateNext ==
  \/ schema = OffSchema /\ GeneratorNext /\ UNCHANGED corpusVars
  \/ schema # OffSchema /\ CorpusNext /\ UNCHANGED generatorVars
GenerateSpec == GenerateInit /\ [][GenerateNext]_<<generatorVars, corpusVars>>
=============================================================================
