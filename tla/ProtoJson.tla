------------------------------ MODULE ProtoJson ------------------------------
(***************************************************************************)
(* The JSON form of the cell protocol's frames as the generated Go types   *)
(* write and read it (internal/contracts/codegen/generate.py,              *)
(* render_cell_clients): MarshalJSON puts the variant of the frame's oneof *)
(* beside the ordinary fields; UnmarshalJSON reads the members of an       *)
(* object one after the other, gives both spellings of a field one name,   *)
(* going through a Go map in any order, and then looks for the variants.   *)
(*                                                                         *)
(* A member is a name, a spelling of it and a payload.  Numbers of 64 bits *)
(* are text in JSON; all variants are messages.  The members of a nested   *)
(* message are read the same way and are not taken apart.                  *)
(***************************************************************************)
EXTENDS Integers, Sequences, FiniteSets, SequencesExt

CONSTANTS
  Scalars,      \* ordinary fields of 32 bits or less
  Wides,        \* ordinary fields of 64 bits
  Nested,       \* ordinary fields that are messages
  Variants,     \* variants of the oneof
  Compound,     \* names of several words, which have two spellings
  Unknown,      \* a name no field has
  MaxMembers    \* bound: members of a text a peer sends

ASSUME JsonAssumption ==
  /\ Compound \subseteq Scalars \cup Wides \cup Nested \cup Variants
  /\ Unknown \notin Scalars \cup Wides \cup Nested \cup Variants
  /\ MaxMembers \in Nat
  /\ IsFiniteSet(Scalars \cup Wides \cup Nested \cup Variants)
  /\ Nested \cap (Scalars \cup Wides) = {}
  /\ Variants \cap (Scalars \cup Wides \cup Nested) = {}

Ordinary == Scalars \cup Wides \cup Nested

Fields == Ordinary \cup Variants

\* A name of one word is its own lowerCamel form.
Spellings(name) == IF name \in Compound THEN {"camel", "snake"} ELSE {"camel"}

Payloads == {"null", "0", "1", "'0'", "'1'", "{}"}

Members ==
  {member \in [name : Fields \cup {Unknown}, spelling : {"camel", "snake"}, payload : Payloads] :
     member.spelling \in Spellings(member.name)}

NoVariant == "none"

\* A frame: what its ordinary fields hold, the variant chosen, and its message.
Frames ==
  [values : {f \in [Ordinary -> {"0", "1", "nil", "{}"}] :
               \A name \in Ordinary :
                 f[name] \in (IF name \in Nested THEN {"nil", "{}"} ELSE {"0", "1"})},
   variant : Variants \cup {NoVariant}, message : {"nil", "{}"}]

EmptyFrame ==
  [values |-> [name \in Ordinary |-> IF name \in Nested THEN "nil" ELSE "0"],
   variant |-> NoVariant, message |-> "nil"]

VARIABLES
  origin,      \* the frame the text was written from, if it was
  text,        \* the members, in order
  trailing,    \* another value follows the object
  stage,        \* parse, normalize, fields, variants, or the outcome
  object,      \* members read, by name and spelling
  normalized,  \* payloads by name
  frame        \* what has been decoded

jsonVars == <<origin, text, trailing, stage, object, normalized, frame>>

-----------------------------------------------------------------------------
(* Writing.                                                                *)

\* HasValidFrame: one variant, and not one without a message.
HasValidFrame(f) == f.variant # NoVariant /\ f.message # "nil"

\* encoding/json with the field's tag: 64-bit numbers are quoted.
FieldPayload(name, value) ==
  IF name \in Wides THEN (IF value = "0" THEN "'0'" ELSE "'1'") ELSE value

\* Zero values are omitted; the oneof's payload is put in whatever it is.
MarshalJSON(f) ==
  LET written == {name \in Ordinary : f.values[name] \notin {"0", "nil"}} IN
    SetToSeq({[name |-> name, spelling |-> "camel", payload |-> FieldPayload(name, f.values[name])] :
                name \in written}
             \cup {[name |-> f.variant, spelling |-> "camel", payload |-> f.message]})

-----------------------------------------------------------------------------
(* Reading.                                                                *)

\* What a payload makes of a field, "error" when encoding/json refuses it;
\* null leaves the field as it was.
Decoded(name, payload) ==
  IF payload = "null" THEN EmptyFrame.values[name]
  ELSE IF name \in Nested THEN (IF payload = "{}" THEN "{}" ELSE "error")
  ELSE IF name \in Wides
       THEN (CASE payload = "'0'" -> "0" [] payload = "'1'" -> "1" [] OTHER -> "error")
  ELSE IF payload \in {"0", "1"} THEN payload ELSE "error"

Stays == UNCHANGED <<origin, text, trailing>>

Fail == stage' = "error" /\ UNCHANGED <<object, normalized, frame>> /\ Stays

\* decodeProtoJSONObject: a name read before is refused.
ReadMember ==
  /\ stage = "parse"
  /\ Cardinality(object) < Len(text)
  /\ LET member == text[Cardinality(object) + 1] IN
       \/ /\ \E read \in object : read.name = member.name /\ read.spelling = member.spelling
          /\ Fail
       \/ /\ ~ \E read \in object : read.name = member.name /\ read.spelling = member.spelling
          /\ object' = object \cup {member}
          /\ UNCHANGED <<stage, normalized, frame>> /\ Stays

\* Nothing may follow the closing brace.
EndObject ==
  /\ stage = "parse"
  /\ Cardinality(object) = Len(text)
  /\ \/ trailing /\ Fail
     \/ ~ trailing /\ stage' = "normalize" /\ UNCHANGED <<object, normalized, frame>> /\ Stays

\* Mutant: the spelling met last wins.
SpellingTakenTwice(member) == FALSE

\* Another spelling of the field has been met.
SpellingTaken(member) == member.name \in DOMAIN normalized

\* normalizeProtoJSONFields takes the members in any order.
Normalize ==
  /\ stage = "normalize"
  /\ \E member \in object :
       \/ (member.name \notin Fields \/ SpellingTaken(member)) /\ Fail
       \/ /\ member.name \in Fields /\ ~ SpellingTaken(member)
          /\ object' = object \ {member}
          /\ normalized' =
               [name \in DOMAIN normalized \cup {member.name} |->
                  IF name = member.name THEN member.payload ELSE normalized[name]]
          /\ UNCHANGED <<stage, frame>> /\ Stays

\* json.Unmarshal of the normalized object into the alias type.
DecodeFields ==
  /\ stage = "normalize" /\ object = {}
  /\ LET present == DOMAIN normalized \cap Ordinary IN
       \/ (\E name \in present : Decoded(name, normalized[name]) = "error") /\ Fail
       \/ /\ \A name \in present : Decoded(name, normalized[name]) # "error"
          /\ frame' = [frame EXCEPT !.values =
                         [name \in Ordinary |-> IF name \in present THEN Decoded(name, normalized[name])
                                                ELSE frame.values[name]]]
          /\ stage' = "variants"
          /\ UNCHANGED <<object, normalized>> /\ Stays

\* The variant selected: a null is seen and selects nothing, and a second
\* variant is refused, null or not.
Selected(names) ==
  IF Cardinality(names) = 1 THEN {name \in names : normalized[name] # "null"} ELSE {}

DecodeVariants ==
  /\ stage = "variants"
  /\ LET selected == Selected(DOMAIN normalized \cap Variants) IN
       \/ (selected = {} \/ \E name \in selected : normalized[name] # "{}") /\ Fail
       \/ \E name \in selected :
            /\ normalized[name] = "{}"
            /\ frame' = [frame EXCEPT !.variant = name, !.message = "{}"]
            /\ stage' = "done"
            /\ UNCHANGED <<object, normalized>> /\ Stays

-----------------------------------------------------------------------------
(* Texts: of a peer, or written from a frame.                              *)

JsonInit ==
  /\ \/ \E f \in Frames : HasValidFrame(f) /\ origin = f /\ text = MarshalJSON(f) /\ trailing = FALSE
     \/ /\ origin = EmptyFrame
        /\ text \in UNION {[1 .. n -> Members] : n \in 0 .. MaxMembers}
        /\ trailing \in BOOLEAN
  /\ stage = "parse"
  /\ object = {}
  /\ normalized = [name \in {} |-> "null"]
  /\ frame = EmptyFrame

JsonNext == ReadMember \/ EndObject \/ Normalize \/ DecodeFields \/ DecodeVariants

JsonSpec == JsonInit /\ [][JsonNext]_jsonVars

-----------------------------------------------------------------------------
\* A frame with a valid variant that one side writes, the other reads as the
\* same frame (MarshalJSON and UnmarshalJSON are inverse).
RoundTrip ==
  origin # EmptyFrame => stage # "error" /\ (stage = "done" => frame = origin)

\* A text has one reading, in whatever order Go's map yields its members: one
\* that is accepted says everything the frame holds and nothing it does not,
\* each field once, with one variant; one that is refused has no such reading.
OneReading ==
  LET names == {text[i].name : i \in DOMAIN text}
      once == Cardinality(names) = Len(text) /\ names \subseteq Fields
      readable ==
        /\ ~ trailing /\ once
        /\ \A i \in DOMAIN text :
             IF text[i].name \in Variants THEN text[i].payload = "{}"
             ELSE Decoded(text[i].name, text[i].payload) # "error"
        /\ Cardinality(names \cap Variants) = 1
  IN /\ stage = "error" => ~ readable
     /\ stage = "done" =>
          /\ readable
          /\ frame.variant \in names
          /\ \A i \in DOMAIN text :
               text[i].name \in Ordinary =>
                 frame.values[text[i].name] = Decoded(text[i].name, text[i].payload)
          /\ \A name \in Ordinary \ names : frame.values[name] = EmptyFrame.values[name]

\* Go and TypeScript agree on every frame, whichever of them wrote it and however its
\* text was spelled (MarshalJSON and UnmarshalJSON of the generated cell frames).
FramesAgree == RoundTrip /\ OneReading
=============================================================================
