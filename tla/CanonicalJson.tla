----------------------------- MODULE CanonicalJson -----------------------------
(***************************************************************************)
(* Canonical JSON: CanonicalizeJSON of internal/contracts/canonical/       *)
(* canonical.go and canonicalizeJson of the TypeScript that                *)
(* client_templates.py writes.  Every digest of the system is taken of     *)
(* what they return.                                                       *)
(*                                                                         *)
(* A text is one object of named strings and numbers: nested values are    *)
(* canonicalized alike at every depth.  A string is spelled as a sequence  *)
(* of raw characters and \u escapes, a number as a digit and an exponent,  *)
(* written out or with an e.  Producers respell the text all the time.     *)
(***************************************************************************)
EXTENDS Integers, Sequences, FiniteSets

CONSTANTS Names,       \* spellings of strings, as names
          Values,      \* values: Str of a spelling, Num of a number
          MaxMembers   \* bound: members of a text

VARIABLE text   \* [members, trailing]

-----------------------------------------------------------------------------
(* Strings.                                                                  *)

High == {unit \in Nat : 55296 <= unit /\ unit < 56320}
Low == {unit \in Nat : 56320 <= unit /\ unit < 57344}
Raw(point) == [escape |-> FALSE, code |-> point]
Escape(unit) == [escape |-> TRUE, code |-> unit]

\* What a decoder finds in a text: no raw character is a surrogate, and an escape is one unit.
Characters ==
  {x \in [escape : BOOLEAN, code : {point \in Nat : point <= 1114111}] :
     IF x.escape THEN x.code < 65536 ELSE x.code \notin High \cup Low}
Numbers == [negative : BOOLEAN, digit : 0..9, exponent : Int, plain : BOOLEAN]

ASSUME TextAssumption ==
  /\ Names \subseteq Seq(Characters)
  /\ \A value \in Values :
       IF DOMAIN value = {"string"}
       THEN value = [string |-> value.string] /\ value.string \in Seq(Characters)
       ELSE value = [number |-> value.number] /\ value.number \in Numbers

\* The UTF-16 units of a character; one above the basic plane has two.
PointUnits(point) ==
  IF point < 65536 THEN <<point>>
  ELSE <<55296 + ((point - 65536) \div 1024), 56320 + ((point - 65536) % 1024)>>
PairPoint(high, low) == 65536 + (high - 55296) * 1024 + (low - 56320)

\* The UTF-16 units of a spelling.
Units(spelling) ==
  LET units[i \in 0..Len(spelling)] ==
        IF i = 0 THEN <<>> ELSE units[i - 1] \o PointUnits(spelling[i].code)
  IN units[Len(spelling)]

\* The characters that units without lone surrogates stand for.
Runes(units) ==
  LET runes[i \in 0..Len(units)] ==
        IF i = 0 THEN <<>>
        ELSE IF units[i] \in Low THEN Append(runes[i - 2], PairPoint(units[i - 1], units[i]))
        ELSE IF units[i] \in High THEN runes[i - 1]
        ELSE Append(runes[i - 1], units[i])
  IN runes[Len(units)]

\* The decoders refuse control characters that are not escaped.
Decodes(spelling) == \A i \in DOMAIN spelling : spelling[i].escape \/ spelling[i].code >= 32

\* hasLoneSurrogateEscape, on the text: an escaped high surrogate needs an escaped low one
\* right after it, and a low one a high one right before.
LoneEscape(spelling) ==
  \E i \in DOMAIN spelling :
    /\ spelling[i].escape
    /\ \/ /\ spelling[i].code \in High
          /\ ~ (i < Len(spelling) /\ spelling[i + 1].escape /\ spelling[i + 1].code \in Low)
       \/ /\ spelling[i].code \in Low
          /\ ~ (i > 1 /\ spelling[i - 1].escape /\ spelling[i - 1].code \in High)

\* rejectLoneSurrogates, on the decoded string.
LoneUnit(units) ==
  \E i \in DOMAIN units :
    \/ units[i] \in High /\ (i = Len(units) \/ units[i + 1] \notin Low)
    \/ units[i] \in Low /\ (i = 1 \/ units[i - 1] \notin High)

\* appendString and JSON.stringify: only what must be escaped is.
Written(runes) == [i \in DOMAIN runes |-> IF runes[i] < 32 THEN Escape(runes[i]) ELSE Raw(runes[i])]

SeqLess(s, t) ==
  \E i \in 1..(Len(s) + 1) :
    /\ \A j \in 1..(i - 1) : j <= Len(t) /\ s[j] = t[j]
    /\ IF i > Len(s) THEN Len(t) >= i ELSE i <= Len(t) /\ s[i] < t[i]

\* utf16Less, of two strings of runes.
Utf16Less(s, t) == SeqLess(Units(Written(s)), Units(Written(t)))

-----------------------------------------------------------------------------
(* Numbers, as doubles.                                                      *)

Number(negative, digit, exponent, plain) ==
  [negative |-> negative, digit |-> digit, exponent |-> exponent, plain |-> plain]
Zero == Number(FALSE, 0, 0, TRUE)

Finite(number) == number.digit = 0 \/ number.exponent <= 308
Underflows(number) == number.digit = 0 \/ number.exponent < -324

\* canonicalNumber: written out from 1e-6 to below 1e21.
GoNumber(number) ==
  IF Underflows(number) THEN Zero
  ELSE [number EXCEPT !.plain = number.exponent >= -6 /\ number.exponent < 21]

\* JSON.stringify: Number::toString, where n is the position of the point.
ScriptNumber(number) ==
  LET n == number.exponent + 1 IN
  IF Underflows(number) THEN Zero ELSE [number EXCEPT !.plain = (0 < n /\ n <= 21) \/ (-6 < n /\ n <= 0)]

-----------------------------------------------------------------------------
(* Texts.                                                                    *)

\* Values, with what the runtimes do to a string and to a number.
Str(spelling) == [string |-> spelling]
Num(number) == [number |-> number]
IsString(value) == "string" \in DOMAIN value
Map(value, OfString(_), OfNumber(_)) ==
  IF IsString(value) THEN Str(OfString(value.string)) ELSE Num(OfNumber(value.number))

\* No canonical text has anything after it.
Refused == [members |-> <<>>, trailing |-> TRUE]

\* The sequence of a finite set, in an order given by a relation on its members.
Sorted(names, Less(_, _)) ==
  [i \in 1..Cardinality(names) |->
     CHOOSE n \in names : Cardinality({m \in names : Less(m, n)}) = i - 1]

Spellings(members) ==
  {members[i].name : i \in DOMAIN members}
    \cup {members[i].value.string : i \in {j \in DOMAIN members : IsString(members[j].value)}}
AllFinite(members) ==
  \A i \in DOMAIN members : IsString(members[i].value) \/ Finite(members[i].value.number)
Rewritten(spelling) == Written(Runes(Units(spelling)))

\* Mutant: the last of several members of one name wins.
GoCanonicalLast(t) ==
  LET name(i) == Runes(Units(t.members[i].name))
      names == {name(i) : i \in DOMAIN t.members}
      value(n) == t.members[CHOOSE i \in DOMAIN t.members :
                    name(i) = n /\ \A j \in DOMAIN t.members : name(j) = n => j <= i].value
      order == Sorted(names, Utf16Less) IN
  IF \/ \E s \in Spellings(t.members) : LoneEscape(s) \/ ~ Decodes(s)
     \/ t.trailing
     \/ ~ AllFinite(t.members)
  THEN Refused
  ELSE [members |-> [i \in DOMAIN order |->
          [name |-> Written(order[i]), value |-> Map(value(order[i]), Rewritten, GoNumber)]],
        trailing |-> FALSE]

\* CanonicalizeJSON.
GoCanonical(t) ==
  LET name(i) == Runes(Units(t.members[i].name))
      names == {name(i) : i \in DOMAIN t.members}
      value(n) == t.members[CHOOSE i \in DOMAIN t.members : name(i) = n].value
      order == Sorted(names, Utf16Less) IN
  IF \/ \E s \in Spellings(t.members) : LoneEscape(s) \/ ~ Decodes(s)
     \/ \E i, j \in DOMAIN t.members : i # j /\ name(i) = name(j)
     \/ t.trailing
     \/ ~ AllFinite(t.members)
  THEN Refused
  ELSE [members |-> [i \in DOMAIN order |->
          [name |-> Written(order[i]), value |-> Map(value(order[i]), Rewritten, GoNumber)]],
        trailing |-> FALSE]

\* canonicalizeJson of a text: strictParse and canonicalValue, on strings of UTF-16 units.
ScriptCanonical(t) ==
  LET names == {Units(t.members[i].name) : i \in DOMAIN t.members}
      member(n) == CHOOSE m \in {t.members[i] : i \in DOMAIN t.members} : Units(m.name) = n
      order == Sorted(names, SeqLess) IN
  IF /\ \A s \in Spellings(t.members) : Decodes(s) /\ ~ LoneUnit(Units(s))
     /\ Cardinality(names) = Len(t.members)
     /\ AllFinite(t.members)
     /\ ~ t.trailing
  THEN [members |-> [i \in DOMAIN order |->
          [name |-> Written(Runes(order[i])),
           value |-> Map(member(order[i]).value, Rewritten, ScriptNumber)]],
        trailing |-> FALSE]
  ELSE Refused

\* What a text says, by RFC 8259: the values by name.
Double(number) == IF Underflows(number) THEN Zero ELSE [number EXCEPT !.plain = TRUE]
Meaning(t) ==
  {<<Units(t.members[i].name), Map(t.members[i].value, Units, Double)>> : i \in DOMAIN t.members}

-----------------------------------------------------------------------------
(* Producers of texts.                                                       *)

CanonicalInit == text = [members |-> <<>>, trailing |-> FALSE]

Add(name, value) ==
  /\ Len(text.members) < MaxMembers
  /\ text' = [text EXCEPT !.members = Append(@, [name |-> name, value |-> value])]

Rename(i, name) == text' = [text EXCEPT !.members[i].name = name]
Rewrite(i, value) == text' = [text EXCEPT !.members[i].value = value]
Reverse == text' = [text EXCEPT !.members = [i \in DOMAIN @ |-> @[Len(@) + 1 - i]]]
Trail == text' = [text EXCEPT !.trailing = ~ @]

CanonicalNext ==
  \/ Reverse \/ Trail
  \/ \E name \in Names :
       \/ \E value \in Values : Add(name, value)
       \/ \E i \in DOMAIN text.members : Rename(i, name)
  \/ \E i \in DOMAIN text.members, value \in Values : Rewrite(i, value)

CanonicalSpec == CanonicalInit /\ [][CanonicalNext]_text

-----------------------------------------------------------------------------

\* Both runtimes refuse the same texts and write the others alike.
CanonicalizersAgree == GoCanonical(text) = ScriptCanonical(text)

\* Canonical texts and what they mean are one to one: a canonical text is its own canonical
\* form, it means what its source meant, and a change of the source changes it if and only
\* if it changes the meaning.
OneFormPerMeaning ==
  [][/\ GoCanonical(text) # Refused =>
          /\ GoCanonical(GoCanonical(text)) = GoCanonical(text)
          /\ Meaning(GoCanonical(text)) = Meaning(text)
     /\ Refused \notin {GoCanonical(text), GoCanonical(text')} =>
          (GoCanonical(text) = GoCanonical(text')) = (Meaning(text) = Meaning(text'))]_text
=============================================================================
