-------------------------- MODULE ConsentIdentity ---------------------------
(***************************************************************************)
(* The customer of a WhatsApp consent delivery                             *)
(* (services/webhooks/shopify-whatsapp-consent-normalization.ts).  Its id  *)
(* can exceed the integers of a double, so it is read from the raw body by *)
(* a scanner that follows the nesting and the strings of the JSON text and *)
(* takes the one top-level value of customer_id; the SDK's parsed payload, *)
(* of which the numbers are rounded, only has to agree.                    *)
(*                                                                         *)
(* A text is a sequence of characters over a small alphabet: "q" is the    *)
(* quote, "b" the backslash, the other punctuation is spelled out, "k"     *)
(* stands for customer_id and "u" after a backslash for its escaped        *)
(* spelling, "a" for the alias key id.  Spaces and the second alias are    *)
(* left out.  The documents nest two levels deep.                          *)
(***************************************************************************)
EXTENDS Naturals, Sequences, FiniteSetsExt

CONSTANTS
  Names,     \* the contents of strings, as characters between quotes
  Numbers,   \* the texts of numbers
  Rounded,   \* the number the SDK's JSON.parse makes of an integer's digit
  MaxMembers \* bound: the members of a document

Digits == {"1", "8", "9"}
Structural == {"q", "comma", "colon", "lbrace", "rbrace", "lbracket", "rbracket"}

\* The positions at which a character begins, when a backslash takes the next one with it.
Begins(chars) == {at \in SUBSET (1..Len(chars) + 1) :
  /\ {1, Len(chars) + 1} \subseteq at
  /\ \A j \in at \ {Len(chars) + 1} : chars[j] # "q" /\ j + (IF chars[j] = "b" THEN 2 ELSE 1) \in at}

ASSUME RoundsDigits == Rounded \in [Digits -> Digits]
ASSUME NamesAreStrings == \A chars \in Names : chars \in Seq(STRING) /\ Begins(chars) # {}
ASSUME NumbersArePlain == \A chars \in Numbers :
  chars \in Seq(STRING) /\ chars # <<>> /\ \A j \in DOMAIN chars : chars[j] \notin Structural
ASSUME MembersAssumption == MaxMembers \in Nat

-----------------------------------------------------------------------------
\* External: the JSON documents and their texts.
Scalars == [kind : {"number"}, chars : Numbers] \cup [kind : {"string"}, chars : Names]
Values == Scalars \cup [kind : {"array"}, of : Scalars]
                  \cup [kind : {"object"}, key : Names, of : Scalars]
Members == [key : Names, value : Values]
Documents == UNION {[1..n -> Members] : n \in 0..MaxMembers}

Quoted(chars) == <<"q">> \o chars \o <<"q">>
ScalarText(v) == IF v.kind = "string" THEN Quoted(v.chars) ELSE v.chars
ValueText(v) ==
  CASE v.kind = "array" -> <<"lbracket">> \o ScalarText(v.of) \o <<"rbracket">>
    [] v.kind = "object" -> <<"lbrace">> \o Quoted(v.key) \o <<"colon">> \o ScalarText(v.of) \o <<"rbrace">>
    [] OTHER -> ScalarText(v)
MemberText(m) == Quoted(m.key) \o <<"colon">> \o ValueText(m.value)

\* What follows when so many members are still to come.
Ending(doc) ==
  LET ending[n \in 0..Len(doc)] ==
        IF n = 0 THEN <<"rbrace">>
        ELSE (IF n = Len(doc) THEN <<>> ELSE <<"comma">>) \o MemberText(doc[Len(doc) - n + 1]) \o ending[n - 1]
  IN ending

Text(doc) == <<"lbrace">> \o Ending(doc)[Len(doc)]

-----------------------------------------------------------------------------
VARIABLES
  document,     \* what the body means
  raw,          \* its text
  i,            \* the scanner's position
  objectDepth, arrayDepth,
  found,        \* <<the token of the top-level customer_id>>, or <<>>: null
  result,       \* "scanning", "rejected" or "accepted"
  id            \* the id that is accepted

scan == <<document, raw, i, objectDepth, arrayDepth, found, result, id>>

ScanInit ==
  /\ document \in Documents /\ raw = Text(document)
  /\ i = 1 /\ objectDepth = 0 /\ arrayDepth = 0
  /\ found = <<>> /\ result = "scanning" /\ id = <<>>

Character(at) == IF at \in DOMAIN raw THEN raw[at] ELSE "none"

Scanning == result = "scanning" /\ i <= Len(raw)

\* The closing quote of a string that begins before from.
Close(from) ==
  LET close[j \in from..Len(raw) + 2] ==
        IF j > Len(raw) THEN j
        ELSE IF raw[j] = "b" THEN close[j + 2]
        ELSE IF raw[j] = "q" THEN j ELSE close[j + 1]
  IN close[from]

\* JSON.parse of a key: the escaped spelling is the same key.
IsCustomerId(chars) == chars \in {<<"k">>, <<"b", "u">>}

TopLevel == objectDepth = 1 /\ arrayDepth = 0

\* The digits from a position, of which the token of a number consists.
Token(from) ==
  LET last == CHOOSE j \in from - 1..Len(raw) :
                /\ \A k \in from..j : raw[k] \in Digits
                /\ j = Len(raw) \/ raw[j + 1] \notin Digits
  IN SubSeq(raw, from, last)

IsInteger(from) == Token(from) # <<>> /\ Character(from + Len(Token(from))) \in {"comma", "rbrace"}

Repeated == found # <<>>

ScanString ==
  /\ Scanning /\ raw[i] = "q"
  /\ LET close == Close(i + 1)
         value == close + 2
         names == TopLevel /\ Character(close + 1) = "colon" /\ IsCustomerId(SubSeq(raw, i + 1, close - 1))
         last == Close(value + 1)
         isString == Character(value) = "q"
     IN \/ /\ close <= Len(raw) /\ ~names
           /\ i' = close + 1 /\ UNCHANGED <<found, result>>
        \/ /\ close <= Len(raw) /\ names /\ ~Repeated
           /\ IF isString THEN last <= Len(raw) ELSE IsInteger(value)
           /\ found' = <<IF isString THEN SubSeq(raw, value + 1, last - 1) ELSE Token(value)>>
           /\ i' = close + 1 /\ UNCHANGED result
        \/ /\ \/ close > Len(raw)
              \/ names /\ (Repeated \/ IF isString THEN last > Len(raw) ELSE ~IsInteger(value))
           /\ result' = "rejected" /\ UNCHANGED <<i, found>>
  /\ UNCHANGED <<document, raw, objectDepth, arrayDepth, id>>

Depth(depth, opens, closes) ==
  CASE raw[i] = opens -> depth + 1 [] raw[i] = closes -> depth - 1 [] OTHER -> depth

ScanOther ==
  /\ Scanning /\ raw[i] # "q"
  /\ objectDepth' = Depth(objectDepth, "lbrace", "rbrace")
  /\ arrayDepth' = Depth(arrayDepth, "lbracket", "rbracket")
  /\ i' = i + 1
  /\ UNCHANGED <<document, raw, found, result, id>>

\* parseShopifyCustomerIdentity: a decimal id.
IsIdentity(chars) == Len(chars) = 1 /\ chars[1] \in Digits

\* The payload of the SDK: the last member of a key, its numbers rounded.
Holders(key(_)) == {n \in DOMAIN document : key(document[n].key)}
Payload(key(_)) ==
  LET value == document[Max(Holders(key))].value
  IN IF value.kind = "number" /\ IsIdentity(value.chars) THEN <<Rounded[value.chars[1]]>>
     ELSE IF value.kind \in {"number", "string"} THEN value.chars ELSE <<>>

IsAlias(chars) == chars = <<"a">>

(* Slip: the id that is passed on is the payload's. *)
AcceptedFromPayload == Payload(IsCustomerId)

Accepted == found[1]

Agrees ==
  /\ Payload(IsCustomerId) \in {found[1], <<Rounded[found[1][1]]>>}
  /\ Holders(IsAlias) # {} => Payload(IsAlias) = found[1]

Decide ==
  /\ result = "scanning" /\ i > Len(raw)
  /\ IF found # <<>> /\ IsIdentity(found[1]) /\ Agrees THEN result' = "accepted" /\ id' = Accepted
     ELSE result' = "rejected" /\ UNCHANGED id
  /\ UNCHANGED <<document, raw, i, objectDepth, arrayDepth, found>>

Scan == ScanString \/ ScanOther \/ Decide

ScanSpec == ScanInit /\ [][Scan]_scan

-----------------------------------------------------------------------------
(* Types, and the nesting: a brace within a string counts for nothing, so the *)
(* scanner leaves the text at the depth it entered it.                        *)
ScanTypeOK ==
  /\ i \in 1..Len(raw) + 1
  /\ objectDepth \in 0..2 /\ arrayDepth \in 0..1
  /\ i > Len(raw) => objectDepth = 0 /\ arrayDepth = 0

Principals == {n \in DOMAIN document : IsCustomerId(document[n].key)}
Principal == document[CHOOSE n \in Principals : TRUE].value
Named == Cardinality(Principals) = 1 /\ Principal.kind \in {"number", "string"}
         /\ IsIdentity(Principal.chars)

(* An id that is accepted is, digit for digit, the only top-level customer_id *)
(* of the body: neither a nested one, nor one of two, nor a rounded one.      *)
IdentityIsExact == result = "accepted" => Named /\ id = Principal.chars

\* The alias that counts in JSON, and what can be wrong with it.
Alias == document[Max(Holders(IsAlias))].value
NamesAnother == ~(Alias.kind \in {"number", "string"} /\ Alias.chars = Principal.chars)
NumberIsRounded == Alias.kind = "number" /\ <<Rounded[Alias.chars[1]]>> # Alias.chars

(* A body that names one customer is refused for an alias only: it names      *)
(* another, or it is the same id as a number that the SDK has rounded.        *)
NamedIsAccepted ==
  result = "rejected" /\ Named => Holders(IsAlias) # {} /\ (NamesAnother \/ NumberIsRounded)

(* The scanner is neither too credulous nor too strict about a body's         *)
(* customer.                                                                  *)
ScanInv ==
  /\ ScanTypeOK
  /\ IdentityIsExact
  /\ NamedIsAccepted

=============================================================================
