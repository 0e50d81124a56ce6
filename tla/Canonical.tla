----------------------------- MODULE Canonical -----------------------------
(***************************************************************************)
(* canonicalize: the bytes that every digest, signature and request hash   *)
(* is computed from.  A value is what JSON.parse returns, members in the   *)
(* order of the request's text; a string is a sequence of UTF-16 code      *)
(* units, and so is the text.  The specification is what the service uses  *)
(* the bytes for: to tell whether a later value is the one on file.        *)
(***************************************************************************)
EXTENDS Integers, SequencesExt

CONSTANT Value   \* the values that may be submitted

VARIABLES
  stored,    \* the value whose bytes are on file
  request,   \* the value submitted last
  outcome    \* what the comparison of the bytes said

vars == <<stored, request, outcome>>

-----------------------------------------------------------------------------
(* Strings.                                                                *)

Quote == 34
Backslash == 92
Comma == 44
Colon == 58
Short == [u \in {8, 9, 10, 12, 13, Quote, Backslash} |->
  CASE u = 8 -> 98 [] u = 9 -> 116 [] u = 10 -> 110 [] u = 12 -> 102 [] u = 13 -> 114
    [] OTHER -> u]
HexDigit(n) == IF n < 10 THEN 48 + n ELSE 87 + n

(* Mutant of Escaped: the backslash passes as it is.                        *)
EscapedNoBackslash(u) ==
  IF u = Backslash THEN <<u>>
  ELSE IF u \in DOMAIN Short THEN <<Backslash, Short[u]>>
  ELSE IF u < 32 THEN <<Backslash, 117, 48, 48, HexDigit(u \div 16), HexDigit(u % 16)>>
  ELSE <<u>>

(* One code unit inside a string: two-character escapes, \u00xx for other   *)
(* control characters, everything else as it is.                            *)
Escaped(u) ==
  IF u \in DOMAIN Short THEN <<Backslash, Short[u]>>
  ELSE IF u < 32 THEN <<Backslash, 117, 48, 48, HexDigit(u \div 16), HexDigit(u % 16)>>
  ELSE <<u>>

QuoteString(s) == <<Quote>> \o FlattenSeq([i \in DOMAIN s |-> Escaped(s[i])]) \o <<Quote>>

(* JavaScript's < on strings.                                               *)
CompareUtf16(a, b) ==
  \/ IsStrictPrefix(a, b)
  \/ \E i \in DOMAIN a \cap DOMAIN b :
       a[i] < b[i] /\ SubSeq(a, 1, i - 1) = SubSeq(b, 1, i - 1)

-----------------------------------------------------------------------------
(* Numbers: 0.d1d2...dk * 10^n, with d1 and dk not 0, and no digit for 0.   *)

Digits(ds) == [i \in DOMAIN ds |-> 48 + ds[i]]
Zeros(n) == [i \in 1..n |-> 48]
Point == <<46>>
Decimal(n) == IF n < 10 THEN <<48 + n>> ELSE <<48 + n \div 10, 48 + (n % 10)>>

(* Number::toString of ECMAScript, for a value that is not an integer.      *)
Fraction(ds, n) ==
  IF n > 0 THEN Digits(SubSeq(ds, 1, n)) \o Point \o Digits(SubSeq(ds, n + 1, Len(ds)))
  ELSE IF n > -6 THEN <<48>> \o Point \o Zeros(-n) \o Digits(ds)
  ELSE Digits(<<Head(ds)>>) \o (IF Len(ds) > 1 THEN Point \o Digits(Tail(ds)) ELSE <<>>)
       \o <<101, 45>> \o Decimal(1 - n)

(* Zero has no sign, an integer no exponent.                                *)
SerializeNumber(v) ==
  LET ds == v.digits
      n == v.exponent
  IN  IF ds = <<>> THEN <<48>>
      ELSE (IF v.negative THEN <<45>> ELSE <<>>)
           \o (IF Len(ds) =< n THEN Digits(ds) \o Zeros(n - Len(ds)) ELSE Fraction(ds, n))

-----------------------------------------------------------------------------
(* Values.                                                                 *)

(* What assertJsonValue and writeValue throw for, wherever it is: a number  *)
(* that overflowed to Infinity when it was parsed.                          *)
RECURSIVE Writable(_)
Writable(v) ==
  /\ v.type # "infinite"
  /\ v.type = "array" => \A i \in DOMAIN v.items : Writable(v.items[i])
  /\ v.type = "object" => \A i \in DOMAIN v.members : Writable(v.members[i].value)

Join(parts) == FlattenSeq([i \in DOMAIN parts |->
                             IF i = 1 THEN parts[i] ELSE <<Comma>> \o parts[i]])

(* Mutant of Ordered: the order of the request's text.                      *)
OrderedAsInserted(members) == members

Ordered(members) == SortSeq(members, LAMBDA m, n : CompareUtf16(m.key, n.key))

RECURSIVE Serialize(_)
Serialize(v) ==
  CASE v.type = "null" -> <<110, 117, 108, 108>>
    [] v.type = "true" -> <<116, 114, 117, 101>>
    [] v.type = "false" -> <<102, 97, 108, 115, 101>>
    [] v.type = "string" -> QuoteString(v.units)
    [] v.type = "number" -> SerializeNumber(v)
    [] v.type = "array" ->
         <<91>> \o Join([i \in DOMAIN v.items |-> Serialize(v.items[i])]) \o <<93>>
    [] v.type = "object" ->
         LET ms == Ordered(v.members) IN
         <<123>> \o Join([i \in DOMAIN ms |->
                            QuoteString(ms[i].key) \o <<Colon>> \o Serialize(ms[i].value)])
         \o <<125>>

High(u) == u \in 55296..56319
Low(u) == u \in 56320..57343
Paired(s, i) ==
  \/ High(s[i]) /\ i < Len(s) /\ Low(s[i + 1])
  \/ Low(s[i]) /\ i > 1 /\ High(s[i - 1])

(* Buffer.from(text, 'utf8'), up to the injective encoding of what is not a *)
(* lone surrogate; that becomes U+FFFD.                                     *)
Canonicalize(v) ==
  LET text == Serialize(v) IN
  [i \in DOMAIN text |->
     IF (High(text[i]) \/ Low(text[i])) /\ ~ Paired(text, i) THEN 65533 ELSE text[i]]

-----------------------------------------------------------------------------
(* The use of the bytes.                                                   *)

Init ==
  /\ stored \in {v \in Value : Writable(v)}
  /\ request = stored
  /\ outcome = "same"

(* A value is submitted where one is on file already.                       *)
Submit(v) ==
  /\ outcome = "same"
  /\ request' = v
  /\ outcome' = IF ~ Writable(v) THEN "rejected"
                ELSE IF Canonicalize(v) = Canonicalize(stored) THEN "same" ELSE "different"
  /\ UNCHANGED stored

Next == \E v \in Value : Submit(v)

Spec == Init /\ [][Next]_vars

-----------------------------------------------------------------------------
(* Properties.                                                             *)

RECURSIVE Equal(_, _)
EqualMembers(ms, ns) ==
  \A i \in DOMAIN ms : \E j \in DOMAIN ns :
    ms[i].key = ns[j].key /\ Equal(ms[i].value, ns[j].value)

(* Equality of JSON values: objects are unordered, numbers are numbers.     *)
Equal(v, w) ==
  /\ v.type = w.type
  /\ v.type = "string" => v.units = w.units
  /\ v.type = "number" =>
       /\ v.digits = w.digits
       /\ v.digits # <<>> => v.negative = w.negative /\ v.exponent = w.exponent
  /\ v.type = "array" =>
       Len(v.items) = Len(w.items) /\ \A i \in DOMAIN v.items : Equal(v.items[i], w.items[i])
  /\ v.type = "object" => EqualMembers(v.members, w.members) /\ EqualMembers(w.members, v.members)

(* Every surrogate in a string of the value has its other half.             *)
Unpaired(s) == \E i \in DOMAIN s : (High(s[i]) \/ Low(s[i])) /\ ~ Paired(s, i)
RECURSIVE WellFormed(_)
WellFormed(v) ==
  /\ v.type = "string" => ~ Unpaired(v.units)
  /\ v.type = "array" => \A i \in DOMAIN v.items : WellFormed(v.items[i])
  /\ v.type = "object" =>
       \A i \in DOMAIN v.members : ~ Unpaired(v.members[i].key) /\ WellFormed(v.members[i].value)

(* A value that differs from the one on file never passes for it: no quote, *)
(* escape, separator or number format makes two values share their bytes    *)
(* (canonical.js:5-8).  A lone surrogate does, so strings are well-formed.  *)
SameBytesSameValue ==
  outcome = "same" /\ WellFormed(request) /\ WellFormed(stored) => Equal(request, stored)

(* The same value always passes, whatever the order of its members and the  *)
(* sign of its zeros (canonical.js:4-6, envelope.js:25-27).                 *)
SameValueSameBytes == outcome = "different" => ~ Equal(request, stored)

=============================================================================
