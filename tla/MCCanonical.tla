---------------------------- MODULE MCCanonical ----------------------------
(***************************************************************************)
(* Values for Canonical: strings that try to look like their escapes or    *)
(* like the text around them, numbers on both sides of every change of     *)
(* format, and arrays and objects of up to two of these.                   *)
(***************************************************************************)
EXTENDS Canonical

Str(units) == [type |-> "string", units |-> units]
Num(neg, ds, n) == [type |-> "number", negative |-> neg, digits |-> ds, exponent |-> n]
Arr(items) == [type |-> "array", items |-> items]
Obj(members) == [type |-> "object", members |-> members]
Member(k, v) == [key |-> k, value |-> v]

(* n, backslash, quote, newline, \u0001, comma, an astral character, its    *)
(* halves and U+FFFD.                                                       *)
Strings == {<<>>, <<110>>, <<92>>, <<34>>, <<10>>, <<92, 110>>, <<92, 34>>, <<1>>,
            <<92, 117, 48, 48, 48, 49>>, <<34, 44, 34>>, <<55357, 56832>>, <<55357>>,
            <<56832>>, <<65533>>}
Exponents == {-7, -6, -5, 0, 1, 2, 3, 21, 22, 23}
Numbers == {Num(s, ds, n) : s \in BOOLEAN, ds \in {<<1>>, <<1, 5>>, <<1, 0, 5>>}, n \in Exponents}
             \cup {Num(s, <<>>, 0) : s \in BOOLEAN}

Atoms == {[type |-> t] : t \in {"null", "true", "false", "infinite"}}
           \cup {Str(u) : u \in Strings} \cup Numbers

Keys == {<<110>>, <<34>>, <<55357, 56832>>, <<65533>>}
Inner == {[type |-> "null"], Str(<<34, 44, 34>>), Str(<<110>>), Num(TRUE, <<>>, 0), Num(FALSE, <<>>, 0)}
Pairs == {Arr(<<>>), Obj(<<>>)} \cup {Arr(<<v>>) : v \in Inner}
           \cup {Arr(<<v, w>>) : v, w \in Inner}
           \cup {Obj(<<Member(k, v)>>) : k \in Keys, v \in Inner}
           \cup {Obj(<<Member(k, v), Member(l, w)>>) :
                   k \in Keys, l \in Keys, v \in Inner, w \in Inner}

Distinct(v) ==
  v.type = "object" /\ Len(v.members) = 2 => v.members[1].key # v.members[2].key

Nested == {Arr(<<Arr(<<>>), Obj(<<>>)>>),
           Obj(<<Member(<<110>>, Arr(<<[type |-> "infinite"]>>))>>),
           Obj(<<Member(<<110>>, Obj(<<Member(<<34>>, Str(<<110>>)), Member(<<110>>, Arr(<<>>))>>))>>),
           Obj(<<Member(<<110>>, Obj(<<Member(<<110>>, Arr(<<>>)), Member(<<34>>, Str(<<110>>))>>))>>)}

Values == Atoms \cup {v \in Pairs : Distinct(v)} \cup Nested

=============================================================================
