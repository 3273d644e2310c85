------------------------------- MODULE MCJson -------------------------------
(***************************************************************************)
(* Documents for TLC: values up to three deep, written with white space at *)
(* every kind of place.                                                    *)
(***************************************************************************)
EXTENDS JsonValues, Sequences, SequencesExt

\* "escaped" is how a text writes the string "unescaped".
SomeStrings == {"a", "b", "c", "x", "escaped", "unescaped"}

Leaves ==
    {Leaf(t) : t \in {"x", Empty, "unescaped", "7", "12", "1e5", "3000000000", "true", "0.5", "-0.5",
                      "0.0000001", "null", "1.5e3", Long}}
Member(k, v) == [key |-> k, value |-> v]

\* Values of depth one and two; those of depth two have two parts.
Small ==
    {Leaf("x"), Leaf("7"), Array(<<>>), Object(<<>>), Array(<<Leaf("x")>>), Object(<<Member("c", Leaf("x"))>>)}
Pairs ==
    {Array(<<u, v>>) : u, v \in Small} \cup {Object(<<Member("b", u), Member("c", v)>>) : u, v \in Small}
Values == Leaves \cup Small \cup Pairs

Objects ==
    {Object(<<>>), Object(<<Member(Empty, Leaf("x"))>>)}
        \cup {Object(<<Member("a", v)>>) : v \in Values}
        \cup {Object(<<Member("a", v), Member("b", Leaf("x"))>>) : v \in Values}

\* Where white space may be: after an opening mark, around a colon, before and
\* after a comma, before a closing mark.
Places == {"open", "colon", "value", "comma", "next", "close"}
Styles ==
    {[p \in Places |-> IF p = q THEN <<w>> ELSE <<>>] : q \in Places, w \in {"sp", "nl"}}
        \cup {[p \in Places |-> <<w>>] : w \in {"sp", "nl"}}

Joined(texts, s) ==
    FoldLeft(LAMBDA joined, t :
                IF joined = <<>> THEN t ELSE joined \o s["comma"] \o <<",">> \o s["next"] \o t,
             <<>>, texts)

RECURSIVE Text(_, _)
Text(v, s) ==
    CASE v.kind = "leaf" -> <<IF v.token = "unescaped" THEN "escaped" ELSE v.token>>
      [] v.kind = "array" ->
            <<"[">> \o s["open"] \o Joined([i \in DOMAIN v.items |-> Text(v.items[i], s)], s)
                \o s["close"] \o <<"]">>
      [] v.kind = "object" ->
            <<"{">> \o s["open"]
                \o Joined([i \in DOMAIN v.members |->
                              <<v.members[i].key>> \o s["colon"] \o <<":">> \o s["value"]
                                  \o Text(v.members[i].value, s)], s)
                \o s["close"] \o <<"}">>

Written == {[text |-> Text(v, s), value |-> v] : v \in Objects, s \in Styles}
=============================================================================
