------------------------------ MODULE MCValues ------------------------------
(***************************************************************************)
(* Values for TLC: the documents of MCJson, instants around awkward dates, *)
(* and what decode() makes of a document, compared with the value the      *)
(* document was written from.                                              *)
(***************************************************************************)
EXTENDS Values, MCJson

\* 28 February 2024 and 2000, 30 December 2024, 31 December 2022, 31 July 2023, and
\* the days New York changes its clocks in 2024, 2026 and 2027.
AwkwardStarts ==
    {1709150400, 951696000, 1735588800, 1672488000, 1690804800,
     1710046800, 1730606400, 1772946000, 1805025600}

BackAndForth == {1, -1}

-----------------------------------------------------------------------------
\* What decode() reads exactly: strings without an escape, true, a fraction that is
\* not below zero and that six digits are enough for, and a single digit, unless
\* white space other than spaces is before it.  Other integers are copied for atoi()
\* without a terminator, exponents are passed over, what does not fit an int is
\* whatever it overflows to, and signs of fractions are lost.
Lone == ~\E i \in DOMAIN document.text :
            i > 1 /\ document.text[i] \in JSON!Digits /\ document.text[i - 1] = "nl"
Exact ==
    (SomeStrings \ {"unescaped"}) \cup {"true", "0.5", "0.0"} \cup IF Lone THEN JSON!Digits ELSE {}

\* v was read where w is written.
Members(o) == ToSet(o.members)
RECURSIVE Same(_, _)
Same(v, w) ==
    /\ v.kind = w.kind
    /\ CASE v.kind = "leaf" -> w.token \in Exact => v.token = w.token
         [] v.kind = "array" ->
                /\ Len(v.items) = Len(w.items)
                /\ \A i \in DOMAIN v.items : Same(v.items[i], w.items[i])
         [] v.kind = "object" ->
                /\ Len(v.members) = Len(w.members)
                /\ \A m \in Members(v) : \E n \in Members(w) : m.key = n.key /\ Same(m.value, n.value)

\* Nested calls that fail hand their caller what they have and a place inside
\* their own text; and yet, when the outermost bytesParsed is the length of the
\* text, which is what callers ask, what was decoded has every part of what was
\* written, each in its place, and the scalars that are read exactly as they were.
ReadIsExact == JSON!Succeeded => Same(decoded, document.value)

\* What decode() gets through: no string or container is empty, no scalar is an
\* item of an array, none is null or has both a dot and an exponent, no fraction has
\* 256 bytes, the only white space is spaces, and where there are arrays none is
\* before a comma.
RECURSIVE Readable(_)
Readable(v) ==
    CASE v.kind = "leaf" -> v.token \notin {Empty, Long} \cup JSON!Unreadable
      [] v.kind = "array" ->
            /\ v.items # <<>>
            /\ \A x \in ToSet(v.items) : Readable(x) /\ (x.kind = "leaf" => x.token \in Strings)
      [] v.kind = "object" ->
            v.members # <<>> /\ \A m \in Members(v) : m.key # Empty /\ Readable(m.value)
Spaced ==
    /\ "nl" \notin ToSet(document.text)
    /\ "[" \in ToSet(document.text) =>
           \A i \in 2..Len(document.text) : document.text[i] = "," => document.text[i - 1] # "sp"

\* Such a document is read to its end, and so is what encode() writes of its value
\* when no object is inside another (those it breaks into lines).
ReadableIsRead == (pc = "done" /\ Readable(document.value) /\ Spaced) => JSON!Succeeded
=============================================================================
