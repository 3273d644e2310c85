-------------------------------- MODULE Json --------------------------------
(***************************************************************************)
(* fwoop::JsonObject and JsonArray: decoding a document, encoding what was *)
(* decoded, and decoding that again.                                       *)
(*                                                                         *)
(* decode() calls itself for nested values; each call under way is a frame *)
(* of the stack.  Every call counts its own bytesParsed from where it      *)
(* began, and its caller adds it, so that all the calls share one place in *)
(* the text.                                                               *)
(*                                                                         *)
(* A text is a sequence of tokens: the six marks, "sp" for a space, "nl"   *)
(* for any other white space, strings, and scalars, which are never side   *)
(* by side.  A string is taken as it stands, its escapes too; none of them *)
(* has a dot in it.                                                        *)
(***************************************************************************)
EXTENDS JsonValues, Naturals, Sequences, FiniteSetsExt, SequencesExt

CONSTANTS
    Documents,      \* the texts to decode, each with the value it stands for
    Strings         \* strings that are not empty

\* Scalars, one of each kind that decode() treats in its own way.  An int has one
\* digit or more (Other is any other number), or looks like one; Long is a fraction
\* of 256 bytes or more; the unreadable ones are good JSON too.
Digits == {"1", "7"}
Ints == Digits \cup {"12", Other, "1e5", "3000000000"}
Words == {"true", "0.5", "-0.5", "0.0", "0.0000001"}
Unreadable == {"null", "1.5e3"}
Scalars == Ints \cup Words \cup Unreadable \cup {Long}
Dotted == {"0.5", "-0.5", "0.0", "0.0000001", "1.5e3", Long}
Marks == {"{", "}", "[", "]", ",", ":"}
Tokens == Marks \cup {"sp", "nl", Empty} \cup Strings \cup Scalars

\* A document ends with the closing mark of its object: no text ends inside a value.
JsonAssumption ==
    /\ Strings \cap (Marks \cup {"sp", "nl", Empty} \cup Scalars) = {}
    /\ \A d \in Documents : d.text \in Seq(Tokens) /\ d.text # <<>> /\ Last(d.text) = "}"

VARIABLES
    document,       \* the text, and the value it stands for
    round,          \* 1: the caller's text, 2: what encode() made of its value
    index,          \* the place in the text
    stack,          \* the calls of decode() under way, the innermost last
    pc,             \* what the innermost call does next
    decoded,        \* what the outermost call has decoded when it returns
    buffers         \* the calls of encode() under way, the innermost last

vars == <<document, round, index, stack, pc, decoded, buffers>>

text == document.text

-----------------------------------------------------------------------------
(***************************************************************************)
(* Faulty variants, one per property.                                      *)
(***************************************************************************)
AfterSpaces_SkipsNothing(i) == i

IsString_AcceptsEmpty(i) == i <= Len(text) /\ text[i] \in Strings \cup {Empty}

(***************************************************************************)
(* White space: objects skip spaces, arrays what isspace() accepts.        *)
(***************************************************************************)
SkipFrom(i, skipped) == Min({j \in i..(Len(text) + 1) : j > Len(text) \/ text[j] \notin skipped})
AfterSpaces(i) == SkipFrom(i, {"sp"})
AfterWhite(i) == SkipFrom(i, {"sp", "nl"})

Is(i, t) == i <= Len(text) /\ text[i] = t
IsString(i) == i <= Len(text) /\ text[i] \in Strings

\* Where the bytes taken for a scalar end: at a space, a comma or a closing mark.
RunEnd(i) == SkipFrom(i + 1, Tokens \ {"sp", ",", "}", "]"})

\* decodeDouble() does not apply the sign it sees, and to_string() writes six
\* digits of a fraction.
ReadAs(t) == IF t = "-0.5" THEN "0.5" ELSE t
WrittenAs(t) == IF t = "0.0000001" THEN "0.0" ELSE t

\* atoi() stops at what is not a digit, and does not fit large numbers into an int.
Atoi(t) == CASE t = "1e5" -> "1" [] t = "3000000000" -> Other [] OTHER -> t

\* What the bytes from i on may be read as, nothing if they are no scalar.  true and
\* false, a fraction and a single digit must have the bytes for themselves.  Other
\* bytes without a dot are copied for atoi(), which skips white space and ignores
\* what follows a number; the copy has no terminator, so that a number its last
\* byte belongs to may go on with whatever is in memory.
Reads(i) ==
    LET e == RunEnd(i)
        first == SkipFrom(i, {"nl"})
    IN  IF e = i + 1 /\ text[i] \in Words \cup Digits THEN {ReadAs(text[i])}
        ELSE IF first < e /\ text[first] \in Ints /\ \A k \in first..(e - 1) : text[k] \notin Dotted
        THEN {Atoi(text[first])} \cup IF first + 1 = e /\ text[first] # "1e5" THEN {Other} ELSE {}
        ELSE {}

(***************************************************************************)
(* The calls.                                                              *)
(***************************************************************************)
Frame(kind) == [value |-> IF kind = "object" THEN Object(<<>>) ELSE Array(<<>>), key |-> Empty]
Top == Last(stack)
InObject == Top.value.kind = "object"

\* unordered_map::insert() keeps the member that is there; arrays append.
With(frame, v) ==
    IF frame.value.kind = "array"
    THEN [frame EXCEPT !.value.items = Append(@, v)]
    ELSE IF \E m \in ToSet(frame.value.members) : m.key = frame.key THEN frame
    ELSE [frame EXCEPT !.value.members = Append(@, [key |-> frame.key, value |-> v])]

Open(kind) ==
    /\ stack' = Append(stack, Frame(kind))
    /\ pc' = IF kind = "object" THEN "key" ELSE "value"

-----------------------------------------------------------------------------
\* decode() returns.  Its caller cannot tell whether it failed: bytesParsed is
\* where it stopped, and what there is so far is taken for the value.
Return ==
    /\ IF Len(stack) = 1
       THEN pc' = "done" /\ stack' = <<>> /\ decoded' = Top.value
       ELSE /\ pc' = "after"
            /\ LET caller == stack[Len(stack) - 1]
               IN  stack' = Append(SubSeq(stack, 1, Len(stack) - 2), With(caller, Top.value))
            /\ UNCHANGED decoded

Init ==
    /\ document \in Documents
    /\ round = 1 /\ index = 1
    /\ stack = <<>> /\ pc = "start"
    /\ decoded = Object(<<>>) /\ buffers = <<>>

\* The caller's text starts with an object.
Start ==
    /\ pc = "start"
    /\ LET i == AfterSpaces(index)
       IN  IF Is(i, "{")
           THEN index' = i + 1 /\ Open("object") /\ UNCHANGED decoded
           ELSE index' = i /\ pc' = "done" /\ UNCHANGED <<stack, decoded>>
    /\ UNCHANGED <<document, round>>

\* The key of a member and its colon; an empty key is no key.
ReadKey ==
    LET i == AfterSpaces(index)
        c == AfterSpaces(i + 1)
    IN  /\ pc = "key"
        /\ IF IsString(i) /\ Is(c, ":")
           THEN /\ index' = c + 1
                /\ stack' = Front(stack) \o <<[Top EXCEPT !.key = text[i]]>>
                /\ pc' = "value"
                /\ UNCHANGED decoded
           ELSE index' = (IF IsString(i) THEN c ELSE i) /\ Return
        /\ UNCHANGED <<document, round>>

ValueAt == IF InObject THEN AfterSpaces(index) ELSE AfterWhite(index)

Take(v, i) ==
    /\ index' = i
    /\ stack' = Front(stack) \o <<With(Top, v)>>
    /\ pc' = "after"
    /\ UNCHANGED decoded

ReadString ==
    /\ pc = "value" /\ IsString(ValueAt)
    /\ Take(Leaf(text[ValueAt]), ValueAt + 1)
    /\ UNCHANGED <<document, round>>

ReadNested ==
    /\ pc = "value"
    /\ \/ Is(ValueAt, "{") /\ Open("object")
       \/ Is(ValueAt, "[") /\ Open("array")
    /\ index' = ValueAt + 1
    /\ UNCHANGED <<document, round, decoded>>

\* A scalar of an object; in an array decodeValue() returns it with nothing parsed.
ReadScalar ==
    /\ pc = "value" /\ InObject
    /\ \E t \in Reads(ValueAt) : Take(Leaf(t), RunEnd(ValueAt))
    /\ UNCHANGED <<document, round>>

\* Faulty: an empty string is passed over instead of ending the call.
ValueFails_SkipsEmpty ==
    /\ pc = "value" /\ Is(ValueAt, Empty)
    /\ index' = ValueAt + 1
    /\ pc' = "after"
    /\ UNCHANGED <<document, round, stack, decoded>>

\* At a Long decode() stays for ever: the uint8_t that decodeDouble() counts its bytes
\* with never gets to their end.
NoValue(i) ==
    /\ ~IsString(i) /\ ~Is(i, "{") /\ ~Is(i, "[") /\ ~Is(i, Long)
    /\ InObject => Reads(i) = {}
ValueFails ==
    /\ pc = "value" /\ NoValue(ValueAt)
    /\ index' = ValueAt
    /\ Return
    /\ UNCHANGED <<document, round>>

\* A comma and the next value, the end, or neither.  Arrays look for the comma
\* before they skip white space.
AfterValue ==
    LET i == IF InObject THEN AfterSpaces(index) ELSE index
        e == IF InObject THEN i ELSE AfterWhite(index)
    IN  /\ pc = "after"
        /\ IF Is(i, ",")
           THEN /\ index' = i + 1
                /\ pc' = IF InObject THEN "key" ELSE "value"
                /\ UNCHANGED <<stack, decoded>>
           ELSE LET ends == Is(e, IF InObject THEN "}" ELSE "]")
                IN  index' = (IF ends THEN e + 1 ELSE e) /\ Return
        /\ UNCHANGED <<document, round>>

Decode ==
    /\ Start \/ ReadKey \/ ReadString \/ ReadNested \/ ReadScalar \/ ValueFails \/ AfterValue
    /\ UNCHANGED buffers

-----------------------------------------------------------------------------
(***************************************************************************)
(* encode(): objects inside the outermost one are indented by 2; the order *)
(* of the members is the map's.  Every array and object has a call and a   *)
(* buffer of its own: what is left of its parts and what the buffer holds. *)
(* How long buffers and values are is left out.                            *)
(***************************************************************************)
Put(b, t) == [b EXCEPT !.text = @ \o t]
Comma(b) == IF Len(b.text) = 1 THEN b ELSE Put(b, <<",">>)
PutKey(b, key) ==
    Put(IF Len(buffers) = 1 THEN Comma(b) ELSE Put(Comma(b), <<"nl", "sp", "sp">>), <<key, ":">>)

\* The parts of an array or object; those of an array have no key.
Parts(v) ==
    IF v.kind = "object" THEN v.members
    ELSE [i \in DOMAIN v.items |-> [key |-> Empty, value |-> v.items[i]]]

Call(v) ==
    [kind |-> v.kind, left |-> Parts(v), text |-> <<IF v.kind = "object" THEN "{" ELSE "[">>]

Inner == Last(buffers)
Succeeded == pc = "done" /\ index = Len(text) + 1

EncodeStart ==
    /\ Succeeded /\ round = 1
    /\ document' = [text |-> <<>>, value |-> decoded]
    /\ round' = 2 /\ index' = 1
    /\ buffers' = <<Call(decoded)>> /\ pc' = "encode"
    /\ decoded' = Object(<<>>)
    /\ UNCHANGED stack

\* The next item, or any member: a leaf is written, another value has its own call.
EncodePart ==
    /\ pc = "encode"
    /\ \E i \in DOMAIN Inner.left :
          LET v == Inner.left[i].value
              rest == [Inner EXCEPT !.left = RemoveAt(@, i)]
              b == IF Inner.kind = "object" THEN PutKey(rest, Inner.left[i].key) ELSE Comma(rest)
          IN  /\ Inner.kind = "array" => i = 1
              /\ buffers' = Front(buffers) \o
                     IF v.kind = "leaf" THEN <<Put(b, <<WrittenAs(v.token)>>)>> ELSE <<b, Call(v)>>
    /\ UNCHANGED <<document, round, index, stack, pc, decoded>>

\* The closing mark; the caller copies what its call returns.
EncodeEnd ==
    /\ pc = "encode" /\ Inner.left = <<>>
    /\ LET outermost == Len(buffers) = 1
           line == IF Inner.kind = "object" /\ ~outermost THEN Put(Inner, <<"nl">>) ELSE Inner
           e == Put(line, <<IF Inner.kind = "object" THEN "}" ELSE "]">>)
           caller == buffers[Len(buffers) - 1]
       IN  IF outermost
           THEN /\ document' = [document EXCEPT !.text = e.text]
                /\ buffers' = <<>> /\ pc' = "start"
           ELSE /\ buffers' = SubSeq(buffers, 1, Len(buffers) - 2) \o <<Put(caller, e.text)>>
                /\ UNCHANGED <<document, pc>>
    /\ UNCHANGED <<round, index, stack, decoded>>

\* A value is compared with the size of the whole buffer and not with what is left of
\* it, and marks are written without a look: one that is long enough is written past
\* the end, and then nothing is defined.
EncodeOverruns ==
    /\ pc = "encode" /\ pc' = "overrun"
    /\ UNCHANGED <<document, round, index, stack, decoded, buffers>>

Encode == EncodeStart \/ EncodePart \/ EncodeEnd \/ EncodeOverruns

Next == Decode \/ Encode
Spec == Init /\ [][Next]_vars

-----------------------------------------------------------------------------
\* Types, that every value read for an object has a key that is not empty, and that
\* calls of decode() and of encode() are never under way at once.
TypeOK ==
    /\ document.text \in Seq(Tokens)
    /\ round \in 1..2
    /\ index \in 1..(Len(text) + 1)
    /\ pc \in {"start", "key", "value", "after", "done", "encode", "overrun"}
    /\ (stack # <<>>) = (pc \in {"key", "value", "after"})
    /\ (buffers # <<>>) = (pc \in {"encode", "overrun"})
    /\ \A i \in DOMAIN stack : stack[i].value.kind \in {"array", "object"}
    /\ \A i \in DOMAIN buffers : buffers[i].kind \in {"array", "object"}
    /\ pc = "value" /\ InObject => Top.key \in Strings
=============================================================================
