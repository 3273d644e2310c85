------------------------------- MODULE HPack --------------------------------
(***************************************************************************)
(* fwoop::HttpHPacker shared by the HttpHeadersFrames of one connection,   *)
(* and the decoder at the other end.                                       *)
(*                                                                         *)
(* A name or a value is a sequence of words and '-' is what joins them, so *)
(* the compound key name + '-' + value is their concatenation.  A word     *)
(* counts one byte.                                                        *)
(***************************************************************************)
EXTENDS Integers, Sequences, SequencesExt

CONSTANTS
    Frames,         \* the HttpHeadersFrames that share the packer
    Fields,         \* the header fields a program adds: [name, value]
    StaticTable,    \* the first entries of the static table: [name, value]
    MaxEntries,     \* the peer's table: how many entries it keeps
    IndexLimit,     \* the index (127) that announces a longer one
    LengthLimit,    \* the length (127) that announces a longer one
    MaxBlocks       \* bound: header blocks in a frame

STATIC_TABLE_SIZE == Len(StaticTable)

Words == Seq(STRING)
Header == [name : Words, value : Words]

ASSUME HPackAssumption ==
    /\ Fields \subseteq Header
    /\ \A h \in Fields : h.name # <<>> /\ h.value # <<>>
    /\ StaticTable \in Seq(Header)
    /\ \A i \in DOMAIN StaticTable : StaticTable[i].name # <<>>
    /\ MaxEntries \in Nat
    /\ MaxBlocks \in Nat
    /\ IndexLimit \in Nat /\ STATIC_TABLE_SIZE < IndexLimit
    /\ LengthLimit \in Nat \ {0}

-----------------------------------------------------------------------------
(***************************************************************************)
(* The packer: d_dynamicTable is its queue of keys, oldest first, and a    *)
(* size that not every insertion counts.  indexLookup is the position of a *)
(* key in the queue.                                                       *)
(***************************************************************************)
CompoundKey(h) == h.name \o h.value

StaticKeys == {CompoundKey(StaticTable[i]) : i \in DOMAIN StaticTable}
StaticIndex(key) == CHOOSE i \in DOMAIN StaticTable : CompoundKey(StaticTable[i]) = key

\* The words of different fields do not join to the same key, nor to the key of
\* another static entry.
ASSUME KeysAssumption ==
    /\ \A g, h \in Fields : CompoundKey(g) = CompoundKey(h) => g = h
    /\ \A h \in Fields, i \in DOMAIN StaticTable :
          /\ CompoundKey(h) = CompoundKey(StaticTable[i]) => h = StaticTable[i]
          /\ h.name = CompoundKey(StaticTable[i]) => h.name = StaticTable[i].name

IsStatic(h) == CompoundKey(h) \in StaticKeys
IsDynamic(queue, h) == CompoundKey(h) \in ToSet(queue)
HasStaticName(h) == h.name \in StaticKeys

indexLookup(queue, key) == CHOOSE i \in 0..(Len(queue) - 1) : queue[i + 1] = key

\* What is left of a number in the byte it is written to: an index shares its
\* byte with one bit that is set, a length has all eight to itself.
IndexByte(n) == n % (IndexLimit + 1)
LengthByte(n) == n % (2 * (LengthLimit + 1))

\* A field that is not indexed: its name is an index or given like its value, as
\* a length and the text.  The six bits of a name's index hold every static one.
Literal(h) ==
    [kind |-> "literal",
     name |-> IF HasStaticName(h) THEN StaticIndex(h.name) ELSE 0,
     nameLength |-> LengthByte(Len(h.name)),
     valueLength |-> LengthByte(Len(h.value)),
     field |-> h]

\* The position of a field in the table the peer has, the newest entry's being 1.
Position(t, h) == t.size - indexLookup(t.queue, CompoundKey(h))

\* Faulty variant: the newest entry has the highest index.
Representation_OldestFirst(t, h) ==
    IF IsStatic(h)
    THEN [kind |-> "indexed", index |-> StaticIndex(CompoundKey(h))]
    ELSE IF IsDynamic(t.queue, h)
    THEN [kind |-> "indexed",
          index |-> IndexByte(indexLookup(t.queue, CompoundKey(h)) + 1 + STATIC_TABLE_SIZE)]
    ELSE Literal(h)

\* encode() of one field: what it writes for it.
Representation(t, h) ==
    IF IsStatic(h)
    THEN [kind |-> "indexed", index |-> StaticIndex(CompoundKey(h))]
    ELSE IF IsDynamic(t.queue, h)
    THEN [kind |-> "indexed", index |-> IndexByte(Position(t, h) + STATIC_TABLE_SIZE)]
    ELSE Literal(h)

\* The table after a field is encoded, and after its length is asked for.
InsertKey(queue, h) ==
    IF IsStatic(h) \/ IsDynamic(queue, h) THEN queue ELSE Append(queue, CompoundKey(h))

\* Faulty variant: every field counts, inserted or not.
TableAfterEncode_CountsAll(t, h) == [queue |-> InsertKey(t.queue, h), size |-> t.size + 1]

TableAfterEncode(t, h) ==
    LET queue == InsertKey(t.queue, h)
    IN  [queue |-> queue, size |-> t.size + (Len(queue) - Len(t.queue))]

TableAfterLength(t, h) == [t EXCEPT !.queue = InsertKey(@, h)]

\* getEncodedLength() of one field: the bytes encode() will write.
FieldLength(queue, h) ==
    IF IsStatic(h) \/ IsDynamic(queue, h) THEN 1
    ELSE IF HasStaticName(h) THEN 2 + Len(h.value)
    ELSE 3 + Len(h.name) + Len(h.value)

\* ... and of the fields of a list: every field is looked up in the table the
\* fields before it leave.
TablesOver(t, list, Step(_, _)) ==
    LET ts[i \in 1..(Len(list) + 1)] == IF i = 1 THEN t ELSE Step(ts[i - 1], list[i - 1])
    IN  ts

Total(lengths) ==
    LET n[i \in 0..Len(lengths)] == IF i = 0 THEN 0 ELSE n[i - 1] + lengths[i]
    IN  n[Len(lengths)]

LengthTables(t, list) == TablesOver(t, list, TableAfterLength)
EncodedLength(t, list) ==
    LET ts == LengthTables(t, list)
    IN  Total([i \in 1..Len(list) |-> FieldLength(ts[i].queue, list[i])])

\* encode() of a list.
EncodeTables(t, list) == TablesOver(t, list, TableAfterEncode)
Encoding(t, list) ==
    LET ts == EncodeTables(t, list)
    IN  [i \in 1..Len(list) |-> Representation(ts[i], list[i])]
TableAfter(t, list) == EncodeTables(t, list)[Len(list) + 1]

\* The bytes of an encoded list.
RepresentationLength(r) ==
    IF r.kind = "indexed" THEN 1
    ELSE IF r.name # 0 THEN 2 + Len(r.field.value)
    ELSE 3 + Len(r.field.name) + Len(r.field.value)
BytesOf(encoding) == Total([i \in 1..Len(encoding) |-> RepresentationLength(encoding[i])])

-----------------------------------------------------------------------------
(***************************************************************************)
(* The peer decodes as HPACK prescribes: its dynamic table has the newest  *)
(* entry first, right after the static entries, and drops the oldest ones. *)
(* Nothing stands for what it takes for an error or for something else.    *)
(***************************************************************************)
Nothing == [name |-> <<>>, value |-> <<>>]

\* A text after its length.  LengthLimit announces a longer length, and what is
\* above it a text in the Huffman code.
PeerText(n, text) == IF n < LengthLimit THEN SubSeq(text, 1, n) ELSE <<>>

PeerMeaning(t, r) ==
    IF r.kind = "literal"
    THEN [name |-> IF r.name = 0 THEN PeerText(r.nameLength, r.field.name)
                   ELSE StaticTable[r.name].name,
          value |-> PeerText(r.valueLength, r.field.value)]
    ELSE IF r.index = IndexLimit THEN Nothing
    ELSE IF r.index \in 1..STATIC_TABLE_SIZE THEN StaticTable[r.index]
    ELSE IF r.index - STATIC_TABLE_SIZE \in DOMAIN t THEN t[r.index - STATIC_TABLE_SIZE]
    ELSE Nothing

PeerTableAfter(t, r) ==
    IF r.kind = "indexed" THEN t
    ELSE LET grown == <<PeerMeaning(t, r)>> \o t
         IN  IF Len(grown) > MaxEntries THEN SubSeq(grown, 1, MaxEntries) ELSE grown

PeerTablesOver(t, encoding) == TablesOver(t, encoding, PeerTableAfter)

\* What the peer makes of an encoded list, and the table it is left with.
PeerDecodes(t, encoding) ==
    LET ts == PeerTablesOver(t, encoding)
    IN  [i \in 1..Len(encoding) |-> PeerMeaning(ts[i], encoding[i])]
PeerAfter(t, encoding) == PeerTablesOver(t, encoding)[Len(encoding) + 1]

-----------------------------------------------------------------------------
(***************************************************************************)
(* What a peer whose table is in step can read.                            *)
(***************************************************************************)
\* The field is still in the peer's table and its index needs one byte; or the
\* lengths it is given with do.
Readable(t, h) ==
    \/ IsStatic(h)
    \/ /\ ~IsStatic(h) /\ IsDynamic(t.queue, h)
       /\ Position(t, h) <= MaxEntries
       /\ Position(t, h) + STATIC_TABLE_SIZE < IndexLimit
    \/ /\ ~IsStatic(h) /\ ~IsDynamic(t.queue, h)
       /\ HasStaticName(h) \/ Len(h.name) < LengthLimit
       /\ Len(h.value) < LengthLimit

ListReadable(t, list) == \A i \in 1..Len(list) : Readable(EncodeTables(t, list)[i], list[i])

-----------------------------------------------------------------------------
VARIABLES
    table,          \* d_dynamicTable of the packer
    headerList,     \* headerList[f]: d_headerList of frame f
    length,         \* length[f]: d_length of frame f, which sizes its buffer
    peer,           \* the dynamic table of the peer's decoder
    synced,         \* history: the peer has seen and could read every insertion
    last            \* history: what the step sent, what the peer got, and whether it
                    \* was readable

vars == <<table, headerList, length, peer, synced, last>>

NoFrame == [sent |-> <<>>, got |-> <<>>, readable |-> TRUE]

\* The packer's table changes and no frame is sent: what it inserts, the peer
\* never learns, and from then on its table is of no interest.
TableChanges(t) ==
    /\ table' = t
    /\ synced' = (synced /\ t = table)
    /\ peer' = IF synced' THEN peer ELSE <<>>
    /\ last' = NoFrame
    /\ UNCHANGED <<headerList, length>>

-----------------------------------------------------------------------------
Init ==
    /\ table = [queue |-> <<>>, size |-> 0]
    /\ headerList = [f \in Frames |-> <<>>]
    /\ length = [f \in Frames |-> 6]
    /\ peer = <<>>
    /\ synced = TRUE
    /\ last = NoFrame

\* Faulty variant: the length is taken before the block is added.
AddHeaderBlock_LengthFirst(f, h) ==
    /\ Len(headerList[f]) < MaxBlocks
    /\ headerList' = [headerList EXCEPT ![f] = Append(@, h)]
    /\ length' = [length EXCEPT ![f] = EncodedLength(table, headerList[f])]
    /\ last' = NoFrame
    /\ UNCHANGED <<table, peer, synced>>

AddHeaderBlock(f, h) ==
    /\ Len(headerList[f]) < MaxBlocks
    /\ headerList' = [headerList EXCEPT ![f] = Append(@, h)]
    /\ length' = [length EXCEPT ![f] = EncodedLength(table, headerList'[f])]
    /\ last' = NoFrame
    /\ UNCHANGED <<table, peer, synced>>

\* The list goes, the length stays.
ClearHeaderBlocks(f) ==
    /\ headerList' = [headerList EXCEPT ![f] = <<>>]
    /\ last' = NoFrame
    /\ UNCHANGED <<table, length, peer, synced>>

\* encode() and a write of length[f] bytes.  When the fields take fewer, what
\* follows them is whatever the buffer held, and the peer reads it as fields.
SendFrame(f) ==
    LET list == headerList[f]
        encoding == Encoding(table, list)
        exact == BytesOf(encoding) = length[f]
        readable == exact /\ ListReadable(table, list)
    IN  /\ table' = TableAfter(table, list)
        /\ synced' = (synced /\ readable)
        /\ peer' = IF synced' THEN PeerAfter(peer, encoding) ELSE <<>>
        /\ last' = IF synced
                   THEN [sent |-> list,
                         got |-> PeerDecodes(peer, encoding) \o (IF exact THEN <<>> ELSE <<Nothing>>),
                         readable |-> readable]
                   ELSE NoFrame
        /\ UNCHANGED <<headerList, length>>

\* printHex() encodes the frame once more and sends nothing.
PrintHex(f) == TableChanges(TableAfter(table, headerList[f]))

\* HttpHPacker::encodeLength() on its own: what it inserts it does not count.
EncodeLength(h) == TableChanges(TableAfterLength(table, h))

FrameStep(f) == (\E h \in Fields : AddHeaderBlock(f, h)) \/ ClearHeaderBlocks(f) \/ SendFrame(f) \/ PrintHex(f)

Next == (\E f \in Frames : FrameStep(f)) \/ (\E h \in Fields : EncodeLength(h))

Spec == Init /\ [][Next]_vars

-----------------------------------------------------------------------------
TypeOK ==
    /\ ToSet(table.queue) \subseteq {CompoundKey(h) : h \in Fields}
    /\ IsInjective(table.queue)
    /\ table.size \in 0..Len(table.queue)
    /\ \A f \in Frames : headerList[f] \in Seq(Fields) /\ Len(headerList[f]) <= MaxBlocks
    /\ length \in [Frames -> Nat]
    /\ Len(peer) <= MaxEntries
    /\ synced \in BOOLEAN

\* encode() copies the encoded fields into a buffer of length[f] bytes, which
\* was fixed when the last block was added: whatever the other frames, the
\* lengths asked for and the dumps did to the table since, they still fit.
BufferHoldsEncoding ==
    \A f \in Frames : BytesOf(Encoding(table, headerList[f])) <= length[f]

\* A peer that could read what came before gets the fields the program added
\* exactly when the frame has the length of its encoding, every field it refers
\* to is still in the peer's table, and no index and no length needs a second
\* byte: encode() writes one (httphpacker.cpp:152, :160, :173, :177) and nothing
\* is ever dropped from d_dynamicTable.
SentIsDecoded == last.got = last.sent <=> last.readable
=============================================================================
