-------------------------- MODULE Http2Connection ---------------------------
(***************************************************************************)
(* HttpServer::handleHttp2Connection(): one client is upgraded to HTTP/2,  *)
(* its connection preface and first frames are read, and a fixed response  *)
(* is written.                                                             *)
(*                                                                         *)
(* After its request the client sends a preface, two texts with a blank    *)
(* line behind each, and then frames.  The network cuts this stream        *)
(* between any two of its cells, <<frame, place>> with frame 0 for the     *)
(* preface.  A header has four cells: the two high bytes of the length,    *)
(* its low byte, the type, and the flags with the stream.  A parameter has *)
(* three: its id and the two halves of its value.  A cut within a cell     *)
(* does what one before it does, but for a half that is then read in part. *)
(***************************************************************************)
EXTENDS Naturals, Sequences, FiniteSetsExt, SequencesExt, TLC

CONSTANTS
    Clients,        \* what a client may send: sequences of frames [type, payload]
    BufferSize,     \* bufferSize, in cells
    LengthBase      \* what the high bytes of a length count

HEADER_LENGTH == 4
PARAMETER_SIZE == 3
Preface == [k \in 1..4 |-> <<0, k>>]

\* No parameter: bytes that were never set.
Unwritten == [id |-> 0, high |-> 0, low |-> 1]

ASSUME Http2Assumption ==
    /\ Clients \subseteq Seq([type : STRING, payload : Seq(Nat)])
    /\ \A client \in Clients : client # <<>> /\ client[1].type = "Settings"
    /\ BufferSize \in Nat \ {0} /\ LengthBase \in Nat \ {0}

VARIABLES
    frames,         \* what this client sends
    pc,             \* the next step of the function, or how it ended
    pos,            \* how much of Stream has been read
    buffer,         \* the cells in the buffer; zeros follow
    offset, bytesRead, bytesParsed, totalRead, totalParsed,
    settings,       \* settingsFrame, null at first
    echo,           \* the payload of the settings frame that was written back
    sent,           \* what was written to the client
    closes,         \* how often close(clientFd) was called
    errno,          \* what errno is when no system call sets it
    tidy,           \* history: every read so far ended where a frame ends
    early,          \* history: a frame was taken before all of it was read
    parity          \* history: changes with every read, so that none is a stutter

counts == <<offset, bytesRead, bytesParsed, totalRead, totalParsed>>
reading == <<frames, pos, buffer, counts, errno, tidy, early, parity>>
settingsVars == <<settings, echo>>
vars == <<pc, reading, settingsVars, sent, closes>>

FrameLength(i) == HEADER_LENGTH + Len(frames[i].payload)
FrameUnits(i) == [k \in 1..FrameLength(i) |-> <<i, k>>]
Stream == Preface \o FlattenSeq([i \in DOMAIN frames |-> FrameUnits(i)])

-----------------------------------------------------------------------------
(***************************************************************************)
(* SocketIO::read() and write().                                           *)
(***************************************************************************)
Boundaries == {i \in 4..Len(Stream) : i = Len(Stream) \/ Stream[i + 1][2] = 1}

Zero == <<0, 0>>
UpTo(at) == [i \in 1..at |-> IF i \in DOMAIN buffer THEN buffer[i] ELSE Zero]

\* Faulty variant: what lies before place at does not count against the buffer.
Received_Overruns(at) ==
    /\ closes = 0
    /\ \E n \in 1..(Len(Stream) - pos) :
           /\ buffer' = UpTo(at) \o SubSeq(Stream, pos + 1, pos + n)
           /\ pos' = pos + n
           /\ bytesRead' = n
           /\ tidy' = (tidy /\ pos + n \in Boundaries)

\* The buffer is cleared from place at on, then filled.
Received(at) ==
    /\ closes = 0
    /\ \E n \in 1..Min({Len(Stream) - pos, BufferSize - at}) :
           /\ buffer' = UpTo(at) \o SubSeq(Stream, pos + 1, pos + n)
           /\ pos' = pos + n
           /\ bytesRead' = n
           /\ tidy' = (tidy /\ pos + n \in Boundaries)

\* No data within a second, or the client has closed, or an error.
ReceivedNothing(at) ==
    /\ buffer' = UpTo(at)
    /\ bytesRead' = 0
    /\ tidy' = FALSE
    /\ UNCHANGED pos

\* What read() returns: "zero" is no error.  A poll that timed out and a client
\* that has closed set no errno; it is returned as it is.  A descriptor that is
\* closed is neither: there is nothing to read and no error.
Results == {"zero", "ETIMEDOUT", "other"}
ReadFrom(at, result) ==
    /\ \/ result = "zero" /\ Received(at)
       \/ result \in {errno, "other"} /\ ReceivedNothing(at)
       \/ result = "zero" /\ closes > 0 /\ ReceivedNothing(at)
    /\ parity' = 1 - parity
    /\ UNCHANGED <<frames, errno>>

Close == closes' = IF closes < 2 THEN closes + 1 ELSE closes
Return == pc' = "returned" /\ Close

\* Nothing ignores SIGPIPE here: a client that is gone may end the process.
Killed == closes = 0 /\ pc' = "killed" /\ UNCHANGED <<sent, closes>>
Written(what) == closes = 0 /\ sent' = Append(sent, what)

\* Faulty variant: a failed write returns without closing.
WriteOrReturn_Leaks(what, next) ==
    \/ Killed
    \/ Written(what) /\ pc' = next /\ UNCHANGED closes
    \/ pc' = "returned" /\ UNCHANGED <<sent, closes>>

\* write(), and what follows when it fails.
WriteOrReturn(what, next) ==
    \/ Killed
    \/ Written(what) /\ pc' = next /\ UNCHANGED closes
    \/ Return /\ UNCHANGED sent

\* The last write before the connection is closed in any case.
WriteAndReturn(what) == Killed \/ (Return /\ (Written(what) \/ UNCHANGED sent))

-----------------------------------------------------------------------------
Null == [from |-> 0, parameters |-> <<>>]

Init ==
    /\ frames \in Clients
    /\ pc = "request"
    /\ pos = 0 /\ buffer = <<>>
    /\ offset = 0 /\ bytesRead = 0 /\ bytesParsed = 0 /\ totalRead = 0 /\ totalParsed = 0
    /\ settings = Null /\ echo = <<>>
    /\ sent = <<>> /\ closes = 0
    /\ errno \in Results /\ tidy = TRUE /\ early = FALSE /\ parity = 0

\* The request is read and parsed.  One that is not whole is reported, and then
\* dereferenced all the same; a failed read closes the connection first.  One
\* that begins with a line feed keeps the tokenizer at its first token for ever.
ReadRequest ==
    /\ pc = "request"
    /\ \/ pc' \in {"refuse", "switch"} /\ UNCHANGED closes
       \/ pc' = "crashed" /\ (Close \/ UNCHANGED closes)
       \/ pc' = "looping" /\ UNCHANGED closes
    /\ UNCHANGED <<reading, settingsVars, sent>>

\* A client that does not ask for h2c.
RefuseUpgrade ==
    /\ pc = "refuse"
    /\ WriteAndReturn("426")
    /\ UNCHANGED <<reading, settingsVars>>

SwitchProtocols ==
    /\ pc = "switch"
    /\ WriteOrReturn("101", "preface")
    /\ UNCHANGED <<reading, settingsVars>>

\* parsePayloadBody(): everything up to the last blank line, or everything.
BlankLines == {i \in DOMAIN buffer' : buffer'[i] \in {<<0, 2>>, <<0, 4>>}}
PrefaceParsed == IF BlankLines = {} THEN bytesRead' ELSE Max(BlankLines)

ReadPreface ==
    /\ pc = "preface"
    /\ \E result \in Results :
          /\ ReadFrom(0, result)
          /\ IF result = "other"
             THEN Return /\ UNCHANGED <<offset, bytesParsed, totalRead, totalParsed>>
             ELSE /\ bytesParsed' = PrefaceParsed
                  /\ pc' = IF bytesParsed' = bytesRead' THEN "again" ELSE "frames"
                  /\ offset' = bytesParsed'
                  /\ totalRead' = bytesRead'
                  /\ totalParsed' = bytesParsed'
                  /\ UNCHANGED closes
    /\ UNCHANGED <<settingsVars, sent, early>>

\* Faulty variant: the place of the next frame is not reset.
ReadAgain_KeepsOffset ==
    /\ pc = "again"
    /\ \E result \in Results :
          /\ ReadFrom(0, result)
          /\ IF result = "other" THEN Close ELSE UNCHANGED closes
    /\ pc' = "frames"
    /\ totalRead' = bytesRead'
    /\ totalParsed' = 0
    /\ UNCHANGED <<offset, bytesParsed, settingsVars, sent, early>>

\* The preface was all there was: read once more, from the start of the buffer.
ReadAgain ==
    /\ pc = "again"
    /\ \E result \in Results :
          /\ ReadFrom(0, result)
          /\ IF result = "other" THEN Close ELSE UNCHANGED closes
    /\ pc' = "frames"
    /\ bytesParsed' = 0 /\ offset' = 0 /\ totalParsed' = 0
    /\ totalRead' = bytesRead'
    /\ UNCHANGED <<settingsVars, sent, early>>

\* HttpSettingsFrame(length, ..., payload): a parameter with a known id is kept,
\* the last of several, and what follows the last whole one is left.  A payload
\* shorter than a parameter makes the bound of the loop wrap around, and the
\* loop runs far past the buffer.
Parameter == 1..7
EnablePush == 2
Overruns(payload) == Len(payload) \in 1..(PARAMETER_SIZE - 1)

Slots(payload) ==
    [n \in 1..(Len(payload) \div PARAMETER_SIZE) |->
        [id   |-> payload[PARAMETER_SIZE * n - 2],
         high |-> payload[PARAMETER_SIZE * n - 1],
         low  |-> payload[PARAMETER_SIZE * n]]]

\* EnablePush is a bool.
Stored(p) ==
    IF p.id = EnablePush /\ (p.high # 0 \/ p.low # 0)
    THEN [id |-> p.id, high |-> 0, low |-> 1] ELSE p

\* Faulty variant: the loop stops one parameter early.
Parameters_MissesLast(slots) ==
    LET Places(id) == {k \in 1..(Len(slots) - 1) : slots[k].id = id}
    IN  [id \in {id \in Parameter : Places(id) # {}} |-> Stored(slots[Max(Places(id))])]

Parameters(slots) ==
    LET Places(id) == {k \in DOMAIN slots : slots[k].id = id}
    IN  [id \in {id \in Parameter : Places(id) # {}} |-> Stored(slots[Max(Places(id))])]

\* HttpSettingsFrame::encode(): the parameters in the order of their ids, in a
\* buffer as long as the payload that was parsed.  What they leave of it is
\* never written.
Nth(ids, n) == CHOOSE id \in ids : Cardinality({other \in ids : other <= id}) = n
Encode(frame) ==
    LET ids == DOMAIN frame.parameters
        length == Len(frames[frame.from].payload)
    IN  [n \in 1..((length + PARAMETER_SIZE - 1) \div PARAMETER_SIZE) |->
            IF n <= Cardinality(ids) THEN frame.parameters[Nth(ids, n)] ELSE Unwritten]

\* HttpFrame::parse(buffer + offset, bytesRead): what lies at offset, taken for
\* a frame when it seems to fit in bytesRead cells.  What was not read is zero:
\* the low byte of a length, a type, or the rest of the payload.
UnitAt(i) == IF i < Len(buffer) THEN buffer[i + 1] ELSE Zero
HeaderAt == UnitAt(offset)
LengthAt ==
    IF HeaderAt = Zero THEN HEADER_LENGTH
    ELSE IF UnitAt(offset + 1) # Zero THEN FrameLength(HeaderAt[1])
    ELSE HEADER_LENGTH + LengthBase * (Len(frames[HeaderAt[1]].payload) \div LengthBase)
TypeAt == IF UnitAt(offset + 2) = Zero THEN "Data" ELSE frames[HeaderAt[1]].type
Fits == bytesRead >= HEADER_LENGTH /\ LengthAt <= bytesRead

PayloadAt == [k \in 1..(LengthAt - HEADER_LENGTH) |-> UnitAt(offset + HEADER_LENGTH + k - 1)]
ReadSettings ==
    [k \in DOMAIN PayloadAt |->
        IF PayloadAt[k] = Zero THEN 0 ELSE frames[HeaderAt[1]].payload[k]]

\* The bytes at offset are those of one frame, as far as they have been read, and
\* all of them in the buffer.
Aligned ==
    bytesRead >= HEADER_LENGTH =>
        /\ offset + HEADER_LENGTH <= BufferSize
        /\ HeaderAt # Zero =>
              /\ HeaderAt[1] # 0 /\ HeaderAt[2] = 1
              /\ \A k \in 2..HEADER_LENGTH :
                    UnitAt(offset + k - 1) \in {Zero, <<HeaderAt[1], k>>}
              /\ Fits => /\ offset + LengthAt <= BufferSize
                         /\ \A k \in DOMAIN PayloadAt :
                               PayloadAt[k] \in {Zero, <<HeaderAt[1], HEADER_LENGTH + k>>}

\* The frame at offset is not survived: settings shorter than a parameter; or,
\* as the compiler has it, headers, which printHex() encodes with no packer.
RunsPast == HeaderAt # Zero /\ TypeAt = "Settings" /\ Overruns(ReadSettings)
MayCrash == RunsPast \/ (HeaderAt # Zero /\ TypeAt = "Headers")

ParseFrame ==
    /\ pc = "frames" /\ totalParsed < totalRead /\ Aligned /\ Fits
    /\ ~RunsPast
    /\ bytesParsed' = LengthAt
    /\ totalParsed' = totalParsed + LengthAt
    /\ offset' = offset + LengthAt
    /\ settings' = IF HeaderAt # Zero /\ TypeAt = "Settings"
                   THEN [from |-> HeaderAt[1], parameters |-> Parameters(Slots(ReadSettings))]
                   ELSE settings
    /\ early' = (early \/ offset + LengthAt > Len(buffer))
    /\ UNCHANGED <<frames, pc, pos, buffer, bytesRead, totalRead, echo, sent, closes, errno, tidy, parity>>

\* The frame is parsed, or printed, and the process is gone.
ParseCrash ==
    /\ pc = "frames" /\ totalParsed < totalRead /\ Aligned /\ Fits
    /\ MayCrash
    /\ pc' = "crashed"
    /\ UNCHANGED <<reading, settingsVars, sent, closes>>

\* Bytes that are not one frame, or that lie behind the buffer, are taken for
\* one: what they say is not followed further.
ParseMisaligned ==
    /\ pc = "frames" /\ totalParsed < totalRead /\ ~Aligned
    /\ pc' = "garbled"
    /\ UNCHANGED <<reading, settingsVars, sent, closes>>

\* Faulty variant: a read that timed out is tried again.
ReadMore_Retries ==
    /\ pc = "frames" /\ totalParsed < totalRead /\ Aligned /\ ~Fits
    /\ LET at == IF bytesRead > 0 THEN bytesRead ELSE offset
       IN  /\ offset' = at
           /\ \E result \in Results :
                 /\ ReadFrom(at, result)
                 /\ IF result = "other" THEN Close ELSE UNCHANGED closes
                 /\ totalRead' = totalRead + bytesRead'
                 /\ bytesParsed' = 0
    /\ UNCHANGED <<pc, totalParsed, settingsVars, sent, early>>

\* "no frame": more is read, behind the bytes of the last read.  (The memcpy()
\* moves them onto themselves: bytesParsed is 0.)
ReadMore ==
    /\ pc = "frames" /\ totalParsed < totalRead /\ Aligned /\ ~Fits
    /\ LET at == IF bytesRead > 0 THEN bytesRead ELSE offset
       IN  /\ offset' = at
           /\ \E result \in Results :
                 /\ ReadFrom(at, result)
                 /\ pc' = IF result = "ETIMEDOUT" THEN "settings" ELSE "frames"
                 /\ IF result = "other" THEN Close ELSE UNCHANGED closes
                 /\ totalRead' = IF result = "ETIMEDOUT" THEN totalRead ELSE totalRead + bytesRead'
                 /\ bytesParsed' = 0
    /\ UNCHANGED <<totalParsed, settingsVars, sent, early>>

FramesEnd ==
    /\ pc = "frames" /\ totalParsed >= totalRead
    /\ pc' = "settings"
    /\ UNCHANGED <<reading, settingsVars, sent, closes>>

\* Faulty variant: settings are sent whether or not there are any.
SendSettings_Unasked ==
    /\ pc = "settings"
    /\ WriteOrReturn("settings", "acknowledged")
    /\ UNCHANGED <<reading, settingsVars>>

\* The client's own settings frame is written back; there may be none.
SendSettings ==
    /\ pc = "settings"
    /\ IF settings = Null
       THEN pc' = "crashed" /\ UNCHANGED <<echo, sent, closes>>
       ELSE /\ WriteOrReturn("settings", "acknowledged")
            /\ echo' = IF sent' = sent THEN echo ELSE Encode(settings)
    /\ UNCHANGED <<reading, settings>>

\* Any error ends the connection here, a timeout too.
ReadAcknowledgement ==
    /\ pc = "acknowledged"
    /\ \E result \in Results :
          /\ ReadFrom(0, result)
          /\ IF result = "zero" THEN pc' = "acknowledgement" /\ UNCHANGED closes ELSE Return
    /\ offset' = 0
    /\ UNCHANGED <<bytesParsed, totalRead, totalParsed, settingsVars, sent, early>>

\* What was read is parsed from the start of the buffer and printed, and counts
\* for nothing; "no frame 2" goes on too.
ParseAcknowledgement ==
    /\ pc = "acknowledgement"
    /\ \/ Aligned /\ ~(Fits /\ RunsPast) /\ pc' = "headers"
       \/ Aligned /\ Fits /\ MayCrash /\ pc' = "crashed"
       \/ ~Aligned /\ pc' = "garbled"
    /\ UNCHANGED <<reading, settingsVars, sent, closes>>

SendHeaders == pc = "headers" /\ WriteOrReturn("headers", "data")
SendData == pc = "data" /\ WriteOrReturn("data", "goaway")
SendGoAway == pc = "goaway" /\ WriteAndReturn("goaway")

Respond ==
    /\ SendHeaders \/ SendData \/ SendGoAway
    /\ UNCHANGED <<reading, settingsVars>>

FrameLoop == ParseFrame \/ ParseCrash \/ ParseMisaligned \/ ReadMore \/ FramesEnd
Next ==
    \/ ReadRequest \/ RefuseUpgrade \/ SwitchProtocols
    \/ ReadPreface \/ ReadAgain \/ FrameLoop
    \/ SendSettings \/ ReadAcknowledgement \/ ParseAcknowledgement \/ Respond

\* The thread that serves the connection runs; a read returns within a second,
\* and what is written is too short to block.
Spec == Init /\ [][Next]_vars /\ WF_vars(Next)

-----------------------------------------------------------------------------
Ends == {"returned", "crashed", "garbled", "killed"}
Places == Ends \cup {"request", "looping", "refuse", "switch", "preface", "again", "frames",
                     "settings", "acknowledged", "acknowledgement", "headers", "data", "goaway"}

TypeOK ==
    /\ frames \in Clients
    /\ pc \in Places
    /\ pos \in 0..Len(Stream)
    /\ Len(buffer) <= BufferSize
    /\ bytesRead \in 0..BufferSize
    /\ totalRead \in 0..Len(Stream)
    /\ settings.from \in 0..Len(frames) /\ DOMAIN settings.parameters \subseteq Parameter
    /\ closes \in 0..2
    /\ errno \in Results
    /\ tidy \in BOOLEAN /\ early \in BOOLEAN /\ parity \in {0, 1}

\* As long as every read ends where the preface or a frame ends, no frame is taken from the
\* wrong place or before it is there, every cell read is counted once, and a
\* settings frame is there to be written back.
TidyIsParsed ==
    tidy => /\ pc # "garbled" /\ ~early
            /\ totalParsed <= totalRead
            /\ pc = "settings" => settings # Null /\ totalParsed = totalRead

\* However the function returns, the connection is closed.
ReturnedIsClosed == pc = "returned" => closes > 0

\* The client is sent its answer in the order of the protocol, and nothing of it
\* before a settings frame has come from it.
AnswerIsOrdered ==
    /\ IsPrefix(sent, <<"101", "settings", "headers", "data", "goaway">>) \/ sent = <<"426">>
    /\ Len(sent) > 1 => settings # Null

\* The settings written back are those of a beginning of the frame the client
\* sent, followed by zeros: of all of it when it was there when it was parsed.
\* Then, when its parameters are known, whole and named once, they are all of
\* them.
Cut(payload, m) == [k \in DOMAIN payload |-> IF k <= m THEN payload[k] ELSE 0]
Meant(payload) == {Stored(p) : p \in {p \in ToSet(Slots(payload)) : p.id \in Parameter}}
Distinct(payload) ==
    /\ Len(payload) % PARAMETER_SIZE = 0
    /\ \A k \in DOMAIN Slots(payload) : Slots(payload)[k].id \in Parameter
    /\ \A k, l \in DOMAIN Slots(payload) : Slots(payload)[k].id = Slots(payload)[l].id => k = l
SettingsAreReturned ==
    Len(sent) > 1 =>
        LET said == frames[settings.from].payload
        IN  /\ \E m \in 0..Len(said) :
                  /\ ~early => m = Len(said)
                  /\ ToSet(echo) \ {Unwritten} \subseteq Meant(Cut(said, m))
            /\ ~early /\ Distinct(said) => ToSet(echo) = Meant(said)

\* The function ends, and with it the wait of the thread that accepts the next
\* connection.  Excepted are the request that begins with a line feed; the loop
\* over the frames of a connection it has closed itself; and the same loop when
\* no more comes and errno is zero, which is taken for no error.
ConnectionEnds ==
    \/ <>(pc \in Ends \cup {"looping"})
    \/ <>[](pc = "frames" /\ (closes > 0 \/ (bytesRead = 0 /\ errno = "zero")))
=============================================================================
