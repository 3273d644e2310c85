---------------------------- MODULE SocketClient ----------------------------
(***************************************************************************)
(* The users of a connection: HttpClient over a Socket, HttpClient over a  *)
(* SecureSocket (tools/furl), and a loop that reads a SecureSocket into an *)
(* Array it clears every time (examples/tlsclient.m.cpp).                  *)
(*                                                                         *)
(* HttpClient::makeReqest() knows its connection as a SocketBase.  Over a  *)
(* SecureSocket its calls of write() and read() are calls of that module,  *)
(* and what read() leaves in the Array is what build() is given.           *)
(***************************************************************************)
EXTENDS Naturals, Sequences, SequencesExt

CONSTANTS
    Body, BufferSize, MaxTimeouts,                  \* of HttpClient
    Handshake, Records, RecordSize, BufferBytes,    \* of SecureSocket
    ReaderSizes,    \* sizes of the Array of the reader
    Pieces          \* what each record of application data holds of the response

ArraySizes == ReaderSizes \cup {BufferSize}

VARIABLES
    user,           \* "plain", "secure" or "reader"
    call, stream, pos, errno, buf, response, timeouts, handed,
    pc, received, numMoreBytes, arr, maxSize, room, lostArr, d_readBuffer,
    capacity, open, closed, delivered, lost

Client == INSTANCE HttpClient
Secure == INSTANCE SecureSocket WITH pos <- received

ASSUME SocketClientAssumption ==
    /\ Client!ClientAssumption
    /\ Secure!SecureAssumption
    /\ Pieces \in Seq(Seq(Client!Units))
    /\ Client!HeaderEnd(Client!Response) = Len(Client!Headers) - 4  \* no blank line in the body
    /\ Len(Pieces) = Records - Handshake /\ FlattenSeq(Pieces) = Client!Response

\* What a SecureSocket does with the data of its records, seen as a pipe.
Data == Secure!DataBetween(0, Records * RecordSize)
DataPipe == INSTANCE Pipe WITH
    Sent <- Data,
    arrived <- Len(Secure!DataBetween(0, received)),
    waiting <- d_readBuffer,
    dropped <- lost

secureVars ==
    <<pc, received, numMoreBytes, arr, maxSize, room, lostArr, d_readBuffer,
      capacity, open, closed, delivered, lost>>
requestVars == <<call, stream, pos, buf, response, timeouts, handed>>
vars == <<user, errno, requestVars, secureVars>>

\* The part of the response an Array of record numbers holds.
Units(data) == FlattenSeq([i \in DOMAIN data |-> Pieces[data[i] - Handshake]])

-----------------------------------------------------------------------------
Init ==
    /\ user \in {"plain", "secure", "reader"}
    /\ Client!Init
    /\ Secure!Init
    /\ IF user = "plain" THEN TRUE ELSE stream = Client!Response
    /\ IF user = "reader" THEN maxSize \in ReaderSizes ELSE maxSize = BufferSize

PlainStep ==
    /\ user = "plain"
    /\ Client!Next
    /\ UNCHANGED <<user, secureVars>>

ReaderStep ==
    /\ user = "reader"
    /\ Secure!Next
    /\ UNCHANGED <<user, requestVars>>

-----------------------------------------------------------------------------
(***************************************************************************)
(* HttpClient over a SecureSocket.                                         *)
(***************************************************************************)
\* SecureSocketFactory::connect().
SecureConnect ==
    /\ Client!Connect
    /\ UNCHANGED secureVars

SecureWrite ==
    /\ call = "write" /\ pc = "ready"
    /\ Secure!CallWrite
    /\ UNCHANGED requestVars

WriteReturns ==
    /\ call = "write" /\ pc \in {"wrote", "threw"}
    /\ call' = IF pc = "wrote" THEN "read" ELSE "threw"
    /\ UNCHANGED <<errno, stream, pos, buf, response, timeouts, handed, secureVars>>

\* Faulty variant: makeReqest() clears its Array before it reads.
ReadCleared_Always == TRUE

\* It passes the same Array to every read() and never clears it.
ReadCleared == FALSE

SecureRead ==
    /\ call = "read" /\ pc # "reading"
    /\ Secure!CallRead(ReadCleared)
    /\ call' = "reading"
    /\ UNCHANGED <<stream, pos, buf, response, timeouts, handed>>

\* An error other than ETIMEDOUT ends the request.
ReadReturns ==
    /\ call = "reading" /\ pc \in {"read", "readAgain", "readFailed"}
    /\ call' = IF pc = "readFailed" /\ errno # "ETIMEDOUT" THEN "ReadFailed" ELSE "build"
    /\ buf' = Units(arr)
    /\ UNCHANGED <<errno, stream, pos, response, timeouts, handed, secureVars>>

SecureBuild ==
    /\ Client!BuildPiece
    /\ UNCHANGED secureVars

\* The SecureSocket's part of a write() or read().
SecureCall ==
    /\ call \in {"write", "reading"}
    /\ Secure!CallStep
    /\ UNCHANGED requestVars

\* Data comes in; the server answers once it has the request.
SecureData ==
    /\ call \in {"write", "reading"}
    /\ Secure!ReadUnits
    /\ call = "write" => received' <= Handshake * RecordSize
    /\ UNCHANGED requestVars

OwnStep ==
    /\ user = "secure"
    /\ \/ SecureConnect \/ SecureWrite \/ WriteReturns
       \/ SecureRead \/ ReadReturns \/ SecureBuild \/ SecureCall
    /\ UNCHANGED user

SecureStep == OwnStep \/ (user = "secure" /\ SecureData /\ UNCHANGED user)

Next == PlainStep \/ ReaderStep \/ SecureStep

Spec == Init /\ [][Next]_vars

\* makeReqest() goes on by itself, and poll() comes back after a second with
\* nothing if nothing comes in.
FairSpec == Spec /\ WF_vars(OwnStep)

-----------------------------------------------------------------------------
TypeOK ==
    /\ user \in {"plain", "secure", "reader"}
    /\ IF user = "secure"
       THEN /\ call \in {"connect", "write", "read", "reading", "build", "looping", "threw"} \cup Client!Results
            /\ IsPrefix(buf, Client!Response)
       ELSE Client!TypeOK
    /\ Secure!TypeOK

\* The result is what the server sent, when the headers came in one piece and
\* nothing was handed to build() twice, over either kind of connection.
WholeResponseDelivered == Client!WholeResponseDelivered

\* A body is never longer than its content-length, and a response whose headers
\* came whole is not done before its body is that long.
BodyHasItsLength == Client!BodyHasItsLength

\* Decrypted data is dropped by handshake(), delivered once and in order, or
\* waiting.
DataIsConserved == Secure!DataIsConserved

\* A SecureSocket is a pipe to its user, whatever the order of its calls, the cuts of
\* its records and the polls that time out: every read() delivers all that waits, and
\* only handshake() drops data, once and before the first read() has delivered any.
ImplementsPipe == DataPipe!Spec

\* No Array is used beyond its memory, except by a reader that made its Array
\* larger than the callbacks' buffer and clears it.  HttpClient makes it larger
\* and is safe only because it never clears it.
ArrayHolds == pc = "overrun" => user = "reader" /\ maxSize > BufferBytes

\* Over a SecureSocket a request that has been written ends, whatever arrives or
\* does not: with a response, an error or an exception, or in the tokenizer.  Only
\* when the Array it got does not hold the end of the headers may it be given that
\* Array for ever.
HasHalfTheHeaders == arr # <<>> /\ ~Client!HasBlankLine(Units(arr))
RequestEnds ==
    user = "secure" /\ call = "read"
        ~> call \in Client!Results \cup {"threw", "looping"} \/ HasHalfTheHeaders
=============================================================================
