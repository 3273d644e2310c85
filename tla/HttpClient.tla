----------------------------- MODULE HttpClient -----------------------------
(***************************************************************************)
(* fwoop::HttpClient::makeReqest(): one response read from a blocking      *)
(* socket in pieces the network chooses, each piece handed to              *)
(* HttpResponse::build().                                                  *)
(*                                                                         *)
(* A response is a sequence of units: the status line, "content-length:"   *)
(* and its value, "\r" and "\n", and the bytes of the body.  Pieces end    *)
(* anywhere between two units.  The buffer is fwoop::Array as              *)
(* Socket::read() uses it: a read writes at its start and never makes it   *)
(* shorter.                                                                *)
(***************************************************************************)
EXTENDS Naturals, Sequences, FiniteSetsExt, SequencesExt

CONSTANTS
    Body,           \* what the server sends as the body
    BufferSize,     \* d_actualSize of the buffer
    MaxTimeouts     \* bound: polls that time out

CRLF == <<"cr", "lf">>
Headers == <<"status">> \o CRLF \o (IF Body = <<>> THEN <<>> ELSE <<"name", "value">> \o CRLF) \o CRLF
Response == Headers \o Body

ClientAssumption ==
    /\ BufferSize \in Nat \ {0}
    /\ MaxTimeouts \in Nat
    /\ Body \in Seq(STRING)

-----------------------------------------------------------------------------
VARIABLES
    call,           \* the next step of makeReqest(), or how it returned
    stream,         \* what the server will have sent when it closes
    pos,            \* how much of it has been read
    errno,          \* what errno is when no system call sets it
    buf,            \* the first d_size units of the buffer
    response,       \* the HttpResponse under construction
    timeouts,       \* polls that timed out
    handed          \* history: the pieces build() was given

vars == <<call, stream, pos, errno, buf, response, timeouts, handed>>

Results == {"ok", "HostNotFound", "WriteFailed", "ReadFailed"}

-----------------------------------------------------------------------------
(***************************************************************************)
(* HttpResponse::build(): where the headers of a piece end.                *)
(***************************************************************************)
\* payload.rfind("\r\n\r\n"), as the number of units before it; none is -1 in
\* the code and the whole piece here.
BlankLines(b) == {i \in 0..(Len(b) - 4) : SubSeq(b, i + 1, i + 4) = CRLF \o CRLF}
HasBlankLine(b) == Len(b) >= 4 /\ BlankLines(b) # {}
HeaderEnd(b) == IF HasBlankLine(b) THEN Max(BlankLines(b)) ELSE Len(b)

(***************************************************************************)
(* Faulty variants, one per property.                                      *)
(***************************************************************************)
Overlay_Appends(old, piece) == old \o piece

HeadersParsed_KeepsBlankLine(b) == IF HasBlankLine(b) THEN HeaderEnd(b) ELSE Len(b)

TakeBody_Unbounded(r, b) == [r EXCEPT !.body = @ \o b]

-----------------------------------------------------------------------------
\* d_contentLength after the lines of h: a content-length line counts when it
\* is a line of its own and not the first.
NameAt(h, i) == i > 1 /\ h[i] = "name" /\ h[i - 1] = "lf"
ParsedLength(h) ==
    IF \E i \in 1..(Len(h) - 1) : NameAt(h, i) /\ h[i + 1] = "value" THEN Len(Body) ELSE 0

\* substr(split + 2) throws out_of_range when the line ends with its colon.
Throws(h) ==
    \E i \in 1..Len(h) : NameAt(h, i) /\ (i = Len(h) \/ h[i + 1] = "lf")

\* The tokenizer does not get past a delimiter at position 0: the loop over the
\* header lines never ends.
TokenizerLoops(h) == h # <<>> /\ h[1] = "lf"

ParseHeaders(r, b) ==
    LET h == SubSeq(b, 1, HeaderEnd(b))
    IN  [r EXCEPT !.state = IF HasBlankLine(b) THEN "WaitingOnBody" ELSE "WaitingOnHeaders",
                  !.status = h # <<>> /\ h[1] = "status",
                  !.contentLength = ParsedLength(h)]

\* bytesParsed after the headers.
HeadersParsed(b) == IF HasBlankLine(b) THEN HeaderEnd(b) + 4 ELSE Len(b)

\* The body takes what it still needs of the units of b.
TakeBody(r, b) ==
    [r EXCEPT !.body = @ \o SubSeq(b, 1, Min({Len(b), r.contentLength - Len(@)}))]

\* The response after build(b), and what build() returns.
Build(r, b) ==
    LET p == IF r.state = "WaitingOnHeaders" THEN ParseHeaders(r, b) ELSE r
        parsed == IF r.state # "WaitingOnHeaders" THEN 0
                  ELSE HeadersParsed(b)
        q == IF p.state = "WaitingOnBody" THEN TakeBody(p, SubSeq(b, parsed + 1, Len(b))) ELSE p
    IN  IF r.state = "WaitingOnHeaders" /\ parsed = Len(b)
        THEN IF p.contentLength = 0
             THEN <<[p EXCEPT !.state = "Complete"], "Done">>
             ELSE <<p, "Incomplete">>
        ELSE <<q, IF q.state = "WaitingOnBody" /\ Len(q.body) < q.contentLength
                  THEN "Incomplete" ELSE "Done">>

-----------------------------------------------------------------------------
Init ==
    /\ call = "connect"
    /\ stream \in {SubSeq(Response, 1, n) : n \in 0..Len(Response)}
    /\ pos = 0
    /\ errno \in {"zero", "ETIMEDOUT", "other"}
    /\ buf = <<>>
    /\ response = [state |-> "WaitingOnHeaders", status |-> FALSE, contentLength |-> 0, body |-> <<>>]
    /\ timeouts = 0
    /\ handed = <<>>

Connect ==
    /\ call = "connect"
    /\ call' \in {"write", "HostNotFound"}
    /\ UNCHANGED <<stream, pos, errno, buf, response, timeouts, handed>>

WriteRequest ==
    /\ call = "write"
    /\ call' \in {"read", "WriteFailed"}
    /\ UNCHANGED <<stream, pos, errno, buf, response, timeouts, handed>>

\* ::read() into the start of the buffer; Array::enlarge() never shrinks it.
Overlay(old, piece) == piece \o SubSeq(old, Len(piece) + 1, Len(old))

ReadPiece ==
    /\ call = "read"
    /\ \E n \in 1..Min({Len(stream) - pos, BufferSize}) :
          /\ buf' = Overlay(buf, SubSeq(stream, pos + 1, pos + n))
          /\ pos' = pos + n
    /\ call' = "build"
    /\ UNCHANGED <<stream, errno, response, timeouts, handed>>

\* A poll that times out, and a read that finds the connection closed, leave
\* errno as it was and return it: success, ETIMEDOUT or some other error.
ReadNothing ==
    call' = IF errno = "other" THEN "ReadFailed" ELSE "build"

ReadTimesOut ==
    /\ call = "read"
    /\ timeouts < MaxTimeouts
    /\ timeouts' = timeouts + 1
    /\ ReadNothing
    /\ UNCHANGED <<stream, pos, errno, buf, response, handed>>

ReadClosed ==
    /\ call = "read"
    /\ pos = Len(stream)
    /\ ReadNothing
    /\ UNCHANGED <<stream, pos, errno, buf, response, timeouts, handed>>

\* poll() or read() fails and says so.
ReadFails ==
    /\ call = "read"
    /\ call' = "ReadFailed"
    /\ UNCHANGED <<stream, pos, errno, buf, response, timeouts, handed>>

BuildPiece ==
    /\ call = "build"
    /\ LET h == SubSeq(buf, 1, HeaderEnd(buf))
           b == Build(response, buf)
       IN  IF response.state = "WaitingOnHeaders" /\ (TokenizerLoops(h) \/ Throws(h))
           THEN /\ call' = IF TokenizerLoops(h) THEN "looping" ELSE "threw"
                /\ UNCHANGED response
           ELSE /\ response' = b[1]
                /\ call' = IF b[2] = "Incomplete" THEN "read" ELSE "ok"
    /\ handed' = IF Len(FlattenSeq(handed)) > Len(Response) THEN handed ELSE Append(handed, buf)
    /\ UNCHANGED <<stream, pos, errno, buf, timeouts>>

Read == ReadPiece \/ ReadTimesOut \/ ReadClosed \/ ReadFails
Next == Connect \/ WriteRequest \/ Read \/ BuildPiece

Spec == Init /\ [][Next]_vars

-----------------------------------------------------------------------------
Units == {"status", "name", "value", "cr", "lf"} \cup ToSet(Body)

TypeOK ==
    /\ call \in {"connect", "write", "read", "build", "looping", "threw"} \cup Results
    /\ IsPrefix(stream, Response)
    /\ pos \in 0..Len(stream)
    /\ errno \in {"zero", "ETIMEDOUT", "other"}
    /\ buf \in Seq(Units) /\ Len(buf) <= BufferSize
    /\ response.state \in {"WaitingOnHeaders", "WaitingOnBody", "Complete"}
    /\ response.status \in BOOLEAN
    /\ response.contentLength \in {0, Len(Body)}
    /\ response.body \in Seq(Units)
    /\ timeouts \in 0..MaxTimeouts

\* The first piece held all the headers.
HeadersWhole == handed # <<>> /\ IsPrefix(Headers, handed[1])
\* No byte was handed to build() twice: no read was shorter than one before it
\* and none came back empty.
NothingStale == IsPrefix(FlattenSeq(handed), Response)

\* The result is what the server sent, however the body was cut into pieces,
\* when the headers came in one piece and no piece was shorter than the one
\* before it.  (The body itself holds no blank line: rfind() would take the
\* headers to end there.)
WholeResponseDelivered ==
    call = "ok" /\ HeadersWhole /\ NothingStale
        => response.status /\ response.body = Body

\* A body never exceeds its content-length, even when pieces are seen twice, and
\* once the headers came in one piece a response is not done before its body is
\* that long.
BodyHasItsLength ==
    /\ response.state = "WaitingOnBody" => Len(response.body) <= response.contentLength
    /\ call = "ok" /\ HeadersWhole => Len(response.body) = Len(Body)
=============================================================================
