---------------------------- MODULE SecureSocket ----------------------------
(***************************************************************************)
(* fwoop::SecureSocket over a TLS engine: handshake(), read(), write() and *)
(* close(), the callbacks' buffer of decrypted data, and the memory behind *)
(* the Array a caller reads into.                                          *)
(*                                                                         *)
(* The server sends handshake records and then records of application      *)
(* data.  A record arrives in units; the engine decrypts it when its last  *)
(* unit is there.  Application data is the number of its record, and takes *)
(* as much memory as the record.                                           *)
(***************************************************************************)
EXTENDS Integers, Sequences, FiniteSetsExt, SequencesExt

CONSTANTS
    Handshake,      \* records of the server's handshake
    Records,        \* all its records
    RecordSize,     \* units of a record
    BufferBytes,    \* 16384: the callbacks' buffer, and the Array of handshake()
    ArraySizes      \* what the caller's Array may have been made with

SecureAssumption ==
    /\ Handshake \in Nat \ {0} /\ Records \in Nat /\ Handshake <= Records
    /\ RecordSize \in Nat \ {0}
    /\ BufferBytes \in Nat \ {0}
    /\ ArraySizes \subseteq Nat \ {0} /\ ArraySizes # {}

VARIABLES
    pc,             \* what the caller's thread is in, and how its last call ended
    pos,            \* units read from the connection and given to the engine
    errno,          \* what errno is when no system call sets it
    numMoreBytes,   \* of read()
    arr,            \* what the caller's Array holds
    maxSize,        \* d_actualSize of that Array
    room,           \* how much memory it has
    lostArr,        \* what the Array of handshake() holds
    d_readBuffer,   \* decrypted data that no read() has handed over
    capacity,       \* d_actualSize of that buffer
    open,           \* the descriptor is open
    closed,         \* the engine is closed for writing
    delivered,      \* history: data handed to the caller, read after read
    lost            \* history: data handed to handshake()

memory == <<maxSize, room, capacity>>
vars == <<pc, pos, errno, numMoreBytes, arr, lostArr, d_readBuffer, open, closed, delivered, lost, memory>>

-----------------------------------------------------------------------------
(***************************************************************************)
(* The TLS engine.                                                         *)
(***************************************************************************)
is_active == pos >= Handshake * RecordSize

\* The data of the records that end after unit p and not after unit q.
DataBetween(p, q) ==
    LET first == Max({p \div RecordSize, Handshake})
        last == q \div RecordSize
    IN  [i \in 1..(IF last > first THEN last - first ELSE 0) |-> first + i]

\* received_data(): how many units the record at hand still needs.
NeedsAfter(q) == (RecordSize - (q % RecordSize)) % RecordSize

-----------------------------------------------------------------------------
HandshakeBuffer == BufferBytes
Errnos == {"zero", "ETIMEDOUT", "other"}

Init ==
    /\ pc = "ready"
    /\ pos = 0
    /\ errno \in Errnos
    /\ numMoreBytes = 0
    /\ arr = <<>> /\ lostArr = <<>> /\ d_readBuffer = <<>>
    /\ maxSize \in ArraySizes /\ room = maxSize
    /\ capacity = BufferBytes
    /\ open = TRUE /\ closed = FALSE
    /\ delivered = <<>> /\ lost = <<>>

\* Between two calls of the caller.
Results == {"ready", "read", "readAgain", "readFailed", "wrote", "writeFailed"}

Bytes(data) == Len(data) * RecordSize

\* Array::append() of what the engine decrypted, record by record, into the
\* callbacks' buffer; it is enlarged to what it needs.
Appended(data) == Max({capacity, Bytes(data)})

\* Array::operator=: the Array gets as much memory as the one assigned has, and
\* keeps its own d_actualSize.
Assigned(cap) == cap

\* Array::clear() writes d_actualSize bytes.
ClearOverruns == maxSize > room

-----------------------------------------------------------------------------
(***************************************************************************)
(* Faulty variants, one per property.                                      *)
(***************************************************************************)
\* What is handed over keeps waiting.
HandOver_KeepsWaiting ==
    /\ arr' = d_readBuffer /\ room' = Assigned(capacity)
    /\ delivered' = delivered \o d_readBuffer
    /\ pc' = "read"
    /\ UNCHANGED <<numMoreBytes, d_readBuffer>>

\* What the engine asks for is taken whatever the Array holds.
MoreBytes_Unbounded(needed) == needed

\* A poll that timed out is repeated.
ReadNothing_Repeats ==
    /\ pc = "handshakeReading" \/ (pc = "reading" /\ errno = "other")
    /\ pc' = IF pc = "handshakeReading"
             THEN IF errno = "zero" THEN "handshake" ELSE "send"
             ELSE "readFailed"
    /\ UNCHANGED <<pos, errno, numMoreBytes, arr, lostArr, d_readBuffer, open, closed, delivered, lost, memory>>

-----------------------------------------------------------------------------
\* readWaiting() with data that waits.
HandOver ==
    /\ arr' = d_readBuffer /\ room' = Assigned(capacity)
    /\ delivered' = delivered \o d_readBuffer
    /\ d_readBuffer' = <<>>
    /\ pc' = "read"
    /\ UNCHANGED numMoreBytes

\* read() of the caller, who may have cleared its Array since the last one: what
\* is waiting is handed over, an Array that is not empty is returned as it is,
\* and only an empty one is read into.
CallRead(cleared) ==
    /\ pc \in Results
    /\ IF cleared /\ ClearOverruns
       THEN pc' = "overrun" /\ UNCHANGED <<arr, room, delivered, d_readBuffer, numMoreBytes>>
       ELSE IF d_readBuffer # <<>> THEN HandOver
       ELSE /\ arr' = IF cleared THEN <<>> ELSE arr
            /\ IF arr' # <<>>
               THEN pc' = "readAgain" /\ UNCHANGED numMoreBytes
               ELSE pc' = "reading" /\ numMoreBytes' = maxSize
            /\ UNCHANGED <<room, delivered, d_readBuffer>>
    /\ UNCHANGED <<pos, errno, lostArr, maxSize, capacity, open, closed, lost>>

Capacity == IF pc = "reading" THEN maxSize ELSE HandshakeBuffer
MoreBytes(needed) == Min({Capacity, needed})

\* Units come in; when they end a record the Array is cleared and what is
\* waiting is moved into it, which may be nothing.  An Array that is empty here
\* was cleared, or never assigned, and has the memory it believes to have; that
\* of handshake() is made as large as the callbacks' buffer.
ReadUnits ==
    /\ pc \in {"reading", "handshakeReading"}
    /\ open
    /\ \E n \in 1..Min({numMoreBytes, Records * RecordSize - pos}) :
          LET data == d_readBuffer \o DataBetween(pos, pos + n)
              more == MoreBytes(NeedsAfter(pos + n))
          IN  /\ pos' = pos + n
              /\ numMoreBytes' = more
              /\ capacity' = Appended(data)
              /\ IF more > 0
                 THEN d_readBuffer' = data /\ UNCHANGED <<pc, arr, room, lostArr, delivered, lost>>
                 ELSE /\ d_readBuffer' = <<>>
                      /\ IF pc = "reading"
                         THEN /\ arr' = data /\ delivered' = delivered \o data
                              /\ room' = IF data = <<>> THEN room ELSE Assigned(capacity')
                              /\ pc' = "read"
                              /\ UNCHANGED <<lostArr, lost>>
                         ELSE /\ lostArr' = data /\ lost' = lost \o data
                              /\ pc' = "handshake"
                              /\ UNCHANGED <<arr, room, delivered>>
    /\ UNCHANGED <<errno, maxSize, open, closed>>

\* The poll times out, or the server has closed: errno is returned.  For
\* handshake() it ends the loop unless it is 0.  A poll that returns without POLLIN
\* is left out: a connected socket has it set even when it was reset.
ReadNothing ==
    /\ pc \in {"reading", "handshakeReading"}
    /\ pc' = IF pc = "handshakeReading"
             THEN IF errno = "zero" THEN "handshake" ELSE "send"
             ELSE IF errno = "zero" THEN "read" ELSE "readFailed"
    /\ UNCHANGED <<pos, errno, numMoreBytes, arr, lostArr, d_readBuffer, open, closed, delivered, lost, memory>>

\* write(): the engine may be closed, or still need its handshake.
CallWrite ==
    /\ pc \in Results
    /\ IF closed
       THEN pc' = (IF errno = "zero" THEN "wrote" ELSE "writeFailed") /\ UNCHANGED lostArr
       ELSE IF is_active THEN pc' = "send" /\ UNCHANGED lostArr
       ELSE pc' = "handshake" /\ lostArr' = <<>>
    /\ UNCHANGED <<pos, errno, numMoreBytes, arr, d_readBuffer, open, closed, delivered, lost, memory>>

\* handshake(): read() into an Array of its own until the engine is active.
HandshakeLoop ==
    /\ pc = "handshake"
    /\ IF is_active
       THEN pc' = "send" /\ UNCHANGED <<numMoreBytes, lostArr, d_readBuffer, lost>>
       ELSE IF d_readBuffer # <<>>
       THEN /\ lostArr' = d_readBuffer /\ lost' = lost \o d_readBuffer
            /\ d_readBuffer' = <<>>
            /\ UNCHANGED <<pc, numMoreBytes>>
       ELSE /\ lostArr = <<>>
            /\ pc' = "handshakeReading" /\ numMoreBytes' = HandshakeBuffer
            /\ UNCHANGED <<lostArr, d_readBuffer, lost>>
    /\ UNCHANGED <<pos, errno, arr, open, closed, delivered, memory>>

\* An engine without a session throws; nothing catches it.
Send ==
    /\ pc = "send"
    /\ pc' = IF is_active THEN "wrote" ELSE "threw"
    /\ UNCHANGED <<pos, errno, numMoreBytes, arr, lostArr, d_readBuffer, open, closed, delivered, lost, memory>>

\* close() by the caller; an engine that never became active stays as it is.
Close ==
    /\ pc \in Results
    /\ closed' = (closed \/ is_active)
    /\ open' = FALSE
    /\ pc' = "ready"
    /\ UNCHANGED <<pos, errno, numMoreBytes, arr, lostArr, d_readBuffer, delivered, lost, memory>>

\* What a call that has begun does without anything from the server.
CallStep == ReadNothing \/ HandshakeLoop \/ Send
Next == (\E cleared \in BOOLEAN : CallRead(cleared)) \/ CallWrite \/ Close \/ CallStep \/ ReadUnits

Spec == Init /\ [][Next]_vars

-----------------------------------------------------------------------------
TypeOK ==
    /\ pc \in Results \cup {"reading", "handshake", "handshakeReading", "send", "threw", "overrun"}
    /\ pos \in 0..(Records * RecordSize)
    /\ errno \in Errnos
    /\ maxSize \in ArraySizes
    /\ numMoreBytes \in 0..Max({maxSize, HandshakeBuffer})
    /\ pc = "reading" => numMoreBytes <= maxSize
    /\ room \in Nat \ {0} /\ capacity \in Nat \ {0}
    /\ \A s \in {arr, lostArr, d_readBuffer, delivered, lost} : s \in Seq((Handshake + 1)..Records)
    /\ open \in BOOLEAN /\ closed \in BOOLEAN

\* Every byte of application data that was decrypted is in one place, in the
\* order it was sent: dropped by handshake(), handed to the caller, or waiting.
\* Nothing is handed over twice or skipped, however records and reads overlap,
\* time out or are interrupted.
DataIsConserved == lost \o delivered \o d_readBuffer = DataBetween(0, pos)

\* An Array that is no larger than the callbacks' buffer was when it was made
\* has all the memory it believes to have, whatever was assigned to it since.
ArrayHolds == pc = "overrun" => maxSize > BufferBytes
=============================================================================
