------------------------- MODULE SocketClientProofs -------------------------
(***************************************************************************)
(* What SecureSocket promises its users about decrypted data and about the *)
(* memory of an Array, proved for any records, any sizes of the buffers    *)
(* and any response; and what HttpClient::makeReqest() promises about the  *)
(* response it builds, for any body without a blank line, any buffer and   *)
(* any cuts, over a Socket and over a SecureSocket.                        *)
(*                                                                         *)
(* Two facts make DataIsConserved inductive: handshake() drops data before *)
(* any read() has delivered some (HandshakeIsFirst), and the data between  *)
(* two positions extends the data before the first (DataExtends).          *)
(* ArrayHolds rests on the memory an assignment leaves (MemoryIsLarge).    *)
(*                                                                         *)
(* WholeResponseDelivered follows from BodyIsHanded: as long as nothing    *)
(* was handed to build() twice, the headers and the body taken so far are  *)
(* the pieces it was given, one behind the other.                          *)
(*                                                                         *)
(* TypeCorrect adds what a buffer can hold: over a Socket units that fit   *)
(* it, over a SecureSocket the beginning of the response, because nothing  *)
(* is decrypted while a request is written and the Array that was read is  *)
(* all that was delivered (RequestOverTls).  The same fact bounds how      *)
(* often a request over TLS turns in its loop (RequestsGetOn).             *)
(***************************************************************************)
EXTENDS SocketClient, SequenceTheorems, WellFoundedInduction, TLAPS

-----------------------------------------------------------------------------
(***************************************************************************)
(* Facts about the constants and the arithmetic of records.                *)
(***************************************************************************)

LEMMA ConstantFacts ==
    /\ Handshake \in Nat \ {0} /\ Records \in Nat
    /\ RecordSize \in Nat \ {0}
    /\ BufferBytes \in Nat \ {0}
    /\ ArraySizes \subseteq Nat \ {0}
BY SocketClientAssumption DEF Secure!SecureAssumption

LEMMA MaxOfTwo ==
    ASSUME NEW a \in Int, NEW b \in Int
    PROVE  Secure!Max({a, b}) = IF a >= b THEN a ELSE b
<1>1. \E x \in {a, b} : \A y \in {a, b} : x >= y
  OBVIOUS
<1> QED
  BY <1>1 DEF Secure!Max

LEMMA DivMonotone ==
    ASSUME NEW p \in Nat, NEW q \in Nat, NEW r \in Nat \ {0}, p <= q
    PROVE  p \div r \in Nat /\ q \div r \in Nat /\ p \div r <= q \div r
  OBVIOUS

LEMMA DivOfLess ==
    ASSUME NEW p \in Nat, NEW h \in Nat, NEW r \in Nat \ {0}, p < h * r
    PROVE  p \div r < h
  OBVIOUS

-----------------------------------------------------------------------------
(***************************************************************************)
(* Data is a run of record numbers, and runs join.                         *)
(***************************************************************************)
Run(h, n) == [i \in 1..n |-> h + i]

LEMMA RunIsSeq ==
    ASSUME NEW h \in Nat, NEW n \in Nat
    PROVE  /\ Run(h, n) \in Seq(Nat)
           /\ Len(Run(h, n)) = n
           /\ \A i \in 1..n : Run(h, n)[i] = h + i
<1>1. \A i \in 1..n : h + i \in Nat
  OBVIOUS
<1> QED
  BY <1>1 DEF Run

LEMMA RunsJoin ==
    ASSUME NEW h \in Nat, NEW n \in Nat, NEW k \in Nat
    PROVE  Run(h, n) \o Run(h + n, k) = Run(h, n + k)
<1> DEFINE s == Run(h, n)
           t == Run(h + n, k)
           u == Run(h, n + k)
<1>0. h + n \in Nat /\ n + k \in Nat
  OBVIOUS
<1>1. s \in Seq(Nat) /\ t \in Seq(Nat) /\ u \in Seq(Nat)
  BY <1>0, RunIsSeq
<1>2. Len(s) = n /\ Len(t) = k /\ Len(u) = n + k
  BY <1>0, RunIsSeq
<1>3. /\ \A i \in 1..n : s[i] = h + i
      /\ \A i \in 1..k : t[i] = (h + n) + i
      /\ \A i \in 1..(n + k) : u[i] = h + i
  BY <1>0, RunIsSeq
<1> HIDE DEF s, t, u
<1>4. /\ s \o t \in Seq(Nat)
      /\ Len(s \o t) = n + k
      /\ \A i \in 1..(n + k) : (s \o t)[i] = IF i <= n THEN s[i] ELSE t[i - n]
  BY <1>1, <1>2, ConcatProperties
<1>5. ASSUME NEW i \in 1..(n + k)
      PROVE  (s \o t)[i] = u[i]
  <2>1. CASE i <= n
    <3>1. i \in 1..n
      BY <2>1
    <3> QED
      BY <1>3, <1>4, <2>1, <3>1
  <2>2. CASE i > n
    <3>1. i - n \in 1..k
      BY <2>2
    <3>2. t[i - n] = (h + n) + (i - n)
      BY <1>3, <3>1
    <3>3. (s \o t)[i] = t[i - n]
      <4>1. ~(i <= n)
        BY <2>2
      <4>2. (s \o t)[i] = IF i <= n THEN s[i] ELSE t[i - n]
        BY <1>4
      <4> QED
        BY <4>1, <4>2
    <3> QED
      <4>1. (h + n) + (i - n) = h + i
        OBVIOUS
      <4>2. u[i] = h + i
        BY <1>3
      <4>3. t[i - n] = h + i
        BY <3>2, <4>1, Zenon
      <4> QED
        BY <3>3, <4>2, <4>3, Zenon
  <2>3. i <= n \/ i > n
    OBVIOUS
  <2> QED
    BY <2>1, <2>2, <2>3
<1>6. s \o t = u
  BY <1>1, <1>2, <1>4, <1>5, SeqEqual
<1> QED
  BY <1>6 DEF s, t, u

\* The records up to unit p, of the handshake at least.
First(p) == IF p \div RecordSize >= Handshake THEN p \div RecordSize ELSE Handshake

\* DataBetween() is the run of records from the one position to the other.
LEMMA DataIsRun ==
    ASSUME NEW p \in Nat, NEW q \in Nat, p <= q
    PROVE  /\ First(p) \in Nat /\ First(q) \in Nat /\ First(p) <= First(q)
           /\ Secure!DataBetween(p, q) = Run(First(p), First(q) - First(p))
<1>1. p \div RecordSize \in Nat /\ q \div RecordSize \in Nat /\ p \div RecordSize <= q \div RecordSize
  BY ConstantFacts, DivMonotone
<1>2. /\ First(p) \in Nat /\ First(q) \in Nat /\ First(p) <= First(q)
      /\ Secure!Max({p \div RecordSize, Handshake}) = First(p)
  BY <1>1, ConstantFacts, MaxOfTwo DEF First
<1>3. (IF q \div RecordSize > First(p) THEN q \div RecordSize - First(p) ELSE 0) = First(q) - First(p)
  BY <1>1, ConstantFacts DEF First
<1>4. Secure!DataBetween(p, q) =
        [i \in 1..(IF q \div RecordSize > First(p) THEN q \div RecordSize - First(p) ELSE 0)
            |-> First(p) + i]
  BY <1>2 DEF Secure!DataBetween
<1> QED
  BY <1>2, <1>3, <1>4 DEF Run

LEMMA DataExtends ==
    ASSUME NEW p \in Nat, NEW q \in Nat, p <= q
    PROVE  /\ Secure!DataBetween(0, p) \in Seq(Nat)
           /\ Secure!DataBetween(p, q) \in Seq(Nat)
           /\ Secure!DataBetween(0, p) \o Secure!DataBetween(p, q) = Secure!DataBetween(0, q)
<1> DEFINE n == First(p) - First(0)
           k == First(q) - First(p)
<1>1. /\ First(0) \in Nat /\ First(p) \in Nat /\ First(q) \in Nat
      /\ First(0) <= First(p) /\ First(p) <= First(q)
      /\ Secure!DataBetween(0, p) = Run(First(0), n)
      /\ Secure!DataBetween(p, q) = Run(First(p), k)
      /\ Secure!DataBetween(0, q) = Run(First(0), First(q) - First(0))
  BY DataIsRun
<1>2. /\ n \in Nat /\ k \in Nat
      /\ First(p) = First(0) + n
      /\ First(q) - First(0) = n + k
  BY <1>1
<1> HIDE DEF n, k
<1>3. Run(First(0), n) \o Run(First(0) + n, k) = Run(First(0), n + k)
  <2>1. First(0) \in Nat /\ n \in Nat /\ k \in Nat
    BY <1>1, <1>2
  <2> QED
    BY <2>1, RunsJoin
<1>4. Run(First(0), n) \in Seq(Nat) /\ Run(First(p), k) \in Seq(Nat)
  BY <1>1, <1>2, RunIsSeq
<1> QED
  BY <1>1, <1>2, <1>3, <1>4

\* An engine that is not active has decrypted nothing.
LEMMA NoDataBeforeActive ==
    ASSUME NEW p \in Nat, p < Handshake * RecordSize
    PROVE  Secure!DataBetween(0, p) = <<>>
<1>1. p \div RecordSize < Handshake
  BY ConstantFacts, DivOfLess
<1>2. p \div RecordSize \in Nat /\ 0 \div RecordSize \in Nat /\ 0 \div RecordSize <= p \div RecordSize
  BY ConstantFacts, DivMonotone
<1>3. First(0) = Handshake /\ First(p) = Handshake
  BY <1>1, <1>2, ConstantFacts DEF First
<1>4. Secure!DataBetween(0, p) = Run(Handshake, 0)
  BY <1>3, DataIsRun, ConstantFacts
<1> QED
  BY <1>4 DEF Run

-----------------------------------------------------------------------------
(***************************************************************************)
(* The invariant.                                                          *)
(***************************************************************************)
DataTypes ==
    /\ received \in Nat /\ numMoreBytes \in Nat
    /\ delivered \in Seq(Nat) /\ lost \in Seq(Nat) /\ d_readBuffer \in Seq(Nat)

\* What handshake() drops comes before anything a caller was handed.
HandshakeIsFirst == pc \in {"handshake", "handshakeReading"} => delivered = <<>>

\* An Array has the memory it was made with, or at least that of the buffer.
MemoryIsLarge ==
    /\ maxSize \in Nat \ {0}
    /\ capacity \in Nat /\ capacity >= BufferBytes
    /\ room \in Nat /\ (room = maxSize \/ room >= BufferBytes)

DataInv == DataTypes /\ HandshakeIsFirst /\ MemoryIsLarge /\ DataIsConserved

IInv == DataInv /\ ArrayHolds

LEMMA MinOfTwo ==
    ASSUME NEW a \in Nat, NEW b \in Nat
    PROVE  Secure!Min({a, b}) \in Nat
<1>1. \E x \in {a, b} : \A y \in {a, b} : x <= y
  OBVIOUS
<1> QED
  BY <1>1 DEF Secure!Min

LEMMA Regroup ==
    \A a, b, c \in Seq(Nat) : (a \o b) \o c = a \o (b \o c)
BY ConcatAssociative, SMTT(60)

LEMMA SeqJoin ==
    ASSUME NEW a \in Seq(Nat), NEW b \in Seq(Nat), NEW c \in Seq(Nat)
    PROVE  /\ a \o b \in Seq(Nat)
           /\ (a \o b) \o c = a \o (b \o c)
           /\ <<>> \o a = a /\ a \o <<>> = a
           /\ (a \o b = <<>> => a = <<>> /\ b = <<>>)
<1>1. a \o b \in Seq(Nat)
  BY ConcatProperties
<1>2. (a \o b) \o c = a \o (b \o c)
  BY Regroup, Zenon
<1>3. <<>> \o a = a /\ a \o <<>> = a
  BY ConcatEmptySeq
<1>4. a \o b = <<>> => a = <<>> /\ b = <<>>
  BY ConcatEqualIffEmpty
<1> QED
  BY <1>1, <1>2, <1>3, <1>4

LEMMA InitInv == Init => IInv
<1> SUFFICES ASSUME Init PROVE IInv
  OBVIOUS
<1>1. /\ pc = "ready" /\ received = 0 /\ numMoreBytes = 0
      /\ delivered = <<>> /\ lost = <<>> /\ d_readBuffer = <<>>
      /\ maxSize \in ArraySizes /\ room = maxSize /\ capacity = BufferBytes
  BY DEF Init, Secure!Init
<1>2. DataTypes /\ HandshakeIsFirst /\ MemoryIsLarge
  BY <1>1, ConstantFacts DEF DataTypes, HandshakeIsFirst, MemoryIsLarge
<1>3. DataIsConserved
  <2>1. 0 < Handshake * RecordSize
    BY ConstantFacts
  <2>2. Secure!DataBetween(0, received) = <<>>
    BY <1>1, <2>1, NoDataBeforeActive
  <2>3. lost \o delivered \o d_readBuffer = <<>>
    BY <1>1
  <2> QED
    BY <2>2, <2>3 DEF DataIsConserved, Secure!DataIsConserved
<1> QED
  BY <1>1, <1>2, <1>3 DEF IInv, DataInv, ArrayHolds

-----------------------------------------------------------------------------
(***************************************************************************)
(* Each operation of SecureSocket keeps the invariant.                     *)
(***************************************************************************)
LEMMA CallReadKeeps ==
    ASSUME DataInv, NEW cleared \in BOOLEAN, Secure!CallRead(cleared)
    PROVE  /\ DataInv'
           /\ pc' = "overrun" => cleared /\ maxSize' > BufferBytes
<1>1. CASE cleared /\ Secure!ClearOverruns
  <2>1. /\ pc' = "overrun"
        /\ UNCHANGED <<room, delivered, d_readBuffer, numMoreBytes, received, maxSize, capacity, lost>>
    BY <1>1 DEF Secure!CallRead
  <2>2. maxSize > BufferBytes
    BY <1>1, ConstantFacts DEF Secure!ClearOverruns, DataInv, MemoryIsLarge
  <2> QED
    BY <1>1, <2>1, <2>2 DEF DataInv, DataTypes, HandshakeIsFirst, MemoryIsLarge,
        DataIsConserved, Secure!DataIsConserved
<1>2. CASE ~(cleared /\ Secure!ClearOverruns) /\ d_readBuffer # <<>>
  <2>1. /\ delivered' = delivered \o d_readBuffer /\ d_readBuffer' = <<>>
        /\ room' = capacity /\ pc' = "read"
        /\ UNCHANGED <<numMoreBytes, received, maxSize, capacity, lost>>
    BY <1>2 DEF Secure!CallRead, Secure!HandOver, Secure!Assigned
  <2>2. DataTypes'
    BY <2>1, SeqJoin, EmptySeq DEF DataInv, DataTypes
  <2>3. lost \o (delivered \o d_readBuffer) \o <<>> = lost \o delivered \o d_readBuffer
    BY SMTT(30), SeqJoin DEF DataInv, DataTypes
  <2>4. DataIsConserved'
    BY <2>1, <2>3 DEF DataInv, DataIsConserved, Secure!DataIsConserved
  <2> QED
    BY <2>1, <2>2, <2>4 DEF DataInv, HandshakeIsFirst, MemoryIsLarge
<1>3. CASE ~(cleared /\ Secure!ClearOverruns) /\ d_readBuffer = <<>>
  <2>1. /\ pc' \in {"readAgain", "reading"}
        /\ numMoreBytes' = numMoreBytes \/ numMoreBytes' = maxSize
        /\ UNCHANGED <<room, delivered, d_readBuffer, received, maxSize, capacity, lost>>
    BY <1>3 DEF Secure!CallRead
  <2> QED
    BY <2>1 DEF DataInv, DataTypes, HandshakeIsFirst, MemoryIsLarge, DataIsConserved,
        Secure!DataIsConserved
<1> QED
  BY <1>1, <1>2, <1>3

LEMMA CallWriteKeeps ==
    ASSUME DataInv, Secure!CallWrite
    PROVE  DataInv' /\ pc' # "overrun"
<1>1. /\ pc' \in {"wrote", "writeFailed", "send"} \/ (pc' = "handshake" /\ ~Secure!is_active)
      /\ UNCHANGED <<received, numMoreBytes, d_readBuffer, delivered, lost, maxSize, room, capacity>>
  BY DEF Secure!CallWrite, Secure!memory
<1>2. ASSUME ~Secure!is_active PROVE delivered = <<>>
  <2>1. received < Handshake * RecordSize
    BY <1>2, ConstantFacts DEF Secure!is_active, DataInv, DataTypes
  <2>2. lost \o delivered \o d_readBuffer = <<>>
    BY <2>1, NoDataBeforeActive DEF DataInv, DataTypes, DataIsConserved, Secure!DataIsConserved
  <2> QED
    BY <2>2, SeqJoin DEF DataInv, DataTypes
<1> QED
  BY <1>1, <1>2 DEF DataInv, DataTypes, HandshakeIsFirst, MemoryIsLarge, DataIsConserved,
      Secure!DataIsConserved

LEMMA CallStepKeeps ==
    ASSUME DataInv, Secure!CallStep
    PROVE  DataInv' /\ pc' # "overrun"
<1>1. CASE Secure!ReadNothing
  BY <1>1 DEF DataInv, DataTypes, HandshakeIsFirst, MemoryIsLarge, DataIsConserved,
      Secure!DataIsConserved, Secure!ReadNothing, Secure!memory
<1>2. CASE Secure!Send
  BY <1>2 DEF DataInv, DataTypes, HandshakeIsFirst, MemoryIsLarge, DataIsConserved,
      Secure!DataIsConserved, Secure!Send, Secure!memory
<1>3. CASE Secure!HandshakeLoop /\ (Secure!is_active \/ d_readBuffer = <<>>)
  <2>1. /\ pc = "handshake" /\ pc' \in {"send", "handshakeReading"}
        /\ numMoreBytes' \in {numMoreBytes, BufferBytes}
        /\ UNCHANGED <<received, d_readBuffer, delivered, lost, maxSize, room, capacity>>
    BY <1>3 DEF Secure!HandshakeLoop, Secure!HandshakeBuffer, Secure!memory
  <2> QED
    BY <2>1, ConstantFacts DEF DataInv, DataTypes, HandshakeIsFirst, MemoryIsLarge,
        DataIsConserved, Secure!DataIsConserved
<1>4. CASE Secure!HandshakeLoop /\ ~(Secure!is_active \/ d_readBuffer = <<>>)
  <2>1. /\ pc = "handshake" /\ pc' = "handshake"
        /\ lost' = lost \o d_readBuffer /\ d_readBuffer' = <<>>
        /\ UNCHANGED <<received, numMoreBytes, delivered, maxSize, room, capacity>>
    BY <1>4 DEF Secure!HandshakeLoop, Secure!memory
  <2>2. delivered = <<>>
    BY <2>1 DEF DataInv, HandshakeIsFirst
  <2>3. DataTypes'
    BY <2>1, SeqJoin, EmptySeq DEF DataInv, DataTypes
  <2>4. (lost \o d_readBuffer) \o <<>> \o <<>> = lost \o <<>> \o d_readBuffer
    BY SeqJoin DEF DataInv, DataTypes
  <2>5. DataIsConserved'
    BY <2>1, <2>2, <2>4 DEF DataInv, DataIsConserved, Secure!DataIsConserved
  <2> QED
    BY <2>1, <2>2, <2>3, <2>5 DEF DataInv, HandshakeIsFirst, MemoryIsLarge
<1> QED
  BY <1>1, <1>2, <1>3, <1>4 DEF Secure!CallStep

LEMMA CloseKeeps ==
    ASSUME DataInv, Secure!Close
    PROVE  DataInv' /\ pc' # "overrun"
BY DEF DataInv, DataTypes, HandshakeIsFirst, MemoryIsLarge, DataIsConserved,
    Secure!DataIsConserved, Secure!Close, Secure!memory

LEMMA ReadUnitsKeeps ==
    ASSUME DataInv, Secure!ReadUnits
    PROVE  DataInv' /\ pc' # "overrun"
<1> DEFINE more(n) == Secure!MoreBytes(Secure!NeedsAfter(received + n))
           data(n) == d_readBuffer \o Secure!DataBetween(received, received + n)
<1>1. PICK n \in 1..Secure!Min({numMoreBytes, Records * RecordSize - received}) :
        /\ received' = received + n
        /\ numMoreBytes' = more(n)
        /\ capacity' = Secure!Appended(data(n))
        /\ IF more(n) > 0
           THEN d_readBuffer' = data(n) /\ UNCHANGED <<pc, arr, room, lostArr, delivered, lost>>
           ELSE /\ d_readBuffer' = <<>>
                /\ IF pc = "reading"
                   THEN /\ arr' = data(n) /\ delivered' = delivered \o data(n)
                        /\ room' = IF data(n) = <<>> THEN room ELSE Secure!Assigned(capacity')
                        /\ pc' = "read"
                        /\ UNCHANGED <<lostArr, lost>>
                   ELSE /\ lostArr' = data(n) /\ lost' = lost \o data(n)
                        /\ pc' = "handshake"
                        /\ UNCHANGED <<arr, room, delivered>>
  BY DEF Secure!ReadUnits
<1>2. maxSize' = maxSize /\ pc \in {"reading", "handshakeReading"}
  BY DEF Secure!ReadUnits
<1>3. n \in Nat /\ received + n \in Nat /\ received <= received + n
  <2>1. n \in Int /\ 1 <= n
    BY <1>1
  <2> QED
    BY <2>1 DEF DataInv, DataTypes
<1>4. /\ data(n) \in Seq(Nat)
      /\ lost \o delivered \o data(n) = Secure!DataBetween(0, received + n)
  <2>1. Secure!DataBetween(received, received + n) \in Seq(Nat)
    BY <1>3, DataExtends DEF DataInv, DataTypes
  <2>2. /\ lost \o delivered \o data(n)
             = (lost \o delivered \o d_readBuffer) \o Secure!DataBetween(received, received + n)
        /\ data(n) \in Seq(Nat)
    <3>1. lost \in Seq(Nat) /\ delivered \in Seq(Nat) /\ d_readBuffer \in Seq(Nat)
      BY DEF DataInv, DataTypes
    <3>2. lost \o delivered \in Seq(Nat)
      BY <3>1, SeqJoin
    <3>3. d_readBuffer \o Secure!DataBetween(received, received + n) \in Seq(Nat)
      BY <2>1, <3>1, SeqJoin
    <3>4. lost \o delivered \o (d_readBuffer \o Secure!DataBetween(received, received + n))
            = (lost \o delivered \o d_readBuffer) \o Secure!DataBetween(received, received + n)
      BY <2>1, <3>1, <3>2, Regroup, Zenon
    <3> QED
      BY <3>3, <3>4
  <2>3. lost \o delivered \o d_readBuffer = Secure!DataBetween(0, received)
    BY DEF DataInv, DataIsConserved, Secure!DataIsConserved
  <2>4. Secure!DataBetween(0, received) \o Secure!DataBetween(received, received + n)
          = Secure!DataBetween(0, received + n)
    BY <1>3, DataExtends DEF DataInv, DataTypes
  <2> QED
    BY <2>2, <2>3, <2>4
<1>5. more(n) \in Nat
  <2>1. Secure!NeedsAfter(received + n) \in Nat
    BY <1>3, ConstantFacts DEF Secure!NeedsAfter
  <2>2. Secure!Capacity \in Nat
    BY ConstantFacts DEF Secure!Capacity, Secure!HandshakeBuffer, DataInv, MemoryIsLarge
  <2> QED
    BY <2>1, <2>2, MinOfTwo DEF Secure!MoreBytes
<1>6. capacity' \in Nat /\ capacity' >= BufferBytes
  <2>1. Len(data(n)) \in Nat
    BY <1>4, LenProperties
  <2>2. Secure!Bytes(data(n)) \in Nat
    BY <2>1, ConstantFacts DEF Secure!Bytes
  <2>3. capacity' = IF capacity >= Secure!Bytes(data(n)) THEN capacity ELSE Secure!Bytes(data(n))
    BY <1>1, <2>2, MaxOfTwo DEF Secure!Appended, DataInv, MemoryIsLarge
  <2> QED
    BY <2>2, <2>3, ConstantFacts DEF DataInv, MemoryIsLarge
<1> HIDE DEF more, data
<1>7. CASE more(n) > 0
  BY <1>1, <1>2, <1>3, <1>4, <1>5, <1>6, <1>7 DEF DataInv, DataTypes, HandshakeIsFirst,
      MemoryIsLarge, DataIsConserved, Secure!DataIsConserved
<1>8. CASE ~(more(n) > 0) /\ pc = "reading"
  <2>1. /\ delivered' = delivered \o data(n) /\ d_readBuffer' = <<>> /\ lost' = lost
        /\ room' \in {room, capacity'} /\ pc' = "read"
    BY <1>1, <1>8 DEF Secure!Assigned
  <2>2. DataTypes'
    BY <1>1, <1>3, <1>4, <1>5, <2>1, SeqJoin, EmptySeq DEF DataInv, DataTypes
  <2>3. lost \o (delivered \o data(n)) \o <<>> = lost \o delivered \o data(n)
    <3>1. lost \in Seq(Nat) /\ delivered \in Seq(Nat)
      BY DEF DataInv, DataTypes
    <3>2. lost \o delivered \o data(n) = lost \o (delivered \o data(n))
      BY <1>4, <3>1, Regroup, Zenon
    <3>3. lost \o (delivered \o data(n)) \in Seq(Nat)
      BY <1>4, <3>1, SeqJoin
    <3> QED
      BY <3>2, <3>3, ConcatEmptySeq
  <2>4. DataIsConserved'
    BY <1>1, <1>4, <2>1, <2>3 DEF DataIsConserved, Secure!DataIsConserved
  <2> QED
    BY <1>2, <1>6, <2>1, <2>2, <2>4 DEF DataInv, HandshakeIsFirst, MemoryIsLarge
<1>9. CASE ~(more(n) > 0) /\ pc = "handshakeReading"
  <2>1. /\ lost' = lost \o data(n) /\ d_readBuffer' = <<>> /\ delivered' = delivered
        /\ room' = room /\ pc' = "handshake"
    BY <1>1, <1>9
  <2>2. delivered = <<>>
    BY <1>9 DEF DataInv, HandshakeIsFirst
  <2>3. DataTypes'
    BY <1>1, <1>3, <1>4, <1>5, <2>1, SeqJoin, EmptySeq DEF DataInv, DataTypes
  <2>4. (lost \o data(n)) \o <<>> \o <<>> = lost \o <<>> \o data(n)
    BY <1>4, SeqJoin DEF DataInv, DataTypes
  <2>5. DataIsConserved'
    BY <1>1, <1>4, <2>1, <2>2, <2>4 DEF DataIsConserved, Secure!DataIsConserved
  <2> QED
    BY <1>2, <1>6, <2>1, <2>2, <2>3, <2>5 DEF DataInv, HandshakeIsFirst, MemoryIsLarge
<1> QED
  BY <1>2, <1>7, <1>8, <1>9

-----------------------------------------------------------------------------
\* A step of SocketClient is a step of the SecureSocket or leaves it alone; only
\* the reader clears its Array.
LEMMA StepOfSecure ==
    ASSUME Next
    PROVE  /\ user' = user
           /\ \/ UNCHANGED secureVars
              \/ \E cleared \in BOOLEAN :
                    Secure!CallRead(cleared) /\ (cleared => user = "reader")
              \/ Secure!CallWrite \/ Secure!CallStep \/ Secure!Close \/ Secure!ReadUnits
<1>1. CASE PlainStep
  BY <1>1 DEF PlainStep
<1>2. CASE ReaderStep
  BY <1>2 DEF ReaderStep, Secure!Next
<1>3. CASE OwnStep
  <2>1. CASE SecureConnect \/ WriteReturns \/ ReadReturns \/ SecureBuild
    BY <1>3, <2>1 DEF OwnStep, SecureConnect, WriteReturns, ReadReturns, SecureBuild
  <2>2. CASE SecureRead
    BY <1>3, <2>2 DEF OwnStep, SecureRead, ReadCleared
  <2>3. CASE SecureWrite \/ SecureCall
    BY <1>3, <2>3 DEF OwnStep, SecureWrite, SecureCall
  <2> QED
    BY <1>3, <2>1, <2>2, <2>3 DEF OwnStep
<1>4. CASE user = "secure" /\ SecureData /\ UNCHANGED user
  BY <1>4 DEF SecureData
<1> QED
  BY <1>1, <1>2, <1>3, <1>4 DEF Next, SecureStep

LEMMA NextInv == IInv /\ [Next]_vars => IInv'
<1> SUFFICES ASSUME IInv, [Next]_vars PROVE IInv'
  OBVIOUS
<1>1. CASE UNCHANGED secureVars /\ UNCHANGED user
  BY <1>1 DEF secureVars, IInv, ArrayHolds, DataInv, DataTypes, HandshakeIsFirst,
      MemoryIsLarge, DataIsConserved, Secure!DataIsConserved, Secure!DataBetween
<1>2. ASSUME user' = user, NEW cleared \in BOOLEAN, Secure!CallRead(cleared),
             cleared => user = "reader"
      PROVE  IInv'
  BY <1>2, CallReadKeeps DEF IInv, ArrayHolds
<1>3. CASE Secure!CallWrite
  BY <1>3, CallWriteKeeps DEF IInv, ArrayHolds
<1>4. CASE Secure!CallStep
  BY <1>4, CallStepKeeps DEF IInv, ArrayHolds
<1>5. CASE Secure!Close
  BY <1>5, CloseKeeps DEF IInv, ArrayHolds
<1>6. CASE Secure!ReadUnits
  BY <1>6, ReadUnitsKeeps DEF IInv, ArrayHolds
<1>7. CASE Next
  BY <1>1, <1>2, <1>3, <1>4, <1>5, <1>6, <1>7, StepOfSecure
<1>8. CASE UNCHANGED vars
  BY <1>1, <1>8 DEF vars
<1> QED
  BY <1>7, <1>8

LEMMA InvAlways == Spec => []IInv
BY InitInv, NextInv, PTL DEF Spec

-----------------------------------------------------------------------------
\* read(), handshake() and the callbacks' buffer of SecureSocket: whatever the
\* records, the sizes of the buffers and the way reads time out or overlap, the
\* data decrypted so far is what handshake() dropped, what the caller was handed
\* and what waits, in the order it was sent.
THEOREM DataConserved == Spec => []DataIsConserved
<1>1. IInv => DataIsConserved
  BY DEF IInv, DataInv
<1> QED
  BY <1>1, InvAlways, PTL

\* The Array that SecureSocket::read() assigns to: clearing it writes beyond its
\* memory only for a caller that made it larger than the callbacks' buffer and
\* clears it; HttpClient, which does not clear it, never does.
THEOREM ArraysHold == Spec => []ArrayHolds
<1>1. IInv => ArrayHolds
  BY DEF IInv
<1> QED
  BY <1>1, InvAlways, PTL

-----------------------------------------------------------------------------
(***************************************************************************)
(* The least and the greatest of numbers.                                  *)
(***************************************************************************)
LEMMA Least ==
    ASSUME NEW T, T \subseteq Nat, T # {}
    PROVE  \E x \in T : \A y \in T : x <= y
<1>1. IsWellFoundedOn(OpToRel(<,Nat), Nat)
  BY NatLessThanWellFounded
<1>2. PICK x \in T : \A y \in T : ~(<<y, x>> \in OpToRel(<,Nat))
  BY <1>1, WFMin
<1>3. \A y \in T : ~(y < x)
  BY <1>2 DEF OpToRel
<1> QED
  BY <1>3

LEMMA Greatest ==
    ASSUME NEW k \in Nat, NEW T, T \subseteq 0..k, T # {}
    PROVE  Client!Max(T) \in T /\ \A y \in T : Client!Max(T) >= y
<1> DEFINE below == {k - y : y \in T}
<1>1. \A y \in T : y \in Nat /\ k - y \in Nat
  OBVIOUS
<1>2. below \subseteq Nat /\ below # {}
  BY <1>1
<1>3. PICK b \in below : \A c \in below : b <= c
  BY <1>2, Least
<1>4. PICK x \in T : b = k - x
  BY <1>3
<1>5. ASSUME NEW y \in T PROVE x >= y
  <2>1. k - x <= k - y
    BY <1>3, <1>4
  <2> QED
    BY <1>1, <2>1
<1> QED
  BY <1>4, <1>5 DEF Client!Max

LEMMA LeastOfTwo ==
    ASSUME NEW a \in Int, NEW b \in Int
    PROVE  Client!Min({a, b}) = IF a <= b THEN a ELSE b
<1>1. \E x \in {a, b} : \A y \in {a, b} : x <= y
  OBVIOUS
<1> QED
  BY <1>1 DEF Client!Min

-----------------------------------------------------------------------------
(***************************************************************************)
(* Pieces put one behind the other: FlattenSeq() is a recursive function,  *)
(* which exists and is unique by the least number at which it would not.   *)
(***************************************************************************)
Flattens(g, s, n) == g = [i \in 1..n |-> IF i = 1 THEN s[i] ELSE g[i - 1] \o s[i]]

LEMMA FlatteningExists ==
    ASSUME NEW s, NEW n \in Nat
    PROVE  \E g : Flattens(g, s, n)
<1> DEFINE T == {k \in Nat : ~\E g : Flattens(g, s, k)}
<1>1. SUFFICES ASSUME T # {} PROVE FALSE
  OBVIOUS
<1>2. PICK k \in T : \A j \in T : k <= j
  BY <1>1, Least
<1>3. Flattens(<<>>, s, 0)
  BY DEF Flattens
<1>4. k # 0 /\ k - 1 \in Nat
  BY <1>2, <1>3
<1>5. PICK g : Flattens(g, s, k - 1)
  BY <1>2, <1>4
<1> DEFINE new == IF k = 1 THEN s[k] ELSE g[k - 1] \o s[k]
           h == [i \in 1..k |-> IF i = k THEN new ELSE g[i]]
<1>6. ASSUME NEW i \in 1..k
      PROVE  h[i] = IF i = 1 THEN s[i] ELSE h[i - 1] \o s[i]
  <2>1. CASE i = k
    BY <1>4, <2>1
  <2>2. CASE i # k
    <3>1. i \in 1..(k - 1)
      BY <1>4, <2>2
    <3>2. g[i] = IF i = 1 THEN s[i] ELSE g[i - 1] \o s[i]
      BY <1>5, <3>1 DEF Flattens
    <3>3. h[i] = g[i] /\ (i # 1 => h[i - 1] = g[i - 1])
      BY <1>4, <2>2
    <3> QED
      BY <3>2, <3>3
  <2> QED
    BY <2>1, <2>2
<1>7. Flattens(h, s, k)
  BY <1>6 DEF Flattens
<1> QED
  BY <1>2, <1>7

Flattening(s) == CHOOSE g : Flattens(g, s, Len(s))

LEMMA FlattenIs ==
    ASSUME NEW s, Len(s) \in Nat
    PROVE  /\ \A i \in 1..Len(s) :
                 Flattening(s)[i] = IF i = 1 THEN s[i] ELSE Flattening(s)[i - 1] \o s[i]
           /\ FlattenSeq(s) = IF Len(s) = 0 THEN s ELSE Flattening(s)[Len(s)]
           /\ Client!FlattenSeq(s) = FlattenSeq(s)
<1>1. Flattens(Flattening(s), s, Len(s))
  BY FlatteningExists DEF Flattening
<1>2. FlattenSeq(s) = IF Len(s) = 0 THEN s ELSE Flattening(s)[Len(s)]
  BY DEF FlattenSeq, Flattening, Flattens
<1>3. Client!FlattenSeq(s) = FlattenSeq(s)
  BY DEF FlattenSeq, Client!FlattenSeq
<1> DEFINE g == Flattening(s)
           n == Len(s)
<1> HIDE DEF g, n
<1>4. g = [i \in 1..n |-> IF i = 1 THEN s[i] ELSE g[i - 1] \o s[i]]
  BY <1>1, Zenon DEF Flattens, g, n
<1>5. \A i \in 1..n : g[i] = IF i = 1 THEN s[i] ELSE g[i - 1] \o s[i]
  BY <1>4
<1> QED
  BY <1>2, <1>3, <1>5 DEF g, n

\* The pieces are sequences, and so is what they make.
LEMMA FlattenType ==
    ASSUME NEW S, NEW s \in Seq(Seq(S))
    PROVE  FlattenSeq(s) \in Seq(S)
<1> DEFINE g == Flattening(s)
           T == {i \in 1..Len(s) : g[i] \notin Seq(S)}
<1>1. Len(s) \in Nat
  OBVIOUS
<1>2. \A i \in 1..Len(s) : g[i] = IF i = 1 THEN s[i] ELSE g[i - 1] \o s[i]
  BY <1>1, FlattenIs
<1> HIDE DEF g
<1>3. ASSUME T # {} PROVE FALSE
  <2>1. PICK k \in T : \A j \in T : k <= j
    <3>1. T \subseteq Nat
      OBVIOUS
    <3> QED
      BY <1>3, <3>1, Least
  <2>2. k \in 1..Len(s) /\ s[k] \in Seq(S)
    BY <2>1
  <2>3. k # 1
    BY <1>2, <2>1, <2>2
  <2>4. k - 1 \in 1..Len(s) /\ k - 1 \notin T
    BY <1>1, <2>1, <2>2, <2>3
  <2>5. g[k] = g[k - 1] \o s[k] /\ g[k - 1] \in Seq(S)
    BY <1>2, <2>2, <2>3, <2>4
  <2>6. g[k] \in Seq(S)
    BY <2>2, <2>5, ConcatProperties
  <2> QED
    BY <2>1, <2>6
<1>4. CASE Len(s) = 0
  <2>1. s = <<>>
    BY <1>4, EmptySeq
  <2> QED
    BY <1>4, <2>1, FlattenIs, EmptySeq
<1>5. CASE Len(s) # 0
  <2>1. Len(s) \in 1..Len(s)
    BY <1>1, <1>5
  <2>2. g[Len(s)] \in Seq(S)
    BY <1>3, <2>1
  <2> QED
    BY <1>1, <1>5, <2>2, FlattenIs DEF g
<1> QED
  BY <1>4, <1>5

\* A piece more is put behind the others.
LEMMA FlattenAppend ==
    ASSUME NEW S, NEW s \in Seq(Seq(S)), NEW b \in Seq(S)
    PROVE  FlattenSeq(Append(s, b)) = FlattenSeq(s) \o b
<1> DEFINE t == Append(s, b)
           n == Len(s)
           g == Flattening(s)
           h == Flattening(t)
<1>1. /\ n \in Nat /\ t \in Seq(Seq(S)) /\ Len(t) = n + 1 /\ t[n + 1] = b
      /\ \A i \in 1..n : t[i] = s[i]
  BY AppendProperties
<1>2. \A i \in 1..n : g[i] = IF i = 1 THEN s[i] ELSE g[i - 1] \o s[i]
  BY <1>1, FlattenIs
<1>3. /\ \A i \in 1..(n + 1) : h[i] = IF i = 1 THEN t[i] ELSE h[i - 1] \o t[i]
      /\ FlattenSeq(t) = h[n + 1]
  <2>1. Len(t) \in Nat /\ Len(t) # 0
    BY <1>1
  <2> HIDE DEF t, n
  <2>2. /\ \A i \in 1..Len(t) : h[i] = IF i = 1 THEN t[i] ELSE h[i - 1] \o t[i]
        /\ FlattenSeq(t) = h[Len(t)]
    BY <2>1, FlattenIs
  <2> QED
    BY <1>1, <2>2
<1>4. FlattenSeq(s) = IF n = 0 THEN s ELSE g[n]
  BY <1>1, FlattenIs
<1> HIDE DEF t, n, g, h
<1> DEFINE T == {i \in 1..n : h[i] # g[i]}
<1>5. ASSUME T # {} PROVE FALSE
  <2>1. PICK k \in T : \A j \in T : k <= j
    <3>1. T \subseteq Nat
      OBVIOUS
    <3> QED
      BY <1>5, <3>1, Least
  <2>2. k \in 1..n /\ k \in 1..(n + 1) /\ t[k] = s[k] /\ h[k] # g[k]
    BY <1>1, <2>1
  <2>3. k # 1
    BY <1>2, <1>3, <2>2
  <2>4. k - 1 \in 1..n /\ k - 1 \notin T
    BY <1>1, <2>1, <2>2, <2>3
  <2>5. h[k - 1] = g[k - 1]
    BY <2>4
  <2> QED
    BY <1>2, <1>3, <2>2, <2>3, <2>5
<1>6. CASE n = 0
  <2>1. s = <<>>
    BY <1>6, EmptySeq DEF n
  <2>2. h[n + 1] = b
    BY <1>1, <1>3, <1>6
  <2> QED
    BY <1>3, <1>4, <1>6, <2>1, <2>2, ConcatEmptySeq DEF t
<1>7. CASE n # 0
  <2>1. n \in 1..n /\ n + 1 \in 1..(n + 1) /\ n + 1 # 1
    BY <1>1, <1>7
  <2>2. h[n] = g[n]
    BY <1>5, <2>1
  <2>3. h[n + 1] = h[n] \o b
    <3>1. h[n + 1] = h[(n + 1) - 1] \o t[n + 1]
      BY <1>3, <2>1
    <3>2. (n + 1) - 1 = n
      BY <1>1
    <3> QED
      BY <1>1, <3>1, <3>2, Zenon
  <2> QED
    BY <1>3, <1>4, <1>7, <2>2, <2>3 DEF t
<1> QED
  BY <1>6, <1>7

-----------------------------------------------------------------------------
(***************************************************************************)
(* The response a server sends, and the end of its headers in a piece.     *)
(***************************************************************************)
Unit == Client!Units

LEMMA JoinIs ==
    ASSUME NEW S, NEW s \in Seq(S), NEW t \in Seq(S)
    PROVE  /\ s \o t \in Seq(S) /\ Len(s \o t) = Len(s) + Len(t)
           /\ \A i \in 1..Len(s) : (s \o t)[i] = s[i]
           /\ \A i \in 1..Len(t) : (s \o t)[Len(s) + i] = t[i]
<1>1. Len(s) \in Nat /\ Len(t) \in Nat
  OBVIOUS
<1> DEFINE m == Len(s)
           n == Len(t)
<1>2. /\ s \o t \in Seq(S) /\ Len(s \o t) = m + n
      /\ \A i \in 1..(m + n) : (s \o t)[i] = IF i <= m THEN s[i] ELSE t[i - m]
  BY ConcatProperties
<1> DEFINE st == s \o t
<1> HIDE DEF st, m, n
<1>3. /\ \A i \in 1..m : i \in 1..(m + n) /\ i <= m
      /\ \A i \in 1..n : m + i \in 1..(m + n) /\ ~(m + i <= m) /\ (m + i) - m = i
  BY <1>1 DEF m, n
<1>4. \A i \in 1..n : st[m + i] = t[(m + i) - m]
  BY <1>2, <1>3 DEF st
<1> QED
  BY <1>2, <1>3, <1>4 DEF st, m, n

LEMMA PairIs ==
    ASSUME NEW a \in Unit, NEW b \in Unit
    PROVE  <<a, b>> \in Seq(Unit) /\ Len(<<a, b>>) = 2 /\ <<a, b>>[1] = a /\ <<a, b>>[2] = b
  OBVIOUS

LEMMA UnitsAre == {"status", "name", "value", "cr", "lf"} \subseteq Unit
BY DEF Unit, Client!Units

LEMMA BlankLineIs ==
    /\ Client!CRLF \in Seq(Unit) /\ Len(Client!CRLF) = 2
    /\ Client!CRLF[1] = "cr" /\ Client!CRLF[2] = "lf"
    /\ Client!CRLF \o Client!CRLF \in Seq(Unit) /\ Len(Client!CRLF \o Client!CRLF) = 4
    /\ (Client!CRLF \o Client!CRLF)[1] = "cr" /\ (Client!CRLF \o Client!CRLF)[2] = "lf"
    /\ (Client!CRLF \o Client!CRLF)[3] = "cr" /\ (Client!CRLF \o Client!CRLF)[4] = "lf"
<1> DEFINE c == Client!CRLF
<1>1. c \in Seq(Unit) /\ Len(c) = 2 /\ c[1] = "cr" /\ c[2] = "lf"
  BY UnitsAre, PairIs DEF Client!CRLF
<1> HIDE DEF c
<1> DEFINE d == c \o c
<1>2. c \in Seq(Unit)
  BY <1>1
<1>3. /\ d \in Seq(Unit) /\ Len(d) = Len(c) + Len(c)
      /\ \A i \in 1..Len(c) : d[i] = c[i]
      /\ \A i \in 1..Len(c) : d[Len(c) + i] = c[i]
  BY <1>2, JoinIs
<1> HIDE DEF d
<1>4. /\ Len(d) = 4
      /\ d[1] = "cr" /\ d[2] = "lf" /\ d[3] = "cr" /\ d[4] = "lf"
  <2>1. 1 \in 1..2 /\ 2 \in 1..2 /\ 3 = 2 + 1 /\ 4 = 2 + 2
    OBVIOUS
  <2> QED
    BY <1>1, <1>3, <2>1
<1> QED
  BY <1>1, <1>3, <1>4 DEF c, d

LEMMA BodyIsSeq == Body \in Seq(Unit) /\ Len(Body) \in Nat
<1>1. Body \in Seq(STRING)
  BY SocketClientAssumption DEF Client!ClientAssumption
<1>2. Len(Body) \in Nat /\ Body = [i \in 1..Len(Body) |-> Body[i]]
  BY <1>1
<1>3. \A i \in 1..Len(Body) : Body[i] \in Unit
  BY <1>2 DEF Unit, Client!Units, Client!ToSet
<1> QED
  BY <1>2, <1>3

LEMMA ResponseFacts ==
    /\ Client!Headers \in Seq(Unit) /\ Client!Response = Client!Headers \o Body
    /\ Len(Client!Headers) = IF Body = <<>> THEN 5 ELSE 9
    /\ Client!Headers[1] = "status"
    /\ \A i \in 1..4 :
          Client!Headers[Len(Client!Headers) - 4 + i] = (Client!CRLF \o Client!CRLF)[i]
    /\ Body # <<>> =>
          Client!Headers[3] = "lf" /\ Client!Headers[4] = "name" /\ Client!Headers[5] = "value"
<1> DEFINE one == <<"status">>
           pair == <<"name", "value">>
           crlf == Client!CRLF
<1>1. crlf \in Seq(Unit) /\ Len(crlf) = 2 /\ crlf[1] = "cr" /\ crlf[2] = "lf"
  BY BlankLineIs
<1>2. one \in Seq(Unit) /\ Len(one) = 1 /\ one[1] = "status"
  BY UnitsAre
<1>3. pair \in Seq(Unit) /\ Len(pair) = 2 /\ pair[1] = "name" /\ pair[2] = "value"
  BY UnitsAre, PairIs
<1>4. Client!Headers = ((one \o crlf) \o (IF Body = <<>> THEN <<>> ELSE pair \o crlf)) \o crlf
  BY DEF Client!Headers
<1>5. /\ crlf \o crlf \in Seq(Unit)
      /\ (crlf \o crlf)[1] = "cr" /\ (crlf \o crlf)[2] = "lf"
      /\ (crlf \o crlf)[3] = "cr" /\ (crlf \o crlf)[4] = "lf"
  BY BlankLineIs
<1> HIDE DEF one, pair, crlf
<1>6. crlf \in Seq(Unit) /\ one \in Seq(Unit) /\ pair \in Seq(Unit)
  BY <1>1, <1>2, <1>3
<1> DEFINE line == one \o crlf
           middle == pair \o crlf
<1>7. /\ line \in Seq(Unit) /\ Len(line) = Len(one) + Len(crlf)
      /\ \A i \in 1..Len(one) : line[i] = one[i]
      /\ \A i \in 1..Len(crlf) : line[Len(one) + i] = crlf[i]
  BY <1>6, JoinIs
<1>8. /\ middle \in Seq(Unit) /\ Len(middle) = Len(pair) + Len(crlf)
      /\ \A i \in 1..Len(pair) : middle[i] = pair[i]
      /\ \A i \in 1..Len(crlf) : middle[Len(pair) + i] = crlf[i]
  BY <1>6, JoinIs
<1> HIDE DEF line, middle
<1>9. line \in Seq(Unit) /\ middle \in Seq(Unit)
  BY <1>7, <1>8
<1>10. Len(line) = 3 /\ line[1] = "status" /\ line[2] = "cr" /\ line[3] = "lf"
  <2>1. 1 \in 1..1 /\ 1 \in 1..2 /\ 2 \in 1..2 /\ 2 = 1 + 1 /\ 3 = 1 + 2
    OBVIOUS
  <2> QED
    BY <1>1, <1>2, <1>7, <2>1
<1>11. /\ Len(middle) = 4
      /\ middle[1] = "name" /\ middle[2] = "value" /\ middle[3] = "cr" /\ middle[4] = "lf"
  <2>1. 1 \in 1..2 /\ 2 \in 1..2 /\ 3 = 2 + 1 /\ 4 = 2 + 2
    OBVIOUS
  <2> QED
    BY <1>1, <1>3, <1>8, <2>1
<1> DEFINE H == Client!Headers
<1>12. CASE Body = <<>>
  <2>1. H = line \o crlf
    BY <1>4, <1>7, <1>12, ConcatEmptySeq DEF line
  <2> HIDE DEF H
  <2>2. /\ H \in Seq(Unit) /\ Len(H) = Len(line) + Len(crlf)
        /\ \A i \in 1..Len(line) : H[i] = line[i]
        /\ \A i \in 1..Len(crlf) : H[Len(line) + i] = crlf[i]
    BY <1>6, <1>9, <2>1, JoinIs
  <2>3. /\ Len(H) = 5
        /\ H[1] = "status" /\ H[2] = "cr" /\ H[3] = "lf" /\ H[4] = "cr" /\ H[5] = "lf"
    <3>1. /\ 1 \in 1..3 /\ 2 \in 1..3 /\ 3 \in 1..3 /\ 1 \in 1..2 /\ 2 \in 1..2
          /\ 4 = 3 + 1 /\ 5 = 3 + 2
      OBVIOUS
    <3> QED
      BY <1>1, <1>10, <2>2, <3>1
  <2>4. \A i \in 1..4 : H[5 - 4 + i] = (crlf \o crlf)[i]
    <3>1. \A i \in 1..4 : i \in {1, 2, 3, 4}
      OBVIOUS
    <3>2. 5 - 4 + 1 = 2 /\ 5 - 4 + 2 = 3 /\ 5 - 4 + 3 = 4 /\ 5 - 4 + 4 = 5
      OBVIOUS
    <3> QED
      BY <1>5, <2>3, <3>1, <3>2
  <2> QED
    BY <1>12, <2>2, <2>3, <2>4 DEF Client!Response, H, crlf
<1>13. CASE Body # <<>>
  <2> DEFINE most == line \o middle
  <2>1. H = most \o crlf
    BY <1>4, <1>13 DEF line, middle
  <2> HIDE DEF H
  <2>2. /\ most \in Seq(Unit) /\ Len(most) = Len(line) + Len(middle)
        /\ \A i \in 1..Len(line) : most[i] = line[i]
        /\ \A i \in 1..Len(middle) : most[Len(line) + i] = middle[i]
    BY <1>9, JoinIs
  <2>3. most \in Seq(Unit)
    BY <2>2
  <2>4. /\ H \in Seq(Unit) /\ Len(H) = Len(most) + Len(crlf)
        /\ \A i \in 1..Len(most) : H[i] = most[i]
        /\ \A i \in 1..Len(crlf) : H[Len(most) + i] = crlf[i]
    BY <1>6, <2>1, <2>3, JoinIs
  <2> HIDE DEF most
  <2>5. /\ Len(most) = 7
        /\ most[1] = "status" /\ most[3] = "lf" /\ most[4] = "name" /\ most[5] = "value"
        /\ most[6] = "cr" /\ most[7] = "lf"
    <3>1. /\ 1 \in 1..3 /\ 3 \in 1..3
          /\ 1 \in 1..4 /\ 2 \in 1..4 /\ 3 \in 1..4 /\ 4 \in 1..4
          /\ 4 = 3 + 1 /\ 5 = 3 + 2 /\ 6 = 3 + 3 /\ 7 = 3 + 4
      OBVIOUS
    <3> QED
      BY <1>10, <1>11, <2>2, <3>1
  <2>6. /\ Len(H) = 9
        /\ H[1] = "status" /\ H[3] = "lf" /\ H[4] = "name" /\ H[5] = "value"
        /\ H[6] = "cr" /\ H[7] = "lf" /\ H[8] = "cr" /\ H[9] = "lf"
    <3>1. /\ 1 \in 1..7 /\ 3 \in 1..7 /\ 4 \in 1..7 /\ 5 \in 1..7 /\ 6 \in 1..7 /\ 7 \in 1..7
          /\ 1 \in 1..2 /\ 2 \in 1..2 /\ 8 = 7 + 1 /\ 9 = 7 + 2
      OBVIOUS
    <3> QED
      BY <1>1, <2>4, <2>5, <3>1
  <2>7. \A i \in 1..4 : H[9 - 4 + i] = (crlf \o crlf)[i]
    <3>1. \A i \in 1..4 : i \in {1, 2, 3, 4}
      OBVIOUS
    <3>2. 9 - 4 + 1 = 6 /\ 9 - 4 + 2 = 7 /\ 9 - 4 + 3 = 8 /\ 9 - 4 + 4 = 9
      OBVIOUS
    <3> QED
      BY <1>5, <2>6, <3>1, <3>2
  <2> QED
    BY <1>13, <2>4, <2>6, <2>7 DEF Client!Response, H, crlf
<1> QED
  BY <1>12, <1>13

\* A prefix is what it is, element by element.
LEMMA PrefixElements ==
    ASSUME NEW S, NEW s \in Seq(S), NEW t \in Seq(S), Client!IsPrefix(s, t)
    PROVE  Len(s) <= Len(t) /\ \A i \in 1..Len(s) : t[i] = s[i]
<1>1. Len(s) <= Len(t) /\ SubSeq(s, 1, Len(s)) = SubSeq(t, 1, Len(s))
  BY DEF Client!IsPrefix
<1>2. Len(s) \in Nat /\ Len(t) \in Nat
  OBVIOUS
<1>3. \A i \in 1..Len(s) : SubSeq(s, 1, Len(s))[i] = s[i] /\ SubSeq(t, 1, Len(s))[i] = t[i]
  BY <1>1, <1>2
<1> QED
  BY <1>1, <1>3

LEMMA HeaderEndInPiece ==
    ASSUME NEW b \in Seq(Unit)
    PROVE  /\ Client!HeaderEnd(b) \in 0..Len(b)
           /\ Client!HasBlankLine(b) =>
                 /\ Client!HeaderEnd(b) \in Client!BlankLines(b)
                 /\ Client!HeaderEnd(b) + 4 <= Len(b)
                 /\ \A i \in Client!BlankLines(b) : i <= Client!HeaderEnd(b)
<1>1. Len(b) \in Nat
  OBVIOUS
<1>2. CASE Client!HasBlankLine(b)
  <2>1. /\ Len(b) - 4 \in Nat /\ Client!BlankLines(b) \subseteq 0..(Len(b) - 4)
        /\ Client!BlankLines(b) # {}
    <3>1. Len(b) >= 4 /\ Client!BlankLines(b) # {}
      BY <1>2 DEF Client!HasBlankLine
    <3>2. Len(b) - 4 \in Nat
      BY <1>1, <3>1
    <3>3. Client!BlankLines(b) \subseteq 0..(Len(b) - 4)
      BY Zenon DEF Client!BlankLines
    <3> QED
      BY <3>1, <3>2, <3>3
  <2>2. /\ Client!HeaderEnd(b) \in Client!BlankLines(b)
        /\ \A i \in Client!BlankLines(b) : Client!HeaderEnd(b) >= i
    BY <1>2, <2>1, Greatest DEF Client!HeaderEnd
  <2>3. Client!HeaderEnd(b) \in 0..(Len(b) - 4)
    BY <2>1, <2>2
  <2> QED
    BY <1>1, <2>1, <2>2, <2>3
<1>3. CASE ~Client!HasBlankLine(b)
  BY <1>1, <1>3 DEF Client!HeaderEnd
<1> QED
  BY <1>2, <1>3

\* Where the headers are whole, they end with a blank line, not before their end.
LEMMA WholeHeadersEnd ==
    ASSUME NEW b \in Seq(Unit), Client!IsPrefix(Client!Headers, b)
    PROVE  /\ Client!HasBlankLine(b)
           /\ Len(Client!Headers) - 4 \in Client!BlankLines(b)
           /\ Client!HeaderEnd(b) >= Len(Client!Headers) - 4
<1> DEFINE n == Len(Client!Headers) - 4
           H == Client!Headers
           blank == Client!CRLF \o Client!CRLF
<1>1. /\ Len(H) = n + 4 /\ n \in Nat /\ blank \in Seq(Unit) /\ Len(blank) = 4
      /\ \A i \in 1..4 : H[n + i] = blank[i]
  BY ResponseFacts, BlankLineIs
<1>2. Len(b) \in Nat /\ Len(H) <= Len(b) /\ \A i \in 1..Len(H) : b[i] = H[i]
  <2>1. Len(b) \in Nat
    OBVIOUS
  <2>2. H \in Seq(Unit)
    BY ResponseFacts
  <2> QED
    BY <2>1, <2>2, PrefixElements
<1> HIDE DEF H, n, blank
<1>3. n \in 0..(Len(b) - 4) /\ Len(b) >= 4
  BY <1>1, <1>2
<1>4. \A i \in 1..4 : b[n + i] = blank[i]
  <2>1. \A i \in 1..4 : n + i \in 1..Len(H)
    BY <1>1
  <2> QED
    BY <1>1, <1>2, <2>1
<1> DEFINE sub == SubSeq(b, n + 1, n + 4)
<1>5. sub \in Seq(Unit) /\ Len(sub) = 4 /\ \A i \in 1..4 : sub[i] = b[n + i]
  <2>1. n + 1 \in 1..(Len(b) + 1) /\ n + 4 \in 0..Len(b)
    BY <1>1, <1>2, <1>3
  <2>2. sub \in Seq(Unit) /\ Len(sub) = 4
    BY <1>1, <1>3, <2>1
  <2>3. \A i \in 1..4 : sub[i] = b[(n + 1) + i - 1]
    BY <1>1, <1>3
  <2> QED
    BY <1>1, <2>2, <2>3
<1> HIDE DEF sub
<1>6. sub = blank
  BY <1>1, <1>4, <1>5, SeqEqual
<1>7. n \in Client!BlankLines(b)
  BY <1>3, <1>6 DEF Client!BlankLines, sub, blank
<1>8. Client!HasBlankLine(b)
  BY <1>3, <1>7 DEF Client!HasBlankLine
<1>9. n <= Client!HeaderEnd(b) /\ Client!HeaderEnd(b) \in Nat
  BY <1>2, <1>7, <1>8, HeaderEndInPiece
<1> QED
  BY <1>1, <1>7, <1>8, <1>9 DEF n

\* Their length is that of the body, and their first line the status.
LEMMA WholeHeadersParse ==
    ASSUME NEW b \in Seq(Unit), Client!IsPrefix(Client!Headers, b)
    PROVE  LET h == SubSeq(b, 1, Client!HeaderEnd(b))
           IN  Client!ParsedLength(h) = Len(Body) /\ h # <<>> /\ h[1] = "status"
<1> DEFINE H == Client!Headers
           e == Client!HeaderEnd(b)
           h == SubSeq(b, 1, e)
<1>1. Len(H) <= Len(b) /\ \A i \in 1..Len(H) : b[i] = H[i]
  <2>1. H \in Seq(Unit)
    BY ResponseFacts
  <2> QED
    BY <2>1, PrefixElements
<1>2. e >= Len(H) - 4 /\ e \in 0..Len(b) /\ Len(b) \in Nat /\ e \in Nat
  <2>1. Len(b) \in Nat
    OBVIOUS
  <2> QED
    BY <2>1, WholeHeadersEnd, HeaderEndInPiece
<1>3. H[1] = "status" /\ Len(H) \in {5, 9}
  BY ResponseFacts
<1>4. Body # <<>> => Len(H) = 9 /\ H[3] = "lf" /\ H[4] = "name" /\ H[5] = "value"
  BY ResponseFacts
<1> HIDE DEF H, e
<1>5. Len(h) = e /\ \A i \in 1..e : h[i] = b[i]
  BY <1>2
<1> HIDE DEF h
<1>6. h # <<>> /\ h[1] = "status"
  <2>1. e \in Nat /\ e >= 1
    <3>1. CASE Len(H) = 5
      BY <1>2, <3>1
    <3>2. CASE Len(H) = 9
      BY <1>2, <3>2
    <3> QED
      BY <1>3, <3>1, <3>2
  <2>2. 1 \in 1..e /\ 1 \in 1..Len(H)
    BY <1>3, <2>1
  <2> QED
    BY <1>1, <1>3, <1>5, <2>1, <2>2
<1>7. Client!ParsedLength(h) = Len(Body)
  <2>1. CASE Body = <<>>
    BY <2>1 DEF Client!ParsedLength
  <2>2. CASE Body # <<>>
    <3>1. Len(H) = 9
      BY <1>4, <2>2
    <3>2. e \in Nat /\ e >= 5
      BY <1>2, <3>1
    <3>3. h[3] = "lf" /\ h[4] = "name" /\ h[5] = "value"
      <4>1. /\ 3 \in 1..e /\ 4 \in 1..e /\ 5 \in 1..e
            /\ 3 \in 1..Len(H) /\ 4 \in 1..Len(H) /\ 5 \in 1..Len(H)
        BY <3>1, <3>2
      <4> QED
        BY <1>1, <1>4, <1>5, <2>2, <4>1
    <3>4. 4 \in 1..(Len(h) - 1) /\ Client!NameAt(h, 4) /\ h[4 + 1] = "value"
      BY <1>5, <3>2, <3>3 DEF Client!NameAt
    <3> QED
      BY <3>4 DEF Client!ParsedLength
  <2> QED
    BY <2>1, <2>2
<1> QED
  BY <1>6, <1>7 DEF h, e

-----------------------------------------------------------------------------
(***************************************************************************)
(* HttpResponse::build() of one piece.                                     *)
(***************************************************************************)
IsResponse(r) ==
    r \in [state : {"WaitingOnHeaders", "WaitingOnBody", "Complete"}, status : BOOLEAN,
           contentLength : {0, Len(Body)}, body : Seq(Unit)]

\* Nothing is in the body before the headers have ended, and never too much.
SoundResponse(r) ==
    /\ IsResponse(r)
    /\ r.state = "WaitingOnHeaders" => r.body = <<>>
    /\ r.state = "WaitingOnBody" => Len(r.body) <= r.contentLength

LEMMA ResponseTypes ==
    ASSUME NEW r, IsResponse(r)
    PROVE  /\ r.state \in {"WaitingOnHeaders", "WaitingOnBody", "Complete"}
           /\ r.contentLength \in Nat /\ r.body \in Seq(Unit) /\ Len(r.body) \in Nat
<1>1. r.contentLength \in {0, Len(Body)} /\ r.body \in Seq(Unit)
      /\ r.state \in {"WaitingOnHeaders", "WaitingOnBody", "Complete"}
  BY DEF IsResponse
<1> QED
  BY <1>1, BodyIsSeq

LEMMA TakeBodyKeeps ==
    ASSUME NEW r, NEW b \in Seq(Unit), IsResponse(r), Len(r.body) <= r.contentLength
    PROVE  LET q == Client!TakeBody(r, b)
           IN  /\ IsResponse(q)
               /\ q.state = r.state /\ q.status = r.status /\ q.contentLength = r.contentLength
               /\ Len(q.body) <= q.contentLength
               /\ Len(b) <= r.contentLength - Len(r.body) => q.body = r.body \o b
<1> DEFINE room1 == r.contentLength - Len(r.body)
           n == Client!Min({Len(b), room1})
           taken == SubSeq(b, 1, n)
           q == Client!TakeBody(r, b)
<1>1. r.contentLength \in Nat /\ r.body \in Seq(Unit) /\ Len(r.body) \in Nat /\ Len(b) \in Nat
  BY ResponseTypes
<1>2. room1 \in Nat
  BY <1>1
<1>3. n = IF Len(b) <= room1 THEN Len(b) ELSE room1
  BY <1>1, <1>2, LeastOfTwo
<1>4. q = [r EXCEPT !.body = r.body \o taken]
  BY DEF Client!TakeBody
<1> HIDE DEF n
<1>5. n \in 0..Len(b) /\ n <= room1
  BY <1>1, <1>2, <1>3
<1>6. taken \in Seq(Unit) /\ Len(taken) = n
  BY <1>1, <1>5
<1>7. Len(b) <= room1 => taken = b
  <2>1. ASSUME Len(b) <= room1 PROVE taken = b
    <3>1. n = Len(b)
      BY <1>3, <2>1
    <3> QED
      BY <3>1, SubSeqFull
  <2> QED
    BY <2>1
<1> HIDE DEF taken, q
<1>8. r.body \o taken \in Seq(Unit) /\ Len(r.body \o taken) = Len(r.body) + n
  BY <1>1, <1>6, ConcatProperties
<1>9. /\ IsResponse(q) /\ q.body = r.body \o taken
      /\ q.state = r.state /\ q.status = r.status /\ q.contentLength = r.contentLength
  BY <1>4, <1>8 DEF IsResponse
<1>10. Len(q.body) <= q.contentLength
  BY <1>1, <1>5, <1>8, <1>9
<1>11. Len(b) <= room1 => q.body = r.body \o b
  BY <1>7, <1>9
<1> QED
  BY <1>9, <1>10, <1>11 DEF q

LEMMA ParseKeeps ==
    ASSUME NEW r, NEW b \in Seq(Unit), IsResponse(r), r.body = <<>>
    PROVE  LET p == Client!ParseHeaders(r, b)
               h == SubSeq(b, 1, Client!HeaderEnd(b))
           IN  /\ IsResponse(p) /\ p.body = <<>>
               /\ p.state = IF Client!HasBlankLine(b) THEN "WaitingOnBody" ELSE "WaitingOnHeaders"
               /\ p.status = (h # <<>> /\ h[1] = "status")
               /\ p.contentLength = Client!ParsedLength(h)
<1> DEFINE h == SubSeq(b, 1, Client!HeaderEnd(b))
           st == IF Client!HasBlankLine(b) THEN "WaitingOnBody" ELSE "WaitingOnHeaders"
           ok == h # <<>> /\ h[1] = "status"
           cl == Client!ParsedLength(h)
           p == Client!ParseHeaders(r, b)
<1>1. p = [r EXCEPT !.state = st, !.status = ok, !.contentLength = cl]
  BY DEF Client!ParseHeaders
<1>2. cl \in {0, Len(Body)}
  BY DEF Client!ParsedLength
<1>3. ok \in BOOLEAN /\ st \in {"WaitingOnHeaders", "WaitingOnBody", "Complete"}
  OBVIOUS
<1> HIDE DEF st, ok, cl, p
<1>4. IsResponse(p) /\ p.body = r.body /\ p.state = st /\ p.status = ok /\ p.contentLength = cl
  BY <1>1, <1>2, <1>3 DEF IsResponse
<1> QED
  BY <1>4 DEF st, ok, cl, p

\* The rest of a piece behind its headers, which may be empty.
LEMMA RestOfPiece ==
    ASSUME NEW b \in Seq(Unit), NEW n \in 0..Len(b)
    PROVE  /\ SubSeq(b, n + 1, Len(b)) \in Seq(Unit)
           /\ Len(SubSeq(b, n + 1, Len(b))) = Len(b) - n
           /\ \A i \in 1..(Len(b) - n) : SubSeq(b, n + 1, Len(b))[i] = b[n + i]
<1>1. Len(b) \in Nat /\ n + 1 \in Int /\ n \in Nat
  OBVIOUS
<1>2. \A i \in (n + 1)..Len(b) : b[i] \in Unit
  <2>1. \A i \in (n + 1)..Len(b) : i \in 1..Len(b)
    BY <1>1
  <2> QED
    BY <2>1, ElementOfSeq
<1>3. /\ SubSeq(b, n + 1, Len(b)) \in Seq(Unit)
      /\ Len(SubSeq(b, n + 1, Len(b))) = IF n + 1 <= Len(b) THEN Len(b) - (n + 1) + 1 ELSE 0
      /\ \A i \in 1..(Len(b) - (n + 1) + 1) : SubSeq(b, n + 1, Len(b))[i] = b[(n + 1) + i - 1]
  BY <1>1, <1>2, SubSeqProperties
<1> DEFINE rest == SubSeq(b, n + 1, Len(b))
<1> HIDE DEF rest
<1>4. Len(rest) = Len(b) - n
  BY <1>1, <1>3 DEF rest
<1>5. \A i \in 1..(Len(b) - n) : rest[i] = b[n + i]
  <2>1. \A i \in 1..(Len(b) - n) : i \in 1..(Len(b) - (n + 1) + 1) /\ (n + 1) + i - 1 = n + i
    BY <1>1
  <2>2. \A i \in 1..(Len(b) - n) : rest[i] = b[(n + 1) + i - 1]
    BY <1>3, <2>1 DEF rest
  <2> QED
    BY <2>1, <2>2
<1> QED
  BY <1>3, <1>4, <1>5 DEF rest

LEMMA HeadersParsedIs ==
    ASSUME NEW b \in Seq(Unit)
    PROVE  /\ Client!HeadersParsed(b) \in 0..Len(b)
           /\ Client!HasBlankLine(b) => Client!HeadersParsed(b) = Client!HeaderEnd(b) + 4
           /\ ~Client!HasBlankLine(b) => Client!HeadersParsed(b) = Len(b)
<1>1. Len(b) \in Nat
  OBVIOUS
<1>2. CASE Client!HasBlankLine(b)
  <2>1. Client!HeaderEnd(b) \in 0..Len(b) /\ Client!HeaderEnd(b) + 4 <= Len(b)
    BY <1>2, HeaderEndInPiece
  <2>2. Client!HeaderEnd(b) + 4 \in 0..Len(b)
    BY <1>1, <2>1
  <2> QED
    BY <1>2, <2>2 DEF Client!HeadersParsed
<1>3. CASE ~Client!HasBlankLine(b)
  BY <1>1, <1>3 DEF Client!HeadersParsed
<1> QED
  BY <1>2, <1>3

\* A piece that comes after the headers.
LEMMA LaterBuild ==
    ASSUME NEW r, NEW b \in Seq(Unit), SoundResponse(r), r.state = "WaitingOnBody"
    PROVE  LET q == Client!Build(r, b)[1]
               res == Client!Build(r, b)[2]
           IN  /\ SoundResponse(q) /\ q = Client!TakeBody(r, b) /\ q.state = "WaitingOnBody"
               /\ res \in {"Incomplete", "Done"}
               /\ res = "Done" => Len(q.body) = q.contentLength
<1> DEFINE q == Client!TakeBody(r, b)
<1>1. /\ IsResponse(q) /\ q.state = r.state /\ Len(q.body) <= q.contentLength
  BY TakeBodyKeeps DEF SoundResponse
<1>2. SubSeq(b, 0 + 1, Len(b)) = b
  BY SubSeqFull
<1>3. Client!Build(r, b) =
        <<q, IF q.state = "WaitingOnBody" /\ Len(q.body) < q.contentLength
             THEN "Incomplete" ELSE "Done">>
  <2>1. r.state # "WaitingOnHeaders"
    OBVIOUS
  <2> QED
    BY <1>1, <1>2, <2>1, Zenon DEF Client!Build
<1> HIDE DEF q
<1>4. q.contentLength \in Nat /\ Len(q.body) \in Nat
  BY <1>1, ResponseTypes
<1>5. SoundResponse(q)
  BY <1>1 DEF SoundResponse
<1>6. ~(Len(q.body) < q.contentLength) => Len(q.body) = q.contentLength
  BY <1>1, <1>4
<1> QED
  BY <1>1, <1>3, <1>5, <1>6 DEF q

\* A piece that comes when the headers have not ended yet.
LEMMA EarlyBuild ==
    ASSUME NEW r, NEW b \in Seq(Unit), SoundResponse(r), r.state = "WaitingOnHeaders"
    PROVE  LET q == Client!Build(r, b)[1]
               res == Client!Build(r, b)[2]
               p == Client!ParseHeaders(r, b)
               n == Client!HeadersParsed(b)
               rest == SubSeq(b, n + 1, Len(b))
           IN  /\ SoundResponse(q)
               /\ res \in {"Incomplete", "Done"}
               /\ q.status = p.status /\ q.contentLength = p.contentLength
               /\ res = "Incomplete" => q.state = p.state
               /\ res = "Done" /\ p.state = "WaitingOnBody" => Len(q.body) = q.contentLength
               /\ p.state = "WaitingOnBody" /\ Len(rest) <= p.contentLength => q.body = rest
<1> DEFINE p == Client!ParseHeaders(r, b)
           n == Client!HeadersParsed(b)
           rest == SubSeq(b, n + 1, Len(b))
           blank == Client!HasBlankLine(b)
           build == Client!Build(r, b)
<1>1. /\ IsResponse(p) /\ p.body = <<>>
      /\ p.state = IF blank THEN "WaitingOnBody" ELSE "WaitingOnHeaders"
  BY ParseKeeps DEF SoundResponse
<1>2. n \in 0..Len(b) /\ (~blank => n = Len(b)) /\ Len(b) \in Nat
  BY HeadersParsedIs
<1>3. rest \in Seq(Unit) /\ Len(rest) = Len(b) - n
  BY <1>2, RestOfPiece
<1>4. CASE n = Len(b)
  <2>1. build = IF p.contentLength = 0
                THEN <<[p EXCEPT !.state = "Complete"], "Done">> ELSE <<p, "Incomplete">>
    BY <1>4 DEF Client!Build
  <2>2. rest = <<>>
    BY <1>2, <1>3, <1>4, EmptySeq
  <2> HIDE DEF p, n, rest, blank, build
  <2>3. p.contentLength \in Nat
    BY <1>1, ResponseTypes
  <2>4. CASE p.contentLength = 0
    <3> DEFINE q == [p EXCEPT !.state = "Complete"]
    <3>1. /\ IsResponse(q) /\ q.state = "Complete" /\ q.body = <<>>
          /\ q.status = p.status /\ q.contentLength = p.contentLength
      BY <1>1 DEF IsResponse
    <3>2. build[1] = q /\ build[2] = "Done"
      BY <2>1, <2>4
    <3> HIDE DEF q
    <3>3. SoundResponse(q)
      BY <3>1 DEF SoundResponse
    <3>4. Len(q.body) = q.contentLength
      BY <2>4, <3>1, EmptySeq
    <3> QED
      BY <2>2, <3>1, <3>2, <3>3, <3>4 DEF p, n, rest, blank, build
  <2>5. CASE p.contentLength # 0
    <3>1. build[1] = p /\ build[2] = "Incomplete"
      BY <2>1, <2>5
    <3>2. SoundResponse(p)
      <4>1. Len(p.body) = 0
        BY <1>1, EmptySeq
      <4> QED
        BY <1>1, <2>3, <4>1 DEF SoundResponse
    <3> QED
      BY <1>1, <2>2, <3>1, <3>2 DEF p, n, rest, blank, build
  <2> QED
    BY <2>4, <2>5
<1>5. CASE n # Len(b)
  <2> DEFINE q == Client!TakeBody(p, rest)
  <2>1. blank /\ p.state = "WaitingOnBody"
    BY <1>1, <1>2, <1>5
  <2>2. build = <<q, IF q.state = "WaitingOnBody" /\ Len(q.body) < q.contentLength
                     THEN "Incomplete" ELSE "Done">>
    BY <1>5, <2>1 DEF Client!Build
  <2> HIDE DEF p, n, rest, blank, build
  <2>3. Len(p.body) = 0 /\ p.contentLength \in Nat
    BY <1>1, ResponseTypes, EmptySeq
  <2>4. /\ IsResponse(q)
        /\ q.state = p.state /\ q.status = p.status /\ q.contentLength = p.contentLength
        /\ Len(q.body) <= q.contentLength
        /\ Len(rest) <= p.contentLength - Len(p.body) => q.body = p.body \o rest
    <3>1. Len(p.body) <= p.contentLength
      BY <2>3
    <3>2. IsResponse(p) /\ rest \in Seq(Unit)
      BY <1>1, <1>3
    <3> QED
      BY <3>1, <3>2, TakeBodyKeeps
  <2>5. p.body \o rest = rest
    BY <1>1, <1>3, ConcatEmptySeq
  <2>6. Len(rest) <= p.contentLength => q.body = rest
    BY <2>3, <2>4, <2>5
  <2> HIDE DEF q
  <2>7. q.contentLength \in Nat /\ Len(q.body) \in Nat
    BY <2>4, ResponseTypes
  <2>8. ~(Len(q.body) < q.contentLength) => Len(q.body) = q.contentLength
    BY <2>4, <2>7
  <2>9. SoundResponse(q)
    BY <2>1, <2>4 DEF SoundResponse
  <2>10. /\ build[1] = q
         /\ build[2] = IF Len(q.body) < q.contentLength THEN "Incomplete" ELSE "Done"
    BY <2>1, <2>2, <2>4
  <2> QED
    BY <2>1, <2>4, <2>6, <2>8, <2>9, <2>10 DEF p, n, rest, blank, build
<1> QED
  BY <1>4, <1>5

\* A prefix of a sequence, from its elements and back.
LEMMA PrefixIs ==
    ASSUME NEW S, NEW s \in Seq(S), NEW t \in Seq(S), Len(s) <= Len(t),
           \A i \in 1..Len(s) : t[i] = s[i]
    PROVE  Client!IsPrefix(s, t)
<1>1. Len(s) \in Nat /\ Len(t) \in Nat
  OBVIOUS
<1>2. SubSeq(s, 1, Len(s)) = s
  BY SubSeqFull
<1>3. /\ SubSeq(t, 1, Len(s)) \in Seq(S) /\ Len(SubSeq(t, 1, Len(s))) = Len(s)
      /\ \A i \in 1..Len(s) : SubSeq(t, 1, Len(s))[i] = t[i]
  BY <1>1
<1>4. SubSeq(t, 1, Len(s)) = s
  BY <1>3, SeqEqual
<1> QED
  BY <1>2, <1>4 DEF Client!IsPrefix

\* The response is its headers and then its body.
LEMMA ResponseIs ==
    /\ Client!Response \in Seq(Unit)
    /\ Len(Client!Response) = Len(Client!Headers) + Len(Body)
    /\ Client!IsPrefix(Client!Headers, Client!Response)
    /\ Len(Client!Headers) \in Nat /\ Len(Client!Headers) > 0
<1> DEFINE H == Client!Headers
           R == Client!Response
<1>1. H \in Seq(Unit) /\ R = H \o Body
  BY ResponseFacts
<1>2. Len(H) \in Nat /\ Len(H) > 0
  <2>1. Len(H) = 5 \/ Len(H) = 9
    BY ResponseFacts
  <2> HIDE DEF H
  <2>2. CASE Len(H) = 5
    BY <2>2
  <2>3. CASE Len(H) = 9
    BY <2>3
  <2> QED
    BY <2>1, <2>2, <2>3
<1>3. Body \in Seq(Unit) /\ Len(Body) \in Nat
  BY BodyIsSeq
<1> HIDE DEF H, R
<1>4. /\ R \in Seq(Unit) /\ Len(R) = Len(H) + Len(Body)
      /\ \A i \in 1..Len(H) : R[i] = H[i]
  BY <1>1, <1>3, JoinIs
<1>5. Len(H) <= Len(R)
  BY <1>2, <1>3, <1>4
<1>6. Client!IsPrefix(H, R)
  BY <1>1, <1>4, <1>5, PrefixIs
<1> QED
  BY <1>2, <1>4, <1>6 DEF H, R

\* A piece with the headers and no more than the response holds their blank
\* line at their end.
LEMMA HeadersEndTheirs ==
    ASSUME NEW b \in Seq(Unit), Client!IsPrefix(Client!Headers, b),
           Client!IsPrefix(b, Client!Response)
    PROVE  /\ Client!HeaderEnd(b) = Len(Client!Headers) - 4
           /\ Client!HeadersParsed(b) = Len(Client!Headers)
<1> DEFINE e == Client!HeaderEnd(b)
           n == Len(Client!Headers)
           R == Client!Response
<1>1. /\ R \in Seq(Unit) /\ n \in Nat /\ Client!HasBlankLine(R)
      /\ \A i \in Client!BlankLines(R) : i <= n - 4
  <2>1. Client!HasBlankLine(R)
    BY ResponseIs, WholeHeadersEnd
  <2>2. \A i \in Client!BlankLines(R) : i <= Client!HeaderEnd(R)
    BY <2>1, ResponseIs, HeaderEndInPiece
  <2> QED
    BY <2>1, <2>2, ResponseIs, SocketClientAssumption
<1>2. /\ Client!HasBlankLine(b) /\ e >= n - 4 /\ e \in Client!BlankLines(b)
      /\ e \in 0..Len(b) /\ e + 4 <= Len(b)
  BY WholeHeadersEnd, HeaderEndInPiece
<1>3. Len(b) \in Nat /\ Len(R) \in Nat /\ Len(b) <= Len(R) /\ \A i \in 1..Len(b) : R[i] = b[i]
  <2>1. Len(b) <= Len(R) /\ \A i \in 1..Len(b) : R[i] = b[i]
    BY <1>1, PrefixElements
  <2> QED
    BY <1>1, <2>1
<1> HIDE DEF e, n, R
<1>4. SubSeq(R, e + 1, e + 4) = SubSeq(b, e + 1, e + 4)
  <2>1. \A i \in (e + 1)..(e + 4) : i \in 1..Len(b)
    BY <1>2, <1>3
  <2>2. \A i \in (e + 1)..(e + 4) : R[i] = b[i] /\ b[i] \in Unit
    BY <1>3, <2>1, ElementOfSeq
  <2>3. e + 1 \in Int /\ e + 4 \in Int
    BY <1>2, <1>3
  <2>4. /\ SubSeq(R, e + 1, e + 4) \in Seq(Unit) /\ SubSeq(b, e + 1, e + 4) \in Seq(Unit)
        /\ Len(SubSeq(R, e + 1, e + 4)) = IF e + 1 <= e + 4 THEN (e + 4) - (e + 1) + 1 ELSE 0
        /\ Len(SubSeq(b, e + 1, e + 4)) = IF e + 1 <= e + 4 THEN (e + 4) - (e + 1) + 1 ELSE 0
        /\ \A i \in 1..((e + 4) - (e + 1) + 1) :
              /\ SubSeq(R, e + 1, e + 4)[i] = R[(e + 1) + i - 1]
              /\ SubSeq(b, e + 1, e + 4)[i] = b[(e + 1) + i - 1]
    BY <2>2, <2>3, SubSeqProperties
  <2> DEFINE sr == SubSeq(R, e + 1, e + 4)
             sb == SubSeq(b, e + 1, e + 4)
  <2> HIDE DEF sr, sb
  <2>5. Len(sr) = 4 /\ Len(sb) = 4
    BY <1>2, <1>3, <2>4 DEF sr, sb
  <2>6. ASSUME NEW i \in 1..4 PROVE sr[i] = sb[i]
    <3>1. i \in 1..((e + 4) - (e + 1) + 1) /\ (e + 1) + i - 1 \in (e + 1)..(e + 4)
      BY <1>2, <1>3
    <3>2. sr[i] = R[(e + 1) + i - 1] /\ sb[i] = b[(e + 1) + i - 1]
      BY <2>4, <3>1 DEF sr, sb
    <3> QED
      BY <2>2, <3>1, <3>2
  <2>7. sr \in Seq(Unit) /\ sb \in Seq(Unit)
    BY <2>4 DEF sr, sb
  <2>8. Len(sr) = Len(sb) /\ \A i \in 1..Len(sr) : sr[i] = sb[i]
    BY <2>5, <2>6
  <2>9. sr = sb
    BY <2>7, <2>8, SeqEqual
  <2> QED
    BY <2>9 DEF sr, sb
<1>5. e \in Client!BlankLines(R)
  <2>1. SubSeq(b, e + 1, e + 4) = Client!CRLF \o Client!CRLF
    BY <1>2 DEF Client!BlankLines
  <2>2. e \in 0..(Len(R) - 4)
    BY <1>2, <1>3
  <2> QED
    BY <1>4, <2>1, <2>2 DEF Client!BlankLines
<1>6. e = n - 4
  <2>1. e <= n - 4
    BY <1>1, <1>5
  <2> QED
    BY <1>1, <1>2, <1>3, <2>1
<1>7. Client!HeadersParsed(b) = n
  <2>1. Client!HeadersParsed(b) = e + 4
    BY <1>2, HeadersParsedIs DEF e
  <2> QED
    BY <1>1, <1>6, <2>1
<1> QED
  BY <1>6, <1>7 DEF e, n

\* The first piece, when it holds the whole headers.
LEMMA FirstBuild ==
    ASSUME NEW r, NEW b \in Seq(Unit), SoundResponse(r), r.state = "WaitingOnHeaders",
           Client!IsPrefix(Client!Headers, b)
    PROVE  LET q == Client!Build(r, b)[1]
               res == Client!Build(r, b)[2]
           IN  /\ q.status /\ q.contentLength = Len(Body)
               /\ res = "Incomplete" => q.state = "WaitingOnBody"
               /\ res = "Done" => Len(q.body) = Len(Body)
               /\ Client!IsPrefix(b, Client!Response) => Client!Headers \o q.body = b
<1> DEFINE q == Client!Build(r, b)[1]
           res == Client!Build(r, b)[2]
           p == Client!ParseHeaders(r, b)
           n == Client!HeadersParsed(b)
           rest == SubSeq(b, n + 1, Len(b))
           H == Client!Headers
<1>1. p.state = "WaitingOnBody" /\ p.status /\ p.contentLength = Len(Body)
  <2>1. Client!HasBlankLine(b)
    BY WholeHeadersEnd
  <2>2. LET h == SubSeq(b, 1, Client!HeaderEnd(b))
        IN  Client!ParsedLength(h) = Len(Body) /\ h # <<>> /\ h[1] = "status"
    BY WholeHeadersParse
  <2>3. IsResponse(r) /\ r.body = <<>>
    BY DEF SoundResponse
  <2> QED
    BY <2>1, <2>2, <2>3, ParseKeeps
<1>2. /\ q.status = p.status /\ q.contentLength = p.contentLength
      /\ res = "Incomplete" => q.state = p.state
      /\ res = "Done" /\ p.state = "WaitingOnBody" => Len(q.body) = q.contentLength
      /\ p.state = "WaitingOnBody" /\ Len(rest) <= p.contentLength => q.body = rest
  BY EarlyBuild
<1>3. ASSUME Client!IsPrefix(b, Client!Response) PROVE H \o q.body = b
  <2>1. n = Len(H)
    BY <1>3, HeadersEndTheirs
  <2>2. n \in 0..Len(b) /\ Len(b) \in Nat
    BY HeadersParsedIs
  <2>3. /\ Len(b) <= Len(Client!Response) /\ Len(Client!Response) = Len(H) + Len(Body)
        /\ Client!Response \in Seq(Unit) /\ Len(H) \in Nat
    BY <1>3, ResponseIs, PrefixElements
  <2>4. H \in Seq(Unit) /\ \A i \in 1..Len(H) : b[i] = H[i]
    <3>1. H \in Seq(Unit)
      BY ResponseFacts
    <3> QED
      BY <3>1, PrefixElements
  <2>5. /\ rest \in Seq(Unit) /\ Len(rest) = Len(b) - n
        /\ \A i \in 1..(Len(b) - n) : rest[i] = b[n + i]
    BY <2>2, RestOfPiece
  <2>6. Len(Body) \in Nat
    BY BodyIsSeq
  <2> HIDE DEF n, rest, H, q, p, res
  <2>7. Len(rest) <= Len(Body)
    BY <2>1, <2>2, <2>3, <2>5, <2>6
  <2>8. q.body = rest
    BY <1>1, <1>2, <2>7
  <2>9. /\ H \o rest \in Seq(Unit) /\ Len(H \o rest) = Len(H) + Len(rest)
        /\ \A i \in 1..Len(H) : (H \o rest)[i] = H[i]
        /\ \A i \in 1..Len(rest) : (H \o rest)[Len(H) + i] = rest[i]
    <3>1. H \in Seq(Unit) /\ rest \in Seq(Unit)
      BY <2>4, <2>5
    <3> QED
      BY <3>1, JoinIs
  <2> DEFINE whole == H \o rest
  <2> HIDE DEF whole
  <2>10. Len(whole) = Len(b)
    BY <2>1, <2>2, <2>5, <2>9 DEF whole
  <2>11. ASSUME NEW i \in 1..Len(b) PROVE whole[i] = b[i]
    <3>1. CASE i <= Len(H)
      <4>1. i \in 1..Len(H)
        BY <2>3, <3>1
      <4> QED
        BY <2>4, <2>9, <4>1 DEF whole
    <3>2. CASE i > Len(H)
      <4>1. i - Len(H) \in 1..Len(rest) /\ Len(H) + (i - Len(H)) = i
        BY <2>1, <2>2, <2>3, <2>5, <3>2
      <4>2. whole[Len(H) + (i - Len(H))] = rest[i - Len(H)]
        BY <2>9, <4>1 DEF whole
      <4>3. rest[i - Len(H)] = b[n + (i - Len(H))]
        BY <2>5, <4>1
      <4> QED
        BY <2>1, <4>1, <4>2, <4>3
    <3> QED
      BY <2>2, <2>3, <3>1, <3>2
  <2>12. whole = b
    <3>1. whole \in Seq(Unit)
      BY <2>9 DEF whole
    <3>2. Len(whole) = Len(b) /\ \A i \in 1..Len(whole) : whole[i] = b[i]
      BY <2>10, <2>11
    <3> QED
      BY <3>1, <3>2, SeqEqual
  <2> QED
    BY <2>8, <2>12 DEF whole, H, q
<1> HIDE DEF n, rest, q, p, res
<1>4. q.status /\ q.contentLength = Len(Body)
  BY <1>1, <1>2
<1>5. /\ res = "Incomplete" => q.state = "WaitingOnBody"
      /\ res = "Done" => Len(q.body) = Len(Body)
  BY <1>1, <1>2
<1> QED
  BY <1>3, <1>4, <1>5 DEF q, res, H

-----------------------------------------------------------------------------
(***************************************************************************)
(* The inductive invariant.                                                *)
(***************************************************************************)
Running == {"connect", "write", "read", "reading", "build"}
Stuck == {"threw", "looping"}

\* A response whose headers came whole waits for its body, or has it.
WholeWaits ==
    Client!HeadersWhole =>
        \/ call \in Stuck
        \/ call = "ok" /\ Len(response.body) = Len(Body)
        \/ call # "ok" /\ response.state = "WaitingOnBody" /\ response.contentLength = Len(Body)

\* As long as nothing was handed over twice, the headers and the body taken so
\* far are the pieces.
BodyIsHanded ==
    Client!HeadersWhole /\ Client!NothingStale =>
        \/ call \in Stuck
        \/ response.status /\ Client!Headers \o response.body = Client!FlattenSeq(handed)

ResponseInv ==
    /\ SoundResponse(response)
    /\ handed \in Seq(Seq(Unit))
    /\ handed = <<>> => response.state = "WaitingOnHeaders"
    /\ call \in Running => response.state # "Complete"
    /\ WholeWaits /\ BodyIsHanded

\* What is handed to build() next.
HandedNext == IF Len(Client!FlattenSeq(handed)) > Len(Client!Response)
              THEN handed ELSE Append(handed, buf)

LEMMA HandedIs ==
    ASSUME handed \in Seq(Seq(Unit)), buf \in Seq(Unit), handed' = HandedNext
    PROVE  /\ handed' \in Seq(Seq(Unit)) /\ handed' # <<>>
           /\ handed = <<>> =>
                 /\ (Client!HeadersWhole' <=> Client!IsPrefix(Client!Headers, buf))
                 /\ (Client!NothingStale' <=> Client!IsPrefix(buf, Client!Response))
                 /\ Client!FlattenSeq(handed') = buf
           /\ handed # <<>> =>
                 /\ Client!HeadersWhole' = Client!HeadersWhole
                 /\ Client!NothingStale' =>
                       /\ Client!FlattenSeq(handed) \in Seq(Unit)
                       /\ Client!FlattenSeq(handed') = Client!FlattenSeq(handed) \o buf
<1> DEFINE flat == Client!FlattenSeq(handed)
           long == Append(handed, buf)
           R == Client!Response
<1>1. flat \in Seq(Unit) /\ Len(flat) \in Nat
  <2>1. flat \in Seq(Unit)
    BY FlattenType, FlattenIs, LenProperties
  <2> QED
    BY <2>1
<1>2. R \in Seq(Unit) /\ Len(R) \in Nat
  BY ResponseIs
<1>3. /\ long \in Seq(Seq(Unit)) /\ Len(long) = Len(handed) + 1 /\ Len(handed) \in Nat
      /\ long # <<>> /\ (handed = <<>> => long[1] = buf) /\ (handed # <<>> => long[1] = handed[1])
  <2>1. /\ long \in Seq(Seq(Unit)) /\ Len(long) = Len(handed) + 1 /\ Len(handed) \in Nat
        /\ long[Len(handed) + 1] = buf /\ \A i \in 1..Len(handed) : long[i] = handed[i]
    BY AppendProperties
  <2> HIDE DEF long
  <2>2. long # <<>>
    <3>1. Len(long) # 0
      BY <2>1
    <3> QED
      BY <3>1, EmptySeq
  <2>3. handed = <<>> => long[1] = buf
    BY <2>1, EmptySeq
  <2>4. handed # <<>> => long[1] = handed[1]
    <3>1. handed # <<>> => Len(handed) \in Nat \ {0}
      BY EmptySeq
    <3>2. handed # <<>> => 1 \in 1..Len(handed)
      BY <3>1
    <3> QED
      BY <2>1, <3>2
  <2> QED
    BY <2>1, <2>2, <2>3, <2>4
<1>4. Client!FlattenSeq(long) = flat \o buf
  <2>1. FlattenSeq(long) = FlattenSeq(handed) \o buf
    BY FlattenAppend
  <2>2. Client!FlattenSeq(long) = FlattenSeq(long)
    BY <1>3, FlattenIs
  <2>3. Client!FlattenSeq(handed) = FlattenSeq(handed)
    BY <1>3, FlattenIs
  <2> QED
    BY <2>1, <2>2, <2>3
<1>5. handed = <<>> => flat = <<>> /\ Len(flat) = 0 /\ flat \o buf = buf
  <2>1. ASSUME handed = <<>> PROVE flat = <<>>
    <3>1. Len(handed) = 0
      BY <2>1, EmptySeq
    <3>2. flat = handed
      BY <3>1, FlattenIs
    <3> QED
      BY <2>1, <3>2
  <2> QED
    BY <2>1, EmptySeq, ConcatEmptySeq
<1>6. /\ Client!HeadersWhole = (handed # <<>> /\ Client!IsPrefix(Client!Headers, handed[1]))
      /\ Client!NothingStale = Client!IsPrefix(flat, R)
      /\ Client!HeadersWhole' = (handed' # <<>> /\ Client!IsPrefix(Client!Headers, handed'[1]))
      /\ Client!NothingStale' = Client!IsPrefix(Client!FlattenSeq(handed'), R)
  BY DEF Client!HeadersWhole, Client!NothingStale
<1>7. handed' = IF Len(flat) > Len(R) THEN handed ELSE long
  BY DEF HandedNext
<1> HIDE DEF flat, long, R
<1>8. CASE Len(flat) > Len(R)
  <2>1. handed' = handed /\ handed # <<>>
    BY <1>1, <1>2, <1>5, <1>7, <1>8
  <2>2. ~Client!NothingStale'
    <3>1. ~Client!IsPrefix(flat, R)
      BY <1>1, <1>2, <1>8, PrefixElements
    <3> QED
      BY <1>6, <2>1, <3>1 DEF flat
  <2> QED
    BY <1>6, <2>1, <2>2
<1>9. CASE ~(Len(flat) > Len(R))
  <2>1. handed' = long
    BY <1>7, <1>9
  <2>2. handed = <<>> =>
           /\ (Client!HeadersWhole' <=> Client!IsPrefix(Client!Headers, buf))
           /\ (Client!NothingStale' <=> Client!IsPrefix(buf, R))
           /\ Client!FlattenSeq(handed') = buf
    <3>1. ASSUME handed = <<>>
          PROVE  long # <<>> /\ long[1] = buf /\ Client!FlattenSeq(long) = buf
      BY <1>3, <1>4, <1>5, <3>1
    <3>2. Client!FlattenSeq(handed') = Client!FlattenSeq(long)
      BY <2>1
    <3>3. handed = <<>> => (Client!HeadersWhole' <=> Client!IsPrefix(Client!Headers, buf))
      <4>1. handed = <<>> => handed' # <<>> /\ handed'[1] = buf
        BY <2>1, <3>1
      <4> QED
        BY <1>6, <4>1
    <3>4. handed = <<>> => Client!FlattenSeq(handed') = buf
      BY <3>1, <3>2
    <3>5. handed = <<>> => (Client!NothingStale' <=> Client!IsPrefix(buf, R))
      BY <1>6, <3>4
    <3> QED
      BY <3>3, <3>4, <3>5
  <2>3. handed # <<>> =>
           /\ Client!HeadersWhole' = Client!HeadersWhole
           /\ Client!FlattenSeq(handed') = flat \o buf
    BY <1>3, <1>4, <1>6, <2>1
  <2> QED
    BY <1>1, <1>3, <2>1, <2>2, <2>3 DEF flat, R
<1> QED
  BY <1>8, <1>9

LEMMA PrefixOfPrefix ==
    ASSUME NEW s \in Seq(Unit), NEW b \in Seq(Unit), NEW t \in Seq(Unit),
           Client!IsPrefix(s \o b, t)
    PROVE  Client!IsPrefix(s, t) /\ Len(s) + Len(b) <= Len(t)
<1> DEFINE whole == s \o b
<1>1. /\ whole \in Seq(Unit) /\ Len(whole) = Len(s) + Len(b)
      /\ \A i \in 1..Len(s) : whole[i] = s[i]
  BY JoinIs
<1>2. Len(whole) <= Len(t) /\ \A i \in 1..Len(whole) : t[i] = whole[i]
  BY <1>1, PrefixElements
<1>3. Len(s) \in Nat /\ Len(b) \in Nat /\ Len(t) \in Nat
  OBVIOUS
<1> HIDE DEF whole
<1>4. Len(s) + Len(b) <= Len(t) /\ Len(s) <= Len(t)
  BY <1>1, <1>2, <1>3
<1>5. \A i \in 1..Len(s) : t[i] = s[i]
  <2>1. \A i \in 1..Len(s) : i \in 1..Len(whole)
    BY <1>1, <1>3
  <2> QED
    BY <1>1, <1>2, <2>1
<1> QED
  BY <1>4, <1>5, PrefixIs

LEMMA UnitsRegroup ==
    \A a, b, c \in Seq(Unit) : (a \o b) \o c = a \o (b \o c)
BY ConcatAssociative, SMTT(60)

\* The body takes the whole of a piece that goes on where the last one ended.
LEMMA PieceFits ==
    ASSUME NEW flat \in Seq(Unit), NEW b \in Seq(Unit), NEW body \in Seq(Unit),
           flat = Client!Headers \o body, Client!IsPrefix(flat \o b, Client!Response)
    PROVE  /\ Len(b) <= Len(Body) - Len(body)
           /\ Client!Headers \o (body \o b) = flat \o b
<1> DEFINE H == Client!Headers
           R == Client!Response
<1>1. H \in Seq(Unit) /\ R \in Seq(Unit)
  BY ResponseFacts, ResponseIs
<1>2. Len(R) = Len(H) + Len(Body) /\ Len(H) \in Nat /\ Len(Body) \in Nat
  BY ResponseIs, BodyIsSeq
<1>3. Len(flat) + Len(b) <= Len(R)
  BY <1>1, PrefixOfPrefix
<1>4. Len(flat) = Len(H) + Len(body)
  BY <1>1, JoinIs
<1>5. Len(b) \in Nat /\ Len(body) \in Nat
  OBVIOUS
<1>6. H \o (body \o b) = (H \o body) \o b
  <2>1. H \in Seq(Unit)
    BY <1>1
  <2> HIDE DEF H
  <2> QED
    BY <2>1, UnitsRegroup, Zenon
<1> HIDE DEF H, R
<1>7. Len(b) <= Len(Body) - Len(body)
  BY <1>2, <1>3, <1>4, <1>5
<1> QED
  BY <1>6, <1>7 DEF H, R

LEMMA BuildPieceKeeps ==
    ASSUME ResponseInv, buf \in Seq(Unit), Client!BuildPiece
    PROVE  ResponseInv'
<1> DEFINE build == Client!Build(response, buf)
           loops == LET h == SubSeq(buf, 1, Client!HeaderEnd(buf))
                    IN  response.state = "WaitingOnHeaders"
                          /\ (Client!TokenizerLoops(h) \/ Client!Throws(h))
<1>1. /\ call = "build" /\ handed' = HandedNext
      /\ loops => call' \in Stuck /\ response' = response
      /\ ~loops => response' = build[1] /\ call' = IF build[2] = "Incomplete" THEN "read" ELSE "ok"
  BY DEF Client!BuildPiece, HandedNext, Stuck
<1>2. /\ handed' \in Seq(Seq(Unit)) /\ handed' # <<>>
      /\ handed = <<>> =>
            /\ (Client!HeadersWhole' <=> Client!IsPrefix(Client!Headers, buf))
            /\ (Client!NothingStale' <=> Client!IsPrefix(buf, Client!Response))
            /\ Client!FlattenSeq(handed') = buf
      /\ handed # <<>> =>
            /\ Client!HeadersWhole' = Client!HeadersWhole
            /\ Client!NothingStale' =>
                  /\ Client!FlattenSeq(handed) \in Seq(Unit)
                  /\ Client!FlattenSeq(handed') = Client!FlattenSeq(handed) \o buf
  BY <1>1, HandedIs DEF ResponseInv
<1>3. /\ SoundResponse(response) /\ response.state \in {"WaitingOnHeaders", "WaitingOnBody"}
      /\ handed = <<>> => response.state = "WaitingOnHeaders"
  BY <1>1, ResponseTypes DEF ResponseInv, SoundResponse, Running
<1> HIDE DEF loops, build
<1>4. CASE loops
  <2>1. WholeWaits' /\ BodyIsHanded'
    BY <1>1, <1>4 DEF WholeWaits, BodyIsHanded
  <2>2. call' \notin Running
    BY <1>1, <1>4 DEF Stuck, Running
  <2> QED
    BY <1>1, <1>2, <1>3, <1>4, <2>1, <2>2 DEF ResponseInv
<1> DEFINE q == build[1]
           res == build[2]
<1> HIDE DEF q, res
<1>5. ASSUME ~loops PROVE response' = q /\ call' = IF res = "Incomplete" THEN "read" ELSE "ok"
  BY <1>1, <1>5 DEF q, res
<1>6. ASSUME ~loops, SoundResponse(q), res = "Incomplete" => q.state # "Complete",
             Client!HeadersWhole' =>
                 /\ q.contentLength = Len(Body)
                 /\ res = "Incomplete" => q.state = "WaitingOnBody"
                 /\ res # "Incomplete" => Len(q.body) = Len(Body),
             Client!HeadersWhole' /\ Client!NothingStale' =>
                 q.status /\ Client!Headers \o q.body = Client!FlattenSeq(handed')
      PROVE  ResponseInv'
  <2>1. response' = q /\ call' = IF res = "Incomplete" THEN "read" ELSE "ok"
    BY <1>5, <1>6
  <2>2. WholeWaits'
    BY <1>6, <2>1 DEF WholeWaits
  <2>3. BodyIsHanded'
    BY <1>6, <2>1 DEF BodyIsHanded
  <2>4. call' \in Running => response'.state # "Complete"
    BY <1>6, <2>1 DEF Running
  <2> QED
    BY <1>2, <1>6, <2>1, <2>2, <2>3, <2>4 DEF ResponseInv
<1>7. CASE ~loops /\ response.state = "WaitingOnHeaders"
  <2>1. /\ SoundResponse(q) /\ res \in {"Incomplete", "Done"}
        /\ res = "Incomplete" => q.state # "Complete"
    <3>1. SoundResponse(q) /\ res \in {"Incomplete", "Done"}
      BY <1>3, <1>7, EarlyBuild DEF q, res, build
    <3>2. res = "Incomplete" => q.state = Client!ParseHeaders(response, buf).state
      BY <1>3, <1>7, EarlyBuild DEF q, res, build
    <3>3. IsResponse(response) /\ response.body = <<>>
      BY <1>3, <1>7 DEF SoundResponse
    <3>4. Client!ParseHeaders(response, buf).state
            = IF Client!HasBlankLine(buf) THEN "WaitingOnBody" ELSE "WaitingOnHeaders"
      BY <3>3, ParseKeeps
    <3> QED
      BY <3>1, <3>2, <3>4
  <2>2. CASE handed = <<>>
    <3>1. ASSUME Client!HeadersWhole'
          PROVE  /\ q.status /\ q.contentLength = Len(Body)
                 /\ res = "Incomplete" => q.state = "WaitingOnBody"
                 /\ res = "Done" => Len(q.body) = Len(Body)
                 /\ Client!IsPrefix(buf, Client!Response) => Client!Headers \o q.body = buf
      <4>1. Client!IsPrefix(Client!Headers, buf)
        BY <1>2, <2>2, <3>1
      <4> QED
        BY <1>3, <1>7, <4>1, FirstBuild DEF q, res, build
    <3>2. Client!HeadersWhole' /\ Client!NothingStale' =>
              q.status /\ Client!Headers \o q.body = Client!FlattenSeq(handed')
      BY <1>2, <2>2, <3>1
    <3> QED
      BY <1>6, <1>7, <2>1, <3>1, <3>2
  <2>3. CASE handed # <<>>
    <3>1. ~Client!HeadersWhole'
      BY <1>1, <1>2, <1>7, <2>3 DEF ResponseInv, WholeWaits, Stuck
    <3> QED
      BY <1>6, <1>7, <2>1, <3>1
  <2> QED
    BY <2>2, <2>3
<1>8. CASE ~loops /\ response.state = "WaitingOnBody"
  <2>1. handed # <<>>
    BY <1>3, <1>8
  <2>2. /\ SoundResponse(q) /\ q = Client!TakeBody(response, buf) /\ q.state = "WaitingOnBody"
        /\ res \in {"Incomplete", "Done"}
        /\ res = "Done" => Len(q.body) = q.contentLength
    BY <1>3, <1>8, LaterBuild DEF q, res, build
  <2>3. /\ IsResponse(response) /\ response.body \in Seq(Unit)
        /\ Len(response.body) <= response.contentLength
    BY <1>3, <1>8, ResponseTypes DEF SoundResponse
  <2>4. /\ q.status = response.status /\ q.contentLength = response.contentLength
        /\ Len(buf) <= response.contentLength - Len(response.body) => q.body = response.body \o buf
    BY <2>2, <2>3, TakeBodyKeeps
  <2>5. Client!HeadersWhole' => Client!HeadersWhole /\ response.contentLength = Len(Body)
    BY <1>1, <1>2, <2>1 DEF ResponseInv, WholeWaits, Stuck
  <2>6. ASSUME Client!HeadersWhole', Client!NothingStale'
        PROVE  q.status /\ Client!Headers \o q.body = Client!FlattenSeq(handed')
    <3> DEFINE flat == Client!FlattenSeq(handed)
    <3>1. flat \in Seq(Unit) /\ Client!FlattenSeq(handed') = flat \o buf
      BY <1>2, <2>1, <2>6
    <3>2. Client!HeadersWhole /\ response.contentLength = Len(Body)
      BY <2>5, <2>6
    <3>3. Client!IsPrefix(flat \o buf, Client!Response)
      BY <2>6, <3>1 DEF Client!NothingStale
    <3>4. Client!IsPrefix(flat, Client!Response)
      BY <3>1, <3>3, ResponseIs, PrefixOfPrefix
    <3>5. Client!NothingStale
      BY <3>4 DEF Client!NothingStale
    <3>6. response.status /\ Client!Headers \o response.body = flat
      BY <1>1, <3>2, <3>5 DEF ResponseInv, BodyIsHanded, Stuck
    <3> HIDE DEF flat
    <3>7. /\ Len(buf) <= Len(Body) - Len(response.body)
          /\ Client!Headers \o (response.body \o buf) = flat \o buf
      BY <2>3, <3>1, <3>3, <3>6, PieceFits
    <3> QED
      BY <2>4, <3>1, <3>2, <3>6, <3>7
  <2> QED
    BY <1>6, <1>8, <2>2, <2>4, <2>5, <2>6
<1> QED
  BY <1>3, <1>4, <1>7, <1>8

-----------------------------------------------------------------------------
(***************************************************************************)
(* What the buffers hold: units of the response, and records of it.        *)
(***************************************************************************)
Numbers == (Handshake + 1)..Records

RecordsInv ==
    /\ received \in 0..(Records * RecordSize)
    /\ arr \in Seq(Numbers) /\ d_readBuffer \in Seq(Numbers)

RequestInv ==
    /\ stream \in Seq(Unit) /\ pos \in 0..Len(stream)
    /\ buf \in Seq(Unit)
    /\ ResponseInv

LEMMA SecureMinOfTwo ==
    ASSUME NEW a \in Nat, NEW b \in Nat
    PROVE  Secure!Min({a, b}) = IF a <= b THEN a ELSE b
<1>1. \E x \in {a, b} : \A y \in {a, b} : x <= y
  OBVIOUS
<1> QED
  BY <1>1 DEF Secure!Min

\* An Array of records holds units of the response.
LEMMA UnitsOfArray ==
    ASSUME RecordsInv
    PROVE  Units(arr) \in Seq(Unit)
<1> DEFINE pieces == [i \in DOMAIN arr |-> Pieces[arr[i] - Handshake]]
<1>1. Pieces \in Seq(Seq(Unit)) /\ Len(Pieces) = Records - Handshake
  BY SocketClientAssumption DEF Unit
<1>2. Handshake \in Nat /\ Records \in Nat
  BY ConstantFacts
<1>3. Len(arr) \in Nat /\ DOMAIN arr = 1..Len(arr) /\ \A i \in 1..Len(arr) : arr[i] \in Numbers
  BY DEF RecordsInv
<1>4. ASSUME NEW i \in 1..Len(arr) PROVE Pieces[arr[i] - Handshake] \in Seq(Unit)
  <2>1. arr[i] \in (Handshake + 1)..Records
    BY <1>3 DEF Numbers
  <2>2. arr[i] - Handshake \in 1..Len(Pieces)
    BY <1>1, <1>2, <2>1
  <2> QED
    BY <1>1, <2>2, ElementOfSeq
<1>5. pieces \in Seq(Seq(Unit))
  BY <1>3, <1>4
<1> HIDE DEF pieces
<1>6. FlattenSeq(pieces) \in Seq(Unit)
  BY <1>5, FlattenType
<1> QED
  BY <1>6 DEF Units, pieces

LEMMA DivAtMost ==
    ASSUME NEW q \in Nat, NEW k \in Nat, NEW r \in Nat \ {0}, q <= k * r
    PROVE  ~(q \div r > k)
<1>1. q \div r \in Nat /\ r * (q \div r) <= q
  OBVIOUS
<1>2. ASSUME q \div r > k PROVE FALSE
  <2> DEFINE d == q \div r
  <2> HIDE DEF d
  <2>1. d \in Nat /\ d >= k + 1 /\ r * d <= k * r
    BY <1>1, <1>2 DEF d
  <2>2. r * d >= r * (k + 1)
    BY <2>1
  <2>3. r * (k + 1) = k * r + r
    OBVIOUS
  <2> QED
    BY <2>1, <2>2, <2>3
<1> QED
  BY <1>2

\* What records hold that end after one unit and not after another.
LEMMA DataNumbers ==
    ASSUME NEW p \in Nat, NEW q \in Nat, p <= q, q <= Records * RecordSize
    PROVE  Secure!DataBetween(p, q) \in Seq(Numbers)
<1> DEFINE first == Secure!Max({p \div RecordSize, Handshake})
           last == q \div RecordSize
           n == IF last > first THEN last - first ELSE 0
<1>1. /\ Handshake \in Nat /\ Records \in Nat /\ RecordSize \in Nat \ {0}
      /\ p \div RecordSize \in Nat
  BY ConstantFacts, DivMonotone
<1>2. first = IF p \div RecordSize >= Handshake THEN p \div RecordSize ELSE Handshake
  BY <1>1, MaxOfTwo
<1>3. first \in Nat /\ first >= Handshake
  BY <1>1, <1>2
<1>4. last \in Nat /\ last <= Records
  <2>1. last \in Nat
    BY <1>1, DivMonotone
  <2>2. ~(q \div RecordSize > Records)
    BY <1>1, DivAtMost
  <2> QED
    BY <1>1, <2>1, <2>2
<1> HIDE DEF first, last
<1>5. n \in Nat
  BY <1>3, <1>4
<1>6. \A i \in 1..n : first + i \in Numbers
  BY <1>1, <1>3, <1>4 DEF Numbers
<1>7. [i \in 1..n |-> first + i] \in Seq(Numbers)
  BY <1>5, <1>6
<1> QED
  BY <1>7 DEF Secure!DataBetween, first, last

LEMMA RecordsKept ==
    ASSUME IInv, RecordsInv, [Next]_vars
    PROVE  RecordsInv'
<1>1. CASE UNCHANGED secureVars
  BY <1>1 DEF secureVars, RecordsInv
<1>2. ASSUME NEW cleared \in BOOLEAN, Secure!CallRead(cleared) PROVE RecordsInv'
  <2>1. /\ received' = received
        /\ arr' \in {arr, d_readBuffer, <<>>} /\ d_readBuffer' \in {d_readBuffer, <<>>}
    BY <1>2 DEF Secure!CallRead, Secure!HandOver
  <2> QED
    BY <2>1, EmptySeq DEF RecordsInv
<1>3. CASE Secure!CallWrite
  BY <1>3 DEF Secure!CallWrite, RecordsInv
<1>4. CASE Secure!CallStep
  <2>1. received' = received /\ arr' = arr /\ d_readBuffer' \in {d_readBuffer, <<>>}
    BY <1>4 DEF Secure!CallStep, Secure!ReadNothing, Secure!HandshakeLoop, Secure!Send
  <2> QED
    BY <2>1, EmptySeq DEF RecordsInv
<1>5. CASE Secure!Close
  BY <1>5 DEF Secure!Close, RecordsInv
<1>6. CASE Secure!ReadUnits
  <2> DEFINE most == Secure!Min({numMoreBytes, Records * RecordSize - received})
             data(n) == d_readBuffer \o Secure!DataBetween(received, received + n)
  <2>1. PICK n \in 1..most :
          /\ received' = received + n
          /\ d_readBuffer' \in {data(n), <<>>}
          /\ arr' \in {data(n), arr}
    BY <1>6 DEF Secure!ReadUnits
  <2>2. /\ received \in Nat /\ Records * RecordSize \in Nat
        /\ Records * RecordSize - received \in Nat
    <3>1. Records * RecordSize \in Nat
      BY ConstantFacts
    <3> DEFINE all == Records * RecordSize
    <3>2. received \in 0..all
      BY DEF RecordsInv
    <3> HIDE DEF all
    <3>3. received \in Nat /\ all - received \in Nat
      BY <3>1, <3>2 DEF all
    <3> QED
      BY <3>1, <3>3 DEF all
  <2> DEFINE left == Records * RecordSize - received
  <2>3. most = IF numMoreBytes <= left THEN numMoreBytes ELSE left
    BY <2>2, SecureMinOfTwo DEF IInv, DataInv, DataTypes
  <2>4. n \in Nat /\ n <= left
    BY <2>1, <2>2, <2>3 DEF IInv, DataInv, DataTypes
  <2>5. received + n \in 0..(Records * RecordSize) /\ received <= received + n
    BY <2>2, <2>4
  <2>6. Secure!DataBetween(received, received + n) \in Seq(Numbers)
    BY <2>2, <2>5, DataNumbers
  <2>7. data(n) \in Seq(Numbers)
    BY <2>6, ConcatProperties DEF RecordsInv
  <2> HIDE DEF data
  <2> QED
    BY <2>1, <2>5, <2>7, EmptySeq DEF RecordsInv
<1>7. CASE Next
  BY <1>1, <1>2, <1>3, <1>4, <1>5, <1>6, <1>7, StepOfSecure
<1>8. CASE UNCHANGED vars
  BY <1>1, <1>8 DEF vars
<1> QED
  BY <1>7, <1>8

-----------------------------------------------------------------------------
(***************************************************************************)
(* Each step of a request keeps the invariant.                             *)
(***************************************************************************)
\* A step that does not build moves a request on, or ends it without "ok".
LEMMA RequestMoves ==
    ASSUME ResponseInv, UNCHANGED <<response, handed>>,
           call' = call \/ (call \in Running /\ call' # "ok")
    PROVE  ResponseInv'
<1>1. /\ Client!HeadersWhole' = Client!HeadersWhole
      /\ Client!NothingStale' = Client!NothingStale
      /\ Client!FlattenSeq(handed') = Client!FlattenSeq(handed)
  BY DEF Client!HeadersWhole, Client!NothingStale
<1>2. call \in Running => call # "ok" /\ call \notin Stuck
  BY DEF Running, Stuck
<1>3. WholeWaits'
  BY <1>1, <1>2 DEF ResponseInv, WholeWaits
<1>4. BodyIsHanded'
  BY <1>1, <1>2 DEF ResponseInv, BodyIsHanded
<1> QED
  BY <1>3, <1>4 DEF ResponseInv

\* Socket::read() puts a piece at the start of the buffer.
LEMMA OverlayType ==
    ASSUME NEW old \in Seq(Unit), NEW piece \in Seq(Unit)
    PROVE  Client!Overlay(old, piece) \in Seq(Unit)
<1> DEFINE rest == SubSeq(old, Len(piece) + 1, Len(old))
<1>1. Len(old) \in Nat /\ Len(piece) \in Nat
  OBVIOUS
<1>2. rest \in Seq(Unit)
  <2>1. \A i \in (Len(piece) + 1)..Len(old) : i \in 1..Len(old)
    BY <1>1
  <2>2. \A i \in (Len(piece) + 1)..Len(old) : old[i] \in Unit
    BY <2>1, ElementOfSeq
  <2>3. Len(piece) + 1 \in Int /\ Len(old) \in Int
    BY <1>1
  <2> QED
    BY <2>2, <2>3, SubSeqProperties
<1> HIDE DEF rest
<1>3. piece \o rest \in Seq(Unit)
  BY <1>2, ConcatProperties
<1> QED
  BY <1>3 DEF Client!Overlay, rest

LEMMA ReadPieceKeeps ==
    ASSUME RequestInv, Client!ReadPiece
    PROVE  RequestInv'
<1> DEFINE most == Client!Min({Len(stream) - pos, BufferSize})
<1>1. PICK n \in 1..most :
         /\ buf' = Client!Overlay(buf, SubSeq(stream, pos + 1, pos + n))
         /\ pos' = pos + n
  BY DEF Client!ReadPiece
<1>2. /\ Len(stream) \in Nat /\ pos \in Nat /\ Len(stream) - pos \in Nat /\ BufferSize \in Nat
  BY SocketClientAssumption DEF RequestInv, Client!ClientAssumption
<1>3. most = IF Len(stream) - pos <= BufferSize THEN Len(stream) - pos ELSE BufferSize
  BY <1>2, LeastOfTwo
<1> HIDE DEF most
<1>4. n \in Nat /\ n <= Len(stream) - pos
  BY <1>1, <1>2, <1>3
<1>5. pos + n \in 0..Len(stream)
  BY <1>2, <1>4
<1>6. SubSeq(stream, pos + 1, pos + n) \in Seq(Unit)
  <2>1. \A i \in (pos + 1)..(pos + n) : i \in 1..Len(stream)
    BY <1>2, <1>4
  <2>2. \A i \in (pos + 1)..(pos + n) : stream[i] \in Unit
    BY <2>1, ElementOfSeq DEF RequestInv
  <2>3. pos + 1 \in Int /\ pos + n \in Int
    BY <1>2, <1>4
  <2> QED
    BY <2>2, <2>3, SubSeqProperties
<1>7. buf' \in Seq(Unit)
  BY <1>1, <1>6, OverlayType DEF RequestInv
<1>8. call = "read" /\ call' = "build" /\ UNCHANGED <<stream, response, handed>>
  BY DEF Client!ReadPiece
<1>9. ResponseInv'
  BY <1>8, RequestMoves DEF RequestInv, Running
<1> QED
  BY <1>1, <1>5, <1>7, <1>8, <1>9 DEF RequestInv

LEMMA RequestKept ==
    ASSUME RecordsInv, RequestInv, [Next]_vars
    PROVE  RequestInv'
<1>1. ASSUME UNCHANGED <<stream, pos, buf, response, handed>>,
             call' = call \/ (call \in Running /\ call' # "ok")
      PROVE  RequestInv'
  BY <1>1, RequestMoves DEF RequestInv
<1>2. CASE UNCHANGED requestVars
  BY <1>1, <1>2 DEF requestVars
<1>3. CASE Client!BuildPiece
  BY <1>3, BuildPieceKeeps DEF RequestInv, Client!BuildPiece
<1>4. CASE Client!Connect
  BY <1>1, <1>4 DEF Client!Connect, Running
<1>5. CASE PlainStep
  <2>1. CASE Client!WriteRequest
    BY <1>1, <2>1 DEF Client!WriteRequest, Running
  <2>2. CASE Client!ReadPiece
    BY <2>2, ReadPieceKeeps
  <2>3. CASE Client!ReadTimesOut \/ Client!ReadClosed \/ Client!ReadFails
    BY <1>1, <2>3 DEF Client!ReadTimesOut, Client!ReadClosed, Client!ReadFails,
        Client!ReadNothing, Running
  <2> QED
    BY <1>3, <1>4, <1>5, <2>1, <2>2, <2>3 DEF PlainStep, Client!Next, Client!Read
<1>6. CASE ReaderStep
  BY <1>2, <1>6 DEF ReaderStep
<1>7. CASE OwnStep
  <2>1. CASE SecureConnect \/ SecureBuild
    BY <1>3, <1>4, <2>1 DEF SecureConnect, SecureBuild
  <2>2. CASE SecureWrite \/ SecureCall
    BY <1>2, <2>2 DEF SecureWrite, SecureCall
  <2>3. CASE WriteReturns
    BY <1>1, <2>3 DEF WriteReturns, Running
  <2>4. CASE SecureRead
    BY <1>1, <2>4 DEF SecureRead, Running
  <2>5. CASE ReadReturns
    <3>1. /\ UNCHANGED <<stream, pos, response, handed>> /\ buf' = Units(arr)
          /\ call = "reading" /\ call' \in {"ReadFailed", "build"}
      BY <2>5 DEF ReadReturns
    <3>2. ResponseInv'
      BY <3>1, RequestMoves DEF RequestInv, Running
    <3> QED
      BY <3>1, <3>2, UnitsOfArray DEF RequestInv
  <2> QED
    BY <1>7, <2>1, <2>2, <2>3, <2>4, <2>5 DEF OwnStep
<1>8. CASE user = "secure" /\ SecureData /\ UNCHANGED user
  BY <1>2, <1>8 DEF SecureData
<1>9. CASE UNCHANGED vars
  BY <1>2, <1>9 DEF vars
<1> QED
  BY <1>5, <1>6, <1>7, <1>8, <1>9 DEF Next, SecureStep

LEMMA RequestInit == Init => RecordsInv /\ RequestInv
<1> SUFFICES ASSUME Init PROVE RecordsInv /\ RequestInv
  OBVIOUS
<1>1. RecordsInv
  <2>1. received = 0 /\ arr = <<>> /\ d_readBuffer = <<>>
    BY DEF Init, Secure!Init
  <2>2. 0 \in 0..(Records * RecordSize)
    <3>1. Records * RecordSize \in Nat
      BY ConstantFacts
    <3> QED
      BY <3>1
  <2> QED
    BY <2>1, <2>2, EmptySeq DEF RecordsInv
<1>2. /\ call = "connect" /\ pos = 0 /\ buf = <<>> /\ handed = <<>>
      /\ response = [state |-> "WaitingOnHeaders", status |-> FALSE, contentLength |-> 0,
                     body |-> <<>>]
  BY DEF Init, Client!Init
<1>3. stream \in Seq(Unit) /\ Len(stream) \in Nat
  <2>1. PICK n \in 0..Len(Client!Response) : stream = SubSeq(Client!Response, 1, n)
    BY DEF Init, Client!Init
  <2>2. Client!Response \in Seq(Unit)
    BY ResponseIs
  <2>3. stream \in Seq(Unit)
    BY <2>1, <2>2
  <2> QED
    BY <2>3
<1>4. SoundResponse(response)
  BY <1>2, EmptySeq DEF SoundResponse, IsResponse
<1>5. ~Client!HeadersWhole
  BY <1>2 DEF Client!HeadersWhole
<1>6. ResponseInv
  BY <1>2, <1>4, <1>5, EmptySeq DEF ResponseInv, WholeWaits, BodyIsHanded
<1> QED
  BY <1>1, <1>2, <1>3, <1>6, EmptySeq DEF RequestInv

LEMMA RequestAlways == Spec => [](RecordsInv /\ RequestInv)
<1>1. IInv /\ RecordsInv /\ RequestInv /\ [Next]_vars => RecordsInv' /\ RequestInv'
  BY RecordsKept, RequestKept
<1> QED
  BY <1>1, RequestInit, InvAlways, PTL DEF Spec

-----------------------------------------------------------------------------
\* HttpResponse::build(): however a response is cut into pieces and whatever is
\* handed over twice, its body is never longer than its content-length, and a
\* response whose headers came in one piece is not done before the body is as
\* long as the server's.
THEOREM BodyLength == Spec => []BodyHasItsLength
<1>1. RequestInv => BodyHasItsLength
  BY DEF RequestInv, ResponseInv, SoundResponse, WholeWaits, Stuck, BodyHasItsLength,
      Client!BodyHasItsLength
<1> QED
  BY <1>1, RequestAlways, PTL

\* HttpClient::makeReqest() over a Socket and over a SecureSocket: a request
\* that succeeds returns what the server sent, for any body without a blank line
\* and any cuts, when the headers came in one piece and nothing was handed to
\* build() twice.
THEOREM WholeDelivered == Spec => []WholeResponseDelivered
<1>1. ASSUME RequestInv PROVE WholeResponseDelivered
  <2>1. SUFFICES ASSUME call = "ok", Client!HeadersWhole, Client!NothingStale
                 PROVE  response.status /\ response.body = Body
    BY DEF WholeResponseDelivered, Client!WholeResponseDelivered
  <2> DEFINE H == Client!Headers
             R == Client!Response
             body == response.body
             flat == Client!FlattenSeq(handed)
  <2>2. response.status /\ H \o body = flat
    BY <1>1, <2>1 DEF RequestInv, ResponseInv, BodyIsHanded, Stuck
  <2>3. Len(body) = Len(Body) /\ body \in Seq(Unit)
    BY <1>1, <2>1, ResponseTypes DEF RequestInv, ResponseInv, SoundResponse, WholeWaits, Stuck
  <2>4. H \in Seq(Unit) /\ R = H \o Body /\ Body \in Seq(Unit) /\ R \in Seq(Unit)
    BY ResponseFacts, ResponseIs, BodyIsSeq
  <2>5. Client!IsPrefix(H \o body, R)
    BY <2>1, <2>2 DEF Client!NothingStale
  <2> HIDE DEF H, R, body, flat
  <2>6. H \o body \in Seq(Unit) /\ Len(H \o body) = Len(H) + Len(body)
    BY <2>3, <2>4, JoinIs
  <2>7. Len(R) = Len(H) + Len(Body)
    BY <2>4, JoinIs
  <2>8. Len(H \o body) = Len(R)
    BY <2>3, <2>6, <2>7
  <2>9. \A i \in 1..Len(H \o body) : R[i] = (H \o body)[i]
    BY <2>4, <2>5, <2>6, PrefixElements
  <2>10. H \o body = R
    BY <2>4, <2>6, <2>8, <2>9, SeqEqual
  <2>11. body = Body
    BY <2>3, <2>4, <2>10, ConcatSimplifications
  <2> QED
    BY <2>2, <2>11 DEF body
<1> QED
  BY <1>1, RequestAlways, PTL

-----------------------------------------------------------------------------
(***************************************************************************)
(* What is read over TLS is the beginning of the response.                 *)
(***************************************************************************)
\* The first pieces are the beginning of what all of them make.
LEMMA FlattenBegins ==
    ASSUME NEW s \in Seq(Seq(Unit)), NEW k \in 0..Len(s)
    PROVE  \E c \in Seq(Unit) : FlattenSeq(s) = FlattenSeq(SubSeq(s, 1, k)) \o c
<1> DEFINE F(n) == FlattenSeq(SubSeq(s, 1, n))
           T == {n \in k..Len(s) : ~\E c \in Seq(Unit) : F(n) = F(k) \o c}
<1>1. Len(s) \in Nat /\ k \in Nat
  OBVIOUS
<1>2. \A n \in 0..Len(s) : SubSeq(s, 1, n) \in Seq(Seq(Unit))
  BY <1>1
<1>3. \A n \in 0..Len(s) : F(n) \in Seq(Unit)
  BY <1>2, FlattenType
<1>4. ASSUME T # {} PROVE FALSE
  <2>1. PICK n \in T : \A m \in T : n <= m
    <3>1. T \subseteq Nat
      BY <1>1
    <3> QED
      BY <1>4, <3>1, Least
  <2>2. n # k
    <3>1. F(k) = F(k) \o <<>>
      BY <1>3, ConcatEmptySeq
    <3>2. <<>> \in Seq(Unit)
      BY EmptySeq
    <3> QED
      BY <2>1, <3>1, <3>2
  <2>3. n - 1 \in k..Len(s) /\ n \in 1..Len(s) /\ n - 1 \in 0..Len(s)
    BY <1>1, <2>1, <2>2
  <2>4. PICK c \in Seq(Unit) : F(n - 1) = F(k) \o c
    <3>1. n \in Nat /\ ~(n <= n - 1)
      BY <1>1, <2>3
    <3>2. n - 1 \notin T
      BY <2>1, <3>1, Zenon
    <3> QED
      BY <2>3, <3>2
  <2>5. F(n) = F(n - 1) \o s[n]
    <3>1. SubSeq(s, 1, n) = Append(SubSeq(s, 1, n - 1), s[n])
      BY <1>1, <2>3
    <3>2. s[n] \in Seq(Unit) /\ SubSeq(s, 1, n - 1) \in Seq(Seq(Unit))
      BY <1>2, <2>3
    <3> QED
      BY <3>1, <3>2, FlattenAppend
  <2>6. F(k) \in Seq(Unit) /\ s[n] \in Seq(Unit)
    BY <1>3, <2>3
  <2> HIDE DEF F
  <2>7. (F(k) \o c) \o s[n] = F(k) \o (c \o s[n]) /\ c \o s[n] \in Seq(Unit)
    <3>1. c \o s[n] \in Seq(Unit)
      BY <2>6, JoinIs
    <3>2. \A a, b, d \in Seq(Unit) : (a \o b) \o d = a \o (b \o d)
      BY UnitsRegroup
    <3>3. (F(k) \o c) \o s[n] = F(k) \o (c \o s[n])
      BY <2>6, <3>2
    <3> QED
      BY <3>1, <3>3
  <2> QED
    BY <2>1, <2>4, <2>5, <2>7
<1>5. Len(s) \in k..Len(s) /\ SubSeq(s, 1, Len(s)) = s
  BY <1>1, SubSeqFull
<1>6. Len(s) \notin T
  BY <1>4
<1> QED
  BY <1>5, <1>6

LEMMA BeginIsPrefix ==
    ASSUME NEW a \in Seq(Unit), NEW c \in Seq(Unit)
    PROVE  Client!IsPrefix(a, a \o c)
<1> DEFINE t == a \o c
<1>1. /\ t \in Seq(Unit) /\ Len(t) = Len(a) + Len(c)
      /\ \A i \in 1..Len(a) : t[i] = a[i]
  BY JoinIs
<1>2. Len(a) \in Nat /\ Len(c) \in Nat
  OBVIOUS
<1> HIDE DEF t
<1>3. Len(a) <= Len(t)
  BY <1>1, <1>2
<1>4. Client!IsPrefix(a, t)
  BY <1>1, <1>3, PrefixIs
<1> QED
  BY <1>4 DEF t

\* An Array of the first records holds the beginning of the response.
LEMMA FirstRecordsHold ==
    ASSUME NEW k \in Nat, arr = Run(Handshake, k), RecordsInv
    PROVE  Client!IsPrefix(Units(arr), Client!Response)
<1>1. /\ Pieces \in Seq(Seq(Unit)) /\ Len(Pieces) = Records - Handshake
      /\ FlattenSeq(Pieces) = Client!Response
  BY SocketClientAssumption DEF Unit
<1>2. Handshake \in Nat /\ Records \in Nat /\ Len(Pieces) \in Nat
  BY <1>1, ConstantFacts
<1>3. Len(arr) = k /\ DOMAIN arr = 1..k /\ \A i \in 1..k : arr[i] = Handshake + i
  <2>1. arr \in Seq(Nat) /\ Len(arr) = k /\ \A i \in 1..k : arr[i] = Handshake + i
    BY <1>2, RunIsSeq
  <2> QED
    BY <2>1
<1>4. k \in 0..Len(Pieces)
  <2>1. CASE k = 0
    BY <1>2, <2>1
  <2>2. CASE k # 0
    <3>1. k \in 1..k
      BY <2>2
    <3>2. arr[k] \in Numbers
      BY <1>3, <3>1, ElementOfSeq DEF RecordsInv
    <3>3. Handshake + k <= Records
      BY <1>3, <3>1, <3>2 DEF Numbers
    <3> QED
      BY <1>1, <1>2, <3>3
  <2> QED
    BY <2>1, <2>2
<1> DEFINE pieces == [i \in DOMAIN arr |-> Pieces[arr[i] - Handshake]]
           first == SubSeq(Pieces, 1, k)
<1>5. pieces = first
  <2>1. first = [i \in 1..k |-> Pieces[i]]
    <3>1. first = [i \in 1..(k - 1 + 1) |-> Pieces[i + 1 - 1]]
      BY <1>4
    <3> QED
      BY <1>1, <1>4
  <2>2. \A i \in 1..k : arr[i] - Handshake = i
    BY <1>2, <1>3
  <2> QED
    BY <1>3, <2>1, <2>2
<1>6. PICK c \in Seq(Unit) : FlattenSeq(Pieces) = FlattenSeq(first) \o c
  BY <1>1, <1>4, FlattenBegins
<1>7. FlattenSeq(first) \in Seq(Unit)
  <2>1. first \in Seq(Seq(Unit))
    BY <1>1, <1>4
  <2> QED
    BY <2>1, FlattenType
<1> HIDE DEF first, pieces
<1>8. Client!IsPrefix(FlattenSeq(first), Client!Response)
  BY <1>1, <1>6, <1>7, BeginIsPrefix
<1>9. Units(arr) = FlattenSeq(pieces)
  BY DEF Units, pieces
<1> QED
  BY <1>5, <1>8, <1>9

\* The engine has no data before its handshake is over.
LEMMA NoDataInHandshake ==
    ASSUME NEW q \in Nat, q <= Handshake * RecordSize
    PROVE  Secure!DataBetween(0, q) = <<>>
<1>1. /\ Handshake \in Nat /\ RecordSize \in Nat \ {0}
      /\ 0 \div RecordSize \in Nat /\ q \div RecordSize \in Nat /\ 0 \div RecordSize <= q \div RecordSize
  BY ConstantFacts, DivMonotone
<1>2. ~(q \div RecordSize > Handshake)
  BY <1>1, DivAtMost
<1>3. 0 \div RecordSize <= Handshake
  BY <1>1, <1>2
<1>4. First(0) = Handshake /\ First(q) = Handshake
  BY <1>1, <1>2, <1>3 DEF First
<1>5. Secure!DataBetween(0, q) = Run(First(0), First(q) - First(0))
  BY DataIsRun
<1>6. First(q) - First(0) = 0 /\ Run(Handshake, 0) = <<>>
  BY <1>1, <1>4 DEF Run
<1> QED
  BY <1>4, <1>5, <1>6

\* Where a request over TLS is: it has read no data before it has written, reads
\* into an empty Array only, and has what was delivered in its Array.
RequestOverTls ==
    /\ call \in {"connect", "write", "read", "reading", "build", "looping", "threw"} \cup Client!Results
    /\ call \in {"connect", "write"} => received <= Handshake * RecordSize
    /\ pc = "reading" => call = "reading"
    /\ pc \in {"handshake", "handshakeReading"} => call = "write"
    /\ lost = <<>> /\ delivered = arr
    /\ arr # <<>> => d_readBuffer = <<>>
    /\ Client!IsPrefix(buf, Client!Response)

\* A request over a Socket, and the one the reader does not make.
RequestInTheClear ==
    /\ call \in {"connect", "write", "read", "build", "looping", "threw"} \cup Client!Results
    /\ Len(buf) <= BufferSize

RequestTypes ==
    /\ user \in {"plain", "secure", "reader"}
    /\ errno \in Secure!Errnos
    /\ timeouts \in 0..MaxTimeouts
    /\ Client!IsPrefix(stream, Client!Response)
    /\ IF user = "secure" THEN RequestOverTls ELSE RequestInTheClear

SecureTypes ==
    /\ pc \in Secure!Results \cup {"reading", "handshake", "handshakeReading", "send", "threw", "overrun"}
    /\ maxSize \in ArraySizes
    /\ numMoreBytes <= maxSize \/ (pc # "reading" /\ numMoreBytes <= BufferBytes)
    /\ lostArr \in Seq(Numbers) /\ delivered \in Seq(Numbers) /\ lost \in Seq(Numbers)
    /\ open \in BOOLEAN /\ closed \in BOOLEAN
    /\ pc = "reading" => arr = <<>>

-----------------------------------------------------------------------------
LEMMA NumbersJoin ==
    \A a, b \in Seq(Numbers) : a \o b \in Seq(Numbers)
BY ConcatProperties

LEMMA SecureTypesKept ==
    ASSUME IInv, RecordsInv, SecureTypes, [Next]_vars
    PROVE  SecureTypes'
<1>1. numMoreBytes \in Nat /\ maxSize \in Nat /\ BufferBytes \in Nat
  BY ConstantFacts DEF IInv, DataInv, DataTypes, MemoryIsLarge
<1>2. CASE UNCHANGED secureVars
  BY <1>2 DEF secureVars, SecureTypes
<1>3. ASSUME NEW cleared \in BOOLEAN, Secure!CallRead(cleared) PROVE SecureTypes'
  <2>1. /\ UNCHANGED <<lostArr, maxSize, lost, open, closed>>
        /\ delivered' \in {delivered, delivered \o d_readBuffer}
        /\ \/ pc' \in {"overrun", "read", "readAgain"} /\ numMoreBytes' = numMoreBytes
           \/ pc' = "reading" /\ arr' = <<>> /\ numMoreBytes' = maxSize
    BY <1>3 DEF Secure!CallRead, Secure!HandOver
  <2>2. delivered' \in Seq(Numbers)
    <3>1. delivered \in Seq(Numbers) /\ d_readBuffer \in Seq(Numbers)
      BY DEF RecordsInv, SecureTypes
    <3> QED
      BY <2>1, <3>1, NumbersJoin
  <2>3. numMoreBytes' <= maxSize' \/ (pc' # "reading" /\ numMoreBytes' <= BufferBytes)
    BY <1>1, <2>1 DEF SecureTypes
  <2> QED
    BY <2>1, <2>2, <2>3 DEF SecureTypes, Secure!Results
<1>4. CASE Secure!CallWrite
  <2>1. /\ pc' \in {"wrote", "writeFailed", "send", "handshake"} /\ lostArr' \in {lostArr, <<>>}
        /\ UNCHANGED <<numMoreBytes, maxSize, delivered, lost, open, closed>>
    BY <1>4 DEF Secure!CallWrite, Secure!memory
  <2> QED
    BY <1>1, <2>1, EmptySeq DEF SecureTypes, Secure!Results
<1>5. CASE Secure!CallStep
  <2>1. CASE Secure!ReadNothing \/ Secure!Send
    <3>1. /\ pc' \in {"handshake", "send", "read", "readFailed", "wrote", "threw"}
          /\ UNCHANGED <<numMoreBytes, maxSize, lostArr, delivered, lost, open, closed>>
      BY <2>1 DEF Secure!ReadNothing, Secure!Send, Secure!memory
    <3> QED
      BY <1>1, <3>1 DEF SecureTypes, Secure!Results
  <2>2. CASE Secure!HandshakeLoop
    <3>1. /\ pc = "handshake" /\ pc' \in {"handshake", "send", "handshakeReading"}
          /\ numMoreBytes' \in {numMoreBytes, BufferBytes}
          /\ lostArr' \in {lostArr, d_readBuffer} /\ lost' \in {lost, lost \o d_readBuffer}
          /\ UNCHANGED <<maxSize, delivered, open, closed>>
      BY <2>2 DEF Secure!HandshakeLoop, Secure!HandshakeBuffer, Secure!memory
    <3>2. lostArr' \in Seq(Numbers) /\ lost' \in Seq(Numbers)
      <4>1. lostArr \in Seq(Numbers) /\ lost \in Seq(Numbers) /\ d_readBuffer \in Seq(Numbers)
        BY DEF RecordsInv, SecureTypes
      <4>2. lost \o d_readBuffer \in Seq(Numbers)
        BY <4>1, NumbersJoin
      <4> QED
        BY <3>1, <4>1, <4>2
    <3>3. numMoreBytes' <= maxSize' \/ numMoreBytes' <= BufferBytes
      BY <1>1, <3>1 DEF SecureTypes
    <3> QED
      BY <3>1, <3>2, <3>3 DEF SecureTypes
  <2> QED
    BY <1>5, <2>1, <2>2 DEF Secure!CallStep
<1>6. CASE Secure!Close
  <2>1. /\ pc' = "ready" /\ open' = FALSE /\ closed' = (closed \/ Secure!is_active)
        /\ UNCHANGED <<numMoreBytes, maxSize, lostArr, delivered, lost>>
    BY <1>6 DEF Secure!Close, Secure!memory
  <2>2. closed' \in BOOLEAN
    BY <2>1, Zenon
  <2> QED
    BY <1>1, <2>1, <2>2 DEF SecureTypes, Secure!Results
<1>7. CASE Secure!ReadUnits
  <2> DEFINE data(n) == d_readBuffer \o Secure!DataBetween(received, received + n)
             more(n) == Secure!MoreBytes(Secure!NeedsAfter(received + n))
  <2>1. PICK n \in 1..Secure!Min({numMoreBytes, Records * RecordSize - received}) :
          /\ received' = received + n
          /\ numMoreBytes' = more(n)
          /\ lostArr' \in {lostArr, data(n)} /\ lost' \in {lost, lost \o data(n)}
          /\ delivered' \in {delivered, delivered \o data(n)}
          /\ \/ pc' = pc /\ arr' = arr
             \/ pc = "reading" /\ pc' = "read"
             \/ pc # "reading" /\ pc' = "handshake"
    BY <1>7 DEF Secure!ReadUnits
  <2>2. n \in Nat /\ received \in Nat /\ received + n \in Nat /\ received <= received + n
    <3>1. n \in Int /\ 1 <= n
      BY <2>1
    <3> QED
      BY <3>1 DEF IInv, DataInv, DataTypes
  <2>3. received + n <= Records * RecordSize
    <3>1. received' \in 0..(Records * RecordSize)
      BY RecordsKept DEF RecordsInv
    <3>2. Records * RecordSize \in Nat
      BY ConstantFacts
    <3> DEFINE all == Records * RecordSize
    <3> HIDE DEF all
    <3>3. received + n \in 0..all
      BY <2>1, <3>1 DEF all
    <3>4. received + n <= all
      BY <3>2, <3>3 DEF all
    <3> QED
      BY <3>4 DEF all
  <2>4. Secure!DataBetween(received, received + n) \in Seq(Numbers)
    BY <2>2, <2>3, DataNumbers
  <2>5. data(n) \in Seq(Numbers)
    BY <2>4, ConcatProperties DEF RecordsInv
  <2>6. more(n) <= Secure!Capacity
    <3>1. Secure!NeedsAfter(received + n) \in Nat
      BY <2>2, ConstantFacts DEF Secure!NeedsAfter
    <3>2. Secure!Capacity \in Nat
      BY <1>1 DEF Secure!Capacity, Secure!HandshakeBuffer
    <3>3. more(n) = IF Secure!Capacity <= Secure!NeedsAfter(received + n)
                    THEN Secure!Capacity ELSE Secure!NeedsAfter(received + n)
      BY <3>1, <3>2, SecureMinOfTwo DEF Secure!MoreBytes
    <3> HIDE DEF more
    <3> QED
      BY <3>1, <3>2, <3>3
  <2> HIDE DEF data, more
  <2>7. lostArr' \in Seq(Numbers) /\ lost' \in Seq(Numbers) /\ delivered' \in Seq(Numbers)
    <3>1. lostArr \in Seq(Numbers) /\ lost \in Seq(Numbers) /\ delivered \in Seq(Numbers)
      BY DEF SecureTypes
    <3>2. lost \o data(n) \in Seq(Numbers) /\ delivered \o data(n) \in Seq(Numbers)
      BY <2>5, <3>1, NumbersJoin
    <3> QED
      BY <2>1, <2>5, <3>1, <3>2
  <2>8. UNCHANGED <<maxSize, open, closed>>
    BY <1>7 DEF Secure!ReadUnits
  <2>9. numMoreBytes' <= maxSize' \/ (pc' # "reading" /\ numMoreBytes' <= BufferBytes)
    <3>1. CASE pc = "reading"
      BY <2>1, <2>6, <2>8, <3>1 DEF Secure!Capacity
    <3>2. CASE pc # "reading"
      BY <2>1, <2>6, <2>8, <3>2 DEF Secure!Capacity, Secure!HandshakeBuffer
    <3> QED
      BY <3>1, <3>2
  <2>10. pc' \in Secure!Results \cup {"reading", "handshake", "handshakeReading", "send", "threw", "overrun"}
    BY <2>1 DEF SecureTypes, Secure!Results
  <2>11. pc' = "reading" => arr' = <<>>
    BY <2>1 DEF SecureTypes
  <2> QED
    BY <2>7, <2>8, <2>9, <2>10, <2>11 DEF SecureTypes
<1>8. CASE Next
  BY <1>2, <1>3, <1>4, <1>5, <1>6, <1>7, <1>8, StepOfSecure
<1>9. CASE UNCHANGED vars
  BY <1>2, <1>9 DEF vars
<1> QED
  BY <1>8, <1>9

\* Nothing is decrypted, so nothing is anywhere, while a request is written.
LEMMA NothingYet ==
    ASSUME DataInv, received <= Handshake * RecordSize
    PROVE  lost = <<>> /\ delivered = <<>> /\ d_readBuffer = <<>>
<1>1. lost \in Seq(Nat) /\ delivered \in Seq(Nat) /\ d_readBuffer \in Seq(Nat)
  BY DEF DataInv, DataTypes
<1>2. lost \o delivered \o d_readBuffer = <<>>
  BY NoDataInHandshake DEF DataInv, DataTypes, DataIsConserved, Secure!DataIsConserved
<1>3. lost \o delivered \in Seq(Nat) /\ d_readBuffer = <<>> /\ lost \o delivered = <<>>
  BY <1>1, <1>2, SeqJoin
<1> QED
  BY <1>1, <1>3, SeqJoin

\* What the Array holds over TLS is the beginning of the response.
LEMMA ArrayBegins ==
    ASSUME DataInv, RecordsInv, RequestOverTls
    PROVE  Client!IsPrefix(Units(arr), Client!Response)
<1>1. /\ Handshake \in Nat /\ RecordSize \in Nat \ {0} /\ received \in Nat
      /\ delivered \in Seq(Nat) /\ d_readBuffer \in Seq(Nat)
  BY ConstantFacts DEF DataInv, DataTypes
<1>2. delivered \o d_readBuffer = Secure!DataBetween(0, received)
  <2>1. <<>> \o delivered \o d_readBuffer = Secure!DataBetween(0, received)
    BY DEF DataInv, DataIsConserved, Secure!DataIsConserved, RequestOverTls
  <2> QED
    BY <1>1, <2>1, SeqJoin
<1>3. First(0) = Handshake
  <2>1. 0 \div RecordSize = 0
    BY <1>1
  <2> QED
    BY <1>1, <2>1 DEF First
<1>4. /\ First(received) - Handshake \in Nat
      /\ Secure!DataBetween(0, received) = Run(Handshake, First(received) - Handshake)
  <2>1. 0 \in Nat /\ 0 <= received
    BY <1>1
  <2>2. /\ First(0) \in Nat /\ First(received) \in Nat /\ First(0) <= First(received)
        /\ Secure!DataBetween(0, received) = Run(First(0), First(received) - First(0))
    BY <1>1, <2>1, DataIsRun
  <2> QED
    BY <1>1, <1>3, <2>2
<1>5. CASE arr = <<>>
  <2>1. arr = Run(Handshake, 0)
    BY <1>5 DEF Run
  <2> QED
    BY <2>1, FirstRecordsHold
<1>6. CASE arr # <<>>
  <2>1. arr = delivered /\ d_readBuffer = <<>>
    BY <1>6 DEF RequestOverTls
  <2>2. arr = Run(Handshake, First(received) - Handshake)
    BY <1>1, <1>2, <1>4, <2>1, SeqJoin
  <2> QED
    BY <1>4, <2>2, FirstRecordsHold
<1> QED
  BY <1>5, <1>6

-----------------------------------------------------------------------------
\* build() moves a request on or ends it.
LEMMA BuildMoves ==
    ASSUME Client!BuildPiece
    PROVE  /\ call = "build" /\ call' \in {"looping", "threw", "read", "ok"}
           /\ UNCHANGED <<stream, errno, buf, timeouts>>
BY DEF Client!BuildPiece

\* A piece put at the start of the buffer makes it no longer than both were.
LEMMA OverlayLength ==
    ASSUME NEW old \in Seq(Unit), NEW piece \in Seq(Unit)
    PROVE  Len(Client!Overlay(old, piece)) = IF Len(piece) < Len(old) THEN Len(old) ELSE Len(piece)
<1> DEFINE rest == SubSeq(old, Len(piece) + 1, Len(old))
<1>1. Len(old) \in Nat /\ Len(piece) \in Nat
  OBVIOUS
<1>2. rest \in Seq(Unit) /\ Len(rest) = IF Len(piece) + 1 <= Len(old) THEN Len(old) - (Len(piece) + 1) + 1 ELSE 0
  <2>1. \A i \in (Len(piece) + 1)..Len(old) : i \in 1..Len(old)
    BY <1>1
  <2>2. \A i \in (Len(piece) + 1)..Len(old) : old[i] \in Unit
    BY <2>1, ElementOfSeq
  <2>3. Len(piece) + 1 \in Int /\ Len(old) \in Int
    BY <1>1
  <2> QED
    BY <2>2, <2>3, SubSeqProperties
<1> HIDE DEF rest
<1>3. Len(piece \o rest) = Len(piece) + Len(rest)
  BY <1>2, ConcatProperties
<1>4. \A m, n \in Nat : m + (IF m + 1 <= n THEN n - (m + 1) + 1 ELSE 0) = IF m < n THEN n ELSE m
  OBVIOUS
<1> QED
  BY <1>1, <1>2, <1>3, <1>4 DEF Client!Overlay, rest

LEMMA PieceFitsBuffer ==
    ASSUME RequestInv, RequestInTheClear, Client!ReadPiece
    PROVE  Len(buf') <= BufferSize
<1> DEFINE most == Client!Min({Len(stream) - pos, BufferSize})
<1>1. PICK n \in 1..most : buf' = Client!Overlay(buf, SubSeq(stream, pos + 1, pos + n))
  BY DEF Client!ReadPiece
<1>2. /\ stream \in Seq(Unit) /\ buf \in Seq(Unit) /\ Len(stream) \in Nat /\ Len(buf) \in Nat
      /\ pos \in Nat /\ Len(stream) - pos \in Nat /\ BufferSize \in Nat
  BY SocketClientAssumption DEF RequestInv, Client!ClientAssumption
<1>3. most = IF Len(stream) - pos <= BufferSize THEN Len(stream) - pos ELSE BufferSize
  BY <1>2, LeastOfTwo
<1> HIDE DEF most
<1>4. n \in Nat /\ n <= Len(stream) - pos /\ n <= BufferSize
  BY <1>1, <1>2, <1>3
<1> DEFINE piece == SubSeq(stream, pos + 1, pos + n)
<1>5. piece \in Seq(Unit) /\ Len(piece) = n
  <2> DEFINE from == pos + 1
             to == pos + n
  <2>1. from = pos + 1 /\ to = pos + n /\ piece = SubSeq(stream, from, to)
    OBVIOUS
  <2> HIDE DEF from, to, piece
  <2>2. from \in Int /\ to \in Int /\ (IF from <= to THEN to - from + 1 ELSE 0) = n
    BY <1>2, <1>4, <2>1
  <2>3. \A i \in from..to : i \in 1..Len(stream)
    BY <1>2, <1>4, <2>1
  <2>4. \A i \in from..to : stream[i] \in Unit
    BY <1>2, <2>3, ElementOfSeq
  <2>5. /\ SubSeq(stream, from, to) \in Seq(Unit)
        /\ Len(SubSeq(stream, from, to)) = IF from <= to THEN to - from + 1 ELSE 0
    BY <2>2, <2>4, SubSeqProperties
  <2> QED
    BY <2>1, <2>2, <2>5, Zenon
<1> HIDE DEF piece
<1>6. Len(buf') = IF Len(piece) < Len(buf) THEN Len(buf) ELSE Len(piece)
  BY <1>1, <1>2, <1>5, OverlayLength DEF piece
<1> QED
  BY <1>4, <1>5, <1>6 DEF RequestInTheClear

LEMMA PlainTypesKept ==
    ASSUME RequestInv, RequestTypes, PlainStep
    PROVE  RequestTypes'
<1>1. user = "plain" /\ user' = user /\ RequestInTheClear
  BY DEF PlainStep, RequestTypes
<1>2. CASE Client!Connect \/ Client!WriteRequest \/ Client!ReadClosed \/ Client!ReadFails
  <2>1. /\ call' \in {"write", "HostNotFound", "read", "WriteFailed", "ReadFailed", "build"}
        /\ UNCHANGED <<stream, errno, buf, timeouts>>
    BY <1>2 DEF Client!Connect, Client!WriteRequest, Client!ReadClosed, Client!ReadFails, Client!ReadNothing
  <2> QED
    BY <1>1, <2>1 DEF RequestTypes, RequestInTheClear, Client!Results
<1>3. CASE Client!ReadTimesOut
  <2>1. /\ call' \in {"ReadFailed", "build"} /\ timeouts < MaxTimeouts /\ timeouts' = timeouts + 1
        /\ UNCHANGED <<stream, errno, buf>>
    BY <1>3 DEF Client!ReadTimesOut, Client!ReadNothing
  <2>2. timeouts' \in 0..MaxTimeouts
    BY <2>1, SocketClientAssumption DEF RequestTypes, Client!ClientAssumption
  <2> QED
    BY <1>1, <2>1, <2>2 DEF RequestTypes, RequestInTheClear, Client!Results
<1>4. CASE Client!ReadPiece
  <2>1. call' = "build" /\ UNCHANGED <<stream, errno, timeouts>>
    BY <1>4 DEF Client!ReadPiece
  <2>2. Len(buf') <= BufferSize
    BY <1>1, <1>4, PieceFitsBuffer
  <2> QED
    BY <1>1, <2>1, <2>2 DEF RequestTypes, RequestInTheClear
<1>5. CASE Client!BuildPiece
  BY <1>1, <1>5, BuildMoves DEF RequestTypes, RequestInTheClear, Client!Results
<1> QED
  BY <1>2, <1>3, <1>4, <1>5 DEF PlainStep, Client!Next, Client!Read

LEMMA TlsTypesKept ==
    ASSUME IInv, IInv', RecordsInv, RequestInv, SecureTypes, RequestTypes, user = "secure", SecureStep
    PROVE  RequestTypes'
<1>1. RequestOverTls /\ user' = user
  BY DEF RequestTypes, SecureStep, OwnStep
<1>2. SUFFICES RequestOverTls' /\ UNCHANGED <<errno, timeouts, stream>>
  BY <1>1 DEF RequestTypes
<1>3. CASE SecureConnect
  <2>1. /\ call = "connect" /\ call' \in {"write", "HostNotFound"}
        /\ UNCHANGED <<errno, timeouts, stream, buf, secureVars>>
    BY <1>3 DEF SecureConnect, Client!Connect
  <2> QED
    BY <1>1, <2>1 DEF RequestOverTls, secureVars, Client!Results
<1>4. CASE SecureWrite
  <2>1. /\ call = "write" /\ pc' \in {"wrote", "writeFailed", "send", "handshake"}
        /\ UNCHANGED <<errno, timeouts, stream, call, buf, received, lost, delivered, arr, d_readBuffer>>
    BY <1>4 DEF SecureWrite, Secure!CallWrite, requestVars
  <2> QED
    BY <1>1, <2>1 DEF RequestOverTls
<1>5. CASE WriteReturns
  <2>1. /\ pc \in {"wrote", "threw"} /\ call' \in {"read", "threw"}
        /\ UNCHANGED <<errno, timeouts, stream, buf, secureVars>>
    BY <1>5 DEF WriteReturns
  <2> QED
    BY <1>1, <2>1 DEF RequestOverTls, secureVars
<1>6. CASE SecureRead
  <2>1. /\ call' = "reading" /\ UNCHANGED <<errno, timeouts, stream, buf, received, lost>>
        /\ pc' \in {"read", "readAgain", "reading"}
        /\ \/ /\ d_readBuffer # <<>> /\ d_readBuffer' = <<>>
              /\ arr' = d_readBuffer /\ delivered' = delivered \o d_readBuffer
           \/ UNCHANGED <<arr, delivered, d_readBuffer>>
    BY <1>6 DEF SecureRead, ReadCleared, Secure!CallRead, Secure!HandOver
  <2>2. d_readBuffer # <<>> => delivered \o d_readBuffer = d_readBuffer
    <3>1. d_readBuffer # <<>> => delivered = <<>>
      BY <1>1 DEF RequestOverTls
    <3> QED
      BY <3>1, ConcatEmptySeq DEF RecordsInv
  <2> QED
    BY <1>1, <2>1, <2>2 DEF RequestOverTls
<1>7. CASE ReadReturns
  <2>1. /\ call = "reading" /\ pc \in {"read", "readAgain", "readFailed"} /\ call' \in {"ReadFailed", "build"}
        /\ buf' = Units(arr) /\ UNCHANGED <<errno, timeouts, stream, secureVars>>
    BY <1>7 DEF ReadReturns
  <2>2. Client!IsPrefix(buf', Client!Response)
    BY <1>1, <2>1, ArrayBegins DEF IInv
  <2> QED
    BY <1>1, <2>1, <2>2 DEF RequestOverTls, secureVars, Client!Results
<1>8. CASE SecureBuild
  BY <1>1, <1>8, BuildMoves DEF SecureBuild, RequestOverTls, secureVars, Client!Results
<1>9. CASE SecureCall
  <2>1. UNCHANGED <<errno, timeouts, stream, call, buf, received, delivered, arr>>
    BY <1>9 DEF SecureCall, requestVars, Secure!CallStep, Secure!ReadNothing, Secure!HandshakeLoop, Secure!Send
  <2>2. pc \in {"handshake", "handshakeReading"} => d_readBuffer = <<>>
    BY <1>1, NothingYet DEF RequestOverTls, IInv
  <2>3. UNCHANGED <<lost, d_readBuffer>>
    BY <1>9, <2>2 DEF SecureCall, Secure!CallStep, Secure!ReadNothing, Secure!HandshakeLoop, Secure!Send
  <2>4. /\ pc' # "reading"
        /\ pc' \in {"handshake", "handshakeReading"} => pc \in {"handshake", "handshakeReading"}
    BY <1>9 DEF SecureCall, Secure!CallStep, Secure!ReadNothing, Secure!HandshakeLoop, Secure!Send
  <2> QED
    BY <1>1, <2>1, <2>3, <2>4 DEF RequestOverTls
<1>10. CASE SecureData
  <2>1. /\ call \in {"write", "reading"} /\ pc \in {"reading", "handshakeReading"}
        /\ call = "write" => received' <= Handshake * RecordSize
        /\ UNCHANGED <<errno, timeouts, stream, call, buf>>
    BY <1>10 DEF SecureData, Secure!ReadUnits, requestVars
  <2>2. CASE call = "write"
    <3>1. lost' = <<>> /\ delivered' = <<>> /\ d_readBuffer' = <<>>
      <4>1. DataInv' /\ received' <= Handshake * RecordSize
        BY <2>1, <2>2 DEF IInv
      <4>2. DataInv' /\ (received <= Handshake * RecordSize)' =>
               (lost = <<>> /\ delivered = <<>> /\ d_readBuffer = <<>>)'
        BY NothingYet, PTL
      <4> QED
        BY <4>1, <4>2
    <3>2. delivered = <<>> /\ arr = <<>> /\ pc = "handshakeReading"
      BY <1>1, <2>1, <2>2, NothingYet DEF RequestOverTls, IInv
    <3>3. arr' = arr /\ pc' \in {pc, "handshake"}
      BY <1>10, <3>2 DEF SecureData, Secure!ReadUnits
    <3> QED
      BY <1>1, <2>1, <2>2, <3>1, <3>2, <3>3 DEF RequestOverTls
  <2>3. CASE call = "reading"
    <3>1. pc = "reading" /\ arr = <<>> /\ delivered = <<>>
      BY <1>1, <2>1, <2>3 DEF RequestOverTls, SecureTypes
    <3>2. /\ lost' = lost /\ pc' \in {"reading", "read"}
          /\ \/ UNCHANGED <<arr, delivered>>
             \/ d_readBuffer' = <<>> /\ \E data : arr' = data /\ delivered' = <<>> \o data
      BY <1>10, <3>1 DEF SecureData, Secure!ReadUnits
    <3>3. delivered' = arr' /\ (arr' # <<>> => d_readBuffer' = <<>>)
      <4>1. CASE UNCHANGED <<arr, delivered>>
        BY <3>1, <4>1
      <4>2. CASE d_readBuffer' = <<>> /\ delivered' = <<>> \o arr'
        BY <4>2, ConcatEmptySeq, RecordsKept DEF RecordsInv
      <4> QED
        BY <3>2, <4>1, <4>2
    <3> QED
      BY <1>1, <2>1, <2>3, <3>2, <3>3 DEF RequestOverTls
  <2> QED
    BY <2>1, <2>2, <2>3
<1> QED
  BY <1>3, <1>4, <1>5, <1>6, <1>7, <1>8, <1>9, <1>10 DEF SecureStep, OwnStep

LEMMA TypesInit == Init => SecureTypes /\ RequestTypes
<1> SUFFICES ASSUME Init PROVE SecureTypes /\ RequestTypes
  OBVIOUS
<1>1. /\ user \in {"plain", "secure", "reader"} /\ call = "connect" /\ errno \in Secure!Errnos
      /\ buf = <<>> /\ timeouts = 0 /\ received = 0 /\ numMoreBytes = 0 /\ pc = "ready"
      /\ arr = <<>> /\ lostArr = <<>> /\ d_readBuffer = <<>> /\ delivered = <<>> /\ lost = <<>>
      /\ maxSize \in ArraySizes /\ open = TRUE /\ closed = FALSE
  BY DEF Init, Client!Init, Secure!Init
<1>2. Client!IsPrefix(stream, Client!Response)
  <2>1. PICK n \in 0..Len(Client!Response) : stream = SubSeq(Client!Response, 1, n)
    BY DEF Init, Client!Init
  <2> DEFINE R == Client!Response
  <2>2. R \in Seq(Unit)
    BY ResponseIs
  <2> HIDE DEF R
  <2>3. /\ stream \in Seq(Unit) /\ Len(stream) = n /\ Len(R) \in Nat
        /\ \A i \in 1..n : R[i] = stream[i]
    BY <2>1, <2>2 DEF R
  <2>4. Len(stream) <= Len(R)
    BY <2>1, <2>3 DEF R
  <2> QED
    BY <2>2, <2>3, <2>4, PrefixIs DEF R
<1>3. Client!IsPrefix(<<>>, Client!Response)
  <2>1. <<>> \in Seq(Unit) /\ Client!Response \in Seq(Unit) /\ <<>> \o Client!Response = Client!Response
    BY ResponseIs, EmptySeq, ConcatEmptySeq
  <2> QED
    BY <2>1, BeginIsPrefix
<1>4. 0 <= Handshake * RecordSize /\ 0 <= maxSize /\ 0 <= BufferSize /\ 0 \in 0..MaxTimeouts
  BY <1>1, ConstantFacts, SocketClientAssumption DEF Client!ClientAssumption
<1>5. SecureTypes
  BY <1>1, <1>4, EmptySeq DEF SecureTypes, Secure!Results
<1>6. RequestOverTls
  BY <1>1, <1>3, <1>4 DEF RequestOverTls
<1>7. RequestInTheClear
  BY <1>1, <1>4 DEF RequestInTheClear
<1> QED
  BY <1>1, <1>2, <1>4, <1>5, <1>6, <1>7 DEF RequestTypes

WholeInv == RecordsInv /\ RequestInv /\ IInv /\ SecureTypes /\ RequestTypes

LEMMA TypesKept ==
    ASSUME WholeInv, RecordsInv', RequestInv', IInv', [Next]_vars
    PROVE  SecureTypes' /\ RequestTypes'
<1> USE DEF WholeInv
<1>1. SecureTypes'
  BY SecureTypesKept
<1>2. CASE PlainStep
  BY <1>1, <1>2, PlainTypesKept
<1>3. CASE ReaderStep
  <2>1. /\ user = "reader" /\ user' = user
        /\ UNCHANGED <<errno, timeouts, stream, call, buf>>
    BY <1>3 DEF ReaderStep, requestVars, Secure!Next, Secure!CallRead, Secure!CallWrite,
        Secure!Close, Secure!CallStep, Secure!ReadNothing, Secure!HandshakeLoop, Secure!Send, Secure!ReadUnits
  <2> QED
    BY <1>1, <2>1 DEF RequestTypes, RequestInTheClear
<1>4. CASE SecureStep
  <2>1. user = "secure"
    BY <1>4 DEF SecureStep, OwnStep
  <2> QED
    BY <1>1, <1>4, <2>1, TlsTypesKept
<1>5. CASE UNCHANGED vars
  BY <1>1, <1>5 DEF vars, requestVars, secureVars, RequestTypes, RequestInTheClear, RequestOverTls
<1> QED
  BY <1>1, <1>2, <1>3, <1>4, <1>5 DEF Next

LEMMA TypesAlways == Spec => []WholeInv
<1>1. Spec => [](RecordsInv /\ RequestInv /\ IInv)
  BY RequestAlways, InvAlways, PTL
<1>2. WholeInv /\ (RecordsInv /\ RequestInv /\ IInv)' /\ [Next]_vars => SecureTypes' /\ RequestTypes'
  BY TypesKept
<1> QED
  BY <1>1, <1>2, TypesInit, PTL DEF Spec, WholeInv

\* Over either kind of connection, and for the reader: what is read is the beginning
\* of the response or, over a Socket, units of it that fit the buffer; the Arrays of
\* SecureSocket hold numbers of records of application data and no more is asked for
\* than an Array is made for.
THEOREM TypeCorrect == Spec => []TypeOK
<1>1. ASSUME WholeInv PROVE TypeOK
  <2>1. numMoreBytes \in 0..Secure!Max({maxSize, Secure!HandshakeBuffer})
    <3>1. numMoreBytes \in Nat /\ maxSize \in Nat /\ BufferBytes \in Nat
      BY <1>1, ConstantFacts DEF WholeInv, IInv, DataInv, DataTypes, MemoryIsLarge
    <3>2. Secure!Max({maxSize, BufferBytes}) = IF maxSize >= BufferBytes THEN maxSize ELSE BufferBytes
      BY <3>1, MaxOfTwo
    <3> QED
      BY <1>1, <3>1, <3>2 DEF WholeInv, SecureTypes, Secure!HandshakeBuffer
  <2>2. pc = "reading" => numMoreBytes <= maxSize
    BY <1>1 DEF WholeInv, SecureTypes
  <2>3. room \in Nat \ {0} /\ capacity \in Nat \ {0}
    BY <1>1, ConstantFacts DEF WholeInv, IInv, DataInv, MemoryIsLarge
  <2>4. Secure!TypeOK
    BY <1>1, <2>1, <2>2, <2>3 DEF WholeInv, SecureTypes, RequestTypes, RecordsInv, Numbers, Secure!TypeOK
  <2>5. CASE user = "secure"
    BY <1>1, <2>4, <2>5 DEF WholeInv, TypeOK, RequestTypes, RequestOverTls, IsPrefix, Client!IsPrefix
  <2>6. CASE user # "secure"
    <3>1. /\ response.state \in {"WaitingOnHeaders", "WaitingOnBody", "Complete"}
          /\ response.status \in BOOLEAN
          /\ response.contentLength \in {0, Len(Body)}
          /\ response.body \in Seq(Unit)
      BY <1>1 DEF WholeInv, RequestInv, ResponseInv, SoundResponse, IsResponse
    <3>2. Client!TypeOK
      BY <1>1, <2>6, <3>1 DEF WholeInv, RequestTypes, RequestInTheClear, RequestInv, Secure!Errnos, Unit, Client!TypeOK
    <3> QED
      BY <1>1, <2>4, <2>6, <3>2 DEF WholeInv, TypeOK, RequestTypes
  <2> QED
    BY <2>5, <2>6
<1> QED
  BY <1>1, TypesAlways, PTL

-----------------------------------------------------------------------------
(***************************************************************************)
(* A SecureSocket implements Pipe.  What the mapping needs beside the      *)
(* invariant is that handshake() begins its reads before anything has been *)
(* decrypted (DropsOnce), and that the connection holds no more units than *)
(* its records have.                                                       *)
(***************************************************************************)
DropsOnce == pc = "handshakeReading" => lost = <<>>

PipeInv ==
    /\ DataInv
    /\ DropsOnce
    /\ received <= Records * RecordSize

\* The data of one stretch of the connection is a part of all the data.
LEMMA PartOfData ==
    ASSUME NEW p \in Nat, NEW q \in Nat, p <= q, q <= Records * RecordSize
    PROVE  /\ Len(Secure!DataBetween(0, p)) \in Nat
           /\ Len(Secure!DataBetween(0, q)) \in Len(Secure!DataBetween(0, p))..Len(Data)
           /\ SubSeq(Data, Len(Secure!DataBetween(0, p)) + 1, Len(Secure!DataBetween(0, q)))
                = Secure!DataBetween(p, q)
<1> DEFINE N == Records * RecordSize
           a == First(p) - First(0)
           b == First(q) - First(0)
           c == First(N) - First(0)
<1>1. N \in Nat
  BY ConstantFacts
<1>2. /\ First(0) \in Nat /\ First(p) \in Nat /\ First(q) \in Nat /\ First(N) \in Nat
      /\ First(0) <= First(p) /\ First(p) <= First(q) /\ First(q) <= First(N)
      /\ Secure!DataBetween(0, p) = Run(First(0), a)
      /\ Secure!DataBetween(0, q) = Run(First(0), b)
      /\ Secure!DataBetween(p, q) = Run(First(p), First(q) - First(p))
      /\ Data = Run(First(0), c)
  <2> HIDE DEF N
  <2>1. Data = Secure!DataBetween(0, N)
    BY DEF Data, N
  <2>2. q <= N
    BY DEF N
  <2> QED
    BY <1>1, <2>1, <2>2, DataIsRun
<1>3. /\ a \in Nat /\ b \in Nat /\ c \in Nat /\ a <= b /\ b <= c
      /\ First(q) - First(p) = b - a /\ First(p) = First(0) + a
  BY <1>2
<1> HIDE DEF a, b, c, N
<1>4. /\ Len(Secure!DataBetween(0, p)) = a /\ Len(Secure!DataBetween(0, q)) = b /\ Len(Data) = c
      /\ Data \in Seq(Nat) /\ \A i \in 1..c : Data[i] = First(0) + i
  <2>1. Len(Run(First(0), a)) = a
    BY <1>2, <1>3, RunIsSeq
  <2>2. Len(Run(First(0), b)) = b
    BY <1>2, <1>3, RunIsSeq
  <2>3. /\ Run(First(0), c) \in Seq(Nat) /\ Len(Run(First(0), c)) = c
        /\ \A i \in 1..c : Run(First(0), c)[i] = First(0) + i
    BY <1>2, <1>3, RunIsSeq
  <2> QED
    BY <1>2, <2>1, <2>2, <2>3, Zenon
<1>5. SubSeq(Data, a + 1, b) = Run(First(0) + a, b - a)
  <2>1. SubSeq(Data, a + 1, b) = [i \in 1..(b - a) |-> Data[a + i]]
    <3>1. SubSeq(Data, a + 1, b) = [i \in 1..(b - (a + 1) + 1) |-> Data[i + (a + 1) - 1]]
      BY <1>3, <1>4
    <3>2. b - (a + 1) + 1 = b - a /\ \A i \in 1..(b - a) : i + (a + 1) - 1 = a + i
      BY <1>3
    <3> QED
      BY <3>1, <3>2
  <2>2. ASSUME NEW i \in 1..(b - a) PROVE Data[a + i] = First(0) + a + i
    <3>1. a + i \in 1..c /\ First(0) + (a + i) = First(0) + a + i
      BY <1>2, <1>3
    <3> QED
      BY <1>4, <3>1
  <2> QED
    BY <2>1, <2>2 DEF Run
<1>6. Secure!DataBetween(p, q) = Run(First(0) + a, b - a)
  BY <1>2, <1>3, Zenon
<1> QED
  BY <1>3, <1>4, <1>5, <1>6

\* What handshake() still finds to drop: nothing, while the engine is not active.
LEMMA NothingBeforeActive ==
    ASSUME DataInv, ~Secure!is_active
    PROVE  d_readBuffer = <<>> /\ lost = <<>> /\ delivered = <<>>
<1>1. received < Handshake * RecordSize
  BY ConstantFacts DEF Secure!is_active, DataInv, DataTypes
<1>2. lost \o delivered \o d_readBuffer = <<>>
  BY <1>1, NoDataBeforeActive DEF DataInv, DataTypes, DataIsConserved, Secure!DataIsConserved
<1> QED
  BY <1>2, SeqJoin DEF DataInv, DataTypes

\* Reading what waits delivers it; the other reads leave the pipe alone.
LEMMA CallReadMaps ==
    ASSUME PipeInv, NEW cleared \in BOOLEAN, Secure!CallRead(cleared)
    PROVE  [DataPipe!Next]_(DataPipe!vars) /\ received' = received /\ DropsOnce'
<1>1. received' = received /\ lost' = lost
  BY DEF Secure!CallRead
<1>2. CASE ~(cleared /\ Secure!ClearOverruns) /\ d_readBuffer # <<>>
  <2>1. /\ delivered' = delivered \o d_readBuffer /\ d_readBuffer' = <<>> /\ pc' = "read"
    BY <1>2 DEF Secure!CallRead, Secure!HandOver
  <2> DEFINE a == Len(Secure!DataBetween(0, received))
  <2>2. a \in a..Len(Data) /\ SubSeq(Data, a + 1, a) = <<>>
    <3>1. /\ a \in Nat /\ a \in a..Len(Data)
          /\ SubSeq(Data, a + 1, a) = Secure!DataBetween(received, received)
      BY PartOfData DEF PipeInv, DataInv, DataTypes
    <3>2. Secure!DataBetween(received, received) = <<>>
      BY DataIsRun DEF Run, PipeInv, DataInv, DataTypes
    <3> QED
      BY <3>1, <3>2
  <2>3. DataPipe!WaitingAt(a) = d_readBuffer
    BY <2>2, SeqJoin DEF DataPipe!WaitingAt, PipeInv, DataInv, DataTypes
  <2>4. DataPipe!Deliver(a)
    BY <1>1, <2>1, <2>3 DEF DataPipe!Deliver
  <2>5. a' = a
    BY <1>1 DEF Secure!DataBetween
  <2>6. DataPipe!Next
    BY <2>2, <2>4, <2>5 DEF DataPipe!Next
  <2> QED
    BY <1>1, <2>1, <2>6 DEF DropsOnce
<1>3. CASE (cleared /\ Secure!ClearOverruns) \/ d_readBuffer = <<>>
  <2>1. UNCHANGED <<delivered, d_readBuffer>> /\ pc' # "handshakeReading"
    BY <1>3 DEF Secure!CallRead
  <2>2. UNCHANGED DataPipe!vars
    BY <1>1, <2>1 DEF DataPipe!vars, Secure!DataBetween
  <2> QED
    BY <1>1, <2>1, <2>2 DEF DropsOnce
<1> QED
  BY <1>2, <1>3

\* write(), close(), a poll that times out, and what handshake() does between its
\* reads leave the pipe alone.
LEMMA OtherCallsMap ==
    ASSUME PipeInv, Secure!CallWrite \/ Secure!CallStep \/ Secure!Close
    PROVE  UNCHANGED DataPipe!vars /\ received' = received /\ DropsOnce'
<1>1. received' = received
  BY DEF Secure!CallWrite, Secure!CallStep, Secure!Close, Secure!ReadNothing, Secure!HandshakeLoop,
      Secure!Send
<1>2. UNCHANGED <<delivered, d_readBuffer, lost>> /\ DropsOnce'
  <2>1. CASE Secure!CallWrite \/ Secure!Close \/ Secure!ReadNothing \/ Secure!Send
    BY <2>1 DEF Secure!CallWrite, Secure!Close, Secure!ReadNothing, Secure!Send, DropsOnce
  <2>2. CASE Secure!HandshakeLoop /\ Secure!is_active
    BY <2>2 DEF Secure!HandshakeLoop, DropsOnce
  <2>3. CASE Secure!HandshakeLoop /\ ~Secure!is_active
    <3>1. d_readBuffer = <<>> /\ lost = <<>>
      BY <2>3, NothingBeforeActive DEF PipeInv
    <3> QED
      BY <2>3, <3>1 DEF Secure!HandshakeLoop, DropsOnce
  <2> QED
    BY <2>1, <2>2, <2>3 DEF Secure!CallStep
<1> QED
  BY <1>1, <1>2 DEF DataPipe!vars, Secure!DataBetween

\* Units that come in make the records they end arrive: the data is kept, delivered
\* by read(), or dropped by handshake().
LEMMA ReadUnitsMaps ==
    ASSUME PipeInv, Secure!ReadUnits
    PROVE  DataPipe!Next /\ received' <= Records * RecordSize /\ DropsOnce'
<1> DEFINE data == d_readBuffer \o Secure!DataBetween(received, received')
           a == Len(Secure!DataBetween(0, received))
           b == Len(Secure!DataBetween(0, received'))
<1>1. /\ received \in Nat /\ delivered \in Seq(Nat) /\ lost \in Seq(Nat)
      /\ d_readBuffer \in Seq(Nat) /\ received <= Records * RecordSize
  BY DEF PipeInv, DataInv, DataTypes
<1>2. /\ received' \in Nat /\ received <= received' /\ received' <= Records * RecordSize
      /\ pc \in {"reading", "handshakeReading"}
      /\ \/ d_readBuffer' = data /\ UNCHANGED <<pc, delivered, lost>>
         \/ /\ d_readBuffer' = <<>> /\ pc = "reading" /\ pc' = "read"
            /\ delivered' = delivered \o data /\ lost' = lost
         \/ /\ d_readBuffer' = <<>> /\ pc = "handshakeReading" /\ pc' = "handshake"
            /\ delivered' = delivered /\ lost' = lost \o data
  <2>1. PICK n \in 1..Secure!Min({numMoreBytes, Records * RecordSize - received}) :
          /\ received' = received + n
          /\ IF Secure!MoreBytes(Secure!NeedsAfter(received + n)) > 0
             THEN d_readBuffer' = data /\ UNCHANGED <<pc, delivered, lost>>
             ELSE /\ d_readBuffer' = <<>>
                  /\ IF pc = "reading"
                     THEN delivered' = delivered \o data /\ pc' = "read" /\ lost' = lost
                     ELSE lost' = lost \o data /\ pc' = "handshake" /\ delivered' = delivered
    BY DEF Secure!ReadUnits
  <2>2. n \in Nat /\ n <= Records * RecordSize - received
    <3>1. numMoreBytes \in Nat /\ Records * RecordSize - received \in Nat
      BY <1>1, ConstantFacts DEF PipeInv, DataInv, DataTypes
    <3>2. /\ Secure!Min({numMoreBytes, Records * RecordSize - received}) \in Nat
          /\ Secure!Min({numMoreBytes, Records * RecordSize - received}) <= Records * RecordSize - received
      BY <3>1, SecureMinOfTwo
    <3> QED
      BY <2>1, <3>1, <3>2
  <2>3. received + n \in Nat /\ received <= received + n /\ received + n <= Records * RecordSize
    BY <1>1, <2>2, ConstantFacts
  <2>4. pc \in {"reading", "handshakeReading"}
    BY DEF Secure!ReadUnits
  <2> QED
    BY <2>1, <2>3, <2>4
<1>3. b \in a..Len(Data) /\ DataPipe!WaitingAt(b) = data
  <2>1. b \in a..Len(Data) /\ SubSeq(Data, a + 1, b) = Secure!DataBetween(received, received')
    BY <1>1, <1>2, PartOfData
  <2> QED
    BY <2>1 DEF DataPipe!WaitingAt
<1>4. data \in Seq(Nat)
  BY <1>1, <1>2, DataExtends, SeqJoin
<1>5. DropsOnce'
  BY <1>2 DEF DropsOnce, PipeInv
<1>6. DataPipe!Keep(b) \/ DataPipe!Deliver(b) \/ DataPipe!Drop(b)
  <2> HIDE DEF data, b
  <2>1. CASE d_readBuffer' = data /\ UNCHANGED <<pc, delivered, lost>>
    BY <1>3, <2>1 DEF DataPipe!Keep
  <2>2. CASE d_readBuffer' = <<>> /\ delivered' = delivered \o data /\ lost' = lost
    BY <1>3, <2>2 DEF DataPipe!Deliver
  <2>3. CASE /\ d_readBuffer' = <<>> /\ pc = "handshakeReading"
             /\ delivered' = delivered /\ lost' = lost \o data
    <3>1. lost = <<>> /\ delivered = <<>>
      BY <2>3 DEF PipeInv, DropsOnce, DataInv, HandshakeIsFirst
    <3>2. lost' = data
      BY <1>4, <2>3, <3>1, SeqJoin
    <3> QED
      BY <1>3, <2>3, <3>1, <3>2 DEF DataPipe!Drop
  <2> QED
    BY <1>2, <2>1, <2>2, <2>3
<1> QED
  BY <1>2, <1>3, <1>5, <1>6 DEF DataPipe!Next

LEMMA PipeStep ==
    IInv /\ PipeInv /\ [Next]_vars => [DataPipe!Next]_(DataPipe!vars) /\ PipeInv'
<1> SUFFICES ASSUME IInv, PipeInv, [Next]_vars
             PROVE  /\ [DataPipe!Next]_(DataPipe!vars)
                    /\ DropsOnce' /\ received' <= Records * RecordSize
  BY NextInv DEF IInv, PipeInv
<1>1. CASE UNCHANGED secureVars
  BY <1>1 DEF secureVars, DataPipe!vars, Secure!DataBetween, PipeInv, DropsOnce
<1>2. ASSUME NEW cleared \in BOOLEAN, Secure!CallRead(cleared)
      PROVE  /\ [DataPipe!Next]_(DataPipe!vars)
             /\ DropsOnce' /\ received' <= Records * RecordSize
  BY <1>2, CallReadMaps DEF PipeInv
<1>3. CASE Secure!CallWrite \/ Secure!CallStep \/ Secure!Close
  BY <1>3, OtherCallsMap DEF PipeInv
<1>4. CASE Secure!ReadUnits
  BY <1>4, ReadUnitsMaps
<1>5. CASE UNCHANGED vars
  BY <1>1, <1>5 DEF vars
<1> QED
  BY <1>1, <1>2, <1>3, <1>4, <1>5, StepOfSecure

LEMMA PipeInit == Init => DataPipe!Init /\ PipeInv
<1> SUFFICES ASSUME Init PROVE DataPipe!Init /\ PipeInv
  OBVIOUS
<1>1. /\ received = 0 /\ pc = "ready"
      /\ d_readBuffer = <<>> /\ delivered = <<>> /\ lost = <<>>
  BY DEF Init, Secure!Init
<1>2. Secure!DataBetween(0, received) = <<>>
  BY <1>1, NoDataBeforeActive, ConstantFacts
<1>3. 0 <= Records * RecordSize
  BY ConstantFacts
<1>4. DataPipe!Init
  BY <1>1, <1>2 DEF DataPipe!Init
<1> QED
  BY <1>1, <1>3, <1>4, InitInv DEF PipeInv, DropsOnce, IInv

\* SecureSocket implements Pipe: whatever the order of its user's calls, the sizes of
\* its buffers, the cuts of the records and the polls that time out, each of its steps
\* lets data arrive in order, deliver all that waits, or, once and before any read()
\* has delivered data, drop it at the end of the handshake.
THEOREM SocketImplementsPipe == Spec => ImplementsPipe
<1>1. Spec => [](IInv /\ PipeInv)
  BY InitInv, PipeInit, NextInv, PipeStep, PTL DEF Spec
<1>2. Spec => DataPipe!Spec
  BY <1>1, PipeInit, PipeStep, PTL DEF Spec, DataPipe!Spec
<1> QED
  BY <1>2 DEF ImplementsPipe

-----------------------------------------------------------------------------
(***************************************************************************)
(* A request over TLS ends.  Its Array is filled once and stays: what is   *)
(* in it then is all build() is ever given.  Until then each step brings   *)
(* in units or moves read() on, and from then on each turn of the loop     *)
(* gives the response more of its body, unless the end of the headers is   *)
(* not in the Array, and never will be.                                    *)
(***************************************************************************)
Reading == {"read", "reading", "build"}

Unbuilt == IF response.state = "WaitingOnHeaders" THEN Len(Body) + 1
           ELSE response.contentLength - Len(response.body)
Unread == Records * RecordSize - received
Turn == CASE call = "read" -> 3
          [] call = "reading" /\ pc = "reading" -> 2
          [] call = "reading" /\ pc # "reading" -> 1
          [] OTHER -> 0
ToDo == 4 * Unbuilt + Unread + Turn

RequestGetsOn ==
    user = "secure" =>
        /\ arr # <<>> => arr' = arr
        /\ call \in Reading =>
              \/ call' \in Client!Results \cup {"threw", "looping"}
              \/ HasHalfTheHeaders
              \/ ToDo' < ToDo

\* What build() is given, and what it is never given again once it waits for the body.
TlsReads ==
    user = "secure" =>
        /\ call = "reading" => pc \in {"reading", "read", "readAgain", "readFailed"}
        /\ call = "build" => buf = Units(arr)
        /\ call \in Running /\ response.state = "WaitingOnBody" =>
              arr # <<>> /\ Client!HasBlankLine(Units(arr))

LEMMA NothingInEmptyArray == ASSUME arr = <<>> PROVE Units(arr) = <<>>
<1> DEFINE none == [i \in DOMAIN <<>> |-> Pieces[<<>>[i] - Handshake]]
<1>1. none = <<>> /\ Len(none) = 0
  OBVIOUS
<1> HIDE DEF none
<1>2. FlattenSeq(none) = none
  BY <1>1, FlattenIs
<1> QED
  BY <1>1, <1>2 DEF Units, none

\* With nothing in the buffer there is no content-length to wait for.
LEMMA EmptyBuild ==
    ASSUME SoundResponse(response), response.state = "WaitingOnHeaders"
    PROVE  Client!Build(response, <<>>)[2] = "Done"
<1> DEFINE p == Client!ParseHeaders(response, <<>>)
           h == SubSeq(<<>>, 1, Client!HeaderEnd(<<>>))
<1>1. ~Client!HasBlankLine(<<>>)
  BY DEF Client!HasBlankLine
<1>2. Client!HeaderEnd(<<>>) = 0 /\ Client!HeadersParsed(<<>>) = 0
  BY <1>1, EmptySeq DEF Client!HeaderEnd, Client!HeadersParsed
<1>3. h = <<>>
  BY <1>2, SubSeqEmpty
<1>4. p.contentLength = 0
  <2>1. Client!ParsedLength(<<>>) = 0
    <3>1. Len(<<>>) = 0
      OBVIOUS
    <3>2. 1..(Len(<<>>) - 1) = {}
      BY <3>1
    <3> QED
      BY <3>2 DEF Client!ParsedLength
  <2>2. IsResponse(response) /\ response.body = <<>>
    BY DEF SoundResponse
  <2>3. <<>> \in Seq(Unit)
    BY EmptySeq
  <2>4. p.contentLength = Client!ParsedLength(h)
    BY <2>2, <2>3, ParseKeeps
  <2> HIDE DEF p, h
  <2> QED
    BY <1>3, <2>1, <2>4
<1> HIDE DEF p, h
<1> QED
  BY <1>2, <1>4 DEF Client!Build, p

\* A turn of the loop that goes on has brought the response out of its headers, or
\* given it a unit of its body at least.
LEMMA BodyGrows ==
    ASSUME SoundResponse(response), NEW b \in Seq(Unit),
           Client!Build(response, b)[2] = "Incomplete",
           \/ response.state = "WaitingOnHeaders" /\ Client!HasBlankLine(b)
           \/ response.state = "WaitingOnBody" /\ Len(b) > 0
    PROVE  LET q == Client!Build(response, b)[1]
           IN  /\ q.state = "WaitingOnBody"
               /\ Unbuilt \in Nat /\ q.contentLength - Len(q.body) \in Nat
               /\ q.contentLength - Len(q.body) < Unbuilt
<1> DEFINE q == Client!Build(response, b)[1]
<1>1. /\ IsResponse(response) /\ response.contentLength \in Nat /\ Len(response.body) \in Nat
      /\ Len(Body) \in Nat
  BY ResponseTypes, BodyIsSeq DEF SoundResponse
<1>2. CASE response.state = "WaitingOnHeaders"
  <2>1. SoundResponse(q) /\ q.state = Client!ParseHeaders(response, b).state
    BY <1>2, EarlyBuild
  <2>2. Client!ParseHeaders(response, b).state = "WaitingOnBody"
    BY <1>2, ParseKeeps DEF SoundResponse
  <2> HIDE DEF q
  <2>3. /\ q.state = "WaitingOnBody" /\ IsResponse(q) /\ Len(q.body) <= q.contentLength
        /\ q.contentLength \in {0, Len(Body)}
    BY <2>1, <2>2 DEF SoundResponse, IsResponse
  <2>4. Len(q.body) \in Nat /\ q.contentLength \in Nat
    BY <2>3, ResponseTypes
  <2> QED
    BY <1>1, <1>2, <2>3, <2>4 DEF Unbuilt, q
<1>3. CASE response.state = "WaitingOnBody"
  <2> DEFINE left == response.contentLength - Len(response.body)
             n == Client!Min({Len(b), left})
  <2>1. left \in Nat /\ Len(b) \in Nat
    BY <1>1, <1>3 DEF SoundResponse
  <2>2. n = IF Len(b) <= left THEN Len(b) ELSE left
    BY <2>1, LeastOfTwo
  <2>3. /\ SoundResponse(q) /\ q = Client!TakeBody(response, b) /\ q.state = "WaitingOnBody"
    BY <1>3, LaterBuild
  <2>4. q.contentLength = response.contentLength
    BY <1>1, <1>3, <2>3, TakeBodyKeeps DEF SoundResponse
  <2>5. Len(q.body) < q.contentLength
    <3>1. SubSeq(b, 0 + 1, Len(b)) = b
      BY SubSeqFull
    <3> DEFINE t == Client!TakeBody(response, b)
    <3>2. t.state = "WaitingOnBody"
      BY <2>3
    <3>3. response.state # "WaitingOnHeaders"
      BY <1>3
    <3>4. Client!Build(response, b) =
            <<t, IF t.state = "WaitingOnBody" /\ Len(t.body) < t.contentLength
                 THEN "Incomplete" ELSE "Done">>
      BY <3>1, <3>2, <3>3, Zenon DEF Client!Build
    <3> HIDE DEF t
    <3>5. Len(t.body) < t.contentLength
      BY <3>4
    <3> QED
      BY <2>3, <3>5 DEF t
  <2>6. q.body = response.body \o SubSeq(b, 1, n)
    <3>1. response.body \o SubSeq(b, 1, n) = [response EXCEPT !.body = @ \o SubSeq(b, 1, n)].body
      BY <1>1 DEF IsResponse
    <3> QED
      BY <2>3, <3>1 DEF Client!TakeBody
  <2> HIDE DEF q, n
  <2>7. n \in 0..Len(b) /\ SubSeq(b, 1, n) \in Seq(Unit) /\ Len(SubSeq(b, 1, n)) = n
    <3>1. n \in 0..Len(b)
      BY <2>1, <2>2
    <3> QED
      BY <3>1
  <2>8. Len(q.body) = Len(response.body) + n
    <3>1. response.body \in Seq(Unit)
      BY <1>1 DEF IsResponse
    <3> DEFINE taken == SubSeq(b, 1, n)
    <3>2. taken \in Seq(Unit) /\ Len(taken) = n /\ q.body = response.body \o taken
      BY <2>6, <2>7
    <3> HIDE DEF taken
    <3>3. Len(response.body \o taken) = Len(response.body) + Len(taken)
      BY <3>1, <3>2, ConcatProperties
    <3> QED
      BY <3>2, <3>3
  <2>9. n > 0
    BY <1>1, <1>3, <2>1, <2>2, <2>4, <2>5, <2>8
  <2> QED
    BY <1>1, <1>3, <2>1, <2>3, <2>4, <2>5, <2>7, <2>8, <2>9 DEF Unbuilt, q
<1> QED
  BY <1>2, <1>3

LEMMA Counts ==
    ASSUME WholeInv, user = "secure", call \in Reading
    PROVE  Unbuilt \in Nat /\ Unread \in Nat /\ Turn \in 0..3 /\ ToDo \in Nat
<1>1. SoundResponse(response) /\ response.state # "Complete"
  BY DEF WholeInv, RequestInv, ResponseInv, Reading, Running
<1>2. response.contentLength \in Nat /\ Len(response.body) \in Nat /\ Len(Body) \in Nat
      /\ response.state \in {"WaitingOnHeaders", "WaitingOnBody"}
  BY <1>1, ResponseTypes, BodyIsSeq DEF SoundResponse
<1>3. Unbuilt \in Nat
  BY <1>1, <1>2 DEF Unbuilt, SoundResponse
<1>4. Unread \in Nat
  <2> DEFINE all == Records * RecordSize
  <2>1. all \in Nat /\ received \in 0..all
    BY ConstantFacts DEF WholeInv, RecordsInv
  <2> HIDE DEF all
  <2>2. all - received \in Nat
    BY <2>1
  <2> QED
    BY <2>2 DEF Unread, all
<1>5. Turn \in 0..3
  BY DEF Turn
<1> QED
  BY <1>3, <1>4, <1>5 DEF ToDo

LEMMA BuildGetsOn ==
    ASSUME WholeInv, TlsReads, user = "secure", SecureBuild, user' = user
    PROVE  RequestGetsOn /\ TlsReads'
<1>1. /\ call = "build" /\ UNCHANGED secureVars /\ UNCHANGED buf
      /\ \/ call' \in {"looping", "threw"} /\ response' = response
         \/ /\ response' = Client!Build(response, buf)[1]
            /\ call' = IF Client!Build(response, buf)[2] = "Incomplete" THEN "read" ELSE "ok"
  BY DEF SecureBuild, Client!BuildPiece
<1>2. arr' = arr /\ pc' = pc /\ received' = received /\ Units(arr)' = Units(arr)
  BY <1>1 DEF secureVars, Units
<1>3. /\ SoundResponse(response) /\ response.state \in {"WaitingOnHeaders", "WaitingOnBody"}
      /\ buf \in Seq(Unit)
  BY <1>1, ResponseTypes DEF WholeInv, RequestInv, ResponseInv, SoundResponse, Running
<1>4. CASE call' \in {"looping", "threw", "ok"}
  BY <1>2, <1>4 DEF RequestGetsOn, TlsReads, Running, Client!Results
<1> DEFINE q == Client!Build(response, buf)[1]
<1>5. CASE response' = q /\ call' = "read" /\ Client!Build(response, buf)[2] = "Incomplete"
  <2>1. buf = Units(arr)
    BY <1>1 DEF TlsReads
  <2>2. arr # <<>>
    <3>1. response.state = "WaitingOnHeaders" => buf # <<>>
      BY <1>3, <1>5, EmptyBuild
    <3>2. response.state = "WaitingOnBody" => arr # <<>>
      BY <1>1 DEF TlsReads, Running
    <3> QED
      BY <1>3, <2>1, <3>1, <3>2, NothingInEmptyArray
  <2>3. CASE HasHalfTheHeaders
    <3>1. response.state = "WaitingOnHeaders"
      BY <1>1, <1>3, <2>3 DEF TlsReads, HasHalfTheHeaders, Running
    <3>2. ~Client!HasBlankLine(buf)
      BY <2>1, <2>3 DEF HasHalfTheHeaders
    <3>3. q.state = "WaitingOnHeaders"
      <4>1. q.state = Client!ParseHeaders(response, buf).state
        BY <1>3, <1>5, <3>1, EarlyBuild
      <4>2. Client!ParseHeaders(response, buf).state = "WaitingOnHeaders"
        BY <1>3, <3>1, <3>2, ParseKeeps DEF SoundResponse
      <4> QED
        BY <4>1, <4>2
    <3> QED
      BY <1>2, <1>5, <2>3, <3>3 DEF RequestGetsOn, TlsReads
  <2>4. CASE ~HasHalfTheHeaders
    <3>1. Client!HasBlankLine(buf)
      BY <2>1, <2>2, <2>4 DEF HasHalfTheHeaders
    <3>2. Len(buf) > 0
      BY <3>1 DEF Client!HasBlankLine
    <3>3. /\ q.state = "WaitingOnBody" /\ q.contentLength - Len(q.body) \in Nat
          /\ q.contentLength - Len(q.body) < Unbuilt
      BY <1>3, <1>5, <3>1, <3>2, BodyGrows
    <3> HIDE DEF q
    <3>4. Unbuilt' = q.contentLength - Len(q.body)
      BY <1>5, <3>3 DEF Unbuilt
    <3>5. Turn' = 3 /\ Turn = 0 /\ Unread' = Unread
      BY <1>1, <1>2, <1>5 DEF Turn, Unread
    <3>6. Unbuilt \in Nat /\ Unread \in Nat
      BY <1>1, Counts DEF Reading
    <3>7. ToDo' < ToDo
      BY <3>3, <3>4, <3>5, <3>6 DEF ToDo
    <3>8. TlsReads'
      BY <1>2, <1>5, <2>1, <2>2, <3>1 DEF TlsReads
    <3> QED
      BY <1>2, <3>7, <3>8 DEF RequestGetsOn
  <2> QED
    BY <2>3, <2>4
<1> QED
  BY <1>1, <1>4, <1>5

LEMMA LessIsLeft == \A a, x, y \in Nat : x < y => a - y < a - x /\ a - y \in Int
  OBVIOUS

\* Any other step of the request.
LEMMA OwnStepGetsOn ==
    ASSUME WholeInv, TlsReads, user = "secure", user' = user,
           \/ SecureConnect \/ SecureWrite \/ WriteReturns \/ SecureRead \/ ReadReturns
           \/ SecureCall \/ SecureData
    PROVE  RequestGetsOn /\ TlsReads'
<1>1. RequestOverTls /\ (pc = "reading" => arr = <<>>) /\ response' = response
  BY DEF WholeInv, RequestTypes, SecureTypes, SecureConnect, SecureWrite, WriteReturns, SecureRead,
     ReadReturns, SecureCall, SecureData, requestVars, Client!Connect
<1>2. Unbuilt' = Unbuilt
  BY <1>1 DEF Unbuilt
<1>3. call \in Reading => Unbuilt \in Nat /\ Unread \in Nat
  BY Counts
<1>4. ASSUME UNCHANGED arr, call' \in Running => call \in Running
      PROVE  call' \in Running /\ response'.state = "WaitingOnBody" =>
                 arr' # <<>> /\ Client!HasBlankLine(Units(arr))'
  BY <1>1, <1>4 DEF TlsReads, Client!HasBlankLine, Units
<1>5. ASSUME UNCHANGED <<arr, received>>, Turn' < Turn, call \in Reading
      PROVE  ToDo' < ToDo
  <2>1. Turn \in 0..3 /\ Turn' \in 0..3 /\ Unread' = Unread
    BY <1>5 DEF Turn, Unread
  <2> QED
    BY <1>2, <1>3, <1>5, <2>1 DEF ToDo
<1>6. CASE SecureConnect \/ SecureWrite \/ WriteReturns
  <2>1. /\ UNCHANGED arr /\ call \in {"connect", "write"}
        /\ call' \notin {"reading", "build"}
    BY <1>6 DEF SecureConnect, SecureWrite, WriteReturns, Client!Connect, Secure!CallWrite,
       requestVars, secureVars
  <2> QED
    BY <1>4, <2>1 DEF RequestGetsOn, TlsReads, Reading, Running
<1>7. CASE SecureRead
  <2>1. /\ call = "read" /\ call' = "reading" /\ pc' \in {"reading", "read", "readAgain"}
        /\ received' = received
        /\ UNCHANGED arr \/ d_readBuffer # <<>>
    BY <1>7 DEF SecureRead, ReadCleared, Secure!CallRead, Secure!HandOver
  <2>2. Turn' < Turn
    BY <2>1 DEF Turn
  <2>3. CASE UNCHANGED arr
    BY <1>4, <1>5, <2>1, <2>2, <2>3 DEF RequestGetsOn, TlsReads, Reading, Running
  <2>4. CASE d_readBuffer # <<>>
    <3>1. arr = <<>>
      BY <1>1, <2>4 DEF RequestOverTls
    <3>2. response.state # "WaitingOnBody"
      BY <2>1, <3>1 DEF TlsReads, Running
    <3>3. ToDo' < ToDo
      <4>1. Turn \in 0..3 /\ Turn' \in 0..3 /\ Unread' = Unread
        BY <2>1 DEF Turn, Unread
      <4> QED
        BY <1>2, <1>3, <2>1, <2>2, <4>1 DEF ToDo, Reading
    <3> QED
      BY <1>1, <2>1, <3>1, <3>2, <3>3 DEF RequestGetsOn, TlsReads
  <2> QED
    BY <2>1, <2>3, <2>4
<1>8. CASE ReadReturns
  <2>1. /\ call = "reading" /\ pc # "reading" /\ call' \in {"ReadFailed", "build"}
        /\ buf' = Units(arr) /\ UNCHANGED <<arr, pc, received>>
    BY <1>8 DEF ReadReturns, secureVars
  <2>2. Turn' < Turn
    BY <2>1 DEF Turn
  <2>3. Units(arr)' = Units(arr)
    BY <2>1 DEF Units
  <2> QED
    BY <1>4, <1>5, <2>1, <2>2, <2>3 DEF RequestGetsOn, TlsReads, Reading, Running
<1>9. CASE SecureCall
  <2>1. /\ UNCHANGED <<arr, received, call, buf>> /\ call \in {"write", "reading"}
        /\ pc \in {"reading", "handshakeReading", "handshake", "send"}
        /\ pc = "reading" => pc' \in {"read", "readFailed"}
    BY <1>9 DEF SecureCall, Secure!CallStep, Secure!ReadNothing, Secure!HandshakeLoop, Secure!Send, requestVars
  <2>2. call = "reading" => pc = "reading"
    BY <2>1 DEF TlsReads
  <2>3. call = "reading" => Turn' < Turn
    BY <2>1, <2>2 DEF Turn
  <2> QED
    BY <1>4, <1>5, <2>1, <2>2, <2>3 DEF RequestGetsOn, TlsReads, Reading, Running
<1>10. CASE SecureData
  <2> DEFINE most == Secure!Min({numMoreBytes, Records * RecordSize - received})
  <2>1. /\ UNCHANGED <<call, buf>> /\ call \in {"write", "reading"}
        /\ pc \in {"reading", "handshakeReading"}
        /\ pc = "reading" => pc' \in {"reading", "read"}
        /\ pc = "handshakeReading" => arr' = arr
        /\ \E n \in 1..most : received' = received + n
    BY <1>10 DEF SecureData, Secure!ReadUnits, requestVars
  <2>2. CASE call = "write"
    <3>1. pc = "handshakeReading"
      BY <1>1, <2>1, <2>2 DEF RequestOverTls
    <3> QED
      BY <1>4, <2>1, <2>2, <3>1 DEF RequestGetsOn, TlsReads, Reading, Running
  <2>3. CASE call = "reading"
    <3>1. pc = "reading" /\ arr = <<>>
      BY <1>1, <2>1, <2>3 DEF TlsReads
    <3>2. response.state # "WaitingOnBody"
      BY <2>3, <3>1 DEF TlsReads, Running
    <3>3. received \in Nat /\ received < received'
      <4>1. received \in Nat
        BY DEF WholeInv, IInv, DataInv, DataTypes
      <4> QED
        BY <2>1, <4>1
    <3>4. Turn = 2 /\ Turn' \in {1, 2}
      BY <2>1, <2>3, <3>1 DEF Turn
    <3>5. Unread' < Unread /\ Unread' \in Int
      <4>1. received' \in Nat
        BY <2>1, <3>3
      <4>2. \A all \in Nat : all - received' < all - received /\ all - received' \in Int
        BY <3>3, <4>1, LessIsLeft
      <4>3. Records * RecordSize \in Nat
        BY ConstantFacts
      <4> QED
        BY <4>2, <4>3, Zenon DEF Unread
    <3>6. ToDo' < ToDo
      BY <1>2, <1>3, <2>3, <3>4, <3>5 DEF ToDo, Reading
    <3> QED
      BY <1>1, <2>1, <2>3, <3>1, <3>2, <3>6 DEF RequestGetsOn, TlsReads
  <2> QED
    BY <2>1, <2>2, <2>3
<1> QED
  BY <1>6, <1>7, <1>8, <1>9, <1>10

LEMMA ReadsInv ==
    ASSUME WholeInv, TlsReads, [Next]_vars
    PROVE  TlsReads' /\ (Next => RequestGetsOn)
<1>1. CASE SecureStep
  <2>1. user = "secure" /\ user' = user
    BY <1>1 DEF SecureStep, OwnStep
  <2> QED
    BY <1>1, <2>1, BuildGetsOn, OwnStepGetsOn DEF SecureStep, OwnStep
<1>2. CASE PlainStep \/ ReaderStep
  BY <1>2 DEF PlainStep, ReaderStep, RequestGetsOn, TlsReads
<1>3. ASSUME UNCHANGED vars PROVE TlsReads'
  <2>1. UNCHANGED <<user, call, buf, response, pc, arr>>
    BY <1>3 DEF vars, requestVars, secureVars
  <2>2. Units(arr)' = Units(arr)
    BY <2>1 DEF Units
  <2> QED
    BY <2>1, <2>2 DEF TlsReads, Client!HasBlankLine
<1>4. CASE Next
  BY <1>1, <1>2, <1>4 DEF Next
<1> QED
  BY <1>3, <1>4

\* Over a SecureSocket the Array of a request is filled once and for all.  From its first read() on
\* each step of the request leaves it less to receive, to build or to return from, which is bounded by
\* the records and the body, or ends it; only with an Array that lacks the end of the headers, for good,
\* may it turn in its loop for ever.  The safety part of RequestEnds.
THEOREM RequestsGetOn ==
    Spec => /\ [](user = "secure" /\ call \in Reading => ToDo \in Nat)
            /\ [][RequestGetsOn]_vars
<1>1. Init => TlsReads
  BY DEF Init, Client!Init, TlsReads
<1>2. WholeInv /\ TlsReads /\ [Next]_vars => TlsReads' /\ (Next => RequestGetsOn)
  BY ReadsInv
<1>3. WholeInv => (user = "secure" /\ call \in Reading => ToDo \in Nat)
  BY Counts
<1> QED
  BY <1>1, <1>2, <1>3, TypesAlways, PTL DEF Spec
=============================================================================
