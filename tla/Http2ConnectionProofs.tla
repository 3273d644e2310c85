----------------------- MODULE Http2ConnectionProofs -----------------------
(***************************************************************************)
(* What the server makes of an upgraded connection, proved for any         *)
(* clients, however what they send is cut and whatever read or write       *)
(* fails.                                                                  *)
(*                                                                         *)
(* AnswerOK says how much has been sent at each place of the function, and *)
(* that no place behind the first frames is reached without settings.      *)
(* ReadOK ties the buffer and the counters to what was read; TidyOK says   *)
(* that the buffer holds whole frames, and offset the start of the next,   *)
(* as long as every read ended where a frame ends; SettingsOK says what    *)
(* was read of the client's settings.                                      *)
(***************************************************************************)
EXTENDS Http2Connection, Integers, SequenceTheorems, WellFoundedInduction, FiniteSetTheorems, TLAPS

-----------------------------------------------------------------------------
(***************************************************************************)
(* Numbers, and pieces put one behind the other.                           *)
(***************************************************************************)
LEMMA Least ==
    ASSUME NEW T, T \subseteq Nat, T # {}
    PROVE  \E x \in T : \A y \in T : x <= y
<1>1. IsWellFoundedOn(OpToRel(<,Nat), Nat)
  BY NatLessThanWellFounded
<1>2. PICK x \in T : \A y \in T : ~(<<y, x>> \in OpToRel(<,Nat))
  BY <1>1, WFMin
<1>3. \A y \in T : ~(y < x)
  BY <1>2 DEF OpToRel
<1> QED
  BY <1>3

LEMMA FromOne ==
    ASSUME NEW n \in Nat, NEW T, 1 \in T, \A i \in 1..n : i \in T => i + 1 \in T
    PROVE  \A i \in 1..(n + 1) : i \in T
<1> DEFINE Missing == {i \in 1..(n + 1) : i \notin T}
<1>1. ASSUME Missing # {} PROVE FALSE
  <2>1. Missing \subseteq Nat
    OBVIOUS
  <2>2. PICK k \in Missing : \A j \in Missing : k <= j
    BY <1>1, <2>1, Least
  <2>3. k \in 1..(n + 1) /\ k # 1 /\ k \notin T
    BY <2>2
  <2>4. k - 1 \in 1..n /\ k - 1 \in 1..(n + 1) /\ ~(k <= k - 1) /\ (k - 1) + 1 = k
    BY <2>3
  <2>5. k - 1 \in T
    BY <2>2, <2>4
  <2> QED
    BY <2>3, <2>4, <2>5
<1> QED
  BY <1>1

Flattens(g, s, n) == g = [i \in 1..n |-> IF i = 1 THEN s[i] ELSE g[i - 1] \o s[i]]

LEMMA FlatteningExists ==
    ASSUME NEW s, NEW n \in Nat
    PROVE  \E g : Flattens(g, s, n)
<1> DEFINE T == {k \in Nat : ~\E g : Flattens(g, s, k)}
<1>1. SUFFICES ASSUME T # {} PROVE FALSE
  OBVIOUS
<1>2. PICK k \in T : \A j \in T : k <= j
  BY <1>1, Least
<1>3. Flattens(<<>>, s, 0)
  BY DEF Flattens
<1>4. k # 0 /\ k - 1 \in Nat
  BY <1>2, <1>3
<1>5. PICK g : Flattens(g, s, k - 1)
  BY <1>2, <1>4
<1> DEFINE new == IF k = 1 THEN s[k] ELSE g[k - 1] \o s[k]
           h == [i \in 1..k |-> IF i = k THEN new ELSE g[i]]
<1>6. ASSUME NEW i \in 1..k
      PROVE  h[i] = IF i = 1 THEN s[i] ELSE h[i - 1] \o s[i]
  <2>1. CASE i = k
    BY <1>4, <2>1
  <2>2. CASE i # k
    <3>1. i \in 1..(k - 1)
      BY <1>4, <2>2
    <3>2. g[i] = IF i = 1 THEN s[i] ELSE g[i - 1] \o s[i]
      BY <1>5, <3>1 DEF Flattens
    <3>3. h[i] = g[i] /\ (i # 1 => h[i - 1] = g[i - 1])
      BY <1>4, <2>2
    <3> QED
      BY <3>2, <3>3
  <2> QED
    BY <2>1, <2>2
<1>7. Flattens(h, s, k)
  BY <1>6 DEF Flattens
<1> QED
  BY <1>2, <1>7

Flattening(s) == CHOOSE g : Flattens(g, s, Len(s))

LEMMA FlattenIs ==
    ASSUME NEW s, Len(s) \in Nat
    PROVE  /\ \A i \in 1..Len(s) :
                 Flattening(s)[i] = IF i = 1 THEN s[i] ELSE Flattening(s)[i - 1] \o s[i]
           /\ FlattenSeq(s) = IF Len(s) = 0 THEN s ELSE Flattening(s)[Len(s)]
<1>1. Flattens(Flattening(s), s, Len(s))
  BY FlatteningExists DEF Flattening
<1>2. FlattenSeq(s) = IF Len(s) = 0 THEN s ELSE Flattening(s)[Len(s)]
  BY DEF FlattenSeq, Flattening, Flattens
<1> DEFINE g == Flattening(s)
           n == Len(s)
<1> HIDE DEF g, n
<1>4. g = [i \in 1..n |-> IF i = 1 THEN s[i] ELSE g[i - 1] \o s[i]]
  BY <1>1, Zenon DEF Flattens, g, n
<1>5. \A i \in 1..n : g[i] = IF i = 1 THEN s[i] ELSE g[i - 1] \o s[i]
  BY <1>4
<1> QED
  BY <1>2, <1>5 DEF g, n

-----------------------------------------------------------------------------
(***************************************************************************)
(* The stream of a client: the preface, then its frames, whole and in      *)
(* order.                                                                  *)
(***************************************************************************)
FrameType == [type : STRING, payload : Seq(Nat)]
UnitsOf(n) == (0..n) \X (Nat \ {0})

\* A stream of the preface and the units of n frames, whole and in order.
StreamOf(t, n) ==
    /\ t \in Seq(UnitsOf(Len(frames))) /\ Len(t) >= 4
    /\ \A k \in 1..4 : t[k] = <<0, k>>
    /\ \A k \in 5..Len(t) :
          /\ t[k][1] \in 1..n /\ t[k][2] \in 1..FrameLength(t[k][1])
          /\ t[k][2] # FrameLength(t[k][1]) =>
                k + 1 \in 5..Len(t) /\ t[k + 1] = <<t[k][1], t[k][2] + 1>>
          /\ k + 1 \in 5..Len(t) /\ t[k][2] = FrameLength(t[k][1]) => t[k + 1][2] = 1
    /\ n > 0 => 5 \in 5..Len(t) /\ t[5] = <<1, 1>>

LEMMA ConcatParts ==
    ASSUME NEW S, NEW s \in Seq(S), NEW t \in Seq(S)
    PROVE  /\ s \o t \in Seq(S) /\ Len(s \o t) = Len(s) + Len(t)
           /\ \A k \in 1..Len(s) : (s \o t)[k] = s[k]
           /\ \A k \in 1..Len(t) : (s \o t)[Len(s) + k] = t[k]
OBVIOUS

LEMMA ConcatAssociates ==
    \A S : \A a, b, c \in Seq(S) : a \o (b \o c) = (a \o b) \o c
BY ConcatAssociative, SMTT(60)

LEMMA FrameLengthType ==
    ASSUME frames \in Seq(FrameType), NEW i \in DOMAIN frames
    PROVE  /\ FrameLength(i) \in Nat /\ FrameLength(i) >= 4
           /\ FrameLength(i) = 4 + Len(frames[i].payload)
           /\ frames[i].payload \in Seq(Nat)
<1>1. frames[i] \in FrameType
  OBVIOUS
<1>2. frames[i].payload \in Seq(Nat)
  BY <1>1 DEF FrameType
<1>3. Len(frames[i].payload) \in Nat
  BY <1>2
<1> QED
  BY <1>2, <1>3 DEF FrameLength, HEADER_LENGTH

LEMMA FrameUnitsType ==
    ASSUME frames \in Seq(FrameType), NEW i \in DOMAIN frames
    PROVE  /\ FrameUnits(i) \in Seq(UnitsOf(Len(frames)))
           /\ Len(FrameUnits(i)) = FrameLength(i)
           /\ \A k \in 1..FrameLength(i) : FrameUnits(i)[k] = <<i, k>>
<1>1. FrameLength(i) \in Nat
  BY FrameLengthType
<1>2. i \in 0..Len(frames)
  OBVIOUS
<1>3. \A k \in 1..FrameLength(i) : <<i, k>> \in UnitsOf(Len(frames))
  BY <1>1, <1>2 DEF UnitsOf
<1> QED
  BY <1>1, <1>3 DEF FrameUnits

LEMMA FrameAppended ==
    ASSUME frames \in Seq(FrameType), NEW n \in Nat, n + 1 \in DOMAIN frames,
           NEW t, StreamOf(t, n)
    PROVE  StreamOf(t \o FrameUnits(n + 1), n + 1)
<1> DEFINE U == UnitsOf(Len(frames))
           i == n + 1
           f == FrameUnits(i)
           w == t \o f
           L == Len(t)
           F == FrameLength(i)
<1>1. /\ F \in Nat /\ F >= 4
  BY FrameLengthType
<1>2. f \in Seq(U) /\ Len(f) = F /\ \A k \in 1..F : f[k] = <<i, k>>
  BY FrameUnitsType
<1>3. t \in Seq(U) /\ L \in Nat /\ L >= 4
  BY DEF StreamOf
<1> HIDE DEF f, U
<1>4. /\ w \in Seq(U) /\ Len(w) = L + F
      /\ \A k \in 1..L : w[k] = t[k]
      /\ \A k \in 1..F : w[L + k] = f[k]
  <2>1. /\ t \o f \in Seq(U) /\ Len(t \o f) = Len(t) + Len(f)
        /\ \A k \in 1..Len(t) : (t \o f)[k] = t[k]
        /\ \A k \in 1..Len(f) : (t \o f)[Len(t) + k] = f[k]
    <3> HIDE DEF w, L
    <3>1. t \in Seq(U) /\ f \in Seq(U)
      BY <1>2, <1>3
    <3> QED
      BY <3>1, ConcatParts
  <2> QED
    BY <1>2, <2>1
<1> HIDE DEF w, L, F
<1>5. \A k \in 1..F : w[L + k] = <<i, k>>
  BY <1>2, <1>4
<1>6. \A k \in 1..4 : w[k] = <<0, k>>
  <2>1. \A k \in 1..4 : t[k] = <<0, k>>
    BY DEF StreamOf
  <2>2. \A k \in 1..4 : k \in 1..L
    BY <1>3
  <2> QED
    BY <1>4, <2>1, <2>2
<1>7. ASSUME NEW k \in 5..(L + F)
      PROVE  /\ w[k][1] \in 1..i /\ w[k][2] \in 1..FrameLength(w[k][1])
             /\ w[k][2] # FrameLength(w[k][1]) =>
                   k + 1 \in 5..(L + F) /\ w[k + 1] = <<w[k][1], w[k][2] + 1>>
             /\ k + 1 \in 5..(L + F) /\ w[k][2] = FrameLength(w[k][1]) => w[k + 1][2] = 1
  <2>1. CASE k > L
    <3>1. PICK j \in 1..F : k = L + j
      <4>1. k - L \in 1..F /\ k = L + (k - L)
        BY <1>1, <1>3, <2>1
      <4> QED
        BY <4>1
    <3>2. w[k] = <<i, j>>
      BY <1>5, <3>1
    <3>3. j # F => j + 1 \in 1..F /\ L + (j + 1) = k + 1 /\ k + 1 \in 5..(L + F)
      BY <1>1, <1>3, <3>1
    <3>4. j # F => w[k + 1] = <<i, j + 1>>
      BY <1>5, <3>3
    <3>5. j = F => ~(k + 1 \in 5..(L + F))
      BY <1>1, <1>3, <3>1
    <3>6. i \in 1..i
      OBVIOUS
    <3> QED
      BY <1>1, <3>2, <3>3, <3>4, <3>5, <3>6 DEF F
  <2>2. CASE k < L
    <3>1. k \in 5..L /\ k \in 1..L /\ k + 1 \in 1..L /\ k + 1 \in 5..L /\ k + 1 \in 5..(L + F)
      BY <1>1, <1>3, <2>2
    <3>2. w[k] = t[k] /\ w[k + 1] = t[k + 1]
      BY <1>4, <3>1
    <3>3. t[k][1] \in 1..n => t[k][1] \in 1..i
      OBVIOUS
    <3> QED
      BY <3>1, <3>2, <3>3 DEF StreamOf, L
  <2>3. CASE k = L
    <3>1. k \in 5..L /\ k \in 1..L /\ k + 1 \notin 5..L /\ k + 1 \in 5..(L + F) /\ k + 1 = L + 1 /\ 1 \in 1..F
      BY <1>1, <1>3, <2>3
    <3>2. w[k] = t[k] /\ w[k + 1] = <<i, 1>>
      BY <1>4, <1>5, <3>1
    <3>3. t[k][1] \in 1..n => t[k][1] \in 1..i
      OBVIOUS
    <3> QED
      BY <3>1, <3>2, <3>3 DEF StreamOf, L
  <2> QED
    BY <1>1, <1>3, <2>1, <2>2, <2>3
<1>8. 5 \in 5..(L + F) /\ w[5] = <<1, 1>>
  <2>1. CASE n = 0
    <3>1. \A k \in 5..L : FALSE
      BY <2>1 DEF StreamOf, L
    <3>2. L = 4 /\ 1 \in 1..F /\ i = 1 /\ L + 1 = 5
      BY <1>1, <1>3, <2>1, <3>1
    <3>3. w[L + 1] = <<i, 1>>
      BY <1>5, <3>2
    <3> QED
      BY <1>1, <1>3, <3>2, <3>3
  <2>2. CASE n > 0
    <3>1. 5 \in 5..L /\ t[5] = <<1, 1>>
      BY <2>2 DEF StreamOf, L
    <3> QED
      BY <1>1, <1>3, <1>4, <3>1
  <2> QED
    BY <2>1, <2>2
<1>9. Len(w) \in Nat /\ Len(w) >= 4 /\ Len(w) = L + F
  BY <1>1, <1>3, <1>4
<1> QED
  BY <1>4, <1>6, <1>7, <1>8, <1>9 DEF StreamOf, w, f, U

LEMMA StreamIs ==
    ASSUME frames \in Clients
    PROVE  StreamOf(Stream, Len(frames)) /\ frames \in Seq(FrameType) /\ Len(frames) > 0
<1> DEFINE s == [i \in DOMAIN frames |-> FrameUnits(i)]
           n == Len(frames)
           g == Flattening(s)
           U == UnitsOf(n)
<1>1. frames \in Seq(FrameType) /\ n \in Nat /\ n > 0
  <2>1. Clients \subseteq Seq(FrameType) /\ frames # <<>>
    BY Http2Assumption DEF FrameType
  <2>2. frames \in Seq(FrameType)
    BY <2>1
  <2>3. Len(frames) \in Nat /\ Len(frames) # 0
    BY <2>1, <2>2, EmptySeq
  <2> QED
    BY <2>2, <2>3
<1>2. s \in Seq(Seq(U)) /\ Len(s) = n /\ \A i \in 1..n : s[i] = FrameUnits(i)
  BY <1>1, FrameUnitsType
<1>3. /\ \A i \in 1..n : g[i] = IF i = 1 THEN s[i] ELSE g[i - 1] \o s[i]
      /\ Stream = Preface \o g[n]
  <2>1. Len(s) \in Nat /\ Len(s) # 0 /\ Stream = Preface \o FlattenSeq(s)
    BY <1>1, <1>2 DEF Stream
  <2> HIDE DEF s
  <2>2. /\ \A i \in 1..Len(s) : g[i] = IF i = 1 THEN s[i] ELSE g[i - 1] \o s[i]
        /\ FlattenSeq(s) = g[Len(s)]
    BY <2>1, FlattenIs
  <2> QED
    BY <1>2, <2>1, <2>2
<1>4. Preface \in Seq(U) /\ Len(Preface) = 4 /\ \A k \in 1..4 : Preface[k] = <<0, k>>
  <2>1. \A k \in 1..4 : <<0, k>> \in U
    BY <1>1 DEF UnitsOf
  <2> QED
    BY <2>1 DEF Preface
<1> HIDE DEF s, g
<1> DEFINE T == {k \in 1..n : g[k] \in Seq(U) /\ StreamOf(Preface \o g[k], k)}
<1>5. 1 \in T
  <2>1. StreamOf(Preface, 0)
    BY <1>4 DEF StreamOf
  <2>2. 1 \in DOMAIN frames /\ 1 \in 1..n /\ 0 \in Nat /\ 0 + 1 = 1
    BY <1>1
  <2>3. StreamOf(Preface \o FrameUnits(1), 1)
    BY <1>1, <2>1, <2>2, FrameAppended
  <2>4. g[1] = FrameUnits(1) /\ g[1] \in Seq(U)
    BY <1>2, <1>3, <2>2
  <2> QED
    BY <2>2, <2>3, <2>4
<1>6. ASSUME NEW k \in 1..(n - 1), k \in T PROVE k + 1 \in T
  <2>1. k \in Nat /\ k + 1 \in DOMAIN frames /\ k + 1 \in 1..n /\ k + 1 # 1 /\ (k + 1) - 1 = k
    BY <1>1
  <2>2. StreamOf((Preface \o g[k]) \o FrameUnits(k + 1), k + 1)
    BY <1>1, <1>6, <2>1, FrameAppended
  <2>3. g[k + 1] = g[k] \o FrameUnits(k + 1)
    BY <1>2, <1>3, <2>1
  <2>4. g[k] \in Seq(U) /\ FrameUnits(k + 1) \in Seq(U)
    BY <1>1, <1>6, <2>1, FrameUnitsType
  <2>5. Preface \o g[k + 1] = (Preface \o g[k]) \o FrameUnits(k + 1)
    <3>1. Preface \o (g[k] \o FrameUnits(k + 1)) = (Preface \o g[k]) \o FrameUnits(k + 1)
      <4> HIDE DEF U, T
      <4>1. Preface \in Seq(U) /\ g[k] \in Seq(U) /\ FrameUnits(k + 1) \in Seq(U)
        BY <1>4, <2>4
      <4>2. \A a, b, c \in Seq(U) : a \o (b \o c) = (a \o b) \o c
        BY ConcatAssociates, SMTT(30)
      <4> QED
        BY <4>1, <4>2, Zenon
    <3> QED
      BY <2>3, <3>1
  <2>6. g[k + 1] \in Seq(U)
    BY <2>3, <2>4, ConcatProperties
  <2> QED
    BY <2>1, <2>2, <2>5, <2>6
<1>7. n \in T
  <2> HIDE DEF T
  <2>1. n - 1 \in Nat /\ n \in 1..((n - 1) + 1)
    BY <1>1
  <2>2. \A k \in 1..((n - 1) + 1) : k \in T
    BY <1>5, <1>6, <2>1, FromOne
  <2> QED
    BY <2>1, <2>2
<1> QED
  BY <1>1, <1>3, <1>7
LEMMA PrefaceIsBoundary ==
    ASSUME frames \in Clients
    PROVE  4 \in Boundaries
<1>1. Len(Stream) \in Nat /\ Len(Stream) >= 4 /\ (Len(frames) > 0 => 5 \in 5..Len(Stream) /\ Stream[5] = <<1, 1>>)
  BY StreamIs DEF StreamOf
<1>2. 4 \in 4..Len(Stream) /\ 4 + 1 = 5
  BY <1>1
<1>3. Stream[5][2] = 1
  BY <1>1, StreamIs
<1> QED
  BY <1>2, <1>3 DEF Boundaries

\* Where a frame ends the next one lies, whole, and none ends inside it.
FrameLies(s, i) ==
    /\ i \in DOMAIN frames /\ s + FrameLength(i) \in Boundaries
    /\ \A j \in 1..FrameLength(i) : s + j \in 1..Len(Stream) /\ Stream[s + j] = <<i, j>>
    /\ \A q \in Boundaries : s < q => s + FrameLength(i) <= q
    /\ s = 4 => i = 1

LEMMA FrameAt ==
    ASSUME frames \in Clients, NEW s \in Boundaries, s < Len(Stream)
    PROVE  \E i : FrameLies(s, i)
<1> DEFINE L == Len(Stream)
           i == Stream[s + 1][1]
           F == FrameLength(i)
<1>1. StreamOf(Stream, Len(frames)) /\ frames \in Seq(FrameType) /\ Len(frames) \in Nat
  BY StreamIs
<1>2. L \in Nat /\ L >= 4 /\ s \in 4..L /\ s < L /\ s + 1 \in 5..L /\ Stream[s + 1][2] = 1
  <2>1. L \in Nat /\ L >= 4
    BY <1>1 DEF StreamOf
  <2>2. s \in 4..L /\ (s = L \/ Stream[s + 1][2] = 1)
    BY DEF Boundaries
  <2> QED
    BY <2>1, <2>2
<1> HIDE DEF L
<1>3. /\ \A k \in 5..L :
            /\ Stream[k] \in UnitsOf(Len(frames))
            /\ Stream[k][1] \in 1..Len(frames) /\ Stream[k][2] \in 1..FrameLength(Stream[k][1])
            /\ Stream[k][2] # FrameLength(Stream[k][1]) =>
                  k + 1 \in 5..L /\ Stream[k + 1] = <<Stream[k][1], Stream[k][2] + 1>>
            /\ k + 1 \in 5..L /\ Stream[k][2] = FrameLength(Stream[k][1]) => Stream[k + 1][2] = 1
      /\ Len(frames) > 0 => Stream[5] = <<1, 1>>
  <2>1. \A k \in 5..L : Stream[k] \in UnitsOf(Len(frames))
    BY <1>1, <1>2 DEF StreamOf, L
  <2> QED
    BY <1>1, <2>1 DEF StreamOf, L
<1>4. i \in DOMAIN frames /\ F \in Nat /\ F >= 4
  <2>1. i \in 1..Len(frames)
    BY <1>2, <1>3
  <2>2. i \in DOMAIN frames
    BY <1>1, <2>1
  <2> QED
    BY <1>1, <2>2, FrameLengthType
<1>5. Stream[s + 1] = <<i, 1>>
  <2>1. Stream[s + 1] \in UnitsOf(Len(frames))
    BY <1>2, <1>3
  <2> QED
    BY <1>2, <2>1 DEF UnitsOf
<1> HIDE DEF i, F
<1> DEFINE T == {j \in 1..F : s + j \in 5..L /\ Stream[s + j] = <<i, j>>}
<1>6. \A j \in 1..F : j \in T
  <2>1. 1 \in T
    BY <1>2, <1>4, <1>5
  <2>2. ASSUME NEW j \in 1..(F - 1), j \in T PROVE j + 1 \in T
    <3>1. s + j \in 5..L /\ Stream[s + j] = <<i, j>> /\ j # F /\ (s + j) + 1 = s + (j + 1) /\ j + 1 \in 1..F
      BY <1>2, <1>4, <2>2
    <3>2. (s + j) + 1 \in 5..L /\ Stream[(s + j) + 1] = <<i, j + 1>>
      <4> DEFINE k == s + j
      <4> HIDE DEF k
      <4>1. k \in 5..L /\ Stream[k][1] = i /\ Stream[k][2] = j /\ j # FrameLength(i)
        BY <3>1 DEF F, k
      <4>2. k + 1 \in 5..L /\ Stream[k + 1] = <<Stream[k][1], Stream[k][2] + 1>>
        BY <1>3, <4>1
      <4> QED
        BY <4>1, <4>2 DEF k
    <3> QED
      BY <3>1, <3>2
  <2> HIDE DEF T
  <2>3. F - 1 \in Nat /\ (F - 1) + 1 = F
    BY <1>4
  <2> QED
    BY <2>1, <2>2, <2>3, FromOne
<1>7. \A j \in 1..F : s + j \in 1..L /\ s + j \in 5..L /\ Stream[s + j] = <<i, j>>
  BY <1>2, <1>6
<1> HIDE DEF T
<1>8. s + F \in Boundaries
  <2>1. F \in 1..F
    BY <1>4
  <2>2. s + F \in 5..L /\ Stream[s + F] = <<i, F>>
    BY <1>7, <2>1
  <2>3. s + F = L \/ (s + F) + 1 \in 5..L
    BY <1>2, <2>2
  <2>4. s + F = L \/ Stream[(s + F) + 1][2] = 1
    BY <1>3, <2>2, <2>3 DEF F
  <2>5. s + F \in 4..L
    BY <1>2, <2>2
  <2> QED
    BY <2>4, <2>5 DEF Boundaries, L
<1>9. ASSUME NEW q \in Boundaries, s < q, ~(s + F <= q) PROVE FALSE
  <2>1. q \in 4..L /\ (q = L \/ Stream[q + 1][2] = 1)
    BY DEF Boundaries, L
  <2>2. q - s \in 1..F /\ (q - s) + 1 \in 1..F /\ s + ((q - s) + 1) = q + 1
    BY <1>2, <1>4, <1>9, <2>1
  <2>3. q + 1 \in 5..L /\ Stream[q + 1] = <<i, (q - s) + 1>>
    BY <1>7, <2>2
  <2>4. q # L /\ (q - s) + 1 # 1
    BY <1>2, <1>9, <2>1, <2>3
  <2> QED
    BY <2>1, <2>3, <2>4
<1>10. s = 4 => i = 1
  <2>1. s = 4 => s + 1 = 5
    OBVIOUS
  <2>2. Len(frames) > 0
    BY StreamIs
  <2> QED
    BY <1>3, <1>5, <2>1, <2>2
<1>11. FrameLies(s, i)
  BY <1>4, <1>7, <1>8, <1>9, <1>10 DEF FrameLies, F, L
<1> QED
  BY <1>11

-----------------------------------------------------------------------------
(***************************************************************************)
(* The buffer and the counters.                                            *)
(***************************************************************************)
ReadOK ==
    /\ frames \in Clients /\ pc \in Places
    /\ pos \in 0..Len(Stream)
    /\ buffer \in Seq(UnitsOf(Len(frames))) /\ Len(buffer) <= BufferSize
    /\ bytesRead \in 0..Len(buffer)
    /\ totalRead \in 0..pos /\ totalParsed \in Nat /\ offset \in Nat
    /\ pc = "frames" /\ bytesRead = 0 => offset <= Len(buffer)
    /\ settings.from \in 0..Len(frames) /\ DOMAIN settings.parameters \subseteq Parameter
    /\ closes \in 0..2
    /\ errno \in Results
    /\ tidy \in BOOLEAN /\ early \in BOOLEAN /\ parity \in {0, 1}

LEMMA MinOfTwo ==
    ASSUME NEW a \in Int, NEW b \in Int
    PROVE  Min({a, b}) \in Int /\ Min({a, b}) <= a /\ Min({a, b}) <= b
<1>1. \E x \in {a, b} : \A y \in {a, b} : x <= y
  OBVIOUS
<1>2. Min({a, b}) \in {a, b} /\ \A y \in {a, b} : Min({a, b}) <= y
  BY <1>1 DEF Min
<1> QED
  BY <1>2

LEMMA MaxOfSome ==
    ASSUME NEW n \in Nat, NEW S, S \subseteq 0..n, S # {}
    PROVE  Max(S) \in S /\ \A x \in S : x <= Max(S)
<1> DEFINE T == {n - x : x \in S}
<1>1. T \subseteq Nat /\ T # {}
  <2>1. \A x \in S : n - x \in Nat
    OBVIOUS
  <2>2. PICK x \in S : TRUE
    OBVIOUS
  <2>3. n - x \in T
    OBVIOUS
  <2> QED
    BY <2>1, <2>3
<1>2. PICK y \in T : \A z \in T : y <= z
  BY <1>1, Least
<1>3. PICK x \in S : y = n - x
  BY <1>2
<1>4. \A w \in S : x >= w
  BY <1>2, <1>3
<1>5. Max(S) \in S /\ \A w \in S : Max(S) >= w
  BY <1>4 DEF Max
<1> QED
  BY <1>5

LEMMA StreamType ==
    ASSUME frames \in Clients
    PROVE  Stream \in Seq(UnitsOf(Len(frames))) /\ Len(Stream) \in Nat /\ Len(Stream) >= 4
<1>1. Stream \in Seq(UnitsOf(Len(frames))) /\ Len(Stream) >= 4
  BY StreamIs DEF StreamOf
<1> QED
  BY <1>1

LEMMA StreamStays == frames' = frames => Stream' = Stream
BY DEF Stream, FrameUnits, FrameLength

\* What a read leaves in the buffer, and what it counts.
LEMMA ReadBrings ==
    ASSUME ReadOK, NEW at \in Nat, at <= Len(buffer), NEW result, ReadFrom(at, result)
    PROVE  /\ frames' = frames /\ errno' = errno /\ parity' \in {0, 1}
           /\ buffer' \in Seq(UnitsOf(Len(frames)))
           /\ Len(buffer') <= BufferSize /\ at <= Len(buffer')
           /\ bytesRead' \in 0..Len(buffer')
           /\ pos' \in 0..Len(Stream) /\ pos' = pos + bytesRead'
           /\ tidy' \in BOOLEAN
           /\ tidy' => /\ tidy /\ pos' \in Boundaries /\ bytesRead' > 0
                       /\ at = 0 => buffer' = SubSeq(Stream, pos + 1, pos')
<1> DEFINE U == UnitsOf(Len(frames))
           kept == UpTo(at)
<1>1. /\ frames \in Clients /\ pos \in 0..Len(Stream) /\ pos \in Nat
      /\ Stream \in Seq(U) /\ Len(Stream) \in Nat /\ BufferSize \in Nat
      /\ Len(buffer) \in Nat /\ Len(buffer) <= BufferSize /\ buffer \in Seq(U)
      /\ tidy \in BOOLEAN
  BY StreamType, Http2Assumption DEF ReadOK
<1>2. kept \in Seq(U) /\ Len(kept) = at
  <2>1. \A i \in 1..at : i \in DOMAIN buffer /\ buffer[i] \in U
    BY <1>1
  <2>2. kept = [i \in 1..at |-> buffer[i]]
    BY <2>1 DEF UpTo
  <2> QED
    BY <2>1, <2>2
<1>3. frames' = frames /\ errno' = errno /\ parity' \in {0, 1}
  BY DEF ReadFrom, ReadOK
<1> HIDE DEF U, kept
<1>4. CASE Received(at)
  <2> DEFINE most == Min({Len(Stream) - pos, BufferSize - at})
  <2>1. PICK n \in 1..most :
            /\ buffer' = kept \o SubSeq(Stream, pos + 1, pos + n)
            /\ pos' = pos + n /\ bytesRead' = n
            /\ tidy' = (tidy /\ pos + n \in Boundaries)
    BY <1>4 DEF Received, kept
  <2>2. most \in Int /\ most <= Len(Stream) - pos /\ most <= BufferSize - at
    <3>1. Len(Stream) - pos \in Int /\ BufferSize - at \in Int
      BY <1>1
    <3> QED
      BY <3>1, MinOfTwo, Zenon
  <2> HIDE DEF most
  <2>3. n \in Nat /\ n > 0 /\ pos + n <= Len(Stream) /\ at + n <= BufferSize
    BY <1>1, <2>2
  <2> DEFINE piece == SubSeq(Stream, pos + 1, pos + n)
  <2>4. piece \in Seq(U) /\ Len(piece) = n
    <3>1. pos + 1 \in 1..(Len(Stream) + 1) /\ pos + n \in (pos + 1)-1..Len(Stream) /\ pos + 1 <= pos + n
      BY <1>1, <2>3
    <3>2. (pos + n) - (pos + 1) + 1 = n
      BY <1>1, <2>3
    <3> QED
      BY <1>1, <3>1, <3>2, SubSeqProperties
  <2> HIDE DEF piece
  <2>5. buffer' \in Seq(U) /\ Len(buffer') = at + n
    BY <1>2, <2>1, <2>4, ConcatParts DEF piece
  <2>6. at = 0 => buffer' = piece
    <3>1. at = 0 => kept = <<>>
      BY <1>2, EmptySeq
    <3> QED
      BY <2>1, <2>4, <3>1, ConcatEmptySeq DEF piece
  <2>7. tidy' \in BOOLEAN /\ (tidy' => tidy /\ pos' \in Boundaries)
    BY <1>1, <2>1
  <2>8. /\ Len(buffer') <= BufferSize /\ at <= Len(buffer') /\ bytesRead' \in 0..Len(buffer')
        /\ pos' \in 0..Len(Stream) /\ pos' = pos + bytesRead' /\ bytesRead' > 0
    <3>1. at \in Nat /\ pos \in Nat /\ BufferSize \in Nat /\ Len(Stream) \in Nat
          /\ Len(buffer') = at + n /\ pos' = pos + n /\ bytesRead' = n
      BY <1>1, <2>1, <2>5
    <3> QED
      BY <2>3, <3>1
  <2>9. at = 0 => buffer' = SubSeq(Stream, pos + 1, pos')
    BY <2>1, <2>6 DEF piece
  <2> QED
    BY <1>3, <2>5, <2>7, <2>8, <2>9 DEF U
<1>5. CASE ReceivedNothing(at)
  <2>1. buffer' = kept /\ bytesRead' = 0 /\ tidy' = FALSE /\ pos' = pos
    BY <1>5 DEF ReceivedNothing, kept
  <2>2. 0 \in 0..at /\ at <= BufferSize /\ at <= at /\ pos = pos + 0
    BY <1>1
  <2>3. buffer' \in Seq(U) /\ Len(buffer') = at
    BY <1>2, <2>1
  <2>4. /\ Len(buffer') <= BufferSize /\ at <= Len(buffer')
        /\ bytesRead' \in 0..Len(buffer')
        /\ pos' \in 0..Len(Stream) /\ pos' = pos + bytesRead' /\ tidy' = FALSE
    BY <1>1, <2>1, <2>2, <2>3
  <2> QED
    BY <1>3, <2>3, <2>4 DEF U
<1> QED
  BY <1>4, <1>5 DEF ReadFrom

\* The high bytes of a length count no more than the length.
LEMMA HighBytes ==
    ASSUME NEW n \in Nat
    PROVE  LengthBase * (n \div LengthBase) \in Nat
<1> DEFINE q == n \div LengthBase
<1>1. LengthBase \in Nat /\ LengthBase > 0
  BY Http2Assumption
<1>2. q \in Nat
  BY <1>1
<1> HIDE DEF q
<1>3. LengthBase * q \in Nat
  BY <1>1, <1>2
<1> QED
  BY <1>3 DEF q

LEMMA HeaderIs ==
    ASSUME ReadOK, Aligned, Fits
    PROVE  /\ LengthAt \in Nat /\ LengthAt >= 4
           /\ HeaderAt # Zero => /\ HeaderAt[1] \in DOMAIN frames
                                 /\ UnitAt(offset + 1) # Zero => LengthAt = FrameLength(HeaderAt[1])
<1>1. CASE HeaderAt = Zero
  BY <1>1 DEF LengthAt, HEADER_LENGTH
<1>2. CASE HeaderAt # Zero
  <2>1. frames \in Seq(FrameType) /\ Len(frames) \in Nat
    BY StreamIs DEF ReadOK
  <2>2. HeaderAt \in UnitsOf(Len(frames))
    <3>1. offset < Len(buffer)
      BY <1>2 DEF HeaderAt, UnitAt
    <3>2. offset + 1 \in 1..Len(buffer)
      BY <3>1 DEF ReadOK
    <3>3. buffer[offset + 1] \in UnitsOf(Len(frames))
      BY <3>2 DEF ReadOK
    <3> QED
      BY <3>1, <3>3 DEF HeaderAt, UnitAt
  <2>3. HeaderAt[1] # 0
    BY <1>2 DEF Aligned, Fits
  <2>4. HeaderAt[1] \in DOMAIN frames
    BY <2>1, <2>2, <2>3 DEF UnitsOf
  <2>5. CASE UnitAt(offset + 1) # Zero
    <3>1. LengthAt = FrameLength(HeaderAt[1])
      BY <1>2, <2>5 DEF LengthAt
    <3> QED
      BY <2>1, <2>4, <3>1, FrameLengthType
  <2>6. CASE UnitAt(offset + 1) = Zero
    <3> DEFINE high == LengthBase * (Len(frames[HeaderAt[1]].payload) \div LengthBase)
    <3>1. LengthAt = 4 + high
      BY <1>2, <2>6 DEF LengthAt, HEADER_LENGTH
    <3>2. frames[HeaderAt[1]].payload \in Seq(Nat)
      BY <2>1, <2>4, FrameLengthType
    <3>3. high \in Nat
      BY <3>2, HighBytes
    <3> HIDE DEF high
    <3> QED
      BY <2>4, <2>6, <3>1, <3>3
  <2> QED
    BY <2>5, <2>6
<1> QED
  BY <1>1, <1>2

LEMMA ParametersDomain ==
    \A slots : DOMAIN Parameters(slots) \subseteq Parameter
BY DEF Parameters

\* What the operators of TypeOK make of frames that stay.
LEMMA FramesStay ==
    ASSUME ReadOK, frames' = frames, pc' \in Places,
           pos' \in 0..Len(Stream), buffer' \in Seq(UnitsOf(Len(frames))), Len(buffer') <= BufferSize,
           bytesRead' \in 0..Len(buffer'), totalRead' \in 0..pos', totalParsed' \in Nat, offset' \in Nat,
           pc' = "frames" /\ bytesRead' = 0 => offset' <= Len(buffer'),
           settings'.from \in 0..Len(frames), DOMAIN settings'.parameters \subseteq Parameter,
           closes' = closes \/ Close, errno' = errno,
           tidy' \in BOOLEAN, early' \in BOOLEAN, parity' \in {0, 1}
    PROVE  ReadOK'
<1>1. closes' \in 0..2
  <2>1. closes \in 0..2 /\ (closes' = closes \/ Close)
    BY DEF ReadOK
  <2> QED
    BY <2>1 DEF Close
<1>2. Stream' = Stream
  BY StreamStays
<1> QED
  BY <1>1, <1>2 DEF ReadOK, UnitsOf

\* A step that reads nothing and parses nothing.
LEMMA ReadingStays ==
    ASSUME ReadOK, UNCHANGED reading, UNCHANGED settings, pc' \in Places,
           pc' = "frames" => pc = "frames", closes' = closes \/ Close
    PROVE  ReadOK'
<1>1. UNCHANGED <<frames, pos, buffer, offset, bytesRead, totalRead, totalParsed, errno, tidy, early, parity>>
  BY DEF reading, counts
<1>2. Stream' = Stream /\ closes' \in 0..2
  BY <1>1, StreamStays DEF Close, ReadOK
<1> QED
  BY <1>1, <1>2 DEF ReadOK

LEMMA CountGrows ==
    ASSUME ReadOK, NEW n \in Nat, NEW p, p = pos + n, NEW t, t = totalRead \/ t = n \/ t = totalRead + n
    PROVE  t \in 0..p
<1>1. pos \in Nat /\ totalRead \in Nat /\ totalRead <= pos
  BY StreamType DEF ReadOK
<1>2. t \in Nat /\ t <= p /\ p \in Nat
  BY <1>1
<1> QED
  BY <1>2

LEMMA AddTo ==
    ASSUME NEW n \in Nat, NEW p, NEW q, q = p + n
    PROVE  (p = 0 => q = n) /\ (p = 4 => q = 4 + n /\ (n > 0 => q > 4) /\ q - n = 4 /\ q - (4 + 1) + 1 = n)
OBVIOUS

LEMMA Differences ==
    ASSUME NEW n \in Nat, NEW p \in Nat, NEW q, q = p + n, NEW l \in Nat, q <= l
    PROVE  /\ q \in Nat /\ q - n = p
           /\ n > 0 => /\ p + 1 \in 1..(l + 1) /\ q \in ((p + 1) - 1)..l
                       /\ p + 1 <= q /\ q - (p + 1) + 1 = n
OBVIOUS

LEMMA InitRead == Init => ReadOK
<1> SUFFICES ASSUME Init PROVE ReadOK
  OBVIOUS
<1>1. Len(Stream) \in Nat /\ frames \in Seq(FrameType) /\ Len(frames) \in Nat
  BY StreamType, StreamIs DEF Init
<1>2. buffer = <<>> /\ Len(<<>>) = 0 /\ BufferSize \in Nat /\ buffer \in Seq(UnitsOf(Len(frames)))
  BY Http2Assumption DEF Init
<1>3. settings.from = 0 /\ settings.parameters = <<>> /\ DOMAIN settings.parameters \subseteq Parameter
  BY DEF Init, Null
<1>4. /\ frames \in Clients /\ pc = "request" /\ pos = 0 /\ bytesRead = 0 /\ totalRead = 0
      /\ totalParsed = 0 /\ offset = 0 /\ closes = 0 /\ errno \in Results
      /\ tidy \in BOOLEAN /\ early \in BOOLEAN /\ parity = 0
  BY DEF Init
<1>5. /\ pc \in Places /\ pos \in 0..Len(Stream) /\ Len(buffer) <= BufferSize
      /\ bytesRead \in 0..Len(buffer) /\ totalRead \in 0..pos
      /\ settings.from \in 0..Len(frames) /\ closes \in 0..2 /\ parity \in {0, 1}
      /\ totalParsed \in Nat /\ offset \in Nat
  BY <1>1, <1>2, <1>3, <1>4 DEF Places
<1> QED
  BY <1>2, <1>3, <1>4, <1>5 DEF ReadOK

LEMMA WritePlaces ==
    ASSUME NEW what, NEW next \in Places, WriteOrReturn(what, next) \/ WriteAndReturn(what)
    PROVE  pc' \in {next, "returned", "killed"} /\ pc' \in Places /\ (closes' = closes \/ Close)
BY DEF WriteOrReturn, WriteAndReturn, Killed, Written, Return, Places, Ends

LEMMA NextRead == ReadOK /\ [Next]_vars => ReadOK'
<1> SUFFICES ASSUME ReadOK, [Next]_vars PROVE ReadOK'
  OBVIOUS
<1>0. /\ pos \in 0..Len(Stream) /\ pos \in Nat /\ Len(Stream) \in Nat
      /\ buffer \in Seq(UnitsOf(Len(frames))) /\ Len(buffer) \in Nat /\ Len(buffer) <= BufferSize
      /\ bytesRead \in Nat /\ bytesRead \in 0..Len(buffer) /\ totalRead \in Nat /\ totalRead \in 0..pos
      /\ totalParsed \in Nat /\ offset \in Nat /\ frames \in Clients
      /\ settings.from \in 0..Len(frames) /\ DOMAIN settings.parameters \subseteq Parameter
      /\ tidy \in BOOLEAN /\ early \in BOOLEAN /\ parity \in {0, 1}
  BY StreamType DEF ReadOK
<1>1. CASE ReadRequest
  BY <1>1, ReadingStays DEF ReadRequest, settingsVars, Places, Ends
<1>2. CASE RefuseUpgrade
  BY <1>2, ReadingStays, WritePlaces DEF RefuseUpgrade, settingsVars, Places, Ends
<1>3. CASE SwitchProtocols
  <2>1. WriteOrReturn("101", "preface") /\ "preface" \in Places /\ UNCHANGED <<reading, settings>>
    BY <1>3 DEF SwitchProtocols, settingsVars, Places
  <2>2. pc' \in {"preface", "returned", "killed"} /\ pc' \in Places /\ (closes' = closes \/ Close)
    BY <2>1, WritePlaces
  <2> QED
    BY <2>1, <2>2, ReadingStays
<1>4. CASE ReadPreface
  <2>1. PICK result \in Results :
          /\ ReadFrom(0, result)
          /\ IF result = "other"
             THEN Return /\ UNCHANGED <<offset, bytesParsed, totalRead, totalParsed>>
             ELSE /\ bytesParsed' = PrefaceParsed
                  /\ pc' = IF bytesParsed' = bytesRead' THEN "again" ELSE "frames"
                  /\ offset' = bytesParsed'
                  /\ totalRead' = bytesRead'
                  /\ totalParsed' = bytesParsed'
                  /\ UNCHANGED closes
    BY <1>4 DEF ReadPreface
  <2>2. settings' = settings /\ early' = early
    BY <1>4 DEF ReadPreface, settingsVars
  <2> HIDE DEF PrefaceParsed
  <2>3. /\ frames' = frames /\ errno' = errno /\ parity' \in {0, 1}
        /\ buffer' \in Seq(UnitsOf(Len(frames))) /\ Len(buffer') <= BufferSize
        /\ bytesRead' \in 0..Len(buffer')
        /\ pos' \in 0..Len(Stream) /\ pos' = pos + bytesRead' /\ tidy' \in BOOLEAN
    BY <1>0, <2>1, ReadBrings
  <2>4. Len(buffer') \in Nat /\ bytesRead' \in Nat
    BY <2>3
  <2>5. CASE result = "other"
    <3>1. pc' = "returned" /\ Close /\ UNCHANGED <<offset, totalRead, totalParsed>>
      BY <2>1, <2>5 DEF Return
    <3>2. totalRead' \in 0..pos' /\ totalParsed' \in Nat /\ offset' \in Nat
      <4>1. totalRead' \in 0..pos'
        BY <2>3, <2>4, <3>1, CountGrows
      <4> QED
        BY <1>0, <3>1, <4>1
    <3> QED
      BY <1>0, <2>2, <2>3, <3>1, <3>2, FramesStay DEF Places, Ends
  <2>6. CASE result # "other"
    <3>1. PrefaceParsed \in Nat /\ (bytesRead' = 0 => PrefaceParsed <= Len(buffer'))
      <4>1. CASE BlankLines = {}
        <5>1. PrefaceParsed = bytesRead'
          BY <4>1 DEF PrefaceParsed
        <5>2. bytesRead' <= Len(buffer')
          BY <2>3, <2>4
        <5> QED
          BY <2>4, <5>1, <5>2
      <4>2. CASE BlankLines # {}
        <5>1. BlankLines \subseteq 0..Len(buffer')
          BY <2>3 DEF BlankLines
        <5>2. PrefaceParsed = Max(BlankLines)
          BY <4>2 DEF PrefaceParsed
        <5> HIDE DEF BlankLines
        <5>3. Max(BlankLines) \in BlankLines
          BY <2>4, <4>2, <5>1, MaxOfSome
        <5>4. Max(BlankLines) \in 0..Len(buffer')
          BY <5>1, <5>3
        <5> QED
          BY <2>4, <5>2, <5>4
      <4> QED
        BY <4>1, <4>2
    <3>2. /\ pc' \in Places /\ closes' = closes /\ offset' = PrefaceParsed /\ totalParsed' = PrefaceParsed
          /\ totalRead' = bytesRead'
      BY <2>1, <2>6 DEF Places
    <3>3. totalRead' \in 0..pos'
      BY <2>3, <2>4, <3>2, CountGrows
    <3> QED
      BY <1>0, <2>2, <2>3, <3>1, <3>2, <3>3, FramesStay
  <2> QED
    BY <2>5, <2>6
<1>5. CASE ReadAgain
  <2>1. PICK result \in Results :
          /\ ReadFrom(0, result)
          /\ IF result = "other" THEN Close ELSE UNCHANGED closes
    BY <1>5 DEF ReadAgain
  <2>2. /\ settings' = settings /\ early' = early /\ pc' = "frames"
        /\ offset' = 0 /\ totalParsed' = 0 /\ totalRead' = bytesRead'
        /\ closes' = closes \/ Close
    BY <1>5, <2>1 DEF ReadAgain, settingsVars
  <2>3. /\ frames' = frames /\ errno' = errno /\ parity' \in {0, 1}
        /\ buffer' \in Seq(UnitsOf(Len(frames))) /\ Len(buffer') <= BufferSize
        /\ bytesRead' \in 0..Len(buffer')
        /\ pos' \in 0..Len(Stream) /\ pos' = pos + bytesRead' /\ tidy' \in BOOLEAN
    BY <1>0, <2>1, ReadBrings
  <2>4. Len(buffer') \in Nat /\ bytesRead' \in Nat
    BY <2>3
  <2>5. totalRead' \in 0..pos' /\ offset' <= Len(buffer') /\ offset' \in Nat /\ totalParsed' \in Nat
    <3>1. totalRead' \in 0..pos'
      BY <2>2, <2>3, <2>4, CountGrows
    <3> QED
      BY <2>2, <2>4, <3>1
  <2>6. pc' \in Places
    BY <2>2 DEF Places
  <2> QED
    BY <1>0, <2>2, <2>3, <2>5, <2>6, FramesStay
<1>6. CASE ParseFrame
  <2>1. /\ Aligned /\ Fits /\ pc = "frames"
        /\ totalParsed' = totalParsed + LengthAt /\ offset' = offset + LengthAt
        /\ early' = (early \/ offset + LengthAt > Len(buffer))
        /\ UNCHANGED <<frames, pc, pos, buffer, bytesRead, totalRead, closes, errno, tidy, parity>>
        /\ settings' = IF HeaderAt # Zero /\ TypeAt = "Settings"
                       THEN [from |-> HeaderAt[1], parameters |-> Parameters(Slots(ReadSettings))]
                       ELSE settings
    BY <1>6 DEF ParseFrame
  <2>2. LengthAt \in Nat /\ (HeaderAt # Zero => HeaderAt[1] \in DOMAIN frames)
    BY <2>1, HeaderIs
  <2>3. settings'.from \in 0..Len(frames) /\ DOMAIN settings'.parameters \subseteq Parameter
    <3>1. CASE HeaderAt # Zero /\ TypeAt = "Settings"
      <4>1. HeaderAt[1] \in 0..Len(frames)
        BY <2>2, <3>1, <1>0, StreamIs
      <4>2. settings'.from = HeaderAt[1] /\ settings'.parameters = Parameters(Slots(ReadSettings))
        BY <2>1, <3>1
      <4> QED
        BY <4>1, <4>2, ParametersDomain
    <3>2. CASE ~(HeaderAt # Zero /\ TypeAt = "Settings")
      BY <1>0, <2>1, <3>2
    <3> QED
      BY <3>1, <3>2
  <2>4. totalParsed' \in Nat /\ offset' \in Nat /\ early' \in BOOLEAN
    BY <1>0, <2>1, <2>2
  <2>5. bytesRead # 0
    BY <1>0, <2>1 DEF Fits, HEADER_LENGTH
  <2>6. /\ pos' \in 0..Len(Stream) /\ buffer' \in Seq(UnitsOf(Len(frames))) /\ Len(buffer') <= BufferSize
        /\ bytesRead' \in 0..Len(buffer') /\ totalRead' \in 0..pos'
        /\ pc' \in Places /\ bytesRead' # 0
        /\ tidy' \in BOOLEAN /\ parity' \in {0, 1}
    BY <1>0, <2>1, <2>5 DEF ReadOK
  <2> QED
    BY <2>1, <2>3, <2>4, <2>6, FramesStay
<1>7. CASE ParseCrash \/ ParseMisaligned \/ FramesEnd \/ ParseAcknowledgement
  <2>1. /\ pc' \in {"crashed", "garbled", "settings", "headers"}
        /\ UNCHANGED <<reading, settings, closes>>
    BY <1>7 DEF ParseCrash, ParseMisaligned, FramesEnd, ParseAcknowledgement, settingsVars
  <2> QED
    BY <2>1, ReadingStays DEF Places, Ends
<1>8. CASE ReadMore
  <2> DEFINE at == IF bytesRead > 0 THEN bytesRead ELSE offset
  <2>1. /\ pc = "frames" /\ offset' = at /\ settings' = settings /\ early' = early /\ totalParsed' = totalParsed
        /\ \E result \in Results :
              /\ ReadFrom(at, result)
              /\ pc' = IF result = "ETIMEDOUT" THEN "settings" ELSE "frames"
              /\ IF result = "other" THEN Close ELSE UNCHANGED closes
              /\ totalRead' = IF result = "ETIMEDOUT" THEN totalRead ELSE totalRead + bytesRead'
    BY <1>8 DEF ReadMore, settingsVars
  <2>2. at \in Nat /\ at <= Len(buffer)
    BY <1>0, <2>1 DEF ReadOK
  <2> HIDE DEF at
  <2>3. PICK result \in Results :
              /\ ReadFrom(at, result)
              /\ pc' = IF result = "ETIMEDOUT" THEN "settings" ELSE "frames"
              /\ IF result = "other" THEN Close ELSE UNCHANGED closes
              /\ totalRead' = IF result = "ETIMEDOUT" THEN totalRead ELSE totalRead + bytesRead'
    BY <2>1
  <2>4. /\ frames' = frames /\ errno' = errno /\ parity' \in {0, 1}
        /\ buffer' \in Seq(UnitsOf(Len(frames))) /\ Len(buffer') <= BufferSize /\ at <= Len(buffer')
        /\ bytesRead' \in 0..Len(buffer')
        /\ pos' \in 0..Len(Stream) /\ pos' = pos + bytesRead' /\ tidy' \in BOOLEAN
    BY <2>2, <2>3, ReadBrings
  <2>5. Len(buffer') \in Nat /\ bytesRead' \in Nat
    BY <2>4
  <2>6. totalRead' \in 0..pos' /\ pc' \in Places /\ (closes' = closes \/ Close)
    <3>1. totalRead' \in {totalRead, totalRead + bytesRead'} /\ pos' = pos + bytesRead' /\ bytesRead' \in Nat
      BY <2>3, <2>4, <2>5
    <3>2. totalRead' \in 0..pos'
      BY <3>1, CountGrows
    <3> QED
      BY <2>3, <3>2 DEF Places
  <2>7. offset' \in Nat /\ offset' <= Len(buffer')
    BY <2>1, <2>2, <2>4
  <2> QED
    BY <1>0, <2>1, <2>4, <2>6, <2>7, FramesStay
<1>9. CASE SendSettings
  <2>1. UNCHANGED <<reading, settings>>
    BY <1>9 DEF SendSettings
  <2>2. \/ pc' = "crashed" /\ closes' = closes
        \/ WriteOrReturn("settings", "acknowledged")
    BY <1>9 DEF SendSettings
  <2>3. pc' \in {"crashed", "acknowledged", "returned", "killed"} /\ (closes' = closes \/ Close)
    BY <2>2, WritePlaces DEF Places
  <2> QED
    BY <2>1, <2>3, ReadingStays DEF Places, Ends
<1>10. CASE ReadAcknowledgement
  <2>1. PICK result \in Results :
          /\ ReadFrom(0, result)
          /\ IF result = "zero" THEN pc' = "acknowledgement" /\ UNCHANGED closes ELSE Return
    BY <1>10 DEF ReadAcknowledgement
  <2>2. /\ settings' = settings /\ UNCHANGED <<totalRead, totalParsed, early>> /\ offset' = 0
        /\ pc' \in {"acknowledgement", "returned"} /\ (closes' = closes \/ Close)
    BY <1>10, <2>1 DEF ReadAcknowledgement, settingsVars, Return
  <2>3. /\ frames' = frames /\ errno' = errno /\ parity' \in {0, 1}
        /\ buffer' \in Seq(UnitsOf(Len(frames))) /\ Len(buffer') <= BufferSize
        /\ bytesRead' \in 0..Len(buffer')
        /\ pos' \in 0..Len(Stream) /\ pos' = pos + bytesRead' /\ tidy' \in BOOLEAN
    BY <1>0, <2>1, ReadBrings
  <2>4. Len(buffer') \in Nat /\ bytesRead' \in Nat
    BY <2>3
  <2>5. totalRead' \in 0..pos' /\ pc' \in Places /\ pc' # "frames"
    <3>1. totalRead' = totalRead /\ pos' = pos + bytesRead' /\ bytesRead' \in Nat
      BY <2>2, <2>3, <2>4
    <3>2. totalRead' \in 0..pos'
      BY <3>1, CountGrows
    <3> QED
      BY <2>2, <3>2 DEF Places, Ends
  <2>6. offset' \in Nat
    BY <2>2
  <2> QED
    BY <1>0, <2>2, <2>3, <2>5, <2>6, FramesStay
<1>11. CASE Respond
  <2>1. UNCHANGED <<reading, settings>>
    BY <1>11 DEF Respond, settingsVars
  <2>2. \/ WriteOrReturn("headers", "data") \/ WriteOrReturn("data", "goaway")
        \/ WriteAndReturn("goaway")
    BY <1>11 DEF Respond, SendHeaders, SendData, SendGoAway
  <2>3. pc' \in {"data", "goaway", "returned", "killed"} /\ (closes' = closes \/ Close)
    BY <2>2, WritePlaces DEF Places
  <2> QED
    BY <2>1, <2>3, ReadingStays DEF Places, Ends
<1>12. CASE UNCHANGED vars
  <2>1. UNCHANGED <<reading, settings, pc, closes>>
    BY <1>12 DEF vars, settingsVars
  <2>2. pc' \in Places
    BY <2>1 DEF ReadOK
  <2> QED
    BY <2>1, <2>2, ReadingStays
<1> QED
  BY <1>1, <1>2, <1>3, <1>4, <1>5, <1>6, <1>7, <1>8, <1>9, <1>10, <1>11, <1>12
    DEF Next, FrameLoop

\* The counters stay within what the client sent and what the buffer holds: no
\* read of handleHttp2Connection() goes beyond its buffer.
THEOREM TypeCorrect == Spec => []TypeOK
<1>1. ReadOK => TypeOK
  <2> SUFFICES ASSUME ReadOK PROVE TypeOK
    OBVIOUS
  <2>1. /\ Len(Stream) \in Nat /\ BufferSize \in Nat /\ pos \in 0..Len(Stream)
        /\ Len(buffer) \in Nat /\ Len(buffer) <= BufferSize
        /\ bytesRead \in 0..Len(buffer) /\ totalRead \in 0..pos
    BY StreamType, Http2Assumption DEF ReadOK
  <2>2. bytesRead \in 0..BufferSize /\ totalRead \in 0..Len(Stream)
    BY <2>1
  <2> QED
    BY <2>2 DEF ReadOK, TypeOK, Places
<1> QED
  BY <1>1, InitRead, NextRead, PTL DEF Spec

-----------------------------------------------------------------------------
(***************************************************************************)
(* Reads that end where a frame ends.                                      *)
(***************************************************************************)
\* How much of the stream was read before what the buffer holds.
Base == pos - Len(buffer)

\* The buffer holds whole frames, and the next of them lies at offset.
HoldsFrames ==
    /\ Base \in Nat /\ buffer = SubSeq(Stream, Base + 1, pos) /\ bytesRead = Len(buffer)
    /\ pos \in Boundaries /\ Base + offset \in Boundaries

InStep ==
    /\ HoldsFrames /\ Base \in {0, 4} /\ pos > 4
    /\ Base + offset > 4 => settings # Null
    /\ totalParsed = offset /\ totalRead = Len(buffer)

TidyOK ==
    tidy => /\ pc # "garbled" /\ ~early /\ totalParsed <= totalRead
            /\ pc \in {"request", "refuse", "switch", "preface"} => pos = 0
            /\ pc = "again" => pos = 4
            /\ pc = "frames" => InStep
            /\ pc \in {"settings", "acknowledged"} => pos \in Boundaries
            /\ pc = "acknowledgement" => HoldsFrames /\ offset < Len(buffer)
            /\ pc = "settings" => settings # Null /\ totalParsed = totalRead

TidyFrame(i) ==
    /\ FrameLies(Base + offset, i)
    /\ HeaderAt = <<i, 1>> /\ HeaderAt # Zero /\ LengthAt = FrameLength(i) /\ TypeAt = frames[i].type
    /\ offset + LengthAt <= Len(buffer) /\ (Base + offset) + LengthAt <= pos
    /\ Aligned /\ Fits

LEMMA TidyFrameThere ==
    ASSUME ReadOK, HoldsFrames, offset < Len(buffer)
    PROVE  \E i : TidyFrame(i)
<1> DEFINE s == Base + offset
           U == UnitsOf(Len(frames))
<1>1. /\ frames \in Clients /\ Len(Stream) \in Nat /\ pos \in Nat /\ pos <= Len(Stream)
      /\ Len(buffer) \in Nat /\ Len(buffer) <= BufferSize /\ BufferSize \in Nat /\ offset \in Nat
      /\ Stream \in Seq(U) /\ buffer \in Seq(U)
  BY StreamType, Http2Assumption DEF ReadOK
<1>2. /\ Base \in Nat /\ Base + Len(buffer) = pos /\ offset < Len(buffer)
      /\ bytesRead = Len(buffer) /\ s \in Boundaries /\ pos \in Boundaries
  BY <1>1 DEF HoldsFrames, Base
<1> HIDE DEF U
<1>3. \A k \in 1..Len(buffer) : buffer[k] = Stream[Base + k]
  <2>1. buffer = SubSeq(Stream, Base + 1, pos)
    BY DEF HoldsFrames
  <2>2. Base + 1 \in 1..(Len(Stream) + 1) /\ pos \in ((Base + 1) - 1)..Len(Stream)
        /\ pos - (Base + 1) + 1 = Len(buffer)
    BY <1>1, <1>2
  <2>3. \A k \in 1..(pos - (Base + 1) + 1) : SubSeq(Stream, Base + 1, pos)[k] = Stream[(Base + 1) + k - 1]
    BY <1>1, <2>2, SubSeqProperties
  <2>4. ASSUME NEW k \in 1..Len(buffer) PROVE buffer[k] = Stream[Base + k]
    <3>1. (Base + 1) + k - 1 = Base + k
      BY <1>1, <1>2
    <3> QED
      BY <2>1, <2>2, <2>3, <2>4, <3>1
  <2> QED
    BY <2>4
<1>4. s < Len(Stream) /\ s < pos
  BY <1>1, <1>2
<1>5. PICK i : FrameLies(s, i)
  BY <1>1, <1>2, <1>4, FrameAt
<1> DEFINE F == FrameLength(i)
<1>6. F \in Nat /\ F >= 4
  <2>1. frames \in Seq(FrameType) /\ i \in DOMAIN frames
    BY <1>1, <1>5, StreamIs DEF FrameLies
  <2> QED
    BY <2>1, FrameLengthType
<1>7. s + F <= pos
  BY <1>2, <1>4, <1>5 DEF FrameLies
<1> HIDE DEF F
<1>8. offset + F <= Len(buffer)
  BY <1>1, <1>2, <1>6, <1>7
<1>9. \A k \in 1..F : Stream[s + k] = <<i, k>>
  BY <1>5 DEF FrameLies, F
<1>10. ASSUME NEW k \in 1..F PROVE buffer[offset + k] = <<i, k>> /\ UnitAt(offset + k - 1) = <<i, k>>
  <2>1. /\ offset + k \in 1..Len(buffer) /\ Base + (offset + k) = s + k
        /\ (offset + k - 1) + 1 = offset + k /\ offset + k - 1 < Len(buffer)
    BY <1>1, <1>2, <1>6, <1>8
  <2>2. buffer[offset + k] = <<i, k>>
    BY <1>3, <1>9, <2>1
  <2> QED
    BY <2>1, <2>2 DEF UnitAt
<1>11. HeaderAt = <<i, 1>> /\ UnitAt(offset + 1) = <<i, 2>> /\ UnitAt(offset + 2) = <<i, 3>>
  <2>1. /\ 1 \in 1..F /\ offset + 1 - 1 = offset
        /\ 2 \in 1..F /\ offset + 2 - 1 = offset + 1
        /\ 3 \in 1..F /\ offset + 3 - 1 = offset + 2
    BY <1>1, <1>6
  <2>2. UnitAt(offset + 1 - 1) = <<i, 1>> /\ UnitAt(offset + 2 - 1) = <<i, 2>> /\ UnitAt(offset + 3 - 1) = <<i, 3>>
    BY <1>10, <2>1
  <2> QED
    BY <2>1, <2>2 DEF HeaderAt
<1>12. i \in Nat /\ i # 0
  <2>1. i \in DOMAIN frames /\ frames \in Seq(FrameType)
    BY <1>1, <1>5, StreamIs DEF FrameLies
  <2> QED
    BY <2>1
<1>13. HeaderAt # Zero /\ UnitAt(offset + 1) # Zero /\ UnitAt(offset + 2) # Zero
  BY <1>11, <1>12 DEF Zero
<1>14. LengthAt = F /\ TypeAt = frames[i].type
  BY <1>11, <1>13 DEF LengthAt, TypeAt, F
<1>15. Fits
  BY <1>1, <1>2, <1>6, <1>8, <1>14 DEF Fits, HEADER_LENGTH
<1>16. Aligned
  <2>1. HeaderAt[1] = i /\ HeaderAt[2] = 1
    BY <1>11
  <2>2. offset + LengthAt <= BufferSize
    BY <1>1, <1>6, <1>8, <1>14
  <2>3. DOMAIN PayloadAt = 1..(F - 4)
    BY <1>14 DEF PayloadAt, HEADER_LENGTH
  <2>4. ASSUME NEW k \in 1..(F - 4)
        PROVE  PayloadAt[k] = <<i, 4 + k>>
    <3>1. 4 + k \in 1..F /\ offset + 4 + k - 1 = offset + (4 + k) - 1
      BY <1>1, <1>6
    <3>2. UnitAt(offset + 4 + k - 1) = <<i, 4 + k>>
      BY <1>10, <3>1
    <3> QED
      BY <1>14, <3>2 DEF PayloadAt, HEADER_LENGTH
  <2>5. \A k \in 2..4 : UnitAt(offset + k - 1) = <<i, k>>
    <3>1. \A k \in 2..4 : k \in 1..F
      BY <1>6
    <3> QED
      BY <1>10, <3>1
  <2>6. offset + 4 <= BufferSize
    BY <1>1, <1>6, <1>8
  <2> QED
    BY <1>1, <1>6, <1>8, <1>12, <1>14, <2>1, <2>2, <2>3, <2>4, <2>5, <2>6 DEF Aligned, HEADER_LENGTH
<1>17. (Base + offset) + LengthAt <= pos
  BY <1>7, <1>14
<1> QED
  BY <1>5, <1>8, <1>11, <1>13, <1>14, <1>15, <1>16, <1>17 DEF TidyFrame, F

\* A step that reads nothing, and leaves a place where nothing is parsed.
LEMMA TidyStays ==
    ASSUME TidyOK, UNCHANGED <<tidy, early, totalParsed, totalRead, pos>>,
           \/ pc' \in Ends \ {"garbled"}
           \/ pc' \in {"looping", "headers", "data", "goaway"}
           \/ pc' = "acknowledged" /\ pc = "settings" /\ frames' = frames
           \/ pc' \in {"refuse", "switch", "preface"} /\ pc \in {"request", "refuse", "switch", "preface"}
    PROVE  TidyOK'
<1>1. frames' = frames => Boundaries' = Boundaries
  BY StreamStays DEF Boundaries
<1> QED
  BY <1>1 DEF TidyOK, Ends

LEMMA NextTidy == ReadOK /\ TidyOK /\ [Next]_vars => TidyOK'
<1> SUFFICES ASSUME ReadOK, TidyOK, [Next]_vars PROVE TidyOK'
  OBVIOUS
<1>0. /\ pos \in 0..Len(Stream) /\ pos \in Nat /\ Len(Stream) \in Nat /\ Len(Stream) >= 4
      /\ buffer \in Seq(UnitsOf(Len(frames))) /\ Len(buffer) \in Nat
      /\ frames \in Clients /\ StreamOf(Stream, Len(frames)) /\ Len(frames) > 0
      /\ Stream \in Seq(UnitsOf(Len(frames))) /\ offset \in Nat
  BY StreamType, StreamIs DEF ReadOK
<1>1. CASE ReadRequest
  BY <1>1, TidyStays DEF ReadRequest, reading, counts, Ends
<1>2. CASE RefuseUpgrade
  <2>1. pc' \in {"returned", "killed"} /\ UNCHANGED reading
    BY <1>2 DEF RefuseUpgrade, WriteAndReturn, Killed, Return
  <2> QED
    BY <2>1, TidyStays DEF reading, counts, Ends
<1>3. CASE SwitchProtocols
  <2>1. pc = "switch" /\ pc' \in {"preface", "returned", "killed"} /\ UNCHANGED reading
    BY <1>3 DEF SwitchProtocols, WriteOrReturn, Killed, Written, Return
  <2> QED
    BY <2>1, TidyStays DEF reading, counts, Ends
<1>4. CASE ReadPreface
  <2> SUFFICES ASSUME tidy' PROVE TidyOK'
    BY DEF TidyOK
  <2>1. PICK result \in Results :
          /\ ReadFrom(0, result)
          /\ IF result = "other"
             THEN Return /\ UNCHANGED <<offset, bytesParsed, totalRead, totalParsed>>
             ELSE /\ bytesParsed' = PrefaceParsed
                  /\ pc' = IF bytesParsed' = bytesRead' THEN "again" ELSE "frames"
                  /\ offset' = bytesParsed'
                  /\ totalRead' = bytesRead'
                  /\ totalParsed' = bytesParsed'
                  /\ UNCHANGED closes
    BY <1>4 DEF ReadPreface
  <2>2. pc = "preface" /\ settings' = settings /\ early' = early
    BY <1>4 DEF ReadPreface, settingsVars
  <2>3. /\ frames' = frames /\ buffer' \in Seq(UnitsOf(Len(frames)))
        /\ bytesRead' \in 0..Len(buffer') /\ pos' \in 0..Len(Stream) /\ pos' = pos + bytesRead'
        /\ tidy /\ pos' \in Boundaries /\ bytesRead' > 0
        /\ buffer' = SubSeq(Stream, pos + 1, pos')
    BY <1>0, <2>1, ReadBrings
  <2>4. pos = 0 /\ ~early /\ totalParsed <= totalRead
    BY <2>2, <2>3 DEF TidyOK
  <2> DEFINE n == bytesRead'
  <2>5. n \in Nat /\ pos' = n /\ n >= 4 /\ n <= Len(Stream) /\ n \in Boundaries
    <3>1. bytesRead' \in Nat
      BY <2>3
    <3>2. pos' = bytesRead'
      BY <2>3, <2>4, <3>1, AddTo, Zenon
    <3>3. pos' \in 4..Len(Stream)
      BY <2>3 DEF Boundaries
    <3>4. \A q \in 4..Len(Stream) : q >= 4 /\ q <= Len(Stream)
      BY <1>0
    <3> QED
      BY <2>3, <3>1, <3>2, <3>3, <3>4, Zenon
  <2>6. Len(buffer') = n /\ \A k \in 1..n : buffer'[k] = Stream[k]
    <3>1. buffer' = SubSeq(Stream, 1, n)
      <4>1. pos + 1 = 1
        BY <2>4
      <4> QED
        BY <2>3, <2>5, <4>1
    <3> HIDE DEF n
    <3>2. 1 \in 1..(Len(Stream) + 1) /\ n \in (1 - 1)..Len(Stream) /\ 1 <= n /\ n - 1 + 1 = n
      BY <1>0, <2>5
    <3>3. /\ Len(SubSeq(Stream, 1, n)) = n
          /\ \A k \in 1..n : SubSeq(Stream, 1, n)[k] = Stream[1 + k - 1]
      BY <1>0, <2>5, <3>2, SubSeqProperties
    <3>4. \A k \in 1..n : 1 + k - 1 = k
      BY <2>5
    <3> QED
      BY <3>1, <3>3, <3>4
  <2> HIDE DEF PrefaceParsed
  <2>7. PrefaceParsed = 4
    <3>1. DOMAIN buffer' = 1..n
      BY <2>3, <2>6
    <3>2. 4 \in BlankLines
      <4>1. 4 \in 1..n
        BY <2>5
      <4>2. Stream[4] = <<0, 4>>
        BY <1>0 DEF StreamOf
      <4>3. buffer'[4] = <<0, 4>>
        BY <2>6, <4>1, <4>2
      <4> QED
        BY <3>1, <4>1, <4>3 DEF BlankLines
    <3>3. ASSUME NEW k \in BlankLines, k > 4 PROVE FALSE
      <4>1. k \in 1..n /\ Stream[k] \in {<<0, 2>>, <<0, 4>>}
        BY <2>6, <3>1 DEF BlankLines
      <4>2. k \in 5..Len(Stream)
        BY <1>0, <2>5, <3>3, <4>1
      <4>3. Stream[k][1] \in 1..Len(frames)
        BY <1>0, <4>2 DEF StreamOf
      <4>4. Stream[k][1] = 0
        BY <4>1
      <4> QED
        BY <4>3, <4>4
    <3>4. BlankLines \subseteq 1..n
      BY <3>1 DEF BlankLines
    <3> HIDE DEF BlankLines, n
    <3>5. BlankLines \subseteq 0..n /\ BlankLines # {}
      BY <2>5, <3>2, <3>4
    <3>6. Max(BlankLines) \in BlankLines /\ 4 <= Max(BlankLines)
      BY <2>5, <3>2, <3>5, MaxOfSome
    <3> DEFINE most == Max(BlankLines)
    <3>7. most \in 1..n /\ ~(most > 4) /\ 4 <= most
      BY <3>3, <3>4, <3>6
    <3> HIDE DEF most
    <3>8. most = 4
      BY <2>5, <3>7
    <3> QED
      BY <3>5, <3>8 DEF PrefaceParsed, most
  <2>8. CASE result = "other"
    <3>1. pc' = "returned" /\ UNCHANGED <<totalRead, totalParsed>>
      BY <2>1, <2>8 DEF Return
    <3> QED
      BY <2>2, <2>4, <3>1 DEF TidyOK
  <2>9. CASE result # "other"
    <3>1. offset' = 4 /\ totalParsed' = 4 /\ totalRead' = n /\ pc' = IF 4 = n THEN "again" ELSE "frames"
      BY <2>1, <2>7, <2>9
    <3>2. CASE n = 4
      BY <2>2, <2>4, <2>5, <3>1, <3>2 DEF TidyOK
    <3>3. CASE n # 4
      <4>1. Base' = 0 /\ n > 4
        <5>1. pos' - Len(buffer') = n - n
          BY <2>5, <2>6
        <5> QED
          BY <2>5, <3>3, <5>1 DEF Base
      <4>2. 4 \in Boundaries
        BY <1>0, PrefaceIsBoundary
      <4>3. Stream' = Stream /\ Boundaries' = Boundaries
        BY <2>3, StreamStays DEF Boundaries
      <4>4. buffer' = SubSeq(Stream, 0 + 1, n)
        BY <2>3, <2>4, <2>5
      <4>5. InStep'
        <5>1. 0 + 4 = 4 /\ ~(4 > 4)
          OBVIOUS
        <5> QED
          BY <2>5, <2>6, <3>1, <4>1, <4>2, <4>3, <4>4, <5>1 DEF InStep, HoldsFrames
      <4> QED
        BY <2>2, <2>4, <2>5, <3>1, <3>3, <4>5 DEF TidyOK
    <3> QED
      BY <3>2, <3>3
  <2> QED
    BY <2>8, <2>9
<1>5. CASE ReadAgain
  <2> SUFFICES ASSUME tidy' PROVE TidyOK'
    BY DEF TidyOK
  <2>1. PICK result \in Results : ReadFrom(0, result)
    BY <1>5 DEF ReadAgain
  <2>2. /\ pc = "again" /\ pc' = "frames" /\ settings' = settings /\ early' = early
        /\ offset' = 0 /\ totalParsed' = 0 /\ totalRead' = bytesRead'
    BY <1>5 DEF ReadAgain, settingsVars
  <2>3. /\ frames' = frames /\ buffer' \in Seq(UnitsOf(Len(frames)))
        /\ bytesRead' \in 0..Len(buffer') /\ pos' \in 0..Len(Stream) /\ pos' = pos + bytesRead'
        /\ tidy /\ pos' \in Boundaries /\ bytesRead' > 0
        /\ buffer' = SubSeq(Stream, pos + 1, pos')
    BY <1>0, <2>1, ReadBrings
  <2>4. pos = 4 /\ ~early
    BY <2>2, <2>3 DEF TidyOK
  <2>5. bytesRead' \in Nat /\ pos' \in Nat /\ pos' <= Len(Stream)
    <3>1. bytesRead' \in 0..Len(buffer') /\ Len(buffer') \in Nat
      BY <2>3
    <3>2. bytesRead' \in Nat
      BY <3>1
    <3>3. pos' \in 0..Len(Stream) /\ Len(Stream) \in Nat
      BY <1>0, <2>3
    <3>4. pos' \in Nat /\ pos' <= Len(Stream)
      BY <3>3
    <3> QED
      BY <3>2, <3>4
  <2>6. pos' = 4 + bytesRead' /\ pos' > 4 /\ buffer' = SubSeq(Stream, 4 + 1, pos')
    <3>1. pos' = 4 + bytesRead' /\ buffer' = SubSeq(Stream, 4 + 1, pos')
      BY <2>3, <2>4, <2>5, AddTo
    <3>2. pos' > 4
      BY <2>3, <2>4, <2>5, AddTo
    <3> QED
      BY <3>1, <3>2
  <2>7. Len(buffer') = bytesRead'
    <3>1. 4 + 1 \in 1..(Len(Stream) + 1) /\ pos' \in ((4 + 1) - 1)..Len(Stream) /\ 4 + 1 <= pos'
          /\ pos' - (4 + 1) + 1 = bytesRead'
      <4>1. pos' - (4 + 1) + 1 = bytesRead'
        BY <2>3, <2>4, <2>5, AddTo
      <4>2. Len(Stream) \in Nat /\ pos' \in Nat /\ pos' > 4 /\ pos' <= Len(Stream)
        BY <1>0, <2>5, <2>6
      <4>3. 4 + 1 \in 1..(Len(Stream) + 1) /\ pos' \in ((4 + 1) - 1)..Len(Stream) /\ 4 + 1 <= pos'
        BY <4>2
      <4> QED
        BY <4>1, <4>3
    <3> HIDE DEF StreamOf
    <3>2. Len(SubSeq(Stream, 4 + 1, pos')) = pos' - (4 + 1) + 1
      BY <1>0, <3>1, SubSeqProperties
    <3> QED
      BY <2>6, <3>1, <3>2
  <2>8. Base' = 4
    <3>1. pos' - bytesRead' = 4
      <4>1. pos' = 4 + bytesRead' /\ bytesRead' \in Nat /\ pos' <= Len(Stream) /\ Len(Stream) \in Nat
        BY <1>0, <2>5, <2>6
      <4> DEFINE n == bytesRead'
      <4>2. n \in Nat /\ 4 \in Nat /\ pos' = 4 + n
        BY <4>1
      <4> HIDE DEF n
      <4>3. pos' - n = 4
        BY <4>2
      <4> QED
        BY <4>3 DEF n
    <3> QED
      BY <2>7, <3>1 DEF Base
  <2>9. Stream' = Stream /\ Boundaries' = Boundaries /\ 4 \in Boundaries
    BY <1>0, <2>3, StreamStays, PrefaceIsBoundary DEF Boundaries
  <2>10. InStep'
    <3>1. 4 + 0 = 4 /\ ~(4 > 4)
      OBVIOUS
    <3> QED
      BY <2>2, <2>3, <2>6, <2>7, <2>8, <2>9, <3>1 DEF InStep, HoldsFrames
  <2> QED
    BY <2>2, <2>4, <2>5, <2>10 DEF TidyOK
<1>6. CASE ParseFrame
  <2> SUFFICES ASSUME tidy' PROVE TidyOK'
    BY DEF TidyOK
  <2>1. /\ pc = "frames" /\ totalParsed < totalRead
        /\ totalParsed' = totalParsed + LengthAt /\ offset' = offset + LengthAt
        /\ early' = (early \/ offset + LengthAt > Len(buffer))
        /\ UNCHANGED <<frames, pc, pos, buffer, bytesRead, totalRead, tidy>>
        /\ settings' = IF HeaderAt # Zero /\ TypeAt = "Settings"
                       THEN [from |-> HeaderAt[1], parameters |-> Parameters(Slots(ReadSettings))]
                       ELSE settings
    BY <1>6 DEF ParseFrame
  <2>2. tidy /\ InStep /\ ~early
    BY <2>1 DEF TidyOK
  <2>3. PICK i : TidyFrame(i)
    <3>1. HoldsFrames /\ offset < Len(buffer)
      BY <2>1, <2>2 DEF InStep
    <3> QED
      BY <3>1, TidyFrameThere
  <2> DEFINE s == Base + offset
  <2>4. FrameLies(s, i) /\ LengthAt = FrameLength(i) /\ LengthAt \in Nat /\ LengthAt >= 4
    BY <2>3, HeaderIs DEF TidyFrame
  <2>5. Base' = Base /\ Stream' = Stream /\ Boundaries' = Boundaries
    BY <2>1, StreamStays DEF Boundaries, Base
  <2>6. Base \in Nat /\ offset \in Nat
    BY <1>0, <2>2 DEF InStep, HoldsFrames
  <2>7. Base + (offset + LengthAt) = s + LengthAt /\ s \in Nat
    BY <2>4, <2>6
  <2>8. Base + offset' \in Boundaries
    BY <2>1, <2>4, <2>7 DEF FrameLies
  <2>9. settings' # Null
    <3>1. CASE s = 4
      <4>1. i = 1 /\ HeaderAt = <<1, 1>> /\ HeaderAt # Zero /\ TypeAt = frames[1].type
        BY <2>3, <3>1 DEF TidyFrame, FrameLies
      <4>2. TypeAt = "Settings"
        BY <1>0, <4>1, Http2Assumption
      <4>3. settings'.from = 1
        BY <2>1, <4>1, <4>2
      <4> QED
        BY <4>3 DEF Null
    <3>2. CASE s # 4
      <4>1. s > 4
        BY <2>2, <2>7, <3>2 DEF InStep, HoldsFrames, Boundaries
      <4>2. settings # Null
        BY <2>2, <4>1 DEF InStep
      <4>3. i \in DOMAIN frames /\ HeaderAt[1] = i /\ i # 0
        <5>1. i \in DOMAIN frames /\ HeaderAt[1] = i
          BY <2>3 DEF TidyFrame, FrameLies
        <5>2. frames \in Seq(FrameType)
          BY <1>0, StreamIs
        <5> QED
          BY <5>1, <5>2
      <4>4. CASE HeaderAt # Zero /\ TypeAt = "Settings"
        <5>1. settings'.from = i
          BY <2>1, <4>3, <4>4
        <5> QED
          BY <4>3, <5>1 DEF Null
      <4>5. CASE ~(HeaderAt # Zero /\ TypeAt = "Settings")
        BY <2>1, <4>2, <4>5
      <4> QED
        BY <4>4, <4>5
    <3> QED
      BY <3>1, <3>2
  <2>10. InStep'
    <3>1. totalParsed' = offset'
      BY <2>1, <2>2 DEF InStep
    <3> QED
      BY <2>1, <2>2, <2>5, <2>8, <2>9, <3>1 DEF InStep, HoldsFrames
  <2>11. offset + LengthAt <= Len(buffer)
    BY <2>3 DEF TidyFrame
  <2>12. ~early'
    <3>1. ~(offset + LengthAt > Len(buffer))
      BY <1>0, <2>4, <2>11
    <3> QED
      BY <2>1, <2>2, <3>1
  <2>13. totalParsed' <= totalRead'
    BY <2>1, <2>2, <2>11 DEF InStep, HoldsFrames
  <2> QED
    BY <2>1, <2>10, <2>12, <2>13 DEF TidyOK
<1>7. CASE ParseCrash
  <2>1. pc' = "crashed" /\ UNCHANGED reading
    BY <1>7 DEF ParseCrash
  <2> QED
    BY <2>1, TidyStays DEF reading, counts, Ends
<1>8. CASE ParseMisaligned
  <2>1. tidy' => tidy /\ pc = "frames" /\ totalParsed < totalRead /\ ~Aligned
    BY <1>8 DEF ParseMisaligned, reading
  <2>2. ASSUME tidy' PROVE FALSE
    <3>1. \E i : TidyFrame(i)
      BY <2>1, <2>2, TidyFrameThere DEF TidyOK, InStep
    <3> QED
      BY <2>1, <2>2, <3>1 DEF TidyFrame
  <2> QED
    BY <2>2 DEF TidyOK
<1>9. CASE ReadMore
  <2>1. pc = "frames" /\ totalParsed < totalRead /\ ~Fits /\ \E at, result : at \in Nat /\ at <= Len(buffer) /\ ReadFrom(at, result)
    <3> DEFINE at == IF bytesRead > 0 THEN bytesRead ELSE offset
    <3>1. pc = "frames" /\ totalParsed < totalRead /\ ~Fits /\ \E result \in Results : ReadFrom(at, result)
      BY <1>9 DEF ReadMore
    <3>2. at \in Nat /\ at <= Len(buffer)
      BY <3>1 DEF ReadOK
    <3> HIDE DEF at
    <3> QED
      BY <3>1, <3>2
  <2>2. ASSUME tidy' PROVE FALSE
    <3>1. tidy
      BY <2>1, <2>2, ReadBrings
    <3>2. \E i : TidyFrame(i)
      BY <2>1, <3>1, TidyFrameThere DEF TidyOK, InStep
    <3> QED
      BY <2>1, <3>2 DEF TidyFrame
  <2> QED
    BY <2>2 DEF TidyOK
<1>10. CASE FramesEnd
  <2> SUFFICES ASSUME tidy' PROVE TidyOK'
    BY DEF TidyOK
  <2>1. /\ pc = "frames" /\ pc' = "settings" /\ ~(totalParsed < totalRead)
        /\ UNCHANGED <<tidy, early, totalParsed, totalRead, settings>>
    <3>1. totalParsed \in Nat /\ totalRead \in Nat
      BY <1>0 DEF ReadOK
    <3>2. totalParsed >= totalRead
      BY <1>10 DEF FramesEnd
    <3>3. ~(totalParsed < totalRead)
      BY <3>1, <3>2
    <3> QED
      BY <1>10, <3>3 DEF FramesEnd, reading, counts, settingsVars
  <2>2. InStep /\ totalParsed <= totalRead /\ ~early
    BY <2>1 DEF TidyOK
  <2>3. totalParsed = totalRead
    BY <1>0, <2>1, <2>2 DEF InStep, HoldsFrames
  <2>4. Base + offset = pos /\ pos > 4
    BY <1>0, <2>2, <2>3 DEF InStep, HoldsFrames, Base
  <2>5. settings # Null
    BY <2>2, <2>4 DEF InStep
  <2>6. pos' = pos /\ Boundaries' = Boundaries /\ pos \in Boundaries
    <3>1. pos' = pos /\ frames' = frames
      BY <1>10 DEF FramesEnd, reading
    <3>2. Boundaries' = Boundaries
      BY <3>1, StreamStays DEF Boundaries
    <3> QED
      BY <2>2, <3>1, <3>2 DEF InStep, HoldsFrames
  <2> QED
    BY <2>1, <2>2, <2>3, <2>5, <2>6 DEF TidyOK
<1>11. CASE SendSettings
  <2>1. /\ pc = "settings" /\ pc' \in {"crashed", "acknowledged", "returned", "killed"}
        /\ UNCHANGED reading
    BY <1>11 DEF SendSettings, WriteOrReturn, Killed, Written, Return
  <2> QED
    BY <2>1, TidyStays DEF reading, counts, Ends
<1>12. CASE ReadAcknowledgement
  <2> SUFFICES ASSUME tidy' PROVE TidyOK'
    BY DEF TidyOK
  <2>1. PICK result \in Results :
          /\ ReadFrom(0, result)
          /\ IF result = "zero" THEN pc' = "acknowledgement" /\ UNCHANGED closes ELSE Return
    BY <1>12 DEF ReadAcknowledgement
  <2>2. /\ UNCHANGED <<totalRead, totalParsed, early>> /\ offset' = 0
        /\ pc = "acknowledged" /\ pc' \in {"acknowledgement", "returned"}
    BY <1>12, <2>1 DEF ReadAcknowledgement, Return
  <2>3. /\ frames' = frames /\ buffer' \in Seq(UnitsOf(Len(frames)))
        /\ bytesRead' \in 0..Len(buffer') /\ pos' \in 0..Len(Stream) /\ pos' = pos + bytesRead'
        /\ tidy /\ pos' \in Boundaries /\ bytesRead' > 0
        /\ buffer' = SubSeq(Stream, pos + 1, pos')
    BY <1>0, <2>1, ReadBrings
  <2>4. pos \in Boundaries /\ Stream' = Stream /\ Boundaries' = Boundaries
    BY <2>2, <2>3, StreamStays DEF TidyOK, Boundaries
  <2>5. bytesRead' \in Nat /\ pos' \in Nat /\ pos' <= Len(Stream)
    <3>1. Len(buffer') \in Nat /\ bytesRead' \in 0..Len(buffer')
      BY <2>3
    <3>2. bytesRead' \in Nat
      BY <3>1
    <3>3. pos' \in 0..Len(Stream) /\ Len(Stream) \in Nat
      BY <1>0, <2>3
    <3>4. pos' \in Nat /\ pos' <= Len(Stream)
      BY <3>3
    <3> QED
      BY <3>2, <3>4
  <2> DEFINE n == bytesRead'
  <2>9. /\ n \in Nat /\ n > 0 /\ pos \in Nat /\ pos' = pos + n
        /\ Len(Stream) \in Nat /\ pos' <= Len(Stream)
    BY <1>0, <2>3, <2>5
  <2> HIDE DEF n
  <2>10. /\ pos' - n = pos
         /\ pos + 1 \in 1..(Len(Stream) + 1) /\ pos' \in ((pos + 1) - 1)..Len(Stream)
         /\ pos' - (pos + 1) + 1 = n /\ pos + 1 <= pos'
    BY <2>9, Differences
  <2>6. Len(buffer') = bytesRead'
    <3>1. /\ pos + 1 \in 1..(Len(Stream) + 1) /\ pos' \in ((pos + 1) - 1)..Len(Stream)
          /\ pos' - (pos + 1) + 1 = bytesRead' /\ pos + 1 <= pos'
      BY <2>10 DEF n
    <3> HIDE DEF StreamOf
    <3>2. Len(SubSeq(Stream, pos + 1, pos')) = pos' - (pos + 1) + 1
      BY <1>0, <3>1, SubSeqProperties
    <3> QED
      BY <2>3, <3>1, <3>2
  <2>7. Base' = pos /\ pos + 0 = pos
    <3>1. pos' - bytesRead' = pos
      BY <2>10 DEF n
    <3> QED
      BY <1>0, <2>6, <3>1 DEF Base
  <2>8. HoldsFrames' /\ offset' < Len(buffer')
    BY <1>0, <2>2, <2>3, <2>4, <2>5, <2>6, <2>7 DEF HoldsFrames
  <2> QED
    BY <2>2, <2>3, <2>8 DEF TidyOK
<1>15. CASE ParseAcknowledgement
  <2>1. /\ pc = "acknowledgement" /\ UNCHANGED reading
        /\ pc' \in {"headers", "crashed"} \/ (pc' = "garbled" /\ ~Aligned)
    BY <1>15 DEF ParseAcknowledgement
  <2>2. tidy => Aligned
    <3>1. tidy => \E i : TidyFrame(i)
      BY <2>1, TidyFrameThere DEF TidyOK
    <3> QED
      BY <3>1 DEF TidyFrame
  <2>3. CASE pc' = "garbled"
    BY <2>1, <2>2, <2>3 DEF TidyOK, reading
  <2>4. CASE pc' \in {"headers", "crashed"}
    BY <2>1, <2>4, TidyStays DEF reading, counts, Ends
  <2> QED
    BY <2>1, <2>3, <2>4
<1>13. CASE Respond
  <2>1. UNCHANGED reading
    BY <1>13 DEF Respond
  <2>2. \/ WriteOrReturn("headers", "data") \/ WriteOrReturn("data", "goaway")
        \/ WriteAndReturn("goaway")
    BY <1>13 DEF Respond, SendHeaders, SendData, SendGoAway
  <2>3. pc' \in {"data", "goaway", "returned", "killed"}
    BY <2>2 DEF WriteOrReturn, WriteAndReturn, Killed, Written, Return
  <2> QED
    BY <2>1, <2>3, TidyStays DEF reading, counts, Ends
<1>14. CASE UNCHANGED vars
  <2>1. UNCHANGED <<pc, frames, pos, buffer, offset, bytesRead, totalRead, totalParsed, tidy, early, settings>>
    BY <1>14 DEF vars, reading, counts, settingsVars
  <2>2. Stream' = Stream /\ Boundaries' = Boundaries /\ Base' = Base
    BY <2>1, StreamStays DEF Boundaries, Base
  <2> QED
    BY <2>1, <2>2 DEF TidyOK, InStep, HoldsFrames
<1> QED
  BY <1>1, <1>2, <1>3, <1>4, <1>5, <1>6, <1>7, <1>8, <1>9, <1>10, <1>11, <1>12, <1>13, <1>14, <1>15
    DEF Next, FrameLoop

LEMMA InitTidy == Init => TidyOK
BY DEF Init, TidyOK

LEMMA ReadInvariance == Spec => []ReadOK
BY InitRead, NextRead, PTL DEF Spec

\* While every read ends where a frame ends, parse() takes every frame from its
\* place and whole, and there are settings when the loop over the frames ends.
THEOREM TidyParsed == Spec => []TidyIsParsed
<1>1. TidyOK => TidyIsParsed
  BY DEF TidyOK, TidyIsParsed
<1>2. Spec => []TidyOK
  BY InitTidy, NextTidy, ReadInvariance, PTL DEF Spec
<1> QED
  BY <1>1, <1>2, PTL

-----------------------------------------------------------------------------
(***************************************************************************)
(* The answer, and the end of the connection.                              *)
(***************************************************************************)
Full == <<"101", "settings", "headers", "data", "goaway">>
Parts == {"101", "settings", "headers", "data", "goaway"}

\* What is sent follows the order of the protocol.
InOrder ==
    /\ sent \in Seq(Parts) /\ Len(sent) <= 5
    /\ \A i \in 1..Len(sent) : sent[i] = Full[i]

\* How much has been sent when the function comes to a place.
Before(place) ==
    IF place \in {"request", "looping", "refuse", "switch"} THEN 0
    ELSE IF place \in {"preface", "again", "frames", "settings"} THEN 1
    ELSE IF place \in {"acknowledged", "acknowledgement", "headers"} THEN 2
    ELSE IF place = "data" THEN 3 ELSE 4

AnswerOK ==
    /\ InOrder \/ sent = <<"426">>
    /\ Len(sent) > 1 => settings # Null
    /\ pc \notin Ends => InOrder /\ Len(sent) = Before(pc)

CloseOK == closes \in 0..2 /\ ReturnedIsClosed

IInv == AnswerOK /\ CloseOK

\* A write goes on to the next place, closes and returns, or ends the process.
LEMMA WriteKeeps ==
    ASSUME CloseOK, NEW what, NEW next, next # "returned", WriteOrReturn(what, next)
    PROVE  /\ CloseOK'
           /\ \/ sent' = Append(sent, what) /\ pc' = next
              \/ sent' = sent /\ pc' \in {"returned", "killed"}
BY DEF WriteOrReturn, Killed, Written, Return, Close, CloseOK, ReturnedIsClosed

LEMMA LastWriteKeeps ==
    ASSUME CloseOK, NEW what, WriteAndReturn(what)
    PROVE  /\ CloseOK'
           /\ pc' \in {"returned", "killed"} /\ sent' \in {sent, Append(sent, what)}
BY DEF WriteAndReturn, Killed, Written, Return, Close, CloseOK, ReturnedIsClosed

\* What comes next may be sent next.
LEMMA AppendKeeps ==
    ASSUME InOrder, NEW what \in Parts, Len(sent) < 5, what = Full[Len(sent) + 1],
           sent' = Append(sent, what)
    PROVE  InOrder' /\ Len(sent)' = Len(sent) + 1
<1>1. /\ sent' \in Seq(Parts) /\ Len(sent') = Len(sent) + 1
      /\ \A i \in 1..Len(sent) : sent'[i] = sent[i]
      /\ sent'[Len(sent) + 1] = what
  BY AppendProperties DEF InOrder
<1>2. Len(sent) \in Nat
  BY DEF InOrder
<1>3. ASSUME NEW i \in 1..(Len(sent) + 1)
      PROVE  sent'[i] = Full[i]
  <2>1. CASE i = Len(sent) + 1
    BY <1>1, <2>1
  <2>2. CASE i \in 1..Len(sent)
    BY <1>1, <2>2 DEF InOrder
  <2> QED
    BY <1>2, <2>1, <2>2
<1> QED
  BY <1>1, <1>2, <1>3 DEF InOrder

\* A step that sends nothing goes to a place before which as much is sent.
LEMMA NothingSent ==
    ASSUME AnswerOK, sent' = sent, settings' = settings \/ settings' # Null,
           pc' \in Ends \/ (pc \notin Ends /\ Before(pc') = Before(pc))
    PROVE  AnswerOK'
<1>1. (InOrder' <=> InOrder) /\ Len(sent)' = Len(sent)
  BY DEF InOrder
<1>2. Before(pc)' = Before(pc')
  BY DEF Before
<1> QED
  BY <1>1, <1>2 DEF AnswerOK

\* A step that sends what comes next goes to the place behind it.
LEMMA NextSent ==
    ASSUME AnswerOK, pc \notin Ends, NEW what \in Parts, what = Full[Before(pc) + 1], Before(pc) \in 0..4,
           sent' = Append(sent, what), settings' = settings, Before(pc) > 0 => settings # Null,
           pc' \in Ends \/ Before(pc') = Before(pc) + 1
    PROVE  AnswerOK'
<1>1. InOrder /\ Len(sent) = Before(pc)
  BY DEF AnswerOK
<1>2. InOrder' /\ Len(sent)' = Len(sent) + 1
  BY <1>1, AppendKeeps
<1>3. Before(pc)' = Before(pc')
  BY DEF Before
<1> QED
  BY <1>1, <1>2, <1>3 DEF AnswerOK

\* A write of what comes next, before the place behind it.
LEMMA WriteAnswers ==
    ASSUME IInv, pc \notin Ends, NEW next, next \notin Ends, NEW what \in Parts,
           Before(pc) \in 0..4, what = Full[Before(pc) + 1], Before(next) = Before(pc) + 1,
           Before(pc) > 0 => settings # Null,
           settings' = settings, WriteOrReturn(what, next)
    PROVE  IInv'
<1>1. /\ CloseOK'
      /\ \/ sent' = Append(sent, what) /\ pc' = next
         \/ sent' = sent /\ pc' \in {"returned", "killed"}
  BY WriteKeeps DEF IInv, Ends
<1>2. AnswerOK'
  <2>1. CASE sent' = Append(sent, what) /\ pc' = next
    BY <2>1, NextSent DEF IInv
  <2>2. CASE sent' = sent /\ pc' \in {"returned", "killed"}
    BY <2>2, NothingSent DEF IInv, Ends
  <2> QED
    BY <1>1, <2>1, <2>2
<1> QED
  BY <1>1, <1>2 DEF IInv

LEMMA InitInv == Init => IInv
<1> SUFFICES ASSUME Init PROVE IInv
  OBVIOUS
<1>1. sent = <<>> /\ pc = "request" /\ closes = 0
  BY DEF Init
<1>2. InOrder /\ Len(sent) = 0
  BY <1>1 DEF InOrder
<1>3. AnswerOK
  BY <1>1, <1>2 DEF AnswerOK, Before, Ends
<1>4. CloseOK
  BY <1>1 DEF CloseOK, ReturnedIsClosed
<1> QED
  BY <1>3, <1>4 DEF IInv

LEMMA NextInv == IInv /\ [Next]_vars => IInv'
<1> SUFFICES ASSUME IInv, [Next]_vars PROVE IInv'
  OBVIOUS
<1> USE DEF IInv
\* A step that neither writes nor returns, or that returns without a write.
<1>1. ASSUME closes' = closes \/ Close, pc' = "returned" => Close \/ pc' = pc
      PROVE  CloseOK'
  BY <1>1 DEF CloseOK, ReturnedIsClosed, Close
<1>2. CASE ReadRequest
  <2>1. /\ pc = "request" /\ pc' \in {"refuse", "switch", "looping", "crashed"}
        /\ closes' = closes \/ Close
        /\ sent' = sent /\ settings' = settings
    BY <1>2 DEF ReadRequest, settingsVars
  <2> QED
    BY <1>1, <2>1, NothingSent DEF Ends, Before
<1>3. CASE RefuseUpgrade
  <2>1. /\ pc = "refuse" /\ settings' = settings
        /\ CloseOK' /\ pc' \in {"returned", "killed"} /\ sent' \in {sent, Append(sent, "426")}
    BY <1>3, LastWriteKeeps DEF RefuseUpgrade, settingsVars
  <2>2. CASE sent' = sent
    BY <2>1, <2>2, NothingSent DEF Ends
  <2>3. CASE sent' = Append(sent, "426")
    <3>1. sent = <<>>
      BY <2>1, EmptySeq DEF AnswerOK, Before, Ends, InOrder
    <3>2. sent' = <<"426">>
      BY <2>3, <3>1
    <3>3. AnswerOK'
      BY <2>1, <3>2 DEF AnswerOK, Ends
    <3> QED
      BY <2>1, <3>3
  <2> QED
    BY <2>1, <2>2, <2>3
<1>4. CASE SwitchProtocols
  <2>1. pc = "switch" /\ settings' = settings /\ WriteOrReturn("101", "preface")
    BY <1>4 DEF SwitchProtocols, settingsVars
  <2>2. "101" = Full[1] /\ Before("switch") = 0 /\ Before("preface") = 1
    BY DEF Full, Before
  <2> QED
    BY <2>1, <2>2, WriteAnswers DEF Ends, Parts
<1>5. CASE ReadPreface
  <2>1. /\ pc = "preface" /\ sent' = sent /\ settings' = settings
        /\ \/ pc' = "returned" /\ Close
           \/ pc' \in {"again", "frames"} /\ closes' = closes
    BY <1>5 DEF ReadPreface, settingsVars, Return
  <2> QED
    BY <1>1, <2>1, NothingSent DEF Ends, Before
<1>6. CASE ReadAgain
  <2>1. /\ pc = "again" /\ pc' = "frames" /\ sent' = sent /\ settings' = settings
        /\ closes' = closes \/ Close
    BY <1>6 DEF ReadAgain, settingsVars
  <2> QED
    BY <1>1, <2>1, NothingSent DEF Ends, Before
<1>7. CASE ParseFrame
  <2>1. settings' = settings \/ settings' # Null
    <3>1. CASE HeaderAt # Zero /\ TypeAt = "Settings"
      <4>1. HeaderAt[1] # 0
        BY <1>7, <3>1 DEF ParseFrame, Aligned, Fits
      <4>2. settings'.from = HeaderAt[1]
        BY <1>7, <3>1 DEF ParseFrame
      <4> QED
        BY <4>1, <4>2 DEF Null
    <3>2. CASE ~(HeaderAt # Zero /\ TypeAt = "Settings")
      BY <1>7, <3>2 DEF ParseFrame
    <3> QED
      BY <3>1, <3>2
  <2>2. pc = "frames" /\ UNCHANGED <<pc, sent, closes>>
    BY <1>7 DEF ParseFrame
  <2> QED
    BY <1>1, <2>1, <2>2, NothingSent DEF Ends
<1>8. CASE ParseCrash \/ ParseMisaligned \/ FramesEnd
  <2>1. /\ pc = "frames" /\ pc' \in {"crashed", "garbled", "settings"}
        /\ sent' = sent /\ settings' = settings /\ closes' = closes
    BY <1>8 DEF ParseCrash, ParseMisaligned, FramesEnd, settingsVars
  <2> QED
    BY <1>1, <2>1, NothingSent DEF Ends, Before
<1>9. CASE ReadMore
  <2>1. /\ pc = "frames" /\ pc' \in {"frames", "settings"} /\ sent' = sent /\ settings' = settings
        /\ closes' = closes \/ Close
    BY <1>9 DEF ReadMore, settingsVars
  <2> QED
    BY <1>1, <2>1, NothingSent DEF Ends, Before
<1>10. CASE SendSettings
  <2>1. CASE settings = Null
    <3>1. pc' = "crashed" /\ sent' = sent /\ settings' = settings /\ closes' = closes
      BY <1>10, <2>1 DEF SendSettings
    <3> QED
      BY <1>1, <3>1, NothingSent DEF Ends
  <2>2. CASE settings # Null
    <3>1. pc = "settings" /\ settings' = settings /\ WriteOrReturn("settings", "acknowledged")
      BY <1>10, <2>2 DEF SendSettings
    <3>2. "settings" = Full[2] /\ Before("settings") = 1 /\ Before("acknowledged") = 2
      BY DEF Full, Before
    <3> QED
      BY <2>2, <3>1, <3>2, WriteAnswers DEF Ends, Parts
  <2> QED
    BY <2>1, <2>2
<1>11. CASE ReadAcknowledgement
  <2>1. /\ pc = "acknowledged" /\ sent' = sent /\ settings' = settings
        /\ \/ pc' = "acknowledgement" /\ closes' = closes
           \/ pc' = "returned" /\ Close
    BY <1>11 DEF ReadAcknowledgement, settingsVars, Return
  <2> QED
    BY <1>1, <2>1, NothingSent DEF Ends, Before
<1>14. CASE ParseAcknowledgement
  <2>1. /\ pc = "acknowledgement" /\ pc' \in {"headers", "crashed", "garbled"}
        /\ sent' = sent /\ settings' = settings /\ closes' = closes
    BY <1>14 DEF ParseAcknowledgement, settingsVars
  <2> QED
    BY <1>1, <2>1, NothingSent DEF Ends, Before
<1>12. CASE Respond
  <2>1. settings' = settings
    BY <1>12 DEF Respond, settingsVars
  <2>2. CASE SendHeaders
    <3>1. pc = "headers" /\ WriteOrReturn("headers", "data")
      BY <2>2 DEF SendHeaders
    <3>2. "headers" = Full[3] /\ Before("headers") = 2 /\ Before("data") = 3
      BY DEF Full, Before
    <3>3. settings # Null
      BY <3>1, <3>2 DEF AnswerOK, Ends
    <3> QED
      BY <2>1, <3>1, <3>2, <3>3, WriteAnswers DEF Ends, Parts
  <2>3. CASE SendData
    <3>1. pc = "data" /\ WriteOrReturn("data", "goaway")
      BY <2>3 DEF SendData
    <3>2. "data" = Full[4] /\ Before("data") = 3 /\ Before("goaway") = 4
      BY DEF Full, Before
    <3>3. settings # Null
      BY <3>1, <3>2 DEF AnswerOK, Ends
    <3> QED
      BY <2>1, <3>1, <3>2, <3>3, WriteAnswers DEF Ends, Parts
  <2>4. CASE SendGoAway
    <3>1. /\ pc = "goaway" /\ CloseOK'
          /\ pc' \in {"returned", "killed"} /\ sent' \in {sent, Append(sent, "goaway")}
      BY <2>4, LastWriteKeeps DEF SendGoAway
    <3>2. "goaway" = Full[5] /\ Before(pc) = 4
      BY <3>1 DEF Full, Before
    <3>3. settings # Null
      BY <3>1, <3>2 DEF AnswerOK, Ends
    <3>4. CASE sent' = sent
      BY <2>1, <3>1, <3>4, NothingSent DEF Ends
    <3>5. CASE sent' = Append(sent, "goaway")
      BY <2>1, <3>1, <3>2, <3>3, <3>5, NextSent DEF Ends, Parts
    <3> QED
      BY <3>1, <3>4, <3>5
  <2> QED
    BY <1>12, <2>2, <2>3, <2>4 DEF Respond
<1>13. CASE UNCHANGED vars
  <2>1. sent' = sent /\ settings' = settings /\ pc' = pc /\ closes' = closes
    BY <1>13 DEF vars, settingsVars
  <2> QED
    BY <1>1, <2>1, NothingSent
<1> QED
  BY <1>2, <1>3, <1>4, <1>5, <1>6, <1>7, <1>8, <1>9, <1>10, <1>11, <1>12, <1>13, <1>14
    DEF Next, FrameLoop

\* Both are inductive together, so they hold of every connection.
THEOREM Invariance == Spec => []IInv
BY InitInv, NextInv, PTL DEF Spec

\* The answer is sent in the order of the protocol, and nothing of it beyond the
\* upgrade before a settings frame was taken from what the client sent.
THEOREM AnswerOrdered == Spec => []AnswerIsOrdered
\* The elements of both are the same up to the length of the shorter.
<1>1. ASSUME InOrder PROVE IsPrefix(sent, Full)
  <2>1. Full \in Seq(Parts) /\ Len(Full) = 5
    BY DEF Full, Parts
  <2>2. sent \in Seq(Parts) /\ Len(sent) \in Nat /\ Len(sent) <= 5
    BY <1>1 DEF InOrder
  <2>3. SubSeq(sent, 1, Len(sent)) = sent
    BY <2>2, SubSeqFull
  <2>4. /\ SubSeq(Full, 1, Len(sent)) \in Seq(Parts)
        /\ Len(SubSeq(Full, 1, Len(sent))) = Len(sent)
        /\ \A i \in 1..Len(sent) : SubSeq(Full, 1, Len(sent))[i] = Full[i]
    BY <2>1, <2>2
  <2>5. SubSeq(Full, 1, Len(sent)) = sent
    BY <1>1, <2>2, <2>4, SeqEqual DEF InOrder
  <2> QED
    BY <2>1, <2>2, <2>3, <2>5 DEF IsPrefix
<1>2. IInv => AnswerIsOrdered
  BY <1>1 DEF IInv, AnswerOK, AnswerIsOrdered, Full
<1> QED
  BY <1>2, Invariance, PTL

\* handleHttp2Connection() closes the connection before it returns, from wherever
\* it returns.
THEOREM ReturnCloses == Spec => []ReturnedIsClosed
<1>1. IInv => ReturnedIsClosed
  BY DEF IInv, CloseOK
<1> QED
  BY <1>1, Invariance, PTL

-----------------------------------------------------------------------------
(***************************************************************************)
(* The settings, from what the client said to what it is sent back.        *)
(***************************************************************************)
\* What is kept of the slots of a payload: for each id the last of its slots.
LEMMA ParametersAre ==
    ASSUME NEW n \in Nat, NEW slots, DOMAIN slots = 1..n
    PROVE  /\ \A id \in DOMAIN Parameters(slots) :
                 /\ id \in Parameter
                 /\ \E k \in 1..n : /\ slots[k].id = id
                                    /\ Parameters(slots)[id] = Stored(slots[k])
                                    /\ \A j \in 1..n : slots[j].id = id => j <= k
           /\ \A k \in 1..n : slots[k].id \in Parameter => slots[k].id \in DOMAIN Parameters(slots)
<1> DEFINE At(id) == {k \in DOMAIN slots : slots[k].id = id}
<1>1. Parameters(slots) = [id \in {id \in Parameter : At(id) # {}} |-> Stored(slots[Max(At(id))])]
  BY DEF Parameters
<1>2. ASSUME NEW id \in DOMAIN Parameters(slots)
      PROVE  /\ id \in Parameter
             /\ \E k \in 1..n : /\ slots[k].id = id
                                /\ Parameters(slots)[id] = Stored(slots[k])
                                /\ \A j \in 1..n : slots[j].id = id => j <= k
  <2>1. id \in Parameter /\ At(id) # {} /\ Parameters(slots)[id] = Stored(slots[Max(At(id))])
    BY <1>1
  <2>2. At(id) \subseteq 0..n
    OBVIOUS
  <2>3. Max(At(id)) \in At(id) /\ \A x \in At(id) : x <= Max(At(id))
    BY <2>1, <2>2, MaxOfSome
  <2>4. Max(At(id)) \in 1..n /\ slots[Max(At(id))].id = id
        /\ \A j \in 1..n : slots[j].id = id => j <= Max(At(id))
    BY <2>3
  <2> QED
    BY <2>1, <2>4
<1>3. ASSUME NEW k \in 1..n, slots[k].id \in Parameter PROVE slots[k].id \in DOMAIN Parameters(slots)
  <2>1. k \in At(slots[k].id)
    OBVIOUS
  <2> QED
    BY <1>1, <1>3, <2>1
<1> QED
  BY <1>2, <1>3

\* The ids have ranks, each its own.
LEMMA Ranks ==
    ASSUME NEW ids, ids \subseteq Parameter
    PROVE  /\ IsFiniteSet(ids) /\ Cardinality(ids) \in Nat
           /\ \A n \in 1..Cardinality(ids) : Nth(ids, n) \in ids
           /\ \A id \in ids : \E n \in 1..Cardinality(ids) : Nth(ids, n) = id
<1> DEFINE UpToId(id) == {other \in ids : other <= id}
           rank == [id \in ids |-> Cardinality(UpToId(id))]
           c == Cardinality(ids)
<1>1. IsFiniteSet(ids) /\ c \in Nat
  <2>1. IsFiniteSet(Parameter)
    <3>1. \A a, b \in Int : IsFiniteSet(a..b)
      BY FS_Interval
    <3>2. 1 \in Int /\ 7 \in Int
      OBVIOUS
    <3> QED
      BY <3>1, <3>2, Zenon DEF Parameter
  <2> QED
    BY <2>1, FS_Subset, FS_CardinalityType
<1>2. \A id \in ids : id \in Int
  BY DEF Parameter
<1>3. ASSUME NEW id \in ids PROVE rank[id] \in 1..c /\ IsFiniteSet(UpToId(id)) /\ rank[id] = Cardinality(UpToId(id))
  <2>1. UpToId(id) \in SUBSET ids /\ id \in UpToId(id)
    BY <1>2
  <2> HIDE DEF UpToId
  <2>2. IsFiniteSet(UpToId(id)) /\ Cardinality(UpToId(id)) <= c
    BY <1>1, <2>1, FS_Subset
  <2>3. Cardinality(UpToId(id)) \in Nat /\ Cardinality(UpToId(id)) # 0
    BY <2>1, <2>2, FS_CardinalityType, FS_EmptySet
  <2> QED
    BY <1>1, <2>2, <2>3
<1>4. ASSUME NEW a \in ids, NEW b \in ids, a < b PROVE rank[a] # rank[b]
  <2>1. UpToId(a) \in SUBSET UpToId(b) /\ b \in UpToId(b) /\ b \notin UpToId(a)
    BY <1>2, <1>4
  <2> HIDE DEF UpToId, rank
  <2>2. UpToId(a) # UpToId(b)
    BY <2>1
  <2>3. Cardinality(UpToId(a)) # Cardinality(UpToId(b))
    BY <1>3, <2>1, <2>2, FS_Subset
  <2> QED
    BY <1>3, <2>3
<1>5. rank \in Injection(ids, 1..c)
  <2>1. \A a, b \in ids : rank[a] = rank[b] => a = b
    <3> HIDE DEF rank
    <3>1. ASSUME NEW a \in ids, NEW b \in ids, a # b PROVE rank[a] # rank[b]
      <4>1. a < b \/ b < a
        BY <1>2, <3>1
      <4> QED
        BY <1>4, <4>1
    <3> QED
      BY <3>1
  <2>2. rank \in [ids -> 1..c]
    <3>1. \A id \in ids : rank[id] \in 1..c
      BY <1>3
    <3> QED
      BY <3>1
  <2> HIDE DEF rank
  <2> QED
    BY <2>1, <2>2 DEF Injection, IsInjective
<1>6. rank \in Surjection(ids, 1..c)
  <2>1. IsFiniteSet(1..c) /\ Cardinality(1..c) = c
    BY <1>1, FS_Interval
  <2> HIDE DEF rank, c
  <2>2. Cardinality(ids) = Cardinality(1..c)
    BY <2>1 DEF c
  <2> QED
    BY <1>5, <2>1, <2>2, FS_Injection
<1>7. \A n \in 1..c : \E id \in ids : rank[id] = n
  BY <1>6 DEF Surjection
<1>8. ASSUME NEW n \in 1..c PROVE Nth(ids, n) \in ids /\ rank[Nth(ids, n)] = n
  <2>1. \E id \in ids : Cardinality({other \in ids : other <= id}) = n
    BY <1>7
  <2> QED
    BY <2>1 DEF Nth
<1>9. ASSUME NEW id \in ids PROVE \E n \in 1..c : Nth(ids, n) = id
  <2>1. rank[id] \in 1..c
    BY <1>3
  <2>2. Nth(ids, rank[id]) \in ids /\ rank[Nth(ids, rank[id])] = rank[id]
    BY <1>8, <2>1
  <2> HIDE DEF rank
  <2>3. Nth(ids, rank[id]) = id
    BY <1>5, <2>2 DEF Injection, IsInjective
  <2> QED
    BY <2>1, <2>3
<1> QED
  BY <1>1, <1>8, <1>9

\* The settings are those of a beginning of their frame, with zeros behind it.
SettingsOK ==
    settings # Null =>
        /\ settings.from \in DOMAIN frames
        /\ LET said == frames[settings.from].payload
           IN  \E m \in 0..Len(said) : /\ ~early => m = Len(said)
                                       /\ settings.parameters = Parameters(Slots(Cut(said, m)))

EchoOK == Len(sent) > 1 => echo = Encode(settings)

LEMMA SettingsRead ==
    ASSUME ReadOK, SettingsOK, ParseFrame
    PROVE  SettingsOK'
<1>1. /\ Aligned /\ Fits /\ frames' = frames
      /\ early' = (early \/ offset + LengthAt > Len(buffer))
      /\ settings' = IF HeaderAt # Zero /\ TypeAt = "Settings"
                     THEN [from |-> HeaderAt[1], parameters |-> Parameters(Slots(ReadSettings))]
                     ELSE settings
  BY DEF ParseFrame
<1>2. CASE ~(HeaderAt # Zero /\ TypeAt = "Settings")
  <2>1. settings' = settings /\ (~early' => ~early)
    BY <1>1, <1>2
  <2> QED
    BY <1>1, <2>1 DEF SettingsOK
<1>3. CASE HeaderAt # Zero /\ TypeAt = "Settings"
  <2> DEFINE i == HeaderAt[1]
             said == frames[i].payload
             read == ReadSettings
             n == Len(said)
             b == Len(buffer)
  <2>0. offset \in Nat /\ b \in Nat /\ buffer \in Seq(UnitsOf(Len(frames)))
    BY DEF ReadOK
  \* A type that was read has its length before it.
  <2>1. UnitAt(offset + 1) # Zero
    <3>1. UnitAt(offset + 2) # Zero
      BY <1>3 DEF TypeAt
    <3>2. offset + 2 < b
      BY <3>1 DEF UnitAt
    <3>3. offset + 1 < b /\ (offset + 1) + 1 \in 1..b
      BY <2>0, <3>2
    <3>4. buffer[(offset + 1) + 1] \in UnitsOf(Len(frames))
      BY <2>0, <3>3
    <3> QED
      BY <3>3, <3>4 DEF UnitAt, UnitsOf, Zero
  <2>2. /\ i \in DOMAIN frames /\ LengthAt = FrameLength(i) /\ LengthAt \in Nat
        /\ frames \in Seq(FrameType) /\ FrameLength(i) = 4 + n /\ said \in Seq(Nat)
    BY <1>1, <1>3, <2>1, HeaderIs, StreamIs, FrameLengthType DEF ReadOK
  <2>3. n \in Nat /\ DOMAIN said = 1..n
    BY <2>2
  <2>4. DOMAIN PayloadAt = 1..n
    <3>1. LengthAt - 4 = n
      BY <2>2, <2>3
    <3> QED
      BY <3>1 DEF PayloadAt, HEADER_LENGTH
  <2> HIDE DEF i, said, n, b
  \* What lies behind the buffer's end is zero, and nothing before it.
  <2>5. ASSUME NEW k \in 1..n PROVE PayloadAt[k] = Zero <=> ~(offset + 4 + k <= b)
    <3>1. PayloadAt[k] = UnitAt(offset + 4 + k - 1)
      BY <2>4 DEF PayloadAt, HEADER_LENGTH
    <3>2. k \in Nat /\ k >= 1
      BY <2>3
    <3>3. CASE offset + 4 + k <= b
      <4>1. /\ offset + 4 + k - 1 < b /\ (offset + 4 + k - 1) + 1 \in 1..b
        BY <2>0, <3>2, <3>3
      <4>2. UnitAt(offset + 4 + k - 1) = buffer[(offset + 4 + k - 1) + 1]
        BY <4>1 DEF UnitAt, b
      <4>3. buffer[(offset + 4 + k - 1) + 1] \in UnitsOf(Len(frames))
        BY <2>0, <4>1 DEF b
      <4> QED
        BY <3>1, <3>3, <4>2, <4>3 DEF UnitsOf, Zero
    <3>4. CASE ~(offset + 4 + k <= b)
      <4>1. ~(offset + 4 + k - 1 < b)
        BY <2>0, <3>2, <3>4
      <4> QED
        BY <3>1, <3>4, <4>1 DEF UnitAt, b
    <3> QED
      BY <3>3, <3>4
  <2>6. PICK m \in 0..n :
            /\ \A k \in 1..n : (offset + 4 + k <= b) <=> (k <= m)
            /\ (offset + 4 + n <= b) => m = n
    <3>1. CASE offset + 4 + n <= b
      <4>1. n \in 0..n /\ \A k \in 1..n : offset + 4 + k <= b /\ k <= n
        BY <2>0, <2>3, <3>1
      <4> QED
        BY <4>1
    <3>2. CASE ~(offset + 4 + n <= b) /\ b >= offset + 4
      <4>1. b - (offset + 4) \in 0..n /\ \A k \in 1..n : (offset + 4 + k <= b) <=> (k <= b - (offset + 4))
        BY <2>0, <2>3, <3>2
      <4> QED
        BY <3>2, <4>1
    <3>3. CASE ~(offset + 4 + n <= b) /\ ~(b >= offset + 4)
      <4>1. 0 \in 0..n /\ \A k \in 1..n : ~(offset + 4 + k <= b) /\ ~(k <= 0)
        BY <2>0, <2>3, <3>3
      <4> QED
        BY <3>3, <4>1
    <3> QED
      BY <3>1, <3>2, <3>3
  <2>7. read = Cut(said, m)
    <3>1. \A k \in 1..n : (PayloadAt[k] = Zero) <=> ~(k <= m)
      <4>1. \A k \in 1..n : (PayloadAt[k] = Zero) <=> ~(offset + 4 + k <= b)
        BY <2>5
      <4>2. \A k \in 1..n : (offset + 4 + k <= b) <=> (k <= m)
        BY <2>6
      <4> QED
        BY <4>1, <4>2, Zenon
    <3>2. read = [k \in 1..n |-> IF PayloadAt[k] = Zero THEN 0 ELSE said[k]]
      BY <2>4 DEF ReadSettings, said, i
    <3>3. Cut(said, m) = [k \in 1..n |-> IF k <= m THEN said[k] ELSE 0]
      BY <2>3 DEF Cut
    <3>4. \A k \in 1..n : (IF PayloadAt[k] = Zero THEN 0 ELSE said[k]) = (IF k <= m THEN said[k] ELSE 0)
      BY <3>1
    <3> HIDE DEF read
    <3> QED
      BY <3>2, <3>3, <3>4
  <2>8. ~early' => m = n
    <3>1. ~early' => ~(offset + LengthAt > Len(buffer))
      BY <1>1
    <3>2. offset + LengthAt = offset + 4 + n /\ offset + 4 + n \in Int /\ b \in Int
      BY <2>0, <2>2, <2>3 DEF b, n
    <3>3. ~early' => ~(offset + 4 + n > b)
      BY <3>1, <3>2 DEF b
    <3>4. ~(offset + 4 + n > b) => offset + 4 + n <= b
      BY <3>2
    <3>5. offset + 4 + n <= b => m = n
      BY <2>6
    <3> QED
      BY <3>3, <3>4, <3>5
  <2>9. settings'.from = i /\ settings'.parameters = Parameters(Slots(read))
    BY <1>1, <1>3 DEF i
  <2> HIDE DEF read
  <2> QED
    BY <1>1, <2>2, <2>6, <2>7, <2>8, <2>9 DEF SettingsOK, n, said
<1> QED
  BY <1>2, <1>3

LEMMA NextSettings == ReadOK /\ IInv /\ SettingsOK /\ EchoOK /\ [Next]_vars => SettingsOK' /\ EchoOK'
<1> SUFFICES ASSUME ReadOK, IInv, SettingsOK, EchoOK, [Next]_vars PROVE SettingsOK' /\ EchoOK'
  OBVIOUS
<1>1. ASSUME UNCHANGED <<frames, settings, early>> PROVE SettingsOK'
  BY <1>1 DEF SettingsOK
<1>2. ASSUME frames' = frames, settings' = settings PROVE Encode(settings)' = Encode(settings)
  BY <1>2 DEF Encode
<1>3. CASE ParseFrame
  <2>1. sent' = sent /\ Len(sent) = 1
    BY <1>3 DEF ParseFrame, IInv, AnswerOK, Before, Ends
  <2> QED
    BY <1>3, <2>1, SettingsRead DEF EchoOK
<1>4. CASE SendSettings
  <2>1. UNCHANGED <<frames, settings, early>>
    BY <1>4 DEF SendSettings, reading
  <2>2. Len(sent) = 1
    BY <1>4 DEF SendSettings, IInv, AnswerOK, Before, Ends
  <2>3. sent' = sent \/ echo' = Encode(settings)
    BY <1>4 DEF SendSettings
  <2> QED
    BY <1>1, <1>2, <2>1, <2>2, <2>3 DEF EchoOK
<1>5. CASE ReadRequest \/ RefuseUpgrade \/ SwitchProtocols \/ ReadPreface \/ ReadAgain
  <2>1. UNCHANGED <<frames, settings, early>>
    BY <1>5 DEF ReadRequest, RefuseUpgrade, SwitchProtocols, ReadPreface, ReadAgain, reading, settingsVars, ReadFrom
  <2>2. IInv' 
    BY NextInv
  <2>3. pc \in {"request", "refuse", "switch", "preface", "again"}
    BY <1>5 DEF ReadRequest, RefuseUpgrade, SwitchProtocols, ReadPreface, ReadAgain
  <2>4. /\ InOrder /\ Len(sent) \in {0, 1}
        /\ pc \notin {"preface", "again"} => Len(sent) = 0
    BY <2>3 DEF IInv, AnswerOK, Before, Ends
  <2>5. CASE ReadPreface \/ ReadAgain
    <3>1. sent' = sent
      BY <2>5 DEF ReadPreface, ReadAgain
    <3> QED
      BY <1>1, <2>1, <2>4, <3>1 DEF EchoOK
  <2>6. CASE sent' = sent
    BY <1>1, <2>1, <2>4, <2>6 DEF EchoOK
  <2>7. CASE \E what : sent' = Append(sent, what) /\ Len(sent) = 0
    <3>1. PICK what : sent' = Append(sent, what) /\ Len(sent) = 0
      BY <2>7
    <3>2. Len(Append(sent, what)) = 1
      BY <2>4, <3>1 DEF InOrder
    <3> QED
      BY <1>1, <2>1, <3>1, <3>2 DEF EchoOK
  <2>8. CASE ReadRequest
    BY <2>6, <2>8 DEF ReadRequest
  <2>9. CASE RefuseUpgrade \/ SwitchProtocols
    <3>1. Len(sent) = 0
      BY <2>4, <2>9 DEF RefuseUpgrade, SwitchProtocols
    <3>2. sent' = sent \/ \E what : sent' = Append(sent, what)
      BY <2>9 DEF RefuseUpgrade, SwitchProtocols, WriteOrReturn, WriteAndReturn, Written, Killed
    <3> QED
      BY <2>6, <2>7, <3>1, <3>2
  <2> QED
    BY <1>5, <2>5, <2>8, <2>9
<1>6. CASE ParseCrash \/ ParseMisaligned \/ FramesEnd \/ ReadMore \/ ReadAcknowledgement \/ ParseAcknowledgement \/ UNCHANGED vars
  <2>1. UNCHANGED <<frames, settings, early, echo, sent>>
    BY <1>6 DEF ParseCrash, ParseMisaligned, FramesEnd, ReadMore, ReadAcknowledgement, ParseAcknowledgement, vars, reading, settingsVars, ReadFrom
  <2> QED
    BY <1>1, <1>2, <2>1 DEF EchoOK
<1>7. CASE Respond
  <2>1. UNCHANGED <<frames, settings, early, echo>>
    BY <1>7 DEF Respond, reading, settingsVars
  <2>2. Len(sent) > 1
    BY <1>7 DEF Respond, SendHeaders, SendData, SendGoAway, IInv, AnswerOK, Before, Ends
  <2> QED
    BY <1>1, <1>2, <2>1, <2>2 DEF EchoOK
<1> QED
  BY <1>3, <1>4, <1>5, <1>6, <1>7 DEF Next, FrameLoop

LEMMA InitSettings == Init => SettingsOK /\ EchoOK
<1> SUFFICES ASSUME Init PROVE SettingsOK /\ EchoOK
  OBVIOUS
<1>1. settings = Null /\ Len(sent) = 0
  BY DEF Init
<1> QED
  BY <1>1 DEF SettingsOK, EchoOK

\* A payload of whole parameters is encoded in as many places as it has slots.
LEMMA WholeSlots ==
    ASSUME NEW n \in Nat
    PROVE  /\ (n + 3 - 1) \div 3 \in Nat /\ n \div 3 \in Nat
           /\ n % 3 = 0 => (n + 3 - 1) \div 3 = n \div 3
OBVIOUS

\* What is read of a frame that was there.
LEMMA CutNothing ==
    ASSUME NEW said \in Seq(Nat)
    PROVE  Cut(said, Len(said)) = said
<1>1. DOMAIN said = 1..Len(said) /\ Len(said) \in Nat /\ said = [k \in DOMAIN said |-> said[k]]
  OBVIOUS
<1>2. \A k \in DOMAIN said : (IF k <= Len(said) THEN said[k] ELSE 0) = said[k]
  BY <1>1
<1> QED
  BY <1>1, <1>2 DEF Cut

LEMMA StoredId == \A p : [id |-> p.id, high |-> 0, low |-> 1].id = p.id /\ Stored(p).id = p.id
BY DEF Stored

\* What is written back, from what was read.
LEMMA EchoSays ==
    ASSUME ReadOK, SettingsOK, settings # Null
    PROVE  LET said == frames[settings.from].payload
               sentBack == ToSet(Encode(settings))
           IN  /\ \E m \in 0..Len(said) :
                     /\ ~early => m = Len(said)
                     /\ sentBack \ {Unwritten} \subseteq Meant(Cut(said, m))
               /\ ~early /\ Distinct(said) => sentBack = Meant(said)
<1> DEFINE said == frames[settings.from].payload
           ids == DOMAIN settings.parameters
           n == Len(said)
           c == Cardinality(ids)
           w == (n + 3 - 1) \div 3
           E(k) == settings.parameters[Nth(ids, k)]
<1>1. settings.from \in DOMAIN frames /\ said \in Seq(Nat) /\ n \in Nat /\ DOMAIN said = 1..n
  <2>1. settings.from \in DOMAIN frames /\ frames \in Seq(FrameType)
    BY StreamIs DEF SettingsOK, ReadOK
  <2> QED
    BY <2>1, FrameLengthType
<1>2. PICK m \in 0..n : (~early => m = n) /\ settings.parameters = Parameters(Slots(Cut(said, m)))
  BY DEF SettingsOK
<1> DEFINE read == Cut(said, m)
           slots == Slots(read)
           d == Len(read) \div 3
<1>3. /\ DOMAIN Encode(settings) = 1..w
      /\ \A k \in 1..w : Encode(settings)[k] = IF k <= c THEN E(k) ELSE Unwritten
  BY DEF Encode, PARAMETER_SIZE
<1>4. ids \subseteq Parameter
  BY DEF ReadOK
<1>5. /\ c \in Nat
      /\ \A k \in 1..c : Nth(ids, k) \in ids
      /\ \A id \in ids : \E k \in 1..c : Nth(ids, k) = id
  BY <1>4, Ranks
<1>6. DOMAIN slots = 1..d /\ d \in Nat
  <2>1. DOMAIN read = 1..n
    BY <1>1 DEF Cut
  <2>2. Len(read) = n
    BY <1>1, <2>1
  <2>3. n \div 3 \in Nat
    BY <1>1, WholeSlots
  <2> QED
    BY <2>2, <2>3 DEF Slots, PARAMETER_SIZE
<1> HIDE DEF slots, d, read, said, n, c, ids, w
<1>7. ASSUME NEW id \in ids
      PROVE  id \in Parameter /\ \E k \in 1..d : slots[k].id = id /\ settings.parameters[id] = Stored(slots[k])
  BY <1>2, <1>6, ParametersAre DEF slots, read, ids
<1>8. ASSUME NEW id \in ids PROVE settings.parameters[id] \in Meant(read)
  <2>1. PICK k \in 1..d : slots[k].id = id /\ settings.parameters[id] = Stored(slots[k])
    BY <1>7
  <2>2. slots[k] \in ToSet(slots) /\ slots[k].id \in Parameter
    BY <1>6, <1>7, <2>1 DEF ToSet
  <2> QED
    BY <2>1, <2>2 DEF Meant, slots
<1>9. ASSUME NEW e \in ToSet(Encode(settings)), e # Unwritten PROVE e \in Meant(read)
  <2>1. PICK k \in 1..w : e = Encode(settings)[k]
    BY <1>3 DEF ToSet
  <2>2. k \in Nat /\ k >= 1
    BY <1>1, WholeSlots DEF w
  <2>3. k \in 1..c /\ e = E(k)
    BY <1>3, <1>5, <1>9, <2>1, <2>2
  <2>4. Nth(ids, k) \in ids
    BY <1>5, <2>3
  <2> QED
    BY <1>8, <2>3, <2>4
<1>10. ASSUME ~early, Distinct(said) PROVE ToSet(Encode(settings)) = Meant(said)
  <2>1. read = said
    BY <1>1, <1>2, <1>10, CutNothing DEF read, n
  <2>2. /\ \A k \in 1..d : slots[k].id \in Parameter
        /\ \A k, l \in 1..d : slots[k].id = slots[l].id => k = l
        /\ n % 3 = 0
    BY <1>6, <1>10, <2>1 DEF Distinct, slots, n, PARAMETER_SIZE
  <2>3. w = d
    BY <1>1, <2>1, <2>2, WholeSlots DEF w, d, n
  <2>4. \A k \in 1..d : slots[k].id \in ids
    BY <1>2, <1>6, <2>2, ParametersAre DEF ids, slots, read
  <2>5. c = d
    <3> DEFINE f == [k \in 1..d |-> slots[k].id]
    <3>1. f \in Surjection(1..d, ids)
      <4>1. f \in [1..d -> ids]
        BY <2>4
      <4>2. \A id \in ids : \E k \in 1..d : f[k] = id
        BY <1>7
      <4> HIDE DEF f
      <4> QED
        BY <4>1, <4>2 DEF Surjection
    <3>2. f \in Injection(1..d, ids)
      <4>1. \A k, l \in 1..d : f[k] = f[l] => k = l
        BY <2>2
      <4>2. f \in [1..d -> ids]
        BY <2>4
      <4> HIDE DEF f
      <4> QED
        BY <4>1, <4>2 DEF Injection, IsInjective
    <3>3. IsFiniteSet(1..d) /\ Cardinality(1..d) = d
      BY <1>6, FS_Interval
    <3> HIDE DEF f
    <3>4. Cardinality(ids) = Cardinality(1..d)
      BY <3>1, <3>2, <3>3, FS_Surjection
    <3> QED
      BY <3>3, <3>4 DEF c
  <2>6. ASSUME NEW e \in Meant(said) PROVE e \in ToSet(Encode(settings))
    <3>1. PICK k \in 1..d : e = Stored(slots[k])
      BY <1>6, <2>1 DEF Meant, ToSet, slots
    <3>2. slots[k].id \in ids
      BY <2>4
    <3>3. PICK l \in 1..d : slots[l].id = slots[k].id /\ settings.parameters[slots[k].id] = Stored(slots[l])
      BY <1>7, <3>2
    <3>4. l = k
      BY <2>2, <3>3
    <3>5. PICK j \in 1..c : Nth(ids, j) = slots[k].id
      BY <1>5, <3>2
    <3>6. j \in 1..w /\ j <= c
      BY <1>5, <2>3, <2>5
    <3>7. Encode(settings)[j] = e
      BY <1>3, <3>1, <3>3, <3>4, <3>5, <3>6
    <3> QED
      BY <1>3, <3>6, <3>7 DEF ToSet
  <2>7. ASSUME NEW e \in ToSet(Encode(settings)) PROVE e \in Meant(said)
    <3>1. PICK k \in 1..w : e = Encode(settings)[k]
      BY <1>3 DEF ToSet
    <3>2. k \in 1..c /\ k <= c
      BY <1>5, <2>3, <2>5
    <3>3. e = E(k) /\ Nth(ids, k) \in ids
      BY <1>3, <1>5, <3>1, <3>2
    <3> QED
      BY <1>8, <2>1, <3>3
  <2> QED
    BY <2>6, <2>7
<1> QED
  BY <1>2, <1>9, <1>10 DEF said, n, read

\* encode() sends a client the parameters of a beginning of its frame, cut where
\* the read ended, with zeros behind it; and all it stated when the frame was
\* there when it was parsed and its parameters are known, whole and named once.
THEOREM SettingsReturned == Spec => []SettingsAreReturned
<1>1. ReadOK /\ IInv /\ SettingsOK /\ EchoOK => SettingsAreReturned
  <2> SUFFICES ASSUME ReadOK, IInv, SettingsOK, EchoOK, Len(sent) > 1
               PROVE  SettingsAreReturned
    BY DEF SettingsAreReturned
  <2>1. settings # Null /\ echo = Encode(settings)
    BY DEF IInv, AnswerOK, EchoOK
  <2> QED
    BY <2>1, EchoSays DEF SettingsAreReturned
<1>2. Spec => [](SettingsOK /\ EchoOK)
  BY InitSettings, NextSettings, ReadInvariance, Invariance, PTL DEF Spec
<1> QED
  BY <1>1, <1>2, ReadInvariance, Invariance, PTL

-----------------------------------------------------------------------------
(***************************************************************************)
(* The way to the end.                                                     *)
(***************************************************************************)
\* How many places the function still has to go through.
Rank(place) ==
    CASE place = "request" -> 11
      [] place = "switch" -> 10
      [] place = "preface" -> 9
      [] place = "again" -> 8
      [] place = "frames" -> 7
      [] place = "settings" -> 6
      [] place = "acknowledged" -> 5
      [] place = "acknowledgement" -> 4
      [] place = "headers" -> 3
      [] place = "data" -> 2
      [] place \in {"refuse", "goaway"} -> 1
      [] place \in Ends \cup {"looping"} -> 0

\* What is left to read, and to parse.
Unparsed == IF totalParsed < Len(Stream) THEN Len(Stream) - totalParsed ELSE 0
ToDo == (Len(Stream) - pos) + Unparsed

\* The exceptions of ConnectionEnds, both in the loop over the frames: the
\* connection was closed, or a read brought nothing and errno is zero.
Excepted == pc = "frames" /\ (closes > 0 \/ (bytesRead = 0 /\ errno = "zero"))

GetsOn ==
    \/ Excepted'
    \/ Rank(pc') < Rank(pc)
    \/ pc' = pc /\ ToDo' < ToDo

LEMMA RanksAre ==
    /\ Rank("request") = 11 /\ Rank("switch") = 10 /\ Rank("preface") = 9 /\ Rank("again") = 8
    /\ Rank("frames") = 7 /\ Rank("settings") = 6 /\ Rank("acknowledged") = 5
    /\ Rank("acknowledgement") = 4 /\ Rank("headers") = 3
    /\ Rank("data") = 2 /\ Rank("refuse") = 1 /\ Rank("goaway") = 1 /\ Rank("looping") = 0
    /\ \A place \in Ends : Rank(place) = 0
    /\ \A place \in Places : Rank(place) \in 0..11
BY DEF Rank, Ends, Places

LEMMA WriteGetsOn ==
    ASSUME NEW what, NEW next, WriteOrReturn(what, next) \/ WriteAndReturn(what)
    PROVE  pc' = next \/ pc' \in Ends
BY DEF WriteOrReturn, WriteAndReturn, Killed, Written, Return, Ends

\* A read that was no error and brought nothing is an exception.
LEMMA ReadGetsOn ==
    ASSUME ReadOK, NEW at \in Nat, at <= Len(buffer), ReadFrom(at, "zero"), closes' = closes, pc' = "frames"
    PROVE  Excepted' \/ pos < pos'
<1>1. pos \in Nat /\ pos' = pos + bytesRead' /\ errno' = errno /\ closes \in 0..2
  BY ReadBrings, StreamType DEF ReadOK
<1>2. CASE Received(at)
  <2>1. \E n \in 1..Min({Len(Stream) - pos, BufferSize - at}) : pos' = pos + n
    BY <1>2 DEF Received
  <2>2. Min({Len(Stream) - pos, BufferSize - at}) \in Int
    <3>1. Len(Stream) - pos \in Int /\ BufferSize - at \in Int
      BY <1>1, StreamType, Http2Assumption DEF ReadOK
    <3> QED
      BY <3>1, MinOfTwo, Zenon
  <2> QED
    BY <1>1, <2>1, <2>2
<1>3. CASE "zero" = errno /\ ReceivedNothing(at)
  BY <1>1, <1>3 DEF ReceivedNothing, Excepted
<1>4. CASE closes > 0
  BY <1>4 DEF Excepted
<1> QED
  BY <1>2, <1>3, <1>4 DEF ReadFrom

LEMMA CloseExcepts ==
    ASSUME ReadOK, Close, pc' = "frames"
    PROVE  Excepted'
BY DEF ReadOK, Close, Excepted

LEMMA NextGetsOn == ReadOK /\ [Next]_vars => [GetsOn]_vars
<1> SUFFICES ASSUME ReadOK, Next PROVE GetsOn
  OBVIOUS
<1>1. CASE ReadRequest \/ SwitchProtocols \/ RefuseUpgrade
  <2>1. \/ pc = "request" /\ pc' \in {"refuse", "switch", "looping", "crashed"}
        \/ pc = "switch" /\ (pc' = "preface" \/ pc' \in Ends)
        \/ pc = "refuse" /\ pc' \in Ends
    BY <1>1, WriteGetsOn DEF ReadRequest, SwitchProtocols, RefuseUpgrade, WriteAndReturn, Killed, Return, Ends
  <2>2. "crashed" \in Ends
    BY DEF Ends
  <2> QED
    BY <2>1, <2>2, RanksAre DEF GetsOn
<1>2. CASE ReadPreface \/ ReadAgain
  <2>1. \/ pc = "preface" /\ pc' \in {"again", "frames", "returned"}
        \/ pc = "again" /\ pc' = "frames"
    BY <1>2 DEF ReadPreface, ReadAgain, Return
  <2>2. "returned" \in Ends
    BY DEF Ends
  <2> QED
    BY <2>1, <2>2, RanksAre DEF GetsOn
<1>3. CASE ParseFrame
  <2>1. /\ Aligned /\ Fits /\ totalParsed < totalRead /\ totalParsed' = totalParsed + LengthAt
        /\ pc' = pc /\ pos' = pos /\ frames' = frames
    BY <1>3 DEF ParseFrame
  <2>2. LengthAt \in Nat /\ LengthAt >= 2
    BY <2>1, HeaderIs
  <2>3. Stream' = Stream /\ Len(Stream) \in Nat /\ pos \in 0..Len(Stream) /\ totalRead \in 0..pos /\ totalParsed \in Nat
    BY <2>1, StreamStays, StreamType DEF ReadOK
  <2>4. Unparsed' < Unparsed /\ Unparsed \in Nat /\ Unparsed' \in Nat
    BY <2>1, <2>2, <2>3 DEF Unparsed
  <2>5. ToDo' < ToDo
    BY <2>1, <2>3, <2>4 DEF ToDo
  <2> QED
    BY <2>1, <2>5 DEF GetsOn
<1>4. CASE ParseCrash \/ ParseMisaligned \/ FramesEnd
  <2>1. pc = "frames" /\ pc' \in {"crashed", "garbled", "settings"}
    BY <1>4 DEF ParseCrash, ParseMisaligned, FramesEnd
  <2>2. "crashed" \in Ends /\ "garbled" \in Ends
    BY DEF Ends
  <2> QED
    BY <2>1, <2>2, RanksAre DEF GetsOn
<1>5. CASE ReadMore
  <2> DEFINE at == IF bytesRead > 0 THEN bytesRead ELSE offset
  <2>1. at \in Nat /\ at <= Len(buffer)
    BY <1>5, StreamType DEF ReadMore, ReadOK
  <2>2. PICK result \in Results :
            /\ ReadFrom(at, result)
            /\ pc' = IF result = "ETIMEDOUT" THEN "settings" ELSE "frames"
            /\ IF result = "other" THEN Close ELSE UNCHANGED closes
    BY <1>5 DEF ReadMore
  <2>3. pc = "frames" /\ totalParsed' = totalParsed
    BY <1>5 DEF ReadMore
  <2> HIDE DEF at
  <2>4. CASE result = "ETIMEDOUT"
    BY <2>2, <2>3, <2>4, RanksAre DEF GetsOn
  <2>5. CASE result = "other"
    BY <2>2, <2>5, CloseExcepts DEF GetsOn
  <2>6. CASE result = "zero"
    <3>1. Excepted' \/ pos < pos'
      BY <2>1, <2>2, <2>6, ReadGetsOn
    <3>2. frames' = frames /\ pos' \in 0..Len(Stream) /\ pos \in 0..Len(Stream) /\ Len(Stream) \in Nat
          /\ totalParsed \in Nat
      BY <2>1, <2>2, ReadBrings, StreamType DEF ReadOK
    <3>3. Stream' = Stream
      BY <3>2, StreamStays
    <3>4. Unparsed' = Unparsed /\ Unparsed \in Nat
      BY <2>3, <3>2, <3>3 DEF Unparsed
    <3>5. pos < pos' => ToDo' < ToDo
      BY <3>2, <3>3, <3>4 DEF ToDo
    <3> QED
      BY <2>2, <2>3, <2>6, <3>1, <3>5 DEF GetsOn
  <2> QED
    BY <2>4, <2>5, <2>6 DEF Results
<1>6. CASE SendSettings \/ ReadAcknowledgement \/ ParseAcknowledgement \/ Respond
  <2>1. \/ pc = "settings" /\ (pc' = "acknowledged" \/ pc' \in Ends)
        \/ pc = "acknowledged" /\ (pc' = "acknowledgement" \/ pc' \in Ends)
        \/ pc = "acknowledgement" /\ (pc' = "headers" \/ pc' \in Ends)
        \/ pc = "headers" /\ (pc' = "data" \/ pc' \in Ends)
        \/ pc = "data" /\ (pc' = "goaway" \/ pc' \in Ends)
        \/ pc = "goaway" /\ pc' \in Ends
    BY <1>6, WriteGetsOn DEF SendSettings, ReadAcknowledgement, ParseAcknowledgement, Respond, SendHeaders, SendData, SendGoAway,
       WriteAndReturn, Killed, Return, Ends
  <2> QED
    BY <2>1, RanksAre DEF GetsOn
<1> QED
  BY <1>1, <1>2, <1>3, <1>4, <1>5, <1>6 DEF Next, FrameLoop

\* Every step of handleHttp2Connection() takes it to a later place of the function,
\* or leaves less to read and parse where it is, which is bounded by the client's
\* stream, unless it ends in one of the two exceptions of ConnectionEnds.
THEOREM ConnectionGetsOn ==
    Spec => /\ [](Rank(pc) \in 0..11 /\ ToDo \in 0..(2 * Len(Stream)))
            /\ [][GetsOn]_vars
<1>1. ReadOK => Rank(pc) \in 0..11 /\ ToDo \in 0..(2 * Len(Stream))
  <2> SUFFICES ASSUME ReadOK PROVE Rank(pc) \in 0..11 /\ ToDo \in 0..(2 * Len(Stream))
    OBVIOUS
  <2>1. Rank(pc) \in 0..11
    BY RanksAre DEF ReadOK
  <2>2. Len(Stream) \in Nat /\ pos \in 0..Len(Stream) /\ totalParsed \in Nat
    BY StreamType DEF ReadOK
  <2>3. ToDo \in 0..(2 * Len(Stream))
    BY <2>2 DEF ToDo, Unparsed
  <2> QED
    BY <2>1, <2>3
<1> QED
  BY <1>1, NextGetsOn, ReadInvariance, PTL DEF Spec
=============================================================================
