---------------------------- MODULE HPackProofs -----------------------------
(***************************************************************************)
(* What the frames that share a packer may rely on: an encoding fits its   *)
(* buffer, and the peer decodes what was added, proved for any number of   *)
(* frames, any fields and any static table.                                *)
(*                                                                         *)
(* An encoding never gets longer while the table grows (EncodingShrinks),  *)
(* and as long as the peer saw every insertion its table is the packer's,  *)
(* newest first (InSync).                                                  *)
(***************************************************************************)
EXTENDS HPack, SequenceTheorems, WellFoundedInduction, TLAPS

-----------------------------------------------------------------------------
(***************************************************************************)
(* From one number to the next.                                            *)
(***************************************************************************)
LEMMA Least ==
    ASSUME NEW T, T \subseteq Nat, T # {}
    PROVE  \E x \in T : \A y \in T : x <= y
<1>1. IsWellFoundedOn(OpToRel(<,Nat), Nat)
  BY NatLessThanWellFounded
<1>2. PICK x \in T : \A y \in T : ~(<<y, x>> \in OpToRel(<,Nat))
  BY <1>1, WFMin
<1>3. \A y \in T : ~(y < x)
  BY <1>2 DEF OpToRel
<1> QED
  BY <1>3

LEMMA FromOne ==
    ASSUME NEW n \in Nat, NEW T, 1 \in T, \A i \in 1..n : i \in T => i + 1 \in T
    PROVE  \A i \in 1..(n + 1) : i \in T
<1> DEFINE Missing == {i \in 1..(n + 1) : i \notin T}
<1>1. ASSUME Missing # {} PROVE FALSE
  <2>1. Missing \subseteq Nat
    OBVIOUS
  <2>2. PICK k \in Missing : \A j \in Missing : k <= j
    BY <1>1, <2>1, Least
  <2>3. k \in 1..(n + 1) /\ k # 1 /\ k \notin T
    BY <2>2
  <2>4. k - 1 \in 1..n /\ k - 1 \in 1..(n + 1) /\ ~(k <= k - 1) /\ (k - 1) + 1 = k
    BY <2>3
  <2>5. k - 1 \in T
    BY <2>2, <2>4
  <2> QED
    BY <2>3, <2>4, <2>5
<1> QED
  BY <1>1

-----------------------------------------------------------------------------
(***************************************************************************)
(* Sums of lengths.                                                        *)
(***************************************************************************)
Sums(g, s, n) == g = [i \in 0..n |-> IF i = 0 THEN 0 ELSE g[i - 1] + s[i]]

LEMMA SumsExist ==
    ASSUME NEW s, NEW n \in Nat
    PROVE  \E g : Sums(g, s, n)
<1> DEFINE T == {k \in 1..(n + 1) : \E g : Sums(g, s, k - 1)}
<1>1. 1 \in T
  <2>1. Sums([i \in 0..0 |-> 0], s, 0)
    BY DEF Sums
  <2>2. 1 - 1 = 0 /\ 1 \in 1..(n + 1)
    OBVIOUS
  <2> QED
    BY <2>1, <2>2
<1>2. ASSUME NEW k \in 1..n, k \in T PROVE k + 1 \in T
  <2>1. PICK g : Sums(g, s, k - 1)
    BY <1>2
  <2> DEFINE new == g[k - 1] + s[k]
             h == [i \in 0..k |-> IF i = k THEN new ELSE g[i]]
  <2>2. ASSUME NEW i \in 0..k
        PROVE  h[i] = IF i = 0 THEN 0 ELSE h[i - 1] + s[i]
    <3>1. CASE i = k
      BY <3>1
    <3>2. CASE i # k
      <4>1. i \in 0..(k - 1)
        BY <3>2
      <4>2. g[i] = IF i = 0 THEN 0 ELSE g[i - 1] + s[i]
        BY <2>1, <4>1 DEF Sums
      <4>3. h[i] = g[i] /\ (i # 0 => h[i - 1] = g[i - 1])
        BY <3>2
      <4> QED
        BY <4>2, <4>3
    <3> QED
      BY <3>1, <3>2
  <2>3. Sums(h, s, k)
    BY <2>2 DEF Sums
  <2>4. k + 1 \in 1..(n + 1) /\ (k + 1) - 1 = k
    OBVIOUS
  <2> QED
    BY <2>3, <2>4
<1>3. n + 1 \in T
  <2> HIDE DEF T
  <2>1. \A i \in 1..n : i \in T => i + 1 \in T
    BY <1>2
  <2>2. \A i \in 1..(n + 1) : i \in T
    BY <1>1, <2>1, FromOne
  <2> QED
    BY <2>2
<1>4. (n + 1) - 1 = n
  OBVIOUS
<1> QED
  BY <1>3, <1>4

LEMMA TotalIs ==
    ASSUME NEW s, Len(s) \in Nat
    PROVE  \E g : /\ g[0] = 0 /\ \A i \in 1..Len(s) : g[i] = g[i - 1] + s[i]
                  /\ Total(s) = g[Len(s)]
<1> DEFINE g == CHOOSE f : Sums(f, s, Len(s))
           n == Len(s)
<1>1. Sums(g, s, n)
  BY SumsExist
<1>2. Total(s) = g[n]
  BY DEF Total, Sums
<1> HIDE DEF g, n
<1>3. \A i \in 0..n : g[i] = IF i = 0 THEN 0 ELSE g[i - 1] + s[i]
  BY <1>1 DEF Sums
<1>4. n \in Nat
  BY DEF n
<1>5. g[0] = 0 /\ \A i \in 1..n : g[i] = g[i - 1] + s[i]
  <2>1. 0 \in 0..n /\ \A i \in 1..n : i \in 0..n /\ i # 0
    BY <1>4
  <2> QED
    BY <1>3, <2>1
<1> QED
  BY <1>2, <1>5 DEF n

\* A sum of numbers is one, and grows with them.
LEMMA TotalGrows ==
    ASSUME NEW n \in Nat, NEW s \in [1..n -> Nat], NEW t \in [1..n -> Nat],
           \A i \in 1..n : s[i] <= t[i]
    PROVE  Total(s) \in Nat /\ Total(t) \in Nat /\ Total(s) <= Total(t)
<1>1. Len(s) = n /\ Len(t) = n
  OBVIOUS
<1>2. PICK f : /\ f[0] = 0 /\ \A i \in 1..n : f[i] = f[i - 1] + s[i]
               /\ Total(s) = f[n]
  BY <1>1, TotalIs
<1>3. PICK g : /\ g[0] = 0 /\ \A i \in 1..n : g[i] = g[i - 1] + t[i]
               /\ Total(t) = g[n]
  BY <1>1, TotalIs
<1> DEFINE T == {k \in 1..(n + 1) : f[k - 1] \in Nat /\ g[k - 1] \in Nat /\ f[k - 1] <= g[k - 1]}
<1>4. 1 \in T
  <2>1. 1 - 1 = 0 /\ 1 \in 1..(n + 1)
    OBVIOUS
  <2>2. f[1 - 1] = 0 /\ g[1 - 1] = 0
    BY <1>2, <1>3, <2>1
  <2> QED
    BY <2>1, <2>2
<1>5. ASSUME NEW k \in 1..n, k \in T PROVE k + 1 \in T
  <2>1. f[k - 1] \in Nat /\ g[k - 1] \in Nat /\ f[k - 1] <= g[k - 1]
    BY <1>5
  <2>2. s[k] \in Nat /\ t[k] \in Nat /\ s[k] <= t[k]
    OBVIOUS
  <2>3. f[k] = f[k - 1] + s[k] /\ g[k] = g[k - 1] + t[k]
    BY <1>2, <1>3
  <2>4. \A a, b, c, d \in Nat :
           a <= b /\ c <= d => a + c \in Nat /\ b + d \in Nat /\ a + c <= b + d
    OBVIOUS
  <2>5. f[k] \in Nat /\ g[k] \in Nat /\ f[k] <= g[k]
    <3> HIDE DEF T
    <3>1. /\ f[k - 1] + s[k] \in Nat /\ g[k - 1] + t[k] \in Nat
          /\ f[k - 1] + s[k] <= g[k - 1] + t[k]
      BY <2>1, <2>2, <2>4
    <3> QED
      BY <2>3, <3>1
  <2>6. k + 1 \in 1..(n + 1) /\ (k + 1) - 1 = k
    OBVIOUS
  <2> QED
    BY <2>5, <2>6
<1>6. n + 1 \in T
  <2> HIDE DEF T
  <2>1. \A i \in 1..n : i \in T => i + 1 \in T
    BY <1>5
  <2>2. \A i \in 1..(n + 1) : i \in T
    BY <1>4, <2>1, FromOne
  <2> QED
    BY <2>2
<1>7. (n + 1) - 1 = n
  OBVIOUS
<1>8. f[n] \in Nat /\ g[n] \in Nat /\ f[n] <= g[n]
  BY <1>6, <1>7
<1> QED
  BY <1>2, <1>3, <1>8

-----------------------------------------------------------------------------
(***************************************************************************)
(* The tables of a packer and of a peer, and the tables a list leaves.     *)
(***************************************************************************)
Keys == {CompoundKey(h) : h \in Fields}
Tables == [queue : Seq(Keys), size : Nat]
Representations == {Representation(t, h) : t \in Tables, h \in Fields}

LEMMA InsertKeyIs ==
    ASSUME NEW q \in Seq(Keys), NEW h \in Fields
    PROVE  /\ InsertKey(q, h) \in Seq(Keys)
           /\ Len(InsertKey(q, h)) \in Len(q)..(Len(q) + 1)
<1>1. CompoundKey(h) \in Keys
  BY DEF Keys
<1>2. Append(q, CompoundKey(h)) \in Seq(Keys) /\ Len(Append(q, CompoundKey(h))) = Len(q) + 1
  BY <1>1
<1>3. Len(q) \in Nat
  OBVIOUS
<1> QED
  BY <1>2, <1>3 DEF InsertKey

LEMMA StepTypes ==
    ASSUME NEW t \in Tables, NEW h \in Fields
    PROVE  TableAfterEncode(t, h) \in Tables /\ TableAfterLength(t, h) \in Tables
<1>1. t.queue \in Seq(Keys) /\ t.size \in Nat
  BY DEF Tables
<1>2. /\ InsertKey(t.queue, h) \in Seq(Keys)
      /\ Len(InsertKey(t.queue, h)) \in Len(t.queue)..(Len(t.queue) + 1)
  BY <1>1, InsertKeyIs
<1>3. t.size + (Len(InsertKey(t.queue, h)) - Len(t.queue)) \in Nat
  <2>1. Len(t.queue) \in Nat
    BY <1>1
  <2>2. \A m, s \in Nat : \A k \in m..(m + 1) : s + (k - m) \in Nat
    OBVIOUS
  <2> HIDE DEF InsertKey
  <2> QED
    BY <1>1, <1>2, <2>1, <2>2, Zenon
<1>4. TableAfterEncode(t, h) \in Tables
  BY <1>2, <1>3 DEF TableAfterEncode, Tables
<1>5. TableAfterLength(t, h) \in Tables
  BY <1>2 DEF TableAfterLength, Tables
<1> QED
  BY <1>4, <1>5

Run(ts, S, t, list, step, n) ==
    /\ ts \in [1..(n + 1) -> S]
    /\ ts[1] = t
    /\ \A i \in 1..n : ts[i + 1] = step[<<ts[i], list[i]>>]

LEMMA RunExists ==
    ASSUME NEW S, NEW I, NEW step \in [S \X I -> S], NEW t \in S, NEW list \in Seq(I)
    PROVE  \E ts : Run(ts, S, t, list, step, Len(list))
<1> DEFINE n == Len(list)
           To(ts, k) == Run(ts, S, t, list, step, k)
           T == {k \in 1..(n + 1) : \E ts : To(ts, k - 1)}
<1>n. n \in Nat
  OBVIOUS
<1>1. 1 \in T
  <2>1. [i \in 1..1 |-> t] \in [1..1 -> S] /\ [i \in 1..1 |-> t][1] = t
    OBVIOUS
  <2>2. 0 + 1 = 1 /\ \A i \in 1..0 : FALSE
    OBVIOUS
  <2>3. To([i \in 1..1 |-> t], 0)
    BY <2>1, <2>2 DEF Run
  <2>4. 1 \in 1..(n + 1) /\ 1 - 1 = 0
    BY <1>n
  <2> QED
    BY <2>3, <2>4
<1>2. ASSUME NEW k \in 1..n, k \in T PROVE k + 1 \in T
  <2>1. PICK ts : To(ts, k - 1)
    BY <1>2
  <2>t. /\ ts \in [1..k -> S] /\ ts[1] = t
        /\ \A i \in 1..(k - 1) : ts[i + 1] = step[<<ts[i], list[i]>>]
    BY <2>1 DEF Run
  <2> DEFINE new == step[<<ts[k], list[k]>>]
             us == [i \in 1..(k + 1) |-> IF i = k + 1 THEN new ELSE ts[i]]
  <2>2. k \in 1..k /\ k + 1 \in 1..(n + 1) /\ 1 \in 1..(k + 1) /\ 1 # k + 1
    BY <1>n
  <2>3. list[k] \in I
    OBVIOUS
  <2>4. ts[k] \in S
    BY <2>t, <2>2
  <2>5. new \in S
    BY <2>3, <2>4
  <2>6. us \in [1..(k + 1) -> S]
    <3>1. \A i \in 1..(k + 1) : i # k + 1 => i \in 1..k
      OBVIOUS
    <3> HIDE DEF new
    <3> QED
      BY <2>t, <2>5, <3>1
  <2>7. us[1] = t
    BY <2>t, <2>2
  <2>8. ASSUME NEW i \in 1..k PROVE us[i + 1] = step[<<us[i], list[i]>>]
    <3>1. i \in 1..k /\ i \in 1..(k + 1) /\ i + 1 \in 1..(k + 1) /\ i # k + 1
      OBVIOUS
    <3>2. us[i] = ts[i]
      BY <3>1
    <3>3. CASE i = k
      BY <3>1, <3>2, <3>3
    <3>4. CASE i # k
      <4>1. i \in 1..(k - 1) /\ i + 1 # k + 1
        BY <3>1, <3>4
      <4>2. us[i + 1] = ts[i + 1]
        BY <3>1, <4>1
      <4> QED
        BY <2>t, <3>2, <4>1, <4>2
    <3> QED
      BY <3>3, <3>4
  <2>9. To(us, k)
    BY <2>6, <2>7, <2>8 DEF Run
  <2> QED
    BY <2>2, <2>9
<1>3. n + 1 \in T
  <2> HIDE DEF T
  <2>1. \A i \in 1..n : i \in T => i + 1 \in T
    BY <1>2
  <2>2. \A i \in 1..(n + 1) : i \in T
    BY <1>n, <1>1, <2>1, FromOne
  <2>3. n + 1 \in 1..(n + 1)
    BY <1>n
  <2> QED
    BY <2>2, <2>3
<1>4. (n + 1) - 1 = n
  BY <1>n
<1>5. \E ts : To(ts, n)
  BY <1>3, <1>4
<1> QED
  BY <1>5

LEMMA EncodeTablesAre ==
    ASSUME NEW t \in Tables, NEW list \in Seq(Fields)
    PROVE  /\ EncodeTables(t, list) \in [1..(Len(list) + 1) -> Tables]
           /\ EncodeTables(t, list)[1] = t
           /\ \A i \in 1..Len(list) :
                 EncodeTables(t, list)[i + 1] = TableAfterEncode(EncodeTables(t, list)[i], list[i])
<1> DEFINE n == Len(list)
           ts == EncodeTables(t, list)
           step == [x \in Tables \X Fields |-> TableAfterEncode(x[1], x[2])]
           Rec(us) == us = [i \in 1..(n + 1) |-> IF i = 1 THEN t ELSE TableAfterEncode(us[i - 1], list[i - 1])]
           T == {i \in 1..(n + 1) : ts[i] \in Tables}
<1>n. n \in Nat /\ \A i \in 1..n : i \in 1..(n + 1) /\ list[i] \in Fields
  OBVIOUS
<1>1. step \in [Tables \X Fields -> Tables]
  BY StepTypes
<1>2. PICK us : /\ us \in [1..(n + 1) -> Tables] /\ us[1] = t
                /\ \A i \in 1..n : us[i + 1] = step[<<us[i], list[i]>>]
  <2>1. \E us : Run(us, Tables, t, list, step, Len(list))
    <3> HIDE DEF step
    <3> QED
      BY <1>1, RunExists
  <2> QED
    BY <2>1 DEF Run
<1>3. ASSUME NEW i \in 1..n PROVE us[i + 1] = TableAfterEncode(us[i], list[i])
  <2>1. list[i] \in Fields /\ us[i] \in Tables
    BY <1>n, <1>2
  <2> QED
    BY <1>2, <2>1
<1>4. Rec(us)
  <2>1. ASSUME NEW i \in 1..(n + 1), i # 1 PROVE i - 1 \in 1..n /\ (i - 1) + 1 = i
    BY <1>n, <2>1
  <2>2. ASSUME NEW i \in 1..(n + 1)
        PROVE us[i] = IF i = 1 THEN t ELSE TableAfterEncode(us[i - 1], list[i - 1])
    <3>1. CASE i = 1
      BY <1>2, <3>1
    <3>2. CASE i # 1
      <4>1. us[(i - 1) + 1] = TableAfterEncode(us[i - 1], list[i - 1])
        BY <1>3, <2>1, <3>2
      <4> QED
        BY <2>1, <3>2, <4>1
    <3> QED
      BY <3>1, <3>2
  <2>3. us = [i \in 1..(n + 1) |-> us[i]]
    BY <1>2
  <2> QED
    BY <2>2, <2>3
<1>5. Rec(ts)
  <2>1. ts = CHOOSE vs : Rec(vs)
    BY DEF EncodeTables, TablesOver
  <2> QED
    BY <1>4, <2>1
<1> HIDE DEF ts
<1>6. ts[1] = t
  <2>1. 1 \in 1..(n + 1)
    BY <1>n
  <2> QED
    BY <1>5, <2>1
<1>7. ASSUME NEW i \in 1..n PROVE ts[i + 1] = TableAfterEncode(ts[i], list[i])
  <2>1. i + 1 \in 1..(n + 1) /\ i + 1 # 1 /\ (i + 1) - 1 = i
    BY <1>n
  <2> QED
    BY <1>5, <2>1
<1>8. 1 \in T
  BY <1>n, <1>6
<1>9. ASSUME NEW i \in 1..n, i \in T PROVE i + 1 \in T
  <2>1. ts[i] \in Tables /\ list[i] \in Fields /\ i + 1 \in 1..(n + 1)
    BY <1>n, <1>9
  <2>2. TableAfterEncode(ts[i], list[i]) \in Tables
    BY <2>1, StepTypes
  <2> QED
    BY <1>7, <2>1, <2>2
<1>10. \A i \in 1..(n + 1) : i \in T
  <2> HIDE DEF T
  <2> QED
    BY <1>n, <1>8, <1>9, FromOne
<1>11. ts \in [1..(n + 1) -> Tables]
  BY <1>5, <1>10
<1> QED
  BY <1>6, <1>7, <1>11 DEF ts

LEMMA LengthTablesAre ==
    ASSUME NEW t \in Tables, NEW list \in Seq(Fields)
    PROVE  /\ LengthTables(t, list) \in [1..(Len(list) + 1) -> Tables]
           /\ LengthTables(t, list)[1] = t
           /\ \A i \in 1..Len(list) :
                 LengthTables(t, list)[i + 1] = TableAfterLength(LengthTables(t, list)[i], list[i])
<1> DEFINE n == Len(list)
           ts == LengthTables(t, list)
           step == [x \in Tables \X Fields |-> TableAfterLength(x[1], x[2])]
           Rec(us) == us = [i \in 1..(n + 1) |-> IF i = 1 THEN t ELSE TableAfterLength(us[i - 1], list[i - 1])]
           T == {i \in 1..(n + 1) : ts[i] \in Tables}
<1>n. n \in Nat /\ \A i \in 1..n : i \in 1..(n + 1) /\ list[i] \in Fields
  OBVIOUS
<1>1. step \in [Tables \X Fields -> Tables]
  BY StepTypes
<1>2. PICK us : /\ us \in [1..(n + 1) -> Tables] /\ us[1] = t
                /\ \A i \in 1..n : us[i + 1] = step[<<us[i], list[i]>>]
  <2>1. \E us : Run(us, Tables, t, list, step, Len(list))
    <3> HIDE DEF step
    <3> QED
      BY <1>1, RunExists
  <2> QED
    BY <2>1 DEF Run
<1>3. ASSUME NEW i \in 1..n PROVE us[i + 1] = TableAfterLength(us[i], list[i])
  <2>1. list[i] \in Fields /\ us[i] \in Tables
    BY <1>n, <1>2
  <2> QED
    BY <1>2, <2>1
<1>4. Rec(us)
  <2>1. ASSUME NEW i \in 1..(n + 1), i # 1 PROVE i - 1 \in 1..n /\ (i - 1) + 1 = i
    BY <1>n, <2>1
  <2>2. ASSUME NEW i \in 1..(n + 1)
        PROVE us[i] = IF i = 1 THEN t ELSE TableAfterLength(us[i - 1], list[i - 1])
    <3>1. CASE i = 1
      BY <1>2, <3>1
    <3>2. CASE i # 1
      <4>1. us[(i - 1) + 1] = TableAfterLength(us[i - 1], list[i - 1])
        BY <1>3, <2>1, <3>2
      <4> QED
        BY <2>1, <3>2, <4>1
    <3> QED
      BY <3>1, <3>2
  <2>3. us = [i \in 1..(n + 1) |-> us[i]]
    BY <1>2
  <2> QED
    BY <2>2, <2>3
<1>5. Rec(ts)
  <2>1. ts = CHOOSE vs : Rec(vs)
    BY DEF LengthTables, TablesOver
  <2> QED
    BY <1>4, <2>1
<1> HIDE DEF ts
<1>6. ts[1] = t
  <2>1. 1 \in 1..(n + 1)
    BY <1>n
  <2> QED
    BY <1>5, <2>1
<1>7. ASSUME NEW i \in 1..n PROVE ts[i + 1] = TableAfterLength(ts[i], list[i])
  <2>1. i + 1 \in 1..(n + 1) /\ i + 1 # 1 /\ (i + 1) - 1 = i
    BY <1>n
  <2> QED
    BY <1>5, <2>1
<1>8. 1 \in T
  BY <1>n, <1>6
<1>9. ASSUME NEW i \in 1..n, i \in T PROVE i + 1 \in T
  <2>1. ts[i] \in Tables /\ list[i] \in Fields /\ i + 1 \in 1..(n + 1)
    BY <1>n, <1>9
  <2>2. TableAfterLength(ts[i], list[i]) \in Tables
    BY <2>1, StepTypes
  <2> QED
    BY <1>7, <2>1, <2>2
<1>10. \A i \in 1..(n + 1) : i \in T
  <2> HIDE DEF T
  <2> QED
    BY <1>n, <1>8, <1>9, FromOne
<1>11. ts \in [1..(n + 1) -> Tables]
  BY <1>5, <1>10
<1> QED
  BY <1>6, <1>7, <1>11 DEF ts
-----------------------------------------------------------------------------
(***************************************************************************)
(* The representation of one field.                                        *)
(***************************************************************************)
LEMMA StaticIndexIs ==
    ASSUME NEW key \in StaticKeys
    PROVE  /\ StaticIndex(key) \in 1..STATIC_TABLE_SIZE
           /\ StaticIndex(key) \in DOMAIN StaticTable
           /\ StaticIndex(key) # 0
           /\ CompoundKey(StaticTable[StaticIndex(key)]) = key
<1>1. PICK i \in DOMAIN StaticTable : CompoundKey(StaticTable[i]) = key
  BY DEF StaticKeys
<1>2. StaticIndex(key) \in DOMAIN StaticTable /\ CompoundKey(StaticTable[StaticIndex(key)]) = key
  BY <1>1 DEF StaticIndex
<1>3. DOMAIN StaticTable = 1..STATIC_TABLE_SIZE
  BY HPackAssumption DEF STATIC_TABLE_SIZE
<1> QED
  BY <1>2, <1>3

LEMMA IndexLookupIs ==
    ASSUME NEW q \in Seq(Keys), NEW key \in ToSet(q)
    PROVE  /\ indexLookup(q, key) \in 0..(Len(q) - 1)
           /\ q[indexLookup(q, key) + 1] = key
<1>1. PICK i \in DOMAIN q : q[i] = key
  BY DEF ToSet
<1>2. i - 1 \in 0..(Len(q) - 1) /\ (i - 1) + 1 = i
  OBVIOUS
<1>3. \E j \in 0..(Len(q) - 1) : q[j + 1] = key
  BY <1>1, <1>2
<1> QED
  BY <1>3 DEF indexLookup

LEMMA HeadersAre ==
    ASSUME NEW h \in Header
    PROVE  /\ Len(h.name) \in Nat /\ Len(h.value) \in Nat
           /\ h = [name |-> h.name, value |-> h.value]
<1>1. h.name \in Seq(STRING) /\ h.value \in Seq(STRING)
  BY DEF Header, Words
<1>2. h = [name |-> h.name, value |-> h.value]
  BY DEF Header
<1> QED
  BY <1>1, <1>2

LEMMA FieldsAreHeaders ==
    ASSUME NEW h \in Fields
    PROVE  h \in Header
BY HPackAssumption

LEMMA LiteralLengths ==
    ASSUME NEW h \in Fields
    PROVE  /\ 2 + Len(h.value) \in Nat /\ 3 + Len(h.name) + Len(h.value) \in Nat
           /\ 1 <= 2 + Len(h.value) /\ 1 <= 3 + Len(h.name) + Len(h.value)
<1>1. Len(h.name) \in Nat /\ Len(h.value) \in Nat
  BY FieldsAreHeaders, HeadersAre
<1>2. \A m, k \in Nat : 2 + m \in Nat /\ 3 + k + m \in Nat /\ 1 <= 2 + m /\ 1 <= 3 + k + m
  OBVIOUS
<1> QED
  BY <1>1, <1>2, Zenon

\* The announced length of a field is the length of what is written for it.
LEMMA FieldLengthIs ==
    ASSUME NEW t \in Tables, NEW h \in Fields
    PROVE  /\ FieldLength(t.queue, h) \in Nat
           /\ RepresentationLength(Representation(t, h)) = FieldLength(t.queue, h)
<1>1. 2 + Len(h.value) \in Nat /\ 3 + Len(h.name) + Len(h.value) \in Nat
  BY LiteralLengths
<1>2. CASE IsStatic(h) \/ IsDynamic(t.queue, h)
  <2>1. Representation(t, h).kind = "indexed"
    BY <1>2 DEF Representation
  <2>2. FieldLength(t.queue, h) = 1
    BY <1>2 DEF FieldLength
  <2>3. RepresentationLength(Representation(t, h)) = 1
    BY <2>1 DEF RepresentationLength
  <2> QED
    BY <2>2, <2>3
<1>3. CASE ~IsStatic(h) /\ ~IsDynamic(t.queue, h)
  <2> DEFINE r == Representation(t, h)
  <2>1. /\ r.kind = "literal" /\ r.field = h
        /\ r.name = IF HasStaticName(h) THEN StaticIndex(h.name) ELSE 0
    BY <1>3 DEF Representation, Literal
  <2> HIDE DEF r
  <2>2. r.name # 0 <=> HasStaticName(h)
    BY <2>1, StaticIndexIs DEF HasStaticName
  <2>3. RepresentationLength(r) = IF HasStaticName(h) THEN 2 + Len(h.value)
                                  ELSE 3 + Len(h.name) + Len(h.value)
    BY <2>1, <2>2 DEF RepresentationLength
  <2>4. FieldLength(t.queue, h) = IF HasStaticName(h) THEN 2 + Len(h.value)
                                  ELSE 3 + Len(h.name) + Len(h.value)
    BY <1>3 DEF FieldLength
  <2>5. FieldLength(t.queue, h) \in Nat
    BY <1>1, <2>4
  <2>6. RepresentationLength(r) = FieldLength(t.queue, h)
    BY <2>3, <2>4
  <2> QED
    BY <2>5, <2>6 DEF r
<1> QED
  BY <1>2, <1>3

\* A field takes no more bytes when the table knows more keys.
LEMMA FieldShrinks ==
    ASSUME NEW q, NEW r, NEW h \in Fields, ToSet(q) \subseteq ToSet(r)
    PROVE  FieldLength(r, h) <= FieldLength(q, h)
<1> DEFINE literal == IF HasStaticName(h) THEN 2 + Len(h.value) ELSE 3 + Len(h.name) + Len(h.value)
<1>1. literal \in Nat /\ 1 <= literal
  BY LiteralLengths
<1> HIDE DEF literal
<1>2. IsDynamic(q, h) => IsDynamic(r, h)
  BY DEF IsDynamic
<1>3. /\ FieldLength(q, h) = IF IsStatic(h) \/ IsDynamic(q, h) THEN 1 ELSE literal
      /\ FieldLength(r, h) = IF IsStatic(h) \/ IsDynamic(r, h) THEN 1 ELSE literal
  BY DEF FieldLength, literal
<1> QED
  BY <1>1, <1>2, <1>3

LEMMA InsertedKeys ==
    ASSUME NEW q \in Seq(Keys), NEW h \in Fields
    PROVE  ToSet(InsertKey(q, h)) =
              IF IsStatic(h) THEN ToSet(q) ELSE ToSet(q) \cup {CompoundKey(h)}
<1> DEFINE k == CompoundKey(h)
<1>1. CASE IsStatic(h) \/ IsDynamic(q, h)
  BY <1>1 DEF InsertKey, IsDynamic
<1>2. CASE ~IsStatic(h) /\ ~IsDynamic(q, h)
  <2>1. k \in Keys
    BY DEF Keys
  <2> HIDE DEF k
  <2>2. /\ DOMAIN Append(q, k) = 1..(Len(q) + 1) /\ DOMAIN q = 1..Len(q) /\ Len(q) \in Nat
        /\ Append(q, k)[Len(q) + 1] = k
        /\ \A i \in 1..Len(q) : Append(q, k)[i] = q[i]
    BY <2>1
  <2>3. 1..(Len(q) + 1) = 1..Len(q) \cup {Len(q) + 1}
    BY <2>2
  <2>4. ToSet(Append(q, k)) = ToSet(q) \cup {k}
    BY <2>2, <2>3 DEF ToSet
  <2> QED
    BY <1>2, <2>4 DEF InsertKey, k
<1> QED
  BY <1>1, <1>2

-----------------------------------------------------------------------------
(***************************************************************************)
(* The encoding of a list: how long it is, and that it only gets shorter.  *)
(***************************************************************************)
Knows(u, t) == ToSet(t.queue) \subseteq ToSet(u.queue)

LEMMA StepQueues ==
    ASSUME NEW t \in Tables, NEW h \in Fields
    PROVE  /\ TableAfterEncode(t, h).queue = InsertKey(t.queue, h)
           /\ TableAfterLength(t, h).queue = InsertKey(t.queue, h)
BY DEF TableAfterEncode, TableAfterLength, Tables

\* A step knows what was known before, and keeps one table ahead of another.
LEMMA StepKnows ==
    ASSUME NEW t \in Tables, NEW u \in Tables, NEW h \in Fields
    PROVE  /\ Knows(TableAfterEncode(t, h), t) /\ Knows(TableAfterLength(t, h), t)
           /\ Knows(u, t) => Knows(TableAfterLength(u, h), TableAfterLength(t, h))
<1>1. t.queue \in Seq(Keys) /\ u.queue \in Seq(Keys)
  BY DEF Tables
<1>2. /\ ToSet(InsertKey(t.queue, h)) = IF IsStatic(h) THEN ToSet(t.queue)
                                        ELSE ToSet(t.queue) \cup {CompoundKey(h)}
      /\ ToSet(InsertKey(u.queue, h)) = IF IsStatic(h) THEN ToSet(u.queue)
                                        ELSE ToSet(u.queue) \cup {CompoundKey(h)}
  BY <1>1, InsertedKeys
<1> QED
  BY <1>2, StepQueues DEF Knows

LEMMA LengthsOver ==
    ASSUME NEW t \in Tables, NEW list \in Seq(Fields),
           NEW ts, ts = LengthTables(t, list)
    PROVE  [i \in 1..Len(list) |-> FieldLength(ts[i].queue, list[i])] \in [1..Len(list) -> Nat]
<1>1. ts \in [1..(Len(list) + 1) -> Tables]
  BY LengthTablesAre
<1>2. ASSUME NEW i \in 1..Len(list) PROVE FieldLength(ts[i].queue, list[i]) \in Nat
  <2>1. i \in 1..(Len(list) + 1) /\ list[i] \in Fields
    OBVIOUS
  <2>2. ts[i] \in Tables
    BY <1>1, <2>1
  <2> QED
    BY <2>1, <2>2, FieldLengthIs
<1> QED
  BY <1>2

LEMMA LengthShrinks ==
    ASSUME NEW t \in Tables, NEW u \in Tables, NEW list \in Seq(Fields), Knows(u, t)
    PROVE  /\ EncodedLength(t, list) \in Nat
           /\ EncodedLength(u, list) <= EncodedLength(t, list)
<1> DEFINE n == Len(list)
           ts == LengthTables(t, list)
           us == LengthTables(u, list)
           tl == [i \in 1..n |-> FieldLength(ts[i].queue, list[i])]
           ul == [i \in 1..n |-> FieldLength(us[i].queue, list[i])]
           T == {i \in 1..(n + 1) : Knows(us[i], ts[i])}
<1>n. n \in Nat /\ \A i \in 1..n : i \in 1..(n + 1) /\ i + 1 \in 1..(n + 1) /\ list[i] \in Fields
  OBVIOUS
<1>4. EncodedLength(t, list) = Total(tl) /\ EncodedLength(u, list) = Total(ul)
  BY DEF EncodedLength
<1>t. ts = LengthTables(t, list)
  OBVIOUS
<1>u. us = LengthTables(u, list)
  OBVIOUS
<1> HIDE DEF ts, us
<1>1. /\ ts \in [1..(n + 1) -> Tables] /\ ts[1] = t
      /\ \A i \in 1..n : ts[i + 1] = TableAfterLength(ts[i], list[i])
  BY <1>t, LengthTablesAre
<1>2. /\ us \in [1..(n + 1) -> Tables] /\ us[1] = u
      /\ \A i \in 1..n : us[i + 1] = TableAfterLength(us[i], list[i])
  BY <1>u, LengthTablesAre
<1>3. tl \in [1..n -> Nat] /\ ul \in [1..n -> Nat]
  BY <1>t, <1>u, LengthsOver
<1>5. 1 \in T
  BY <1>n, <1>1, <1>2
<1>6. ASSUME NEW i \in 1..n, i \in T PROVE i + 1 \in T
  <2>1. /\ ts[i] \in Tables /\ us[i] \in Tables /\ list[i] \in Fields /\ i + 1 \in 1..(n + 1)
        /\ Knows(us[i], ts[i])
    BY <1>n, <1>1, <1>2, <1>6
  <2>2. Knows(TableAfterLength(us[i], list[i]), TableAfterLength(ts[i], list[i]))
    BY <2>1, StepKnows
  <2> QED
    BY <1>1, <1>2, <2>1, <2>2
<1>7. \A i \in 1..(n + 1) : i \in T
  <2> HIDE DEF T
  <2> QED
    BY <1>n, <1>5, <1>6, FromOne
<1>8. ASSUME NEW i \in 1..n PROVE ul[i] <= tl[i]
  <2>1. list[i] \in Fields /\ ToSet(ts[i].queue) \subseteq ToSet(us[i].queue)
    BY <1>n, <1>7 DEF Knows
  <2>2. FieldLength(us[i].queue, list[i]) <= FieldLength(ts[i].queue, list[i])
    BY <2>1, FieldShrinks
  <2> QED
    BY <2>2
<1>9. Total(tl) \in Nat /\ Total(ul) <= Total(tl)
  <2> HIDE DEF tl, ul
  <2> QED
    BY <1>n, <1>3, <1>8, TotalGrows
<1> QED
  BY <1>4, <1>9

LEMMA EncodingHas ==
    ASSUME NEW t, NEW list \in Seq(Fields)
    PROVE  /\ Len(Encoding(t, list)) = Len(list)
           /\ \A i \in 1..Len(list) : Encoding(t, list)[i] =
                 Representation(EncodeTables(t, list)[i], list[i])
<1> DEFINE es == EncodeTables(t, list)
<1>1. Encoding(t, list) = [i \in 1..Len(list) |-> Representation(es[i], list[i])]
  BY DEF Encoding
<1> HIDE DEF es
<1>2. Len(list) \in Nat
  OBVIOUS
<1>3. Len(Encoding(t, list)) = Len(list)
  BY <1>1, <1>2
<1> QED
  BY <1>1, <1>3 DEF es

\* getEncodedLength() announces what encode() writes.
LEMMA EncodedLengthIs ==
    ASSUME NEW t \in Tables, NEW list \in Seq(Fields)
    PROVE  BytesOf(Encoding(t, list)) = EncodedLength(t, list)
<1> DEFINE n == Len(list)
           es == EncodeTables(t, list)
           ls == LengthTables(t, list)
           rs == Encoding(t, list)
           T == {i \in 1..(n + 1) : es[i].queue = ls[i].queue}
<1>n. n \in Nat /\ \A i \in 1..n : i \in 1..(n + 1) /\ i + 1 \in 1..(n + 1) /\ list[i] \in Fields
  OBVIOUS
<1>3. Len(rs) = n /\ \A i \in 1..n : rs[i] = Representation(es[i], list[i])
  BY EncodingHas
<1>4. /\ BytesOf(rs) = Total([i \in 1..Len(rs) |-> RepresentationLength(rs[i])])
      /\ EncodedLength(t, list) = Total([i \in 1..n |-> FieldLength(ls[i].queue, list[i])])
  BY DEF BytesOf, EncodedLength
<1>e. es = EncodeTables(t, list)
  OBVIOUS
<1>l. ls = LengthTables(t, list)
  OBVIOUS
<1> HIDE DEF es, ls, rs
<1>1. /\ es \in [1..(n + 1) -> Tables] /\ es[1] = t
      /\ \A i \in 1..n : es[i + 1] = TableAfterEncode(es[i], list[i])
  BY <1>e, EncodeTablesAre
<1>2. /\ ls \in [1..(n + 1) -> Tables] /\ ls[1] = t
      /\ \A i \in 1..n : ls[i + 1] = TableAfterLength(ls[i], list[i])
  BY <1>l, LengthTablesAre
<1>5. 1 \in T
  BY <1>n, <1>1, <1>2
<1>6. ASSUME NEW i \in 1..n, i \in T PROVE i + 1 \in T
  <2>1. /\ es[i] \in Tables /\ ls[i] \in Tables /\ list[i] \in Fields /\ i + 1 \in 1..(n + 1)
        /\ es[i].queue = ls[i].queue
    BY <1>n, <1>1, <1>2, <1>6
  <2>2. TableAfterEncode(es[i], list[i]).queue = TableAfterLength(ls[i], list[i]).queue
    BY <2>1, StepQueues
  <2> QED
    BY <1>1, <1>2, <2>1, <2>2
<1>7. \A i \in 1..(n + 1) : i \in T
  <2> HIDE DEF T
  <2> QED
    BY <1>n, <1>5, <1>6, FromOne
<1>8. ASSUME NEW i \in 1..n
      PROVE  RepresentationLength(rs[i]) = FieldLength(ls[i].queue, list[i])
  <2>1. es[i] \in Tables /\ list[i] \in Fields /\ es[i].queue = ls[i].queue
    BY <1>n, <1>1, <1>7
  <2>2. RepresentationLength(Representation(es[i], list[i])) = FieldLength(es[i].queue, list[i])
    BY <2>1, FieldLengthIs
  <2> QED
    BY <1>3, <2>1, <2>2
<1>9. [i \in 1..Len(rs) |-> RepresentationLength(rs[i])]
        = [i \in 1..n |-> FieldLength(ls[i].queue, list[i])]
  BY <1>3, <1>8
<1> QED
  BY <1>4, <1>9 DEF rs

LEMMA EncodingShrinks ==
    ASSUME NEW t \in Tables, NEW u \in Tables, NEW list \in Seq(Fields), Knows(u, t)
    PROVE  /\ BytesOf(Encoding(t, list)) \in Nat
           /\ BytesOf(Encoding(u, list)) \in Nat
           /\ BytesOf(Encoding(u, list)) <= BytesOf(Encoding(t, list))
<1>1. Knows(u, u)
  BY DEF Knows
<1> QED
  BY <1>1, LengthShrinks, EncodedLengthIs

LEMMA TableAfterKnows ==
    ASSUME NEW t \in Tables, NEW list \in Seq(Fields)
    PROVE  TableAfter(t, list) \in Tables /\ Knows(TableAfter(t, list), t)
<1> DEFINE n == Len(list)
           ts == EncodeTables(t, list)
           T == {i \in 1..(n + 1) : Knows(ts[i], t)}
<1>n. n \in Nat /\ n + 1 \in 1..(n + 1) /\ 1 \in 1..(n + 1)
      /\ \A i \in 1..n : i \in 1..(n + 1) /\ i + 1 \in 1..(n + 1) /\ list[i] \in Fields
  OBVIOUS
<1>2. TableAfter(t, list) = ts[n + 1]
  BY DEF TableAfter
<1>t. ts = EncodeTables(t, list)
  OBVIOUS
<1> HIDE DEF ts
<1>1. /\ ts \in [1..(n + 1) -> Tables] /\ ts[1] = t
      /\ \A i \in 1..n : ts[i + 1] = TableAfterEncode(ts[i], list[i])
  BY <1>t, EncodeTablesAre
<1>3. 1 \in T
  BY <1>n, <1>1 DEF Knows
<1>4. ASSUME NEW i \in 1..n, i \in T PROVE i + 1 \in T
  <2>1. /\ ts[i] \in Tables /\ list[i] \in Fields /\ i + 1 \in 1..(n + 1)
        /\ Knows(ts[i], t)
    BY <1>n, <1>1, <1>4
  <2>2. Knows(TableAfterEncode(ts[i], list[i]), ts[i])
    BY <2>1, StepKnows
  <2>3. Knows(ts[i + 1], t)
    BY <1>1, <2>1, <2>2 DEF Knows
  <2> QED
    BY <2>1, <2>3
<1>5. \A i \in 1..(n + 1) : i \in T
  <2> HIDE DEF T
  <2> QED
    BY <1>n, <1>3, <1>4, FromOne
<1> QED
  BY <1>n, <1>1, <1>2, <1>5

-----------------------------------------------------------------------------
(***************************************************************************)
(* A table as encode() and encodeLength() keep it.                         *)
(***************************************************************************)
Good(t) ==
    /\ t \in Tables
    /\ IsInjective(t.queue)
    /\ t.size <= Len(t.queue)

LEMMA InsertKeyInjective ==
    ASSUME NEW q \in Seq(Keys), IsInjective(q), NEW h \in Fields
    PROVE  IsInjective(InsertKey(q, h))
<1> DEFINE k == CompoundKey(h)
<1>1. CASE IsStatic(h) \/ IsDynamic(q, h)
  BY <1>1 DEF InsertKey
<1>2. CASE ~IsStatic(h) /\ ~IsDynamic(q, h)
  <2>1. k \in Keys /\ k \notin ToSet(q)
    BY <1>2 DEF Keys, IsDynamic
  <2> HIDE DEF k
  <2>2. /\ DOMAIN Append(q, k) = 1..(Len(q) + 1) /\ DOMAIN q = 1..Len(q) /\ Len(q) \in Nat
        /\ Append(q, k)[Len(q) + 1] = k
        /\ \A i \in 1..Len(q) : Append(q, k)[i] = q[i]
    BY <2>1
  <2>3. \A i \in 1..(Len(q) + 1) : i \in 1..Len(q) \/ i = Len(q) + 1
    BY <2>2
  <2>4. \A i \in 1..Len(q) : q[i] # k
    BY <2>1, <2>2 DEF ToSet
  <2>5. IsInjective(Append(q, k))
    BY <2>2, <2>3, <2>4 DEF IsInjective
  <2> QED
    BY <1>2, <2>5 DEF InsertKey, k
<1> QED
  BY <1>1, <1>2

LEMMA StepGood ==
    ASSUME NEW t, Good(t), NEW h \in Fields
    PROVE  Good(TableAfterEncode(t, h)) /\ Good(TableAfterLength(t, h))
<1> DEFINE q == t.queue
           r == InsertKey(q, h)
<1>1. t \in Tables /\ q \in Seq(Keys) /\ t.size \in Nat /\ Len(q) \in Nat /\ t.size <= Len(q)
  BY DEF Good, Tables
<1>2. TableAfterEncode(t, h) \in Tables /\ TableAfterLength(t, h) \in Tables
  BY <1>1, StepTypes
<1>3. IsInjective(r) /\ Len(r) \in Len(q)..(Len(q) + 1)
  BY <1>1, InsertKeyInjective, InsertKeyIs DEF Good
<1>4. /\ TableAfterEncode(t, h).queue = r /\ TableAfterLength(t, h).queue = r
      /\ TableAfterEncode(t, h).size = t.size + (Len(r) - Len(q))
      /\ TableAfterLength(t, h).size = t.size
  BY <1>1 DEF TableAfterEncode, TableAfterLength, Tables
<1>5. t.size + (Len(r) - Len(q)) <= Len(r) /\ t.size <= Len(r)
  <2>1. \A m, k \in Nat : \A l \in m..(m + 1) : k <= m => k + (l - m) <= l /\ k <= l
    OBVIOUS
  <2> HIDE DEF r, q
  <2> QED
    BY <1>1, <1>3, <2>1, Zenon
<1> HIDE DEF r, q
<1> QED
  BY <1>2, <1>3, <1>4, <1>5 DEF Good

LEMMA EncodeTablesGood ==
    ASSUME NEW t, Good(t), NEW list \in Seq(Fields)
    PROVE  \A i \in 1..(Len(list) + 1) : Good(EncodeTables(t, list)[i])
<1> DEFINE n == Len(list)
           ts == EncodeTables(t, list)
           T == {i \in 1..(n + 1) : Good(ts[i])}
<1>n. n \in Nat /\ n + 1 \in 1..(n + 1) /\ 1 \in 1..(n + 1)
      /\ \A i \in 1..n : i + 1 \in 1..(n + 1) /\ list[i] \in Fields
  OBVIOUS
<1> HIDE DEF ts
<1>1. ts[1] = t /\ \A i \in 1..n : ts[i + 1] = TableAfterEncode(ts[i], list[i])
  BY EncodeTablesAre DEF ts, Good
<1>2. 1 \in T
  BY <1>n, <1>1
<1>3. ASSUME NEW i \in 1..n, i \in T PROVE i + 1 \in T
  <2>1. Good(TableAfterEncode(ts[i], list[i]))
    BY <1>n, <1>3, StepGood
  <2> QED
    BY <1>n, <1>1, <2>1
<1>4. \A i \in 1..(n + 1) : i \in T
  <2> HIDE DEF T
  <2> QED
    BY <1>n, <1>2, <1>3, FromOne
<1> QED
  BY <1>4 DEF ts

LEMMA TableAfterGood ==
    ASSUME NEW t, Good(t), NEW list \in Seq(Fields)
    PROVE  Good(TableAfter(t, list))
<1>1. Len(list) + 1 \in 1..(Len(list) + 1)
  OBVIOUS
<1> QED
  BY <1>1, EncodeTablesGood DEF TableAfter

-----------------------------------------------------------------------------
(***************************************************************************)
(* The peer.                                                               *)
(***************************************************************************)
LEMMA LengthByteIs ==
    ASSUME NEW n \in Nat
    PROVE  LengthByte(n) \in 0..n /\ (n < LengthLimit => LengthByte(n) = n)
<1> DEFINE m == 2 * (LengthLimit + 1)
<1>1. m \in Nat /\ m > 0 /\ LengthLimit < m
  BY HPackAssumption
<1>2. LengthByte(n) = n % m
  BY DEF LengthByte
<1> HIDE DEF m
<1>3. n % m \in 0..n /\ (n < m => n % m = n)
  BY <1>1
<1> QED
  BY <1>1, <1>2, <1>3, HPackAssumption

LEMMA IndexByteIs ==
    ASSUME NEW n \in Nat
    PROVE  IndexByte(n) \in 0..IndexLimit /\ (n < IndexLimit => IndexByte(n) = n)
<1> DEFINE m == IndexLimit + 1
<1>1. m \in Nat /\ m > 0 /\ IndexLimit < m /\ m - 1 = IndexLimit
  BY HPackAssumption
<1>2. IndexByte(n) = n % m
  BY DEF IndexByte
<1> HIDE DEF m
<1>3. n % m \in 0..(m - 1) /\ (n < m => n % m = n)
  BY <1>1
<1> QED
  BY <1>1, <1>2, <1>3, HPackAssumption

\* The peer reads a text whose length fits, and no other.
LEMMA PeerTextIs ==
    ASSUME NEW text \in Words
    PROVE  /\ PeerText(LengthByte(Len(text)), text) \in Words
           /\ PeerText(LengthByte(Len(text)), text) = text <=> Len(text) < LengthLimit
<1> DEFINE n == LengthByte(Len(text))
<1>1. text \in Seq(STRING) /\ Len(text) \in Nat /\ LengthLimit \in Nat \ {0}
  BY HPackAssumption DEF Words
<1>2. n \in 0..Len(text) /\ (Len(text) < LengthLimit => n = Len(text))
  BY <1>1, LengthByteIs
<1>3. PeerText(n, text) = IF n < LengthLimit THEN SubSeq(text, 1, n) ELSE <<>>
  BY DEF PeerText
<1> HIDE DEF n
<1>4. SubSeq(text, 1, n) \in Seq(STRING) /\ Len(SubSeq(text, 1, n)) = n
  BY <1>1, <1>2
<1>5. SubSeq(text, 1, Len(text)) = text
  BY <1>1
<1>6. CASE Len(text) < LengthLimit
  <2>1. n = Len(text) /\ n < LengthLimit
    BY <1>2, <1>6
  <2> QED
    BY <1>1, <1>3, <1>5, <1>6, <2>1 DEF n, Words
<1>7. CASE ~(Len(text) < LengthLimit)
  <2>1. CASE n < LengthLimit
    <3>1. n # Len(text)
      BY <1>7, <2>1
    <3>2. PeerText(n, text) = SubSeq(text, 1, n)
      BY <1>3, <2>1
    <3>3. SubSeq(text, 1, n) # text
      BY <1>4, <3>1
    <3> QED
      BY <1>4, <1>7, <3>2, <3>3 DEF n, Words
  <2>2. CASE ~(n < LengthLimit)
    <3>1. PeerText(n, text) = <<>>
      BY <1>3, <2>2
    <3>2. Len(<<>>) = 0 /\ <<>> \in Seq(STRING) /\ Len(text) # 0
      BY <1>1, <1>7
    <3> QED
      BY <1>7, <3>1, <3>2 DEF n, Words
  <2> QED
    BY <2>1, <2>2
<1> QED
  BY <1>6, <1>7

\* A literal is understood exactly when its lengths fit.
LEMMA LiteralIs ==
    ASSUME NEW t, NEW h \in Fields, ~IsStatic(h), ~IsDynamic(t.queue, h), NEW p
    PROVE  /\ Representation(t, h).kind = "literal"
           /\ PeerMeaning(p, Representation(t, h)) \in Header
           /\ PeerMeaning(p, Representation(t, h)) = h <=> Readable(t, h)
<1> DEFINE r == Representation(t, h)
           m == PeerMeaning(p, r)
           nameText == PeerText(LengthByte(Len(h.name)), h.name)
           valueText == PeerText(LengthByte(Len(h.value)), h.value)
<1>1. /\ r.kind = "literal" /\ r.field = h
      /\ r.name = IF HasStaticName(h) THEN StaticIndex(h.name) ELSE 0
      /\ r.nameLength = LengthByte(Len(h.name)) /\ r.valueLength = LengthByte(Len(h.value))
  BY DEF Representation, Literal
<1>2. h.name \in Words /\ h.value \in Words /\ h = [name |-> h.name, value |-> h.value]
  BY FieldsAreHeaders DEF Header
<1>3. /\ nameText \in Words /\ (nameText = h.name <=> Len(h.name) < LengthLimit)
      /\ valueText \in Words /\ (valueText = h.value <=> Len(h.value) < LengthLimit)
  BY <1>2, PeerTextIs
<1>4. m = [name |-> IF r.name = 0 THEN nameText ELSE StaticTable[r.name].name, value |-> valueText]
  BY <1>1 DEF PeerMeaning
<1>5. Readable(t, h) <=> (HasStaticName(h) \/ Len(h.name) < LengthLimit) /\ Len(h.value) < LengthLimit
  BY DEF Readable
<1> HIDE DEF r, m, nameText, valueText
<1>6. CASE HasStaticName(h)
  <2> DEFINE i == StaticIndex(h.name)
  <2>1. i \in DOMAIN StaticTable /\ i # 0 /\ CompoundKey(StaticTable[i]) = h.name
    BY <1>6, StaticIndexIs DEF HasStaticName
  <2>2. r.name = i
    BY <1>1, <1>6
  <2> HIDE DEF i
  <2>3. StaticTable[i].name = h.name
    BY <2>1, KeysAssumption
  <2>4. m = [name |-> h.name, value |-> valueText]
    BY <1>4, <2>1, <2>2, <2>3
  <2>5. m \in Header /\ m.value = valueText
    BY <1>2, <1>3, <2>4 DEF Header
  <2>6. m = h <=> valueText = h.value
    BY <1>2, <2>4, <2>5
  <2> QED
    BY <1>1, <1>3, <1>5, <1>6, <2>5, <2>6 DEF m, r
<1>7. CASE ~HasStaticName(h)
  <2>1. m = [name |-> nameText, value |-> valueText]
    BY <1>1, <1>4, <1>7
  <2>2. m \in Header /\ m.name = nameText /\ m.value = valueText
    BY <1>3, <2>1 DEF Header
  <2>3. m = h <=> nameText = h.name /\ valueText = h.value
    BY <1>2, <2>1, <2>2
  <2> QED
    BY <1>1, <1>3, <1>5, <1>7, <2>2, <2>3 DEF m, r
<1> QED
  BY <1>6, <1>7

LEMMA IndexedIs ==
    ASSUME NEW t, NEW h \in Fields, IsStatic(h) \/ IsDynamic(t.queue, h)
    PROVE  Representation(t, h).kind = "indexed"
BY DEF Representation

LEMMA PeerMeaningIsHeader ==
    ASSUME NEW p \in Seq(Header), NEW r \in Representations
    PROVE  PeerMeaning(p, r) \in Header
<1>1. PICK t \in Tables, h \in Fields : r = Representation(t, h)
  BY DEF Representations
<1>2. CASE ~IsStatic(h) /\ ~IsDynamic(t.queue, h)
  BY <1>1, <1>2, LiteralIs
<1>3. CASE IsStatic(h) \/ IsDynamic(t.queue, h)
  <2>1. r.kind = "indexed"
    BY <1>1, <1>3, IndexedIs
  <2>2. \A i \in 1..STATIC_TABLE_SIZE : StaticTable[i] \in Header
    BY HPackAssumption DEF STATIC_TABLE_SIZE
  <2>3. \A i \in DOMAIN p : p[i] \in Header
    OBVIOUS
  <2>4. Nothing \in Header
    BY DEF Nothing, Header, Words
  <2>5. \/ PeerMeaning(p, r) = Nothing
        \/ \E i \in 1..STATIC_TABLE_SIZE : PeerMeaning(p, r) = StaticTable[i]
        \/ \E i \in DOMAIN p : PeerMeaning(p, r) = p[i]
    <3> DEFINE x == r.index
               y == x - STATIC_TABLE_SIZE
    <3>1. PeerMeaning(p, r) = IF x = IndexLimit THEN Nothing
                              ELSE IF x \in 1..STATIC_TABLE_SIZE THEN StaticTable[x]
                              ELSE IF y \in DOMAIN p THEN p[y] ELSE Nothing
      BY <2>1 DEF PeerMeaning
    <3> HIDE DEF x, y
    <3> QED
      BY <3>1
  <2> QED
    BY <2>2, <2>3, <2>4, <2>5
<1> QED
  BY <1>2, <1>3

LEMMA PeerStepTypes ==
    ASSUME NEW p \in Seq(Header), NEW r \in Representations
    PROVE  PeerTableAfter(p, r) \in Seq(Header)
<1> DEFINE m == PeerMeaning(p, r)
           grown == <<m>> \o p
<1>1. m \in Header
  BY PeerMeaningIsHeader
<1> HIDE DEF m
<1>2. <<m>> \in Seq(Header)
  BY <1>1
<1>3. grown \in Seq(Header)
  BY <1>2
<1> HIDE DEF grown
<1>4. ASSUME Len(grown) > MaxEntries PROVE SubSeq(grown, 1, MaxEntries) \in Seq(Header)
  <2>1. MaxEntries \in Nat /\ Len(grown) \in Nat
    BY <1>3, HPackAssumption
  <2>2. \A i \in 1..MaxEntries : grown[i] \in Header
    BY <1>3, <1>4, <2>1
  <2> QED
    BY <1>3, <2>1, <2>2, SubSeqProperties
<1> QED
  BY <1>3, <1>4 DEF PeerTableAfter, grown, m

LEMMA PeerTablesAre ==
    ASSUME NEW t \in Seq(Header), NEW list \in Seq(Representations)
    PROVE  /\ PeerTablesOver(t, list) \in [1..(Len(list) + 1) -> Seq(Header)]
           /\ PeerTablesOver(t, list)[1] = t
           /\ \A i \in 1..Len(list) :
                 PeerTablesOver(t, list)[i + 1] = PeerTableAfter(PeerTablesOver(t, list)[i], list[i])
<1> DEFINE n == Len(list)
           ts == PeerTablesOver(t, list)
           step == [x \in Seq(Header) \X Representations |-> PeerTableAfter(x[1], x[2])]
           Rec(us) == us = [i \in 1..(n + 1) |-> IF i = 1 THEN t ELSE PeerTableAfter(us[i - 1], list[i - 1])]
           T == {i \in 1..(n + 1) : ts[i] \in Seq(Header)}
<1>n. n \in Nat /\ \A i \in 1..n : i \in 1..(n + 1) /\ list[i] \in Representations
  OBVIOUS
<1>1. step \in [Seq(Header) \X Representations -> Seq(Header)]
  BY PeerStepTypes
<1>2. PICK us : /\ us \in [1..(n + 1) -> Seq(Header)] /\ us[1] = t
                /\ \A i \in 1..n : us[i + 1] = step[<<us[i], list[i]>>]
  <2>1. \E us : Run(us, Seq(Header), t, list, step, Len(list))
    <3> HIDE DEF step
    <3> QED
      BY <1>1, RunExists
  <2> QED
    BY <2>1 DEF Run
<1>3. ASSUME NEW i \in 1..n PROVE us[i + 1] = PeerTableAfter(us[i], list[i])
  <2>1. list[i] \in Representations /\ us[i] \in Seq(Header)
    BY <1>n, <1>2
  <2> QED
    BY <1>2, <2>1
<1>4. Rec(us)
  <2>1. ASSUME NEW i \in 1..(n + 1), i # 1 PROVE i - 1 \in 1..n /\ (i - 1) + 1 = i
    BY <1>n, <2>1
  <2>2. ASSUME NEW i \in 1..(n + 1)
        PROVE us[i] = IF i = 1 THEN t ELSE PeerTableAfter(us[i - 1], list[i - 1])
    <3>1. CASE i = 1
      BY <1>2, <3>1
    <3>2. CASE i # 1
      <4>1. us[(i - 1) + 1] = PeerTableAfter(us[i - 1], list[i - 1])
        BY <1>3, <2>1, <3>2
      <4> QED
        BY <2>1, <3>2, <4>1
    <3> QED
      BY <3>1, <3>2
  <2>3. us = [i \in 1..(n + 1) |-> us[i]]
    BY <1>2
  <2> QED
    BY <2>2, <2>3
<1>5. Rec(ts)
  <2>1. ts = CHOOSE vs : Rec(vs)
    BY DEF PeerTablesOver, TablesOver
  <2> QED
    BY <1>4, <2>1
<1> HIDE DEF ts
<1>6. ts[1] = t
  <2>1. 1 \in 1..(n + 1)
    BY <1>n
  <2> QED
    BY <1>5, <2>1
<1>7. ASSUME NEW i \in 1..n PROVE ts[i + 1] = PeerTableAfter(ts[i], list[i])
  <2>1. i + 1 \in 1..(n + 1) /\ i + 1 # 1 /\ (i + 1) - 1 = i
    BY <1>n
  <2> QED
    BY <1>5, <2>1
<1>8. 1 \in T
  BY <1>n, <1>6
<1>9. ASSUME NEW i \in 1..n, i \in T PROVE i + 1 \in T
  <2>1. ts[i] \in Seq(Header) /\ list[i] \in Representations /\ i + 1 \in 1..(n + 1)
    BY <1>n, <1>9
  <2>2. PeerTableAfter(ts[i], list[i]) \in Seq(Header)
    BY <2>1, PeerStepTypes
  <2> QED
    BY <1>7, <2>1, <2>2
<1>10. \A i \in 1..(n + 1) : i \in T
  <2> HIDE DEF T
  <2> QED
    BY <1>n, <1>8, <1>9, FromOne
<1>11. ts \in [1..(n + 1) -> Seq(Header)]
  BY <1>5, <1>10
<1> QED
  BY <1>6, <1>7, <1>11 DEF ts

LEMMA EncodingIs ==
    ASSUME NEW t \in Tables, NEW list \in Seq(Fields)
    PROVE  Encoding(t, list) \in Seq(Representations)
<1> DEFINE n == Len(list)
           es == EncodeTables(t, list)
<1>n. n \in Nat /\ \A i \in 1..n : i \in 1..(n + 1) /\ list[i] \in Fields
  OBVIOUS
<1> HIDE DEF es
<1>1. es \in [1..(n + 1) -> Tables]
  BY EncodeTablesAre DEF es
<1>2. ASSUME NEW i \in 1..n PROVE Representation(es[i], list[i]) \in Representations
  BY <1>n, <1>1 DEF Representations
<1>3. Encoding(t, list) = [i \in 1..n |-> Representation(es[i], list[i])]
  BY DEF Encoding, es
<1> QED
  BY <1>n, <1>2, <1>3

\* As long as the peer saw every insertion: its table is the packer's, newest
\* entry first, as far as it has room.
InSync(t, p) ==
    /\ t.size = Len(t.queue)
    /\ p \in Seq(Fields)
    /\ Len(p) <= MaxEntries /\ Len(p) <= Len(t.queue)
    /\ Len(p) < MaxEntries => Len(p) = Len(t.queue)
    /\ \A i \in 1..Len(p) : CompoundKey(p[i]) = t.queue[Len(t.queue) + 1 - i]

\* A field that is in the table is understood exactly when the peer still has it
\* and its index fits.
LEMMA DynamicIs ==
    ASSUME NEW t, Good(t), NEW h \in Fields, NEW p, InSync(t, p),
           ~IsStatic(h), IsDynamic(t.queue, h)
    PROVE  PeerMeaning(p, Representation(t, h)) = h <=> Readable(t, h)
<1> DEFINE N == STATIC_TABLE_SIZE
           L == Len(t.queue)
           key == CompoundKey(h)
           k == indexLookup(t.queue, key)
           d == L - k
           r == Representation(t, h)
           m == PeerMeaning(p, r)
<1>1. N \in Nat /\ MaxEntries \in Nat /\ IndexLimit \in Nat
  BY HPackAssumption DEF STATIC_TABLE_SIZE
<1>2. t.queue \in Seq(Keys) /\ L \in Nat /\ t.size = L /\ IsInjective(t.queue)
  BY DEF Good, Tables, InSync
<1>3. /\ p \in Seq(Fields) /\ Len(p) \in Nat /\ Len(p) <= MaxEntries /\ Len(p) <= L
      /\ (Len(p) < MaxEntries => Len(p) = L)
      /\ \A i \in 1..Len(p) : CompoundKey(p[i]) = t.queue[L + 1 - i]
  BY DEF InSync
<1>4. k \in 0..(L - 1) /\ t.queue[k + 1] = key
  BY <1>2, IndexLookupIs DEF IsDynamic
<1>5. Position(t, h) = d
  BY <1>2 DEF Position
<1>6. r.kind = "indexed" /\ r.index = IndexByte(d + N)
  BY <1>5 DEF Representation
<1>7. Readable(t, h) <=> d <= MaxEntries /\ d + N < IndexLimit
  BY <1>5 DEF Readable
<1>8. m = IF r.index = IndexLimit THEN Nothing
          ELSE IF r.index \in 1..N THEN StaticTable[r.index]
          ELSE IF r.index - N \in DOMAIN p THEN p[r.index - N] ELSE Nothing
  BY <1>6 DEF PeerMeaning
<1> HIDE DEF k, r, m, N, L
<1>9. d \in 1..L /\ d + N \in Nat /\ L + 1 - d = k + 1
  BY <1>1, <1>2, <1>4
<1> HIDE DEF d
<1>10. r.index \in 0..IndexLimit /\ (d + N < IndexLimit => r.index = d + N)
  BY <1>6, <1>9, IndexByteIs
<1>11. DOMAIN p = 1..Len(p)
  BY <1>3
<1>12. ASSUME d <= MaxEntries, d + N < IndexLimit PROVE m = h
  <2>1. r.index = d + N /\ r.index # IndexLimit /\ r.index \notin 1..N /\ r.index - N = d
    BY <1>1, <1>9, <1>10, <1>12
  <2>2. d \in 1..Len(p)
    BY <1>1, <1>3, <1>9, <1>12
  <2>3. m = p[d]
    BY <1>8, <1>11, <2>1, <2>2
  <2>4. p[d] \in Fields /\ CompoundKey(p[d]) = key
    BY <1>3, <1>4, <1>9, <2>2
  <2> QED
    BY <2>3, <2>4, KeysAssumption
<1>13. ASSUME m = h PROVE d <= MaxEntries /\ d + N < IndexLimit
  <2>1. h # Nothing
    BY HPackAssumption DEF Nothing
  <2>2. r.index # IndexLimit
    BY <1>8, <1>13, <2>1
  <2>3. r.index \notin 1..N
    <3> SUFFICES ASSUME r.index \in 1..N PROVE FALSE
      OBVIOUS
    <3>1. StaticTable[r.index] = h
      BY <1>8, <1>13, <2>2
    <3>2. r.index \in DOMAIN StaticTable
      BY HPackAssumption DEF N, STATIC_TABLE_SIZE
    <3> QED
      BY <3>1, <3>2 DEF IsStatic, StaticKeys
  <2> DEFINE y == r.index - N
  <2>4. y \in DOMAIN p /\ p[y] = h
    BY <1>8, <1>13, <2>1, <2>2, <2>3
  <2>5. y \in 1..Len(p) /\ L + 1 - y \in 1..L
    BY <1>2, <1>3, <1>11, <2>4
  <2>6. t.queue[L + 1 - y] = key /\ t.queue[k + 1] = key
    BY <1>3, <1>4, <2>4, <2>5
  <2>7. k + 1 \in 1..L /\ DOMAIN t.queue = 1..L
    BY <1>2, <1>4 DEF L
  <2>8. L + 1 - y = k + 1
    BY <1>2, <2>5, <2>6, <2>7 DEF IsInjective
  <2>9. y = d
    BY <1>2, <1>9, <2>5, <2>8
  <2> QED
    BY <1>1, <1>3, <1>9, <1>10, <2>2, <2>5, <2>9
<1> QED
  BY <1>7, <1>12, <1>13 DEF m, r

LEMMA PeerUnderstands ==
    ASSUME NEW t, Good(t), NEW h \in Fields, NEW p, InSync(t, p)
    PROVE  PeerMeaning(p, Representation(t, h)) = h <=> Readable(t, h)
<1>1. CASE IsStatic(h)
  <2> DEFINE i == StaticIndex(CompoundKey(h))
             r == Representation(t, h)
  <2>1. i \in 1..STATIC_TABLE_SIZE /\ i \in DOMAIN StaticTable
        /\ CompoundKey(StaticTable[i]) = CompoundKey(h)
    BY <1>1, StaticIndexIs DEF IsStatic
  <2>2. r.kind = "indexed" /\ r.index = i
    BY <1>1 DEF Representation
  <2> HIDE DEF i, r
  <2>3. i # IndexLimit
    BY <2>1, HPackAssumption DEF STATIC_TABLE_SIZE
  <2>4. PeerMeaning(p, r) = StaticTable[i]
    BY <2>1, <2>2, <2>3 DEF PeerMeaning
  <2>5. StaticTable[i] = h
    BY <2>1, KeysAssumption
  <2>6. Readable(t, h)
    BY <1>1 DEF Readable
  <2> QED
    BY <2>4, <2>5, <2>6 DEF r
<1>2. CASE ~IsStatic(h) /\ IsDynamic(t.queue, h)
  BY <1>2, DynamicIs
<1>3. CASE ~IsStatic(h) /\ ~IsDynamic(t.queue, h)
  BY <1>3, LiteralIs
<1> QED
  BY <1>1, <1>2, <1>3

LEMMA SyncStays ==
    ASSUME NEW t \in Tables, NEW h \in Fields, NEW p, InSync(t, p),
           PeerMeaning(p, Representation(t, h)) = h
    PROVE  InSync(TableAfterEncode(t, h), PeerTableAfter(p, Representation(t, h)))
<1> DEFINE q == t.queue
           L == Len(q)
           M == MaxEntries
           r == Representation(t, h)
           u == TableAfterEncode(t, h)
<1>1. t = [queue |-> q, size |-> t.size] /\ q \in Seq(Keys) /\ L \in Nat /\ t.size = L
  BY DEF Tables, InSync
<1>2. /\ p \in Seq(Fields) /\ Len(p) \in Nat /\ Len(p) <= M /\ Len(p) <= L
      /\ (Len(p) < M => Len(p) = L)
      /\ \A i \in 1..Len(p) : CompoundKey(p[i]) = q[L + 1 - i]
  BY DEF InSync
<1>3. u = [queue |-> InsertKey(q, h), size |-> t.size + (Len(InsertKey(q, h)) - L)]
  BY DEF TableAfterEncode
<1>m. M \in Nat
  BY HPackAssumption
<1>4. CASE IsStatic(h) \/ IsDynamic(q, h)
  <2>1. InsertKey(q, h) = q
    BY <1>4 DEF InsertKey
  <2>2. L + (L - L) = L
    BY <1>1
  <2>3. u = t
    BY <1>1, <1>3, <2>1, <2>2
  <2>4. PeerTableAfter(p, r) = p
    BY <1>4, IndexedIs DEF PeerTableAfter
  <2> QED
    BY <2>3, <2>4
<1>5. CASE ~IsStatic(h) /\ ~IsDynamic(q, h)
  <2> DEFINE key == CompoundKey(h)
             grown == <<h>> \o p
             o == PeerTableAfter(p, r)
             new == Append(q, key)
  <2>1. InsertKey(q, h) = new
    BY <1>5 DEF InsertKey
  <2>2. key \in Keys
    BY DEF Keys
  <2> HIDE DEF key
  <2>3. /\ Len(new) = L + 1 /\ new[L + 1] = key
        /\ \A i \in 1..L : new[i] = q[i]
    BY <1>1, <2>2
  <2>4. /\ grown \in Seq(Fields) /\ Len(grown) = Len(p) + 1 /\ grown[1] = h
        /\ \A i \in 2..(Len(p) + 1) : grown[i] = p[i - 1]
    BY <1>1, <1>2
  <2> HIDE DEF grown, new
  <2>5. u.queue = new /\ u.size = L + 1
    <3>1. L + ((L + 1) - L) = L + 1
      BY <1>1
    <3> QED
      BY <1>1, <1>3, <2>1, <2>3, <3>1
  <2>6. o = IF Len(grown) > M THEN SubSeq(grown, 1, M) ELSE grown
    <3>1. r.kind = "literal" /\ PeerMeaning(p, r) = h
      BY <1>5, LiteralIs
    <3> HIDE DEF r
    <3>2. r.kind # "indexed"
      BY <3>1
    <3> QED
      BY <3>1, <3>2 DEF PeerTableAfter, grown
  <2> HIDE DEF o, M, u, r, L
  <2>7. /\ o \in Seq(Fields) /\ Len(o) \in Nat
        /\ Len(o) = IF Len(p) + 1 > M THEN M ELSE Len(p) + 1
        /\ \A i \in 1..Len(o) : i \in 1..(Len(p) + 1) /\ o[i] = grown[i]
    <3>1. CASE Len(p) + 1 > M
      <4>1. o = SubSeq(grown, 1, M)
        BY <2>4, <2>6, <3>1
      <4>2. M <= Len(grown) /\ \A i \in 1..M : grown[i] \in Fields
        BY <1>m, <1>2, <2>4, <3>1
      <4>3. /\ SubSeq(grown, 1, M) \in Seq(Fields) /\ Len(SubSeq(grown, 1, M)) = M
            /\ \A i \in 1..M : SubSeq(grown, 1, M)[i] = grown[i]
        BY <1>m, <2>4, <4>2
      <4>4. \A i \in 1..M : i \in 1..(Len(p) + 1)
        BY <1>m, <1>2, <3>1
      <4> QED
        BY <1>m, <3>1, <4>1, <4>3, <4>4
    <3>2. CASE ~(Len(p) + 1 > M)
      BY <1>2, <2>4, <2>6, <3>2
    <3> QED
      BY <3>1, <3>2
  <2>8. Len(o) <= M /\ Len(o) <= L + 1 /\ (Len(o) < M => Len(o) = L + 1)
    BY <1>m, <1>1, <1>2, <2>7 DEF L
  <2>9. ASSUME NEW i \in 1..Len(o) PROVE CompoundKey(o[i]) = new[(L + 1) + 1 - i]
    <3>0. i \in 1..(Len(p) + 1) /\ o[i] = grown[i]
      BY <2>7
    <3>1. CASE i = 1
      <4>1. (L + 1) + 1 - i = L + 1
        BY <1>1, <3>1 DEF L
      <4> QED
        BY <2>3, <2>4, <3>0, <3>1, <4>1 DEF key
    <3>2. CASE i # 1
      <4>1. /\ i \in 2..(Len(p) + 1) /\ i - 1 \in 1..Len(p)
            /\ (L + 1) + 1 - i = L + 1 - (i - 1) /\ L + 1 - (i - 1) \in 1..L
        BY <1>1, <1>2, <3>0, <3>2 DEF L
      <4> QED
        BY <1>2, <2>3, <2>4, <3>0, <4>1
    <3> QED
      BY <3>1, <3>2
  <2>10. InSync(u, o)
    BY <2>3, <2>5, <2>7, <2>8, <2>9 DEF InSync, M
  <2> QED
    BY <2>10 DEF u, r, o
<1> QED
  BY <1>4, <1>5

\* The peer decodes a list exactly when it is readable, and is in sync after it.
LEMMA PeerFollows ==
    ASSUME NEW t, Good(t), NEW list \in Seq(Fields), NEW p, InSync(t, p)
    PROVE  /\ PeerDecodes(p, Encoding(t, list)) \in Seq(Header)
           /\ Len(PeerDecodes(p, Encoding(t, list))) = Len(list)
           /\ PeerDecodes(p, Encoding(t, list)) = list <=> ListReadable(t, list)
           /\ ListReadable(t, list) => InSync(TableAfter(t, list), PeerAfter(p, Encoding(t, list)))
<1> DEFINE n == Len(list)
           rs == Encoding(t, list)
           es == EncodeTables(t, list)
           ps == PeerTablesOver(p, rs)
           Before(i) == \A j \in 1..(i - 1) : Readable(es[j], list[j])
           T == {i \in 1..(n + 1) : Before(i) => InSync(es[i], ps[i])}
<1>t. t \in Tables
  BY DEF Good
<1>n. n \in Nat /\ n + 1 \in 1..(n + 1) /\ 1 \in 1..(n + 1)
      /\ \A i \in 1..n : i \in 1..(n + 1) /\ i + 1 \in 1..(n + 1) /\ list[i] \in Fields
  OBVIOUS
<1> HIDE DEF rs, es, ps
<1>1. rs \in Seq(Representations) /\ Len(rs) = n
      /\ \A i \in 1..n : rs[i] = Representation(es[i], list[i]) /\ rs[i] \in Representations
  <2>1. rs \in Seq(Representations) /\ Len(rs) = n
        /\ \A i \in 1..n : rs[i] = Representation(es[i], list[i])
    BY <1>t, EncodingIs, EncodingHas DEF rs, es
  <2> QED
    BY <2>1
<1>2. /\ es \in [1..(n + 1) -> Tables] /\ es[1] = t
      /\ \A i \in 1..n : es[i + 1] = TableAfterEncode(es[i], list[i])
  BY <1>t, EncodeTablesAre DEF es
<1>3. p \in Seq(Header)
  <2>1. p \in Seq(Fields) /\ Fields \subseteq Header
    BY HPackAssumption DEF InSync
  <2> QED
    BY <2>1
<1>4. /\ ps \in [1..(n + 1) -> Seq(Header)] /\ ps[1] = p
      /\ \A i \in 1..n : ps[i + 1] = PeerTableAfter(ps[i], rs[i])
  BY <1>1, <1>3, PeerTablesAre DEF ps
<1>5. \A i \in 1..(n + 1) : Good(es[i])
  BY EncodeTablesGood DEF es
<1>6. ASSUME NEW i \in 1..n, InSync(es[i], ps[i])
      PROVE  PeerMeaning(ps[i], rs[i]) = list[i] <=> Readable(es[i], list[i])
  <2>1. Good(es[i]) /\ list[i] \in Fields
    BY <1>n, <1>5
  <2>2. PeerMeaning(ps[i], Representation(es[i], list[i])) = list[i] <=> Readable(es[i], list[i])
    BY <1>6, <2>1, PeerUnderstands
  <2> QED
    BY <1>1, <2>2
<1>7. \A i \in 1..(n + 1) : i \in T
  <2>1. 1 \in T
    BY <1>n, <1>2, <1>4
  <2>2. ASSUME NEW i \in 1..n, i \in T PROVE i + 1 \in T
    <3>1. es[i] \in Tables /\ list[i] \in Fields /\ i + 1 \in 1..(n + 1)
      BY <1>n, <1>2
    <3>2. SUFFICES ASSUME Before(i + 1) PROVE InSync(es[i + 1], ps[i + 1])
      BY <3>1
    <3>3. Before(i) /\ Readable(es[i], list[i])
      <4>1. i \in 1..((i + 1) - 1) /\ \A j \in 1..(i - 1) : j \in 1..((i + 1) - 1)
        OBVIOUS
      <4> QED
        BY <3>2, <4>1
    <3> HIDE DEF Before
    <3>4. InSync(es[i], ps[i])
      BY <2>2, <3>3
    <3>5. es[i + 1] = TableAfterEncode(es[i], list[i])
      BY <1>2
    <3>6. PeerMeaning(ps[i], Representation(es[i], list[i])) = list[i]
      BY <1>1, <1>6, <3>3, <3>4
    <3>7. InSync(TableAfterEncode(es[i], list[i]),
                 PeerTableAfter(ps[i], Representation(es[i], list[i])))
      BY <3>1, <3>4, <3>6, SyncStays
    <3> QED
      BY <1>1, <1>4, <3>5, <3>7
  <2> HIDE DEF T
  <2> QED
    BY <1>n, <2>1, <2>2, FromOne
<1>8. ASSUME NEW i \in 1..(n + 1), Before(i) PROVE InSync(es[i], ps[i])
  BY <1>7, <1>8
<1> DEFINE D == PeerDecodes(p, rs)
<1>9. D = [i \in 1..n |-> PeerMeaning(ps[i], rs[i])]
  BY <1>1 DEF PeerDecodes, ps
<1>10. D \in Seq(Header) /\ Len(D) = n
  <2>1. ASSUME NEW i \in 1..n PROVE PeerMeaning(ps[i], rs[i]) \in Header
    <3>1. ps[i] \in Seq(Header) /\ rs[i] \in Representations
      BY <1>n, <1>1, <1>4
    <3> QED
      BY <3>1, PeerMeaningIsHeader
  <2> QED
    BY <1>n, <1>9, <2>1
<1>11. ListReadable(t, list) <=> \A i \in 1..n : Readable(es[i], list[i])
  BY DEF ListReadable, es
<1>12. ASSUME ListReadable(t, list)
       PROVE  \A i \in 1..(n + 1) : InSync(es[i], ps[i])
  <2>1. ASSUME NEW i \in 1..(n + 1) PROVE Before(i)
    <3>1. \A j \in 1..(i - 1) : j \in 1..n
      BY <1>n
    <3> QED
      BY <1>11, <1>12, <3>1
  <2> QED
    BY <1>8, <2>1
<1>13. ASSUME ListReadable(t, list) PROVE D = list
  <2>1. ASSUME NEW i \in 1..n PROVE PeerMeaning(ps[i], rs[i]) = list[i]
    BY <1>n, <1>6, <1>11, <1>12, <1>13
  <2>2. list = [i \in 1..n |-> list[i]]
    OBVIOUS
  <2> HIDE DEF D
  <2> QED
    BY <1>9, <2>1, <2>2
<1>14. ASSUME D = list PROVE ListReadable(t, list)
  <2> DEFINE U == {i \in 1..(n + 1) : Before(i)}
  <2>1. \A i \in 1..n : PeerMeaning(ps[i], rs[i]) = list[i]
    BY <1>9, <1>14
  <2>2. 1 \in U
    BY <1>n
  <2>3. ASSUME NEW i \in 1..n, i \in U PROVE i + 1 \in U
    <3>1. Readable(es[i], list[i])
      BY <1>n, <1>6, <1>8, <2>1, <2>3
    <3>2. i + 1 \in 1..(n + 1) /\ \A j \in 1..((i + 1) - 1) : j \in 1..(i - 1) \/ j = i
      BY <1>n
    <3> QED
      BY <2>3, <3>1, <3>2
  <2>4. Before(n + 1)
    <3> HIDE DEF U
    <3>1. n + 1 \in U
      BY <1>n, <2>2, <2>3, FromOne
    <3> QED
      BY <3>1 DEF U
  <2>5. \A i \in 1..n : i \in 1..((n + 1) - 1)
    BY <1>n
  <2> QED
    BY <1>11, <2>4, <2>5
<1>15. ListReadable(t, list) => InSync(TableAfter(t, list), PeerAfter(p, rs))
  <2>1. TableAfter(t, list) = es[n + 1] /\ PeerAfter(p, rs) = ps[n + 1]
    BY <1>1 DEF TableAfter, PeerAfter, es, ps
  <2> QED
    BY <1>n, <1>12, <2>1
<1> HIDE DEF D
<1>16. D = list <=> ListReadable(t, list)
  BY <1>13, <1>14
<1> QED
  BY <1>10, <1>15, <1>16 DEF rs, D

-----------------------------------------------------------------------------
(***************************************************************************)
(* The invariant.                                                          *)
(***************************************************************************)
Typed ==
    /\ Good(table)
    /\ headerList \in [Frames -> Seq(Fields)]
    /\ \A f \in Frames : Len(headerList[f]) <= MaxBlocks
    /\ length \in [Frames -> Nat]
    /\ synced \in BOOLEAN

Synced == IF synced THEN InSync(table, peer) ELSE peer = <<>>

IInv == Typed /\ BufferHoldsEncoding /\ Synced /\ SentIsDecoded

LEMMA EmptyEncoding ==
    ASSUME NEW t \in Tables
    PROVE  BytesOf(Encoding(t, <<>>)) = 0
<1>1. <<>> \in Seq(Fields) /\ Len(<<>>) = 0
  OBVIOUS
<1> DEFINE rs == Encoding(t, <<>>)
           none == [i \in 1..Len(rs) |-> RepresentationLength(rs[i])]
<1>2. Len(rs) = 0
  BY <1>1, EncodingHas
<1> HIDE DEF rs
<1>3. Len(none) = 0
  BY <1>2
<1>4. BytesOf(rs) = Total(none)
  BY DEF BytesOf
<1> HIDE DEF none
<1>5. Total(none) = 0
  BY <1>3, TotalIs
<1> QED
  BY <1>4, <1>5 DEF rs

LEMMA InitInv == Init => IInv
<1> SUFFICES ASSUME Init PROVE IInv
  OBVIOUS
<1>1. Good(table)
  <2>1. table = [queue |-> <<>>, size |-> 0]
    BY DEF Init
  <2>2. <<>> \in Seq(Keys) /\ Len(<<>>) = 0 /\ DOMAIN <<>> = 1..0
    OBVIOUS
  <2>3. IsInjective(<<>>)
    BY DEF IsInjective
  <2> QED
    BY <2>1, <2>2, <2>3 DEF Good, Tables
<1>2. Typed
  BY <1>1, HPackAssumption DEF Init, Typed
<1>3. BufferHoldsEncoding
  <2>1. ASSUME NEW f \in Frames PROVE BytesOf(Encoding(table, headerList[f])) = 0
    <3>1. headerList[f] = <<>> /\ Len(<<>>) = 0
      BY DEF Init
    <3> QED
      BY <1>1, <3>1, EmptyEncoding DEF Good
  <2> QED
    BY <2>1 DEF BufferHoldsEncoding, Init
<1>4. Synced
  BY HPackAssumption DEF Init, Synced, InSync
<1>5. SentIsDecoded
  BY DEF Init, SentIsDecoded, NoFrame
<1> QED
  BY <1>2, <1>3, <1>4, <1>5 DEF IInv

\* The lists and the lengths stay and the table only learns: every encoding still
\* fits the buffer that was sized for it.
LEMMA BufferStays ==
    ASSUME Typed, BufferHoldsEncoding, Good(table'), Knows(table', table),
           UNCHANGED <<headerList, length>>
    PROVE  BufferHoldsEncoding'
<1>1. ASSUME NEW f \in Frames PROVE BytesOf(Encoding(table', headerList[f])) <= length[f]
  <2>1. table \in Tables /\ table' \in Tables /\ headerList[f] \in Seq(Fields) /\ length[f] \in Nat
    BY DEF Typed, Good
  <2>2. /\ BytesOf(Encoding(table, headerList[f])) \in Nat
        /\ BytesOf(Encoding(table', headerList[f])) \in Nat
        /\ BytesOf(Encoding(table', headerList[f])) <= BytesOf(Encoding(table, headerList[f]))
    BY <2>1, EncodingShrinks
  <2>3. BytesOf(Encoding(table, headerList[f])) <= length[f]
    BY DEF BufferHoldsEncoding
  <2> QED
    BY <2>1, <2>2, <2>3
<1> QED
  BY <1>1 DEF BufferHoldsEncoding

LEMMA TableChangesInv ==
    ASSUME IInv, NEW t, Good(t), Knows(t, table), TableChanges(t)
    PROVE  IInv'
<1>1. table' = t /\ synced' = (synced /\ t = table) /\ UNCHANGED <<headerList, length>>
  BY DEF TableChanges
<1>2. Typed'
  BY <1>1 DEF IInv, Typed
<1>3. BufferHoldsEncoding'
  BY <1>1, BufferStays DEF IInv
<1>4. Synced'
  BY <1>1 DEF IInv, Synced, TableChanges
<1>5. SentIsDecoded'
  BY DEF TableChanges, SentIsDecoded, NoFrame
<1> QED
  BY <1>2, <1>3, <1>4, <1>5 DEF IInv

LEMMA AddHeaderBlockInv ==
    ASSUME IInv, NEW f \in Frames, NEW h \in Fields, AddHeaderBlock(f, h)
    PROVE  IInv'
<1> DEFINE list == Append(headerList[f], h)
<1>1. /\ headerList[f] \in Seq(Fields) /\ Len(headerList[f]) < MaxBlocks
      /\ headerList' = [headerList EXCEPT ![f] = list]
      /\ length' = [length EXCEPT ![f] = EncodedLength(table, headerList'[f])]
      /\ UNCHANGED <<table, peer, synced>>
  BY DEF AddHeaderBlock, IInv, Typed
<1>2. list \in Seq(Fields) /\ Len(list) = Len(headerList[f]) + 1
  BY <1>1
<1>3. table \in Tables /\ MaxBlocks \in Nat
  BY HPackAssumption DEF IInv, Typed, Good
<1> HIDE DEF list
<1>4. headerList'[f] = list
  BY <1>1 DEF IInv, Typed
<1>5. EncodedLength(table, list) \in Nat
  <2>1. Knows(table, table)
    BY DEF Knows
  <2> QED
    BY <1>2, <1>3, <2>1, LengthShrinks
<1>6. Typed'
  <2>1. headerList' \in [Frames -> Seq(Fields)]
    BY <1>1, <1>2 DEF IInv, Typed
  <2>2. length' \in [Frames -> Nat]
    BY <1>1, <1>4, <1>5 DEF IInv, Typed
  <2>3. Len(list) <= MaxBlocks
    BY <1>1, <1>2, <1>3
  <2>4. ASSUME NEW g \in Frames PROVE Len(headerList'[g]) <= MaxBlocks
    BY <1>1, <1>4, <2>3 DEF IInv, Typed
  <2>5. Good(table') /\ synced' \in BOOLEAN
    BY <1>1 DEF IInv, Typed
  <2> QED
    BY <2>1, <2>2, <2>4, <2>5 DEF Typed
<1>7. BufferHoldsEncoding'
  <2>1. ASSUME NEW g \in Frames PROVE BytesOf(Encoding(table, headerList'[g])) <= length'[g]
    <3>1. CASE g = f
      <4>1. BytesOf(Encoding(table, list)) = EncodedLength(table, list)
        BY <1>2, <1>3, EncodedLengthIs
      <4>2. length'[f] = EncodedLength(table, list)
        BY <1>1, <1>4 DEF IInv, Typed
      <4> QED
        BY <1>4, <1>5, <3>1, <4>1, <4>2
    <3>2. CASE g # f
      <4>1. headerList'[g] = headerList[g] /\ length'[g] = length[g]
        BY <1>1, <3>2 DEF IInv, Typed
      <4> QED
        BY <4>1 DEF IInv, BufferHoldsEncoding
    <3> QED
      BY <3>1, <3>2
  <2> QED
    BY <1>1, <2>1 DEF BufferHoldsEncoding
<1>8. Synced'
  BY <1>1 DEF IInv, Synced
<1>9. SentIsDecoded'
  BY DEF AddHeaderBlock, SentIsDecoded, NoFrame
<1> QED
  BY <1>6, <1>7, <1>8, <1>9 DEF IInv

LEMMA ClearHeaderBlocksInv ==
    ASSUME IInv, NEW f \in Frames, ClearHeaderBlocks(f)
    PROVE  IInv'
<1>1. headerList' = [headerList EXCEPT ![f] = <<>>] /\ UNCHANGED <<table, length, peer, synced>>
  BY DEF ClearHeaderBlocks
<1>2. <<>> \in Seq(Fields) /\ Len(<<>>) = 0 /\ MaxBlocks \in Nat
  BY HPackAssumption
<1>3. Typed'
  <2>1. headerList' \in [Frames -> Seq(Fields)]
    BY <1>1, <1>2 DEF IInv, Typed
  <2>2. ASSUME NEW g \in Frames PROVE Len(headerList'[g]) <= MaxBlocks
    BY <1>1, <1>2 DEF IInv, Typed
  <2> QED
    BY <1>1, <2>1, <2>2 DEF IInv, Typed
<1>4. BufferHoldsEncoding'
  <2>1. ASSUME NEW g \in Frames PROVE BytesOf(Encoding(table, headerList'[g])) <= length[g]
    <3>1. table \in Tables /\ length[g] \in Nat
      BY DEF IInv, Typed, Good
    <3>2. CASE g = f
      <4>1. headerList'[g] = <<>>
        BY <1>1, <3>2 DEF IInv, Typed
      <4> QED
        BY <3>1, <4>1, EmptyEncoding
    <3>3. CASE g # f
      <4>1. headerList'[g] = headerList[g]
        BY <1>1, <3>3 DEF IInv, Typed
      <4> QED
        BY <4>1 DEF IInv, BufferHoldsEncoding
    <3> QED
      BY <3>2, <3>3
  <2> QED
    BY <1>1, <2>1 DEF BufferHoldsEncoding
<1>5. Synced' /\ SentIsDecoded'
  BY <1>1 DEF IInv, Synced, ClearHeaderBlocks, SentIsDecoded, NoFrame
<1> QED
  BY <1>3, <1>4, <1>5 DEF IInv

LEMMA SendFrameInv ==
    ASSUME IInv, NEW f \in Frames, SendFrame(f)
    PROVE  IInv'
<1> DEFINE list == headerList[f]
           encoding == Encoding(table, list)
           after == TableAfter(table, list)
           exact == BytesOf(encoding) = length[f]
           readable == exact /\ ListReadable(table, list)
           got == PeerDecodes(peer, encoding) \o (IF exact THEN <<>> ELSE <<Nothing>>)
<1>1. list \in Seq(Fields) /\ table \in Tables /\ Good(table)
  BY DEF IInv, Typed, Good
<1>2. /\ table' = after
      /\ synced' = (synced /\ readable)
      /\ peer' = IF synced' THEN PeerAfter(peer, encoding) ELSE <<>>
      /\ last' = IF synced THEN [sent |-> list, got |-> got, readable |-> readable] ELSE NoFrame
      /\ UNCHANGED <<headerList, length>>
  BY DEF SendFrame
<1> HIDE DEF list, encoding, after, exact
<1>3. Good(after) /\ Knows(after, table)
  BY <1>1, TableAfterGood, TableAfterKnows DEF after
<1>4. Typed'
  BY <1>2, <1>3 DEF IInv, Typed
<1>5. BufferHoldsEncoding'
  BY <1>2, <1>3, BufferStays DEF IInv
<1>6. ASSUME synced
      PROVE  /\ got = list <=> readable
             /\ readable => InSync(after, PeerAfter(peer, encoding))
  <2> DEFINE D == PeerDecodes(peer, encoding)
  <2>1. InSync(table, peer)
    BY <1>6 DEF IInv, Synced
  <2>2. /\ D \in Seq(Header) /\ Len(D) = Len(list)
        /\ D = list <=> ListReadable(table, list)
        /\ ListReadable(table, list) => InSync(after, PeerAfter(peer, encoding))
    BY <1>1, <2>1, PeerFollows DEF encoding, after
  <2> HIDE DEF D
  <2>3. CASE exact
    <3>1. got = D
      BY <2>2, <2>3 DEF D
    <3> QED
      BY <2>2, <2>3, <3>1
  <2>4. CASE ~exact
    <3>1. got = D \o <<Nothing>>
      BY <2>4 DEF D
    <3>2. <<Nothing>> \in Seq(Header) /\ Len(<<Nothing>>) = 1
      BY DEF Nothing, Header, Words
    <3>3. Len(D \o <<Nothing>>) = Len(D) + 1 /\ Len(D) \in Nat
      BY <2>2, <3>2
    <3>4. got # list
      BY <2>2, <3>1, <3>3
    <3> QED
      BY <2>4, <3>4
  <2> QED
    BY <2>3, <2>4
<1> HIDE DEF got, readable
<1>7. Synced'
  BY <1>2, <1>6 DEF Synced
<1>8. SentIsDecoded'
  <2>1. CASE synced
    <3>1. last'.sent = list /\ last'.got = got /\ (last'.readable <=> readable)
      BY <1>2, <2>1
    <3> QED
      BY <1>6, <2>1, <3>1 DEF SentIsDecoded
  <2>2. CASE ~synced
    BY <1>2, <2>2 DEF SentIsDecoded, NoFrame
  <2> QED
    BY <2>1, <2>2
<1> QED
  BY <1>4, <1>5, <1>7, <1>8 DEF IInv

LEMMA PrintHexInv ==
    ASSUME IInv, NEW f \in Frames, PrintHex(f)
    PROVE  IInv'
<1>1. headerList[f] \in Seq(Fields) /\ table \in Tables /\ Good(table)
  BY DEF IInv, Typed, Good
<1>2. Good(TableAfter(table, headerList[f])) /\ Knows(TableAfter(table, headerList[f]), table)
  BY <1>1, TableAfterGood, TableAfterKnows
<1> QED
  BY <1>2, TableChangesInv DEF PrintHex

LEMMA EncodeLengthInv ==
    ASSUME IInv, NEW h \in Fields, EncodeLength(h)
    PROVE  IInv'
<1>1. table \in Tables /\ Good(table)
  BY DEF IInv, Typed, Good
<1>2. Good(TableAfterLength(table, h)) /\ Knows(TableAfterLength(table, h), table)
  BY <1>1, StepGood, StepKnows
<1> QED
  BY <1>2, TableChangesInv DEF EncodeLength

LEMMA NextInv == IInv /\ [Next]_vars => IInv'
<1> SUFFICES ASSUME IInv, [Next]_vars PROVE IInv'
  OBVIOUS
<1>1. CASE Next
  <2>1. ASSUME NEW f \in Frames, NEW h \in Fields, AddHeaderBlock(f, h) PROVE IInv'
    BY <2>1, AddHeaderBlockInv
  <2>2. ASSUME NEW f \in Frames, ClearHeaderBlocks(f) PROVE IInv'
    BY <2>2, ClearHeaderBlocksInv
  <2>3. ASSUME NEW f \in Frames, SendFrame(f) PROVE IInv'
    BY <2>3, SendFrameInv
  <2>4. ASSUME NEW f \in Frames, PrintHex(f) PROVE IInv'
    BY <2>4, PrintHexInv
  <2>5. ASSUME NEW h \in Fields, EncodeLength(h) PROVE IInv'
    BY <2>5, EncodeLengthInv
  <2> QED
    BY <1>1, <2>1, <2>2, <2>3, <2>4, <2>5 DEF Next, FrameStep
<1>2. CASE UNCHANGED vars
  <2>1. UNCHANGED <<table, headerList, length, peer, synced, last>>
    BY <1>2 DEF vars
  <2> QED
    BY <2>1 DEF IInv, Typed, BufferHoldsEncoding, Synced, SentIsDecoded
<1> QED
  BY <1>1, <1>2

LEMMA InvType == IInv => TypeOK
<1> SUFFICES ASSUME IInv PROVE TypeOK
  OBVIOUS
<1>1. table.queue \in Seq(Keys) /\ table.size \in Nat
  BY DEF IInv, Typed, Good, Tables
<1>2. ToSet(table.queue) \subseteq {CompoundKey(h) : h \in Fields}
  <2>1. ToSet(table.queue) \subseteq Keys
    BY <1>1 DEF ToSet
  <2> QED
    BY <2>1 DEF Keys
<1>3. table.size \in 0..Len(table.queue)
  <2>1. Len(table.queue) \in Nat /\ table.size <= Len(table.queue)
    BY <1>1 DEF IInv, Typed, Good
  <2> QED
    BY <1>1, <2>1
<1>4. Len(peer) <= MaxEntries
  <2>1. MaxEntries \in Nat /\ Len(<<>>) = 0
    BY HPackAssumption
  <2> QED
    BY <2>1 DEF IInv, Synced, InSync
<1> QED
  BY <1>2, <1>3, <1>4 DEF TypeOK, IInv, Typed, Good

LEMMA Invariance == Spec => []IInv
BY InitInv, NextInv, PTL DEF Spec

\* Keys are in the table once, every insertion that encode() makes is counted,
\* and the lists keep to their bound.
THEOREM TypeCorrect == Spec => []TypeOK
BY Invariance, InvType, PTL

\* HttpHeadersFrame::encode() writes into a buffer of d_length bytes, sized when
\* the last block was added: the encoding fits, whatever the frames that share
\* the packer did to its table since.
THEOREM BufferHolds == Spec => []BufferHoldsEncoding
<1>1. IInv => BufferHoldsEncoding
  BY DEF IInv
<1> QED
  BY <1>1, Invariance, PTL

\* A peer that follows HPACK and could read what came before gets the fields that
\* were added exactly when the frame has the length of its encoding, the peer has
\* not dropped a field that is referred to by its index, and every index and
\* every length is below the limit of one byte: for any limits, any fields, and a
\* peer's table of any size.
THEOREM PeerReadsFields == Spec => []SentIsDecoded
<1>1. IInv => SentIsDecoded
  BY DEF IInv
<1> QED
  BY <1>1, Invariance, PTL
=============================================================================
