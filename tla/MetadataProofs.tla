---- MODULE MetadataProofs ----
(***************************************************************************)
(* Theorems about Picture and Metadata, for all files, maps of fields and  *)
(* lengths of a length: what decode finds is what the format of a picture  *)
(* says is there, and the tag and the gain at the end are what the file    *)
(* gives. The decoders read the file place by place; the invariant SoFar   *)
(* says of the places read so far what the properties say of all.          *)
(***************************************************************************)
EXTENDS Metadata, FiniteSetTheorems, SequenceTheorems, WellFoundedInduction, TLAPS

----
(* Words *)

\* Induction: a set of numbers that is not empty has a least one.
LEMMA LeastIs ==
    ASSUME NEW set \in SUBSET Nat, set /= {}
    PROVE  \E m \in set : \A j \in set : m <= j
<1>1. IsWellFoundedOn(OpToRel(<, Nat), Nat)
  BY NatLessThanWellFounded
<1>2. PICK m \in set : \A j \in set : <<j, m>> \notin OpToRel(<, Nat)
  BY <1>1, WFMin, Zenon
<1>3. ASSUME NEW j \in set PROVE m <= j
  <2>1. ~(j < m)
    BY <1>2 DEF OpToRel
  <2> QED BY <2>1
<1> QED BY <1>3

\* The functions that Word and Left compute, up to n.
IsValue(data, offset, n, f) ==
    f = [i \in 0..n |-> IF i = 0 THEN 0 ELSE ByteValues * f[i - 1] + data[offset + i]]

IsLeft(m, n, f) ==
    f = [i \in 0..n |-> IF i = 0 THEN m ELSE f[i - 1] \div ByteValues]

\* A function that is known up to n - 1 is known up to n.
LEMMA ValueUpTo ==
    ASSUME NEW data, NEW offset, NEW n \in Nat
    PROVE  \E f : IsValue(data, offset, n, f)
<1> DEFINE missing == {m \in Nat : ~(\E f : IsValue(data, offset, m, f))}
<1>1. SUFFICES ASSUME missing /= {} PROVE FALSE
  BY <1>1
<1>2. PICK m \in missing : \A j \in missing : m <= j
  BY <1>1, LeastIs
<1>3. CASE m = 0
  <2> DEFINE f == [i \in 0..0 |-> 0]
  <2>1. f = [i \in 0..0 |-> IF i = 0 THEN 0 ELSE ByteValues * f[i - 1] + data[offset + i]]
    OBVIOUS
  <2>2. IsValue(data, offset, 0, f)
    BY <2>1 DEF IsValue
  <2> QED BY <1>2, <1>3, <2>2
<1>4. CASE m /= 0
  <2>1. m - 1 \in Nat /\ ~(m <= m - 1)
    BY <1>4
  <2>2. PICK f : IsValue(data, offset, m - 1, f)
    BY <1>2, <2>1
  <2> DEFINE Next_(i, h) == IF i = 0 THEN 0 ELSE ByteValues * h[i - 1] + data[offset + i]
             g == [i \in 0..m |-> IF i = m THEN Next_(m, f) ELSE f[i]]
  <2>3. \A i \in 0..(m - 1) : f[i] = Next_(i, f)
    BY <2>2 DEF IsValue
  <2>4. \A i \in 0..(m - 1) : g[i] = f[i]
    BY <2>1
  <2>5. \A i \in 0..m : Next_(i, g) = Next_(i, f)
    <3> SUFFICES ASSUME NEW i \in 0..m, i /= 0 PROVE g[i - 1] = f[i - 1]
      OBVIOUS
    <3>1. i - 1 \in 0..(m - 1)
      BY <2>1
    <3> QED BY <2>4, <3>1
  <2>6. g[m] = Next_(m, f)
    BY <1>4
  <2>7. g = [i \in 0..m |-> g[i]]
    OBVIOUS
  <2> HIDE DEF g, Next_
  <2>8. ASSUME NEW i \in 0..m PROVE g[i] = Next_(i, g)
    <3>1. CASE i = m
      BY <2>5, <2>6, <3>1
    <3>2. CASE i \in 0..(m - 1)
      BY <2>3, <2>4, <2>5, <3>2
    <3> QED BY <2>1, <3>1, <3>2
  <2>9. g = [i \in 0..m |-> Next_(i, g)]
    BY <2>7, <2>8
  <2>10. IsValue(data, offset, m, g)
    BY <2>9 DEF IsValue, Next_
  <2> QED BY <1>2, <2>10
<1> QED BY <1>2, <1>3, <1>4

LEMMA LeftUpTo ==
    ASSUME NEW k, NEW n \in Nat
    PROVE  \E f : IsLeft(k, n, f)
<1> DEFINE missing == {m \in Nat : ~(\E f : IsLeft(k, m, f))}
<1>1. SUFFICES ASSUME missing /= {} PROVE FALSE
  BY <1>1
<1>2. PICK m \in missing : \A j \in missing : m <= j
  BY <1>1, LeastIs
<1>3. CASE m = 0
  <2> DEFINE f == [i \in 0..0 |-> k]
  <2>1. f = [i \in 0..0 |-> IF i = 0 THEN k ELSE f[i - 1] \div ByteValues]
    OBVIOUS
  <2>2. IsLeft(k, 0, f)
    BY <2>1 DEF IsLeft
  <2> QED BY <1>2, <1>3, <2>2
<1>4. CASE m /= 0
  <2>1. m - 1 \in Nat /\ ~(m <= m - 1)
    BY <1>4
  <2>2. PICK f : IsLeft(k, m - 1, f)
    BY <1>2, <2>1
  <2> DEFINE Next_(i, h) == IF i = 0 THEN k ELSE h[i - 1] \div ByteValues
             g == [i \in 0..m |-> IF i = m THEN Next_(m, f) ELSE f[i]]
  <2>3. \A i \in 0..(m - 1) : f[i] = Next_(i, f)
    BY <2>2 DEF IsLeft
  <2>4. \A i \in 0..(m - 1) : g[i] = f[i]
    BY <2>1
  <2>5. \A i \in 0..m : Next_(i, g) = Next_(i, f)
    <3> SUFFICES ASSUME NEW i \in 0..m, i /= 0 PROVE g[i - 1] = f[i - 1]
      OBVIOUS
    <3>1. i - 1 \in 0..(m - 1)
      BY <2>1
    <3> QED BY <2>4, <3>1
  <2>6. g[m] = Next_(m, f)
    BY <1>4
  <2>7. g = [i \in 0..m |-> g[i]]
    OBVIOUS
  <2> HIDE DEF g, Next_
  <2>8. ASSUME NEW i \in 0..m PROVE g[i] = Next_(i, g)
    <3>1. CASE i = m
      BY <2>5, <2>6, <3>1
    <3>2. CASE i \in 0..(m - 1)
      BY <2>3, <2>4, <2>5, <3>2
    <3> QED BY <2>1, <3>1, <3>2
  <2>9. g = [i \in 0..m |-> Next_(i, g)]
    BY <2>7, <2>8
  <2>10. IsLeft(k, m, g)
    BY <2>9 DEF IsLeft, Next_
  <2> QED BY <1>2, <2>10
<1> QED BY <1>2, <1>3, <1>4

\* The equations of Word.
WordValues(data, offset, v) ==
    /\ v[0] = 0
    /\ \A i \in 1..WordBytes : v[i] = ByteValues * v[i - 1] + data[offset + i]
    /\ Word(data, offset) = v[WordBytes]

LEMMA WordIs ==
    ASSUME NEW data, NEW offset
    PROVE  \E v : WordValues(data, offset, v)
<1> DEFINE v == CHOOSE f : IsValue(data, offset, WordBytes, f)
<1>1. IsValue(data, offset, WordBytes, v)
  BY ValueUpTo, PictureAssumption
<1>2. Word(data, offset) = v[WordBytes]
  BY Zenon DEF Word, IsValue
<1> HIDE DEF v
<1>3. v[0] = 0 /\ \A i \in 1..WordBytes : v[i] = ByteValues * v[i - 1] + data[offset + i]
  <2>1. \A i \in 0..WordBytes :
            v[i] = IF i = 0 THEN 0 ELSE ByteValues * v[i - 1] + data[offset + i]
    BY <1>1 DEF IsValue
  <2>2. 0 \in 0..WordBytes /\ \A i \in 1..WordBytes : i \in 0..WordBytes /\ i /= 0
    BY PictureAssumption
  <2> QED BY <2>1, <2>2
<1> QED BY <1>2, <1>3 DEF WordValues

\* The equations of Left.
LEMMA LeftIs ==
    ASSUME NEW n
    PROVE  /\ Left(n)[0] = n
           /\ \A i \in 1..WordBytes : Left(n)[i] = Left(n)[i - 1] \div ByteValues
<1> DEFINE v == CHOOSE f : IsLeft(n, WordBytes, f)
<1>1. IsLeft(n, WordBytes, v)
  BY LeftUpTo, PictureAssumption
<1>2. Left(n) = v
  BY Zenon DEF Left, IsLeft
<1> HIDE DEF v
<1>3. v[0] = n /\ \A i \in 1..WordBytes : v[i] = v[i - 1] \div ByteValues
  <2>1. \A i \in 0..WordBytes : v[i] = IF i = 0 THEN n ELSE v[i - 1] \div ByteValues
    BY <1>1 DEF IsLeft
  <2>2. 0 \in 0..WordBytes /\ \A i \in 1..WordBytes : i \in 0..WordBytes /\ i /= 0
    BY PictureAssumption
  <2> QED BY <2>1, <2>2
<1> QED BY <1>2, <1>3

LEMMA Division ==
    ASSUME NEW a \in Nat
    PROVE  /\ a \div ByteValues \in Nat
           /\ a % ByteValues \in PictureByte
           /\ a = ByteValues * (a \div ByteValues) + (a % ByteValues)
<1>1. ByteValues \in Nat \ {0}
  BY PictureAssumption
<1> QED BY <1>1 DEF PictureByte

\* A number is known from its last digit and the others.
LEMMA LastDigit ==
    ASSUME NEW x \in Nat, NEW digit \in PictureByte
    PROVE  /\ ByteValues * x + digit \in Nat
           /\ (ByteValues * x + digit) \div ByteValues = x
           /\ (ByteValues * x + digit) % ByteValues = digit
<1>1. ByteValues \in Nat \ {0} /\ digit \in Nat /\ digit < ByteValues
  BY PictureAssumption DEF PictureByte
<1> DEFINE a == ByteValues * x + digit
           q == a \div ByteValues
           m == a % ByteValues
<1>2. a \in Nat
  BY <1>1
<1>3. /\ q \in Nat /\ m \in Nat /\ m < ByteValues
      /\ a = ByteValues * q + m
  <2> HIDE DEF a
  <2> QED BY <1>1, <1>2, Division DEF PictureByte
<1> HIDE DEF q, m
<1>4. ByteValues * x + digit = ByteValues * q + m
  BY <1>3
<1>5. ~(q < x)
  <2> SUFFICES ASSUME q + 1 <= x PROVE FALSE
    BY <1>3
  <2>1. ByteValues * (q + 1) <= ByteValues * x
    BY <1>1, <1>3
  <2>2. ByteValues * (q + 1) = ByteValues * q + ByteValues
    BY <1>1, <1>3
  <2>3. ByteValues * q \in Nat /\ ByteValues * x \in Nat
    BY <1>1, <1>3
  <2> QED BY <1>1, <1>3, <1>4, <2>1, <2>2, <2>3
<1>6. ~(x < q)
  <2> SUFFICES ASSUME x + 1 <= q PROVE FALSE
    BY <1>3
  <2>1. ByteValues * (x + 1) <= ByteValues * q
    BY <1>1, <1>3
  <2>2. ByteValues * (x + 1) = ByteValues * x + ByteValues
    BY <1>1, <1>3
  <2>3. ByteValues * q \in Nat /\ ByteValues * x \in Nat
    BY <1>1, <1>3
  <2> QED BY <1>1, <1>3, <1>4, <2>1, <2>2, <2>3
<1>7. q = x
  BY <1>3, <1>5, <1>6
<1>8. ByteValues * x \in Nat
  BY <1>1
<1>9. m = digit
  BY <1>1, <1>3, <1>4, <1>7, <1>8
<1> QED BY <1>2, <1>7, <1>9 DEF q, m

LEMMA LeftType ==
    ASSUME NEW n \in Nat
    PROVE  \A i \in 0..WordBytes : Left(n)[i] \in Nat
<1> DEFINE bad == {i \in 0..WordBytes : Left(n)[i] \notin Nat}
<1>1. SUFFICES ASSUME bad /= {} PROVE FALSE
  OBVIOUS
<1>2. PICK i \in bad : \A j \in bad : i <= j
  <2>1. bad \in SUBSET Nat
    BY PictureAssumption
  <2> HIDE DEF bad
  <2> QED BY <1>1, <2>1, LeastIs
<1>3. i /= 0
  BY <1>2, LeftIs
<1>4. i \in 1..WordBytes /\ i - 1 \in 0..WordBytes /\ ~(i <= i - 1)
  BY <1>2, <1>3, PictureAssumption
<1>5. Left(n)[i - 1] \in Nat
  BY <1>2, <1>4
<1>6. Left(n)[i] \in Nat
  BY <1>4, <1>5, LeftIs, Division
<1> QED BY <1>2, <1>6

LEMMA WordOfType ==
    ASSUME NEW n \in Nat
    PROVE  WordOf(n) \in Seq(PictureByte) /\ Len(WordOf(n)) = WordBytes
<1>1. \A i \in 1..WordBytes : Left(n)[WordBytes - i] % ByteValues \in PictureByte
  <2> SUFFICES ASSUME NEW i \in 1..WordBytes
               PROVE  Left(n)[WordBytes - i] % ByteValues \in PictureByte
    OBVIOUS
  <2>1. WordBytes - i \in 0..WordBytes
    BY PictureAssumption
  <2> QED BY <2>1, LeftType, Division
<1> QED BY <1>1, PictureAssumption DEF WordOf

\* What consume_decode_uint32 reads is what is written there.
LEMMA WordReads ==
    ASSUME NEW data \in Seq(PictureByte), NEW offset \in Nat, HasWord(data, offset),
           NEW n \in Nat
    PROVE  /\ Word(data, offset) \in Nat
           /\ Word(data, offset) = n
              <=> FitsWord(n) /\ \A i \in 1..WordBytes : data[offset + i] = WordOf(n)[i]
<1>1. WordBytes \in Nat \ {0}
  BY PictureAssumption
<1>2. PICK v : WordValues(data, offset, v)
  BY WordIs
<1>3. /\ v[0] = 0
      /\ \A i \in 1..WordBytes : v[i] = ByteValues * v[i - 1] + data[offset + i]
      /\ Word(data, offset) = v[WordBytes]
  BY <1>2 DEF WordValues
<1> DEFINE l == Left(n)
<1>4. /\ l[0] = n
      /\ \A i \in 1..WordBytes : l[i] = l[i - 1] \div ByteValues
  BY LeftIs
<1>5. \A i \in 1..WordBytes : data[offset + i] \in PictureByte
  BY <1>1 DEF HasWord
<1>6. \A i \in 0..WordBytes : l[i] \in Nat
  BY LeftType
<1>7. \A i \in 1..WordBytes : WordOf(n)[i] = l[WordBytes - i] % ByteValues
  BY DEF WordOf
<1>8. FitsWord(n) <=> l[WordBytes] = 0
  BY DEF FitsWord
<1> HIDE DEF l
<1>9. \A i \in 0..WordBytes : v[i] \in Nat
  <2> DEFINE bad == {i \in 0..WordBytes : v[i] \notin Nat}
  <2>1. SUFFICES ASSUME bad /= {} PROVE FALSE
    OBVIOUS
  <2>2. PICK i \in bad : \A j \in bad : i <= j
    <3>1. bad \in SUBSET Nat
      BY <1>1
    <3> HIDE DEF bad
    <3> QED BY <2>1, <3>1, LeastIs
  <2>3. i \in 1..WordBytes /\ i - 1 \in 0..WordBytes /\ ~(i <= i - 1)
    BY <1>1, <1>3, <2>2
  <2>4. v[i - 1] \in Nat
    BY <2>2, <2>3
  <2>5. v[i] \in Nat
    BY <1>3, <1>5, <2>3, <2>4, LastDigit
  <2> QED BY <2>2, <2>5
<1>10. ASSUME l[WordBytes] = 0,
             \A i \in 1..WordBytes : data[offset + i] = l[WordBytes - i] % ByteValues
      PROVE  v[WordBytes] = n
  <2> DEFINE bad == {i \in 0..WordBytes : v[i] /= l[WordBytes - i]}
  <2>1. bad = {}
    <3>1. SUFFICES ASSUME bad /= {} PROVE FALSE
      OBVIOUS
    <3>2. PICK i \in bad : \A j \in bad : i <= j
      <4>1. bad \in SUBSET Nat
        BY <1>1
      <4> HIDE DEF bad
      <4> QED BY <3>1, <4>1, LeastIs
    <3>3. i \in 1..WordBytes
      <4>1. WordBytes - 0 = WordBytes /\ v[0] = l[WordBytes - 0]
        BY <1>1, <1>3, <1>10
      <4> QED BY <1>1, <3>2, <4>1
    <3>4. i - 1 \in 0..WordBytes /\ ~(i <= i - 1)
      BY <1>1, <3>3
    <3>5. v[i - 1] = l[WordBytes - (i - 1)]
      BY <3>2, <3>4
    <3> DEFINE k == WordBytes - i
    <3>6. WordBytes - (i - 1) = k + 1 /\ k + 1 \in 1..WordBytes /\ k \in 0..WordBytes
          /\ k + 1 - 1 = k
      BY <1>1, <3>3
    <3>7. l[k + 1] = l[k] \div ByteValues /\ l[k] \in Nat
      BY <1>4, <1>6, <3>6
    <3>8. v[i] = ByteValues * (l[k] \div ByteValues) + (l[k] % ByteValues)
      BY <1>3, <1>10, <3>3, <3>5, <3>6, <3>7
    <3>9. v[i] = l[k]
      BY <3>7, <3>8, Division
    <3> QED BY <3>2, <3>9
  <2>2. WordBytes \in 0..WordBytes /\ WordBytes - WordBytes = 0
    BY <1>1
  <2> QED BY <1>4, <2>1, <2>2
<1>11. ASSUME v[WordBytes] = n
       PROVE  /\ l[WordBytes] = 0
              /\ \A i \in 1..WordBytes : data[offset + i] = l[WordBytes - i] % ByteValues
  <2> DEFINE bad == {i \in 0..WordBytes : l[i] /= v[WordBytes - i]}
  <2>1. bad = {}
    <3>1. SUFFICES ASSUME bad /= {} PROVE FALSE
      OBVIOUS
    <3>2. PICK i \in bad : \A j \in bad : i <= j
      <4>1. bad \in SUBSET Nat
        BY <1>1
      <4> HIDE DEF bad
      <4> QED BY <3>1, <4>1, LeastIs
    <3>3. i \in 1..WordBytes
      <4>1. WordBytes - 0 = WordBytes /\ l[0] = v[WordBytes - 0]
        BY <1>1, <1>4, <1>11
      <4> QED BY <1>1, <3>2, <4>1
    <3>4. i - 1 \in 0..WordBytes /\ ~(i <= i - 1)
      BY <1>1, <3>3
    <3>5. l[i - 1] = v[WordBytes - (i - 1)]
      BY <3>2, <3>4
    <3> DEFINE k == WordBytes - i
    <3>6. WordBytes - (i - 1) = k + 1 /\ k + 1 \in 1..WordBytes /\ k \in 0..WordBytes
          /\ k + 1 - 1 = k
      BY <1>1, <3>3
    <3>7. /\ v[k + 1] = ByteValues * v[k] + data[offset + (k + 1)]
          /\ v[k] \in Nat /\ data[offset + (k + 1)] \in PictureByte
      <4> HIDE DEF k
      <4>1. v[k + 1] = ByteValues * v[k + 1 - 1] + data[offset + (k + 1)]
        BY <1>3, <3>6
      <4> QED BY <1>5, <1>9, <3>6, <4>1
    <3>8. v[k + 1] \div ByteValues = v[k]
      BY <3>7, LastDigit
    <3>9. l[i] = v[k]
      BY <1>4, <3>3, <3>5, <3>6, <3>8
    <3> QED BY <3>2, <3>9
  <2>2. l[WordBytes] = 0
    <3>1. WordBytes \in 0..WordBytes /\ WordBytes - WordBytes = 0
      BY <1>1
    <3> QED BY <1>3, <2>1, <3>1
  <2>3. ASSUME NEW i \in 1..WordBytes
        PROVE  data[offset + i] = l[WordBytes - i] % ByteValues
    <3>1. WordBytes - i \in 0..WordBytes /\ WordBytes - (WordBytes - i) = i
          /\ i - 1 \in 0..WordBytes
      BY <1>1
    <3>2. l[WordBytes - i] = v[i]
      BY <2>1, <3>1
    <3> DEFINE x == v[i - 1]
               digit == data[offset + i]
    <3>3. v[i] = ByteValues * x + digit
      BY <1>3
    <3>4. x \in Nat /\ digit \in PictureByte
      BY <1>5, <1>9, <3>1
    <3> HIDE DEF x
    <3>5. (ByteValues * x + digit) % ByteValues = digit
      <4> HIDE DEF digit
      <4> QED BY <3>4, LastDigit
    <3> QED BY <3>2, <3>3, <3>5
  <2> QED BY <2>2, <2>3
<1>12. v[WordBytes] \in Nat
  BY <1>1, <1>9
<1> QED BY <1>3, <1>7, <1>8, <1>10, <1>11, <1>12

----
(* Pictures *)

\* The bytes are in the data after the first offset ones.
At(data, offset, bytes) ==
    /\ offset + Len(bytes) <= Len(data)
    /\ \A i \in 1..Len(bytes) : data[offset + i] = bytes[i]

LEMMA AtConcat ==
    ASSUME NEW data \in Seq(PictureByte), NEW offset \in Nat,
           NEW s \in Seq(PictureByte), NEW t \in Seq(PictureByte)
    PROVE  /\ s \o t \in Seq(PictureByte) /\ Len(s \o t) = Len(s) + Len(t)
           /\ At(data, offset, s \o t)
              <=> At(data, offset, s) /\ At(data, offset + Len(s), t)
<1>1. /\ s \o t \in Seq(PictureByte) /\ Len(s \o t) = Len(s) + Len(t)
      /\ Len(s) \in Nat /\ Len(t) \in Nat /\ Len(data) \in Nat
      /\ \A i \in 1..Len(s) : (s \o t)[i] = s[i]
      /\ \A i \in 1..Len(t) : (s \o t)[Len(s) + i] = t[i]
  BY ConcatProperties
<1> DEFINE m == Len(s)
           n == Len(t)
           u == s \o t
<1> HIDE DEF m, n, u
<1>2. /\ Len(u) = m + n /\ m \in Nat /\ n \in Nat
      /\ \A i \in 1..m : u[i] = s[i]
      /\ \A i \in 1..n : u[m + i] = t[i]
  BY <1>1 DEF m, n, u
<1>3. ASSUME At(data, offset, u)
      PROVE  At(data, offset, s) /\ At(data, offset + m, t)
  <2>1. offset + (m + n) <= Len(data) /\ \A i \in 1..(m + n) : data[offset + i] = u[i]
    BY <1>2, <1>3 DEF At
  <2>2. \A i \in 1..m : data[offset + i] = s[i]
    BY <1>2, <2>1
  <2>3. ASSUME NEW i \in 1..n PROVE data[offset + m + i] = t[i]
    <3>1. m + i \in 1..(m + n) /\ offset + (m + i) = offset + m + i
      BY <1>2
    <3> QED BY <1>2, <2>1, <3>1
  <2>4. offset + m <= Len(data) /\ offset + m + n <= Len(data)
    BY <1>1, <1>2, <2>1
  <2> QED BY <2>2, <2>3, <2>4 DEF At, m, n
<1>4. ASSUME At(data, offset, s), At(data, offset + m, t)
      PROVE  At(data, offset, u)
  <2>1. \A i \in 1..m : data[offset + i] = s[i]
    BY <1>4 DEF At, m
  <2>2. offset + m + n <= Len(data) /\ \A i \in 1..n : data[offset + m + i] = t[i]
    BY <1>4 DEF At, n
  <2>3. ASSUME NEW i \in 1..(m + n) PROVE data[offset + i] = u[i]
    <3>1. CASE i \in 1..m
      BY <1>2, <2>1, <3>1
    <3>2. CASE ~(i \in 1..m)
      <4>1. i - m \in 1..n /\ m + (i - m) = i /\ offset + m + (i - m) = offset + i
        BY <1>2, <3>2
      <4> QED BY <1>2, <2>2, <4>1
    <3> QED BY <3>1, <3>2
  <2>4. offset + (m + n) <= Len(data)
    BY <1>1, <1>2, <2>2
  <2> QED BY <1>2, <2>3, <2>4 DEF At
<1> QED BY <1>1, <1>3, <1>4 DEF u, m

LEMMA PrefixIsAt ==
    ASSUME NEW data \in Seq(PictureByte), NEW s \in Seq(PictureByte)
    PROVE  IsPrefix(s, data) <=> At(data, 0, s)
<1>1. Len(s) \in Nat /\ Len(data) \in Nat
  OBVIOUS
<1>2. \A i \in 1..Len(s) : 0 + i = i
  OBVIOUS
<1>3. CASE ~(Len(s) <= Len(data))
  BY <1>1, <1>3 DEF IsPrefix, At
<1>4. CASE Len(s) <= Len(data)
  <2> DEFINE a == SubSeq(s, 1, Len(s))
             b == SubSeq(data, 1, Len(s))
  <2>1. /\ a \in Seq(PictureByte) /\ Len(a) = Len(s)
        /\ \A i \in 1..Len(s) : a[i] = s[i]
    BY <1>1
  <2>2. /\ b \in Seq(PictureByte) /\ Len(b) = Len(s)
        /\ \A i \in 1..Len(s) : b[i] = data[i]
    BY <1>1, <1>4
  <2>3. IsPrefix(s, data) <=> a = b
    BY <1>4 DEF IsPrefix
  <2> HIDE DEF a, b
  <2>4. a = b <=> \A i \in 1..Len(s) : a[i] = b[i]
    BY <2>1, <2>2, SeqEqual
  <2>5. At(data, 0, s) <=> \A i \in 1..Len(s) : data[i] = s[i]
    BY <1>1, <1>2, <1>4 DEF At
  <2> QED BY <2>1, <2>2, <2>3, <2>4, <2>5
<1> QED BY <1>3, <1>4

LEMMA WordAt ==
    ASSUME NEW data \in Seq(PictureByte), NEW offset \in Nat, NEW n \in Nat
    PROVE  FitsWord(n) /\ At(data, offset, WordOf(n))
           <=> HasWord(data, offset) /\ Word(data, offset) = n
<1>1. Len(WordOf(n)) = WordBytes
  BY WordOfType
<1>2. At(data, offset, WordOf(n))
      <=> /\ HasWord(data, offset)
          /\ \A i \in 1..WordBytes : data[offset + i] = WordOf(n)[i]
  BY <1>1 DEF At, HasWord
<1> QED BY <1>2, WordReads

LEMMA StringFields ==
    ASSUME NEW data \in Seq(PictureByte), NEW offset \in Nat, HasString(data, offset)
    PROVE  /\ StringAt(data, offset) \in Seq(PictureByte)
           /\ Len(StringAt(data, offset)) = Word(data, offset)
           /\ Word(data, offset) \in Nat
           /\ StringEnd(data, offset) \in Nat
           /\ \A i \in 1..Word(data, offset) :
                StringAt(data, offset)[i] = data[offset + WordBytes + i]
<1> DEFINE n == Word(data, offset)
           start == offset + WordBytes
<1>1. n \in Nat
  <2>1. HasWord(data, offset) /\ 0 \in Nat
    BY DEF HasString
  <2> QED BY <2>1, WordReads
<1>2. start \in Nat
  BY PictureAssumption
<1>3. StringEnd(data, offset) = start + n /\ start + n <= Len(data)
  BY DEF HasString, StringEnd
<1>4. StringAt(data, offset) = SubSeq(data, start + 1, start + n)
  BY <1>3 DEF StringAt
<1> HIDE DEF n, start
<1>5. start + 1 \in 1..Len(data) + 1 /\ start + n \in start..Len(data)
  BY <1>1, <1>2, <1>3
<1>6. /\ SubSeq(data, start + 1, start + n) \in Seq(PictureByte)
      /\ Len(SubSeq(data, start + 1, start + n)) = n
      /\ \A i \in 1..n : SubSeq(data, start + 1, start + n)[i] = data[start + i]
  BY <1>1, <1>2, <1>3, <1>5
<1>7. /\ StringAt(data, offset) \in Seq(PictureByte)
      /\ Len(StringAt(data, offset)) = n
      /\ StringEnd(data, offset) \in Nat
      /\ \A i \in 1..n : StringAt(data, offset)[i] = data[start + i]
  <2>1. StringEnd(data, offset) \in Nat
    BY <1>1, <1>2, <1>3
  <2> QED BY <1>4, <1>6, <2>1, Zenon
<1> QED BY <1>1, <1>7 DEF n, start

LEMMA PrefixedAt ==
    ASSUME NEW data \in Seq(PictureByte), NEW offset \in Nat,
           NEW string \in Seq(PictureByte)
    PROVE  /\ Prefixed(string) \in Seq(PictureByte)
           /\ Len(Prefixed(string)) = WordBytes + Len(string)
           /\ FitsWord(Len(string)) /\ At(data, offset, Prefixed(string))
              <=> HasString(data, offset) /\ StringAt(data, offset) = string
           /\ HasString(data, offset) /\ StringAt(data, offset) = string
              => StringEnd(data, offset) = offset + Len(Prefixed(string))
<1> DEFINE n == Len(string)
           start == offset + WordBytes
<1>1. n \in Nat /\ start \in Nat /\ Len(data) \in Nat
  BY PictureAssumption
<1>2. WordOf(n) \in Seq(PictureByte) /\ Len(WordOf(n)) = WordBytes
  BY <1>1, WordOfType
<1>3. /\ Prefixed(string) \in Seq(PictureByte)
      /\ Len(Prefixed(string)) = WordBytes + n
      /\ At(data, offset, Prefixed(string))
         <=> At(data, offset, WordOf(n)) /\ At(data, start, string)
  BY <1>2, AtConcat DEF Prefixed
<1>4. FitsWord(n) /\ At(data, offset, WordOf(n))
      <=> HasWord(data, offset) /\ Word(data, offset) = n
  BY <1>1, WordAt
<1>5. ASSUME HasWord(data, offset), Word(data, offset) = n, At(data, start, string)
      PROVE  HasString(data, offset) /\ StringAt(data, offset) = string
  <2>1. StringEnd(data, offset) = start + n
    BY <1>5 DEF StringEnd
  <2>2. start + n <= Len(data) /\ \A i \in 1..n : data[start + i] = string[i]
    BY <1>5 DEF At
  <2>3. HasString(data, offset)
    BY <1>5, <2>1, <2>2 DEF HasString
  <2>4. /\ StringAt(data, offset) \in Seq(PictureByte)
        /\ Len(StringAt(data, offset)) = n
        /\ \A i \in 1..n : StringAt(data, offset)[i] = data[start + i]
    BY <1>5, <2>3, StringFields
  <2>5. \A i \in 1..Len(string) : StringAt(data, offset)[i] = string[i]
    BY <2>2, <2>4
  <2> QED BY <2>3, <2>4, <2>5, SeqEqual
<1>6. ASSUME HasString(data, offset), StringAt(data, offset) = string
      PROVE  /\ HasWord(data, offset) /\ Word(data, offset) = n
             /\ At(data, start, string)
             /\ StringEnd(data, offset) = offset + (WordBytes + n)
  <2>1. /\ Word(data, offset) = n
        /\ \A i \in 1..n : string[i] = data[start + i]
    BY <1>6, StringFields
  <2>2. HasWord(data, offset) /\ StringEnd(data, offset) <= Len(data)
    BY <1>6 DEF HasString
  <2>3. StringEnd(data, offset) = start + n
    BY <2>1 DEF StringEnd
  <2>4. At(data, start, string)
    BY <2>1, <2>2, <2>3 DEF At
  <2>5. start + n = offset + (WordBytes + n)
    BY <1>1, PictureAssumption
  <2> QED BY <2>1, <2>2, <2>3, <2>4, <2>5
<1> QED BY <1>3, <1>4, <1>5, <1>6

\* Where the parts of a picture are in its encoding.
LEMMA EncodedAt ==
    ASSUME NEW data \in Seq(PictureByte), NEW p \in PictureType,
           NEW unused \in [1..UnusedBytes -> PictureByte]
    PROVE  LET mimeAt == WordBytes
               descriptionAt == mimeAt + Len(Prefixed(p.mime))
               unusedAt == descriptionAt + Len(Prefixed(p.description))
           IN  /\ descriptionAt \in Nat /\ unusedAt \in Nat
               /\ IsPrefix(Encoded(p, unused), data)
                  <=> /\ At(data, 0, WordOf(p.type))
                      /\ At(data, mimeAt, Prefixed(p.mime))
                      /\ At(data, descriptionAt, Prefixed(p.description))
                      /\ At(data, unusedAt, unused)
                      /\ At(data, unusedAt + UnusedBytes, Prefixed(p.data))
<1>1. /\ p.type \in Nat /\ p.mime \in Seq(PictureByte)
      /\ p.description \in Seq(PictureByte) /\ p.data \in Seq(PictureByte)
  BY DEF PictureType
<1>2. unused \in Seq(PictureByte) /\ Len(unused) = UnusedBytes
  BY PictureAssumption
<1> DEFINE a == WordOf(p.type)
           b == Prefixed(p.mime)
           c == Prefixed(p.description)
           d == Prefixed(p.data)
<1>3. /\ a \in Seq(PictureByte) /\ Len(a) = WordBytes
      /\ b \in Seq(PictureByte) /\ c \in Seq(PictureByte) /\ d \in Seq(PictureByte)
  BY <1>1, WordOfType, PrefixedAt
<1>4. Encoded(p, unused) = (((a \o b) \o c) \o unused) \o d
  BY DEF Encoded
<1> HIDE DEF a, b, c, d
<1> DEFINE m == WordBytes + Len(b)
           n == m + Len(c)
<1>5. /\ WordBytes \in Nat /\ Len(b) \in Nat /\ Len(c) \in Nat
      /\ m \in Nat /\ n \in Nat /\ UnusedBytes \in Nat
  BY <1>3, PictureAssumption
<1>6. /\ a \o b \in Seq(PictureByte) /\ Len(a \o b) = m
      /\ At(data, 0, a \o b) <=> At(data, 0, a) /\ At(data, WordBytes, b)
  <2>1. 0 + WordBytes = WordBytes /\ 0 \in Nat
    BY <1>5
  <2>2. /\ a \o b \in Seq(PictureByte) /\ Len(a \o b) = Len(a) + Len(b)
        /\ At(data, 0, a \o b) <=> At(data, 0, a) /\ At(data, 0 + Len(a), b)
    BY <1>3, <2>1, AtConcat
  <2> QED BY <1>3, <2>1, <2>2
<1> DEFINE ab == a \o b
           abc == ab \o c
           abcu == abc \o unused
<1> HIDE DEF ab, abc, abcu, m, n
<1>7. /\ abc \in Seq(PictureByte) /\ Len(abc) = n
      /\ At(data, 0, abc) <=> At(data, 0, ab) /\ At(data, m, c)
  <2>1. 0 + m = m
    BY <1>5
  <2>2. ab \in Seq(PictureByte) /\ Len(ab) = m
    BY <1>6 DEF ab
  <2>3. /\ abc \in Seq(PictureByte) /\ Len(abc) = m + Len(c)
        /\ At(data, 0, abc) <=> At(data, 0, ab) /\ At(data, 0 + m, c)
    BY <1>3, <2>2, AtConcat DEF abc
  <2> QED BY <2>1, <2>3 DEF n
<1>8. /\ abcu \in Seq(PictureByte) /\ Len(abcu) = n + UnusedBytes
      /\ At(data, 0, abcu) <=> At(data, 0, abc) /\ At(data, n, unused)
  <2>1. 0 + n = n
    BY <1>5
  <2>2. /\ abcu \in Seq(PictureByte) /\ Len(abcu) = n + Len(unused)
        /\ At(data, 0, abcu) <=> At(data, 0, abc) /\ At(data, 0 + n, unused)
    BY <1>2, <1>7, AtConcat DEF abcu
  <2> QED BY <1>2, <2>1, <2>2
<1>9. /\ abcu \o d \in Seq(PictureByte)
      /\ At(data, 0, abcu \o d)
         <=> At(data, 0, abcu) /\ At(data, n + UnusedBytes, d)
  <2>1. 0 + (n + UnusedBytes) = n + UnusedBytes
    BY <1>5
  <2>2. /\ abcu \o d \in Seq(PictureByte)
        /\ At(data, 0, abcu \o d)
           <=> At(data, 0, abcu) /\ At(data, 0 + (n + UnusedBytes), d)
    BY <1>3, <1>8, AtConcat
  <2> QED BY <2>1, <2>2
<1>10. IsPrefix(Encoded(p, unused), data) <=> At(data, 0, abcu \o d)
  <2>1. Encoded(p, unused) = abcu \o d
    BY <1>4 DEF abcu, abc, ab
  <2> QED BY <1>9, <2>1, PrefixIsAt
<1>11. IsPrefix(Encoded(p, unused), data)
       <=> /\ At(data, 0, a) /\ At(data, WordBytes, b) /\ At(data, m, c)
           /\ At(data, n, unused) /\ At(data, n + UnusedBytes, d)
  BY <1>6, <1>7, <1>8, <1>9, <1>10 DEF ab
<1> QED BY <1>5, <1>11 DEF a, b, c, d, m, n

\* A picture is decoded from the data if and only if it is whole there.
THEOREM DecodeIsWhole ==
    ASSUME NEW data \in Seq(PictureByte)
    PROVE  decode(data) = {p \in PictureType : Fits(p) /\ IsWhole(p, data)}
<1> DEFINE mimeAt == WordBytes
           descriptionAt == StringEnd(data, mimeAt)
           unusedAt == StringEnd(data, descriptionAt)
           dataAt == unusedAt + UnusedBytes
           found == [type |-> Word(data, 0), mime |-> StringAt(data, mimeAt),
                     description |-> StringAt(data, descriptionAt),
                     data |-> StringAt(data, dataAt)]
           has == /\ HasWord(data, 0) /\ HasString(data, mimeAt)
                  /\ HasString(data, descriptionAt) /\ HasString(data, dataAt)
<1>1. decode(data) = IF has THEN {found} ELSE {}
  BY DEF decode
<1>2. WordBytes \in Nat /\ UnusedBytes \in Nat /\ 0 \in Nat /\ Len(data) \in Nat
  BY PictureAssumption
<1>3. ASSUME has PROVE found \in PictureType /\ Fits(found) /\ IsWhole(found, data)
  <2>1. descriptionAt \in Nat /\ found.mime \in Seq(PictureByte)
    BY <1>2, <1>3, StringFields
  <2>2. unusedAt \in Nat /\ found.description \in Seq(PictureByte)
    BY <1>3, <2>1, StringFields
  <2>3. dataAt \in Nat
    BY <1>2, <2>2
  <2>4. found.data \in Seq(PictureByte)
    BY <1>3, <2>3, StringFields
  <2>5. found.type \in Nat
    BY <1>2, <1>3, WordReads
  <2>6. found \in PictureType
    BY <2>1, <2>2, <2>4, <2>5 DEF PictureType
  <2>7. FitsWord(found.type) /\ At(data, 0, WordOf(found.type))
    BY <1>2, <1>3, <2>5, WordAt
  <2>8. /\ FitsWord(Len(found.mime)) /\ At(data, mimeAt, Prefixed(found.mime))
        /\ descriptionAt = mimeAt + Len(Prefixed(found.mime))
    BY <1>2, <1>3, <2>1, PrefixedAt
  <2>9. /\ FitsWord(Len(found.description))
        /\ At(data, descriptionAt, Prefixed(found.description))
        /\ unusedAt = descriptionAt + Len(Prefixed(found.description))
    BY <1>3, <2>1, <2>2, PrefixedAt
  <2>10. FitsWord(Len(found.data)) /\ At(data, dataAt, Prefixed(found.data))
    BY <1>3, <2>3, <2>4, PrefixedAt
  <2>11. Fits(found)
    <3> HIDE DEF found
    <3> QED BY <2>7, <2>8, <2>9, <2>10 DEF Fits
  <2> DEFINE unused == [i \in 1..UnusedBytes |-> data[unusedAt + i]]
  <2>12. At(data, unusedAt, unused) /\ unused \in [1..UnusedBytes -> PictureByte]
    <3>1. dataAt <= Len(data)
      <4>1. dataAt + Len(Prefixed(found.data)) <= Len(data)
        BY <2>10 DEF At
      <4>2. Len(Prefixed(found.data)) \in Nat
        BY <2>3, <2>4, PrefixedAt
      <4> HIDE DEF found, dataAt
      <4> QED BY <1>2, <2>3, <4>1, <4>2
    <3>2. \A i \in 1..UnusedBytes : data[unusedAt + i] \in PictureByte
      <4> HIDE DEF unusedAt
      <4> QED BY <1>2, <2>2, <3>1
    <3> HIDE DEF unusedAt
    <3>3. Len(unused) = UnusedBytes
      BY <1>2
    <3>4. unused \in [1..UnusedBytes -> PictureByte]
      BY <3>2
    <3> QED BY <3>1, <3>3, <3>4 DEF At
  <2> HIDE DEF found, unusedAt, descriptionAt, unused
  <2>13. IsPrefix(Encoded(found, unused), data)
    <3>1. /\ At(data, 0, WordOf(found.type))
          /\ At(data, WordBytes, Prefixed(found.mime))
          /\ At(data, WordBytes + Len(Prefixed(found.mime)), Prefixed(found.description))
      BY <2>7, <2>8, <2>9
    <3>2. unusedAt = WordBytes + Len(Prefixed(found.mime))
                        + Len(Prefixed(found.description))
      BY <2>8, <2>9
    <3> QED BY <2>6, <2>10, <2>12, <3>1, <3>2, EncodedAt
  <2> QED BY <2>6, <2>11, <2>12, <2>13 DEF IsWhole
<1>4. ASSUME NEW p \in PictureType, Fits(p), IsWhole(p, data) PROVE has /\ p = found
  <2>1. /\ p.type \in Nat /\ p.mime \in Seq(PictureByte)
        /\ p.description \in Seq(PictureByte) /\ p.data \in Seq(PictureByte)
        /\ p = [type |-> p.type, mime |-> p.mime, description |-> p.description,
                data |-> p.data]
    BY DEF PictureType
  <2>2. /\ FitsWord(p.type) /\ FitsWord(Len(p.mime))
        /\ FitsWord(Len(p.description)) /\ FitsWord(Len(p.data))
    BY <1>4 DEF Fits
  <2>3. PICK unused \in [1..UnusedBytes -> PictureByte] :
            IsPrefix(Encoded(p, unused), data)
    BY <1>4 DEF IsWhole
  <2> DEFINE m == WordBytes + Len(Prefixed(p.mime))
             n == m + Len(Prefixed(p.description))
  <2>4. /\ m \in Nat /\ n \in Nat
        /\ At(data, 0, WordOf(p.type))
        /\ At(data, WordBytes, Prefixed(p.mime))
        /\ At(data, m, Prefixed(p.description))
        /\ At(data, n + UnusedBytes, Prefixed(p.data))
    BY <2>3, EncodedAt
  <2> HIDE DEF m, n
  <2>5. HasWord(data, 0) /\ Word(data, 0) = p.type
    BY <1>2, <2>1, <2>2, <2>4, WordAt
  <2>6. /\ HasString(data, WordBytes) /\ StringAt(data, WordBytes) = p.mime
        /\ StringEnd(data, WordBytes) = m
    BY <1>2, <2>1, <2>2, <2>4, PrefixedAt DEF m
  <2>7. /\ HasString(data, m) /\ StringAt(data, m) = p.description
        /\ StringEnd(data, m) = n
    BY <2>1, <2>2, <2>4, PrefixedAt DEF n
  <2>8. HasString(data, n + UnusedBytes) /\ StringAt(data, n + UnusedBytes) = p.data
    <3>1. n + UnusedBytes \in Nat
      BY <1>2, <2>4
    <3> QED BY <2>1, <2>2, <2>4, <3>1, PrefixedAt
  <2> QED BY <2>1, <2>5, <2>6, <2>7, <2>8
<1> HIDE DEF has, found
<1> QED BY <1>1, <1>3, <1>4

----
(* Places in order *)

LEMMA SoleIs == \A x : Sole({x}) = x
BY DEF Sole

\* A place after all the others comes last.
LEMMA InOrderMore ==
    ASSUME NEW places \in SUBSET (Nat \X Nat), IsFiniteSet(places),
           NEW p \in Nat \X Nat, \A q \in places : Before(q, p)
    PROVE  /\ IsFiniteSet(places \cup {p})
           /\ InOrder(places \cup {p}) = Append(InOrder(places), p)
<1> DEFINE more == places \cup {p}
           size == Cardinality(places)
           Rank_(q, set) == Cardinality({r \in set : Before(r, q)})
           At_(n, set) == {q \in set : Rank_(q, set) = n - 1}
<1>1. ~Before(p, p) /\ p \notin places
  BY DEF Before
<1>2. /\ IsFiniteSet(more) /\ Cardinality(more) = size + 1 /\ size \in Nat
  BY <1>1, FS_AddElement, FS_CardinalityType
<1>3. ASSUME NEW q \in places PROVE ~Before(p, q)
  <2>1. Before(q, p) /\ q \in Nat \X Nat
    OBVIOUS
  <2> QED BY <2>1 DEF Before
<1>4. Rank_(p, more) = size
  <2>1. {r \in more : Before(r, p)} = places
    BY <1>1
  <2> QED BY <2>1
<1>5. ASSUME NEW q \in places
      PROVE  /\ Rank_(q, more) = Rank_(q, places)
             /\ Rank_(q, places) \in Nat /\ Rank_(q, places) < size
  <2> DEFINE before == {r \in places : Before(r, q)}
  <2>1. {r \in more : Before(r, q)} = before
    BY <1>3
  <2>2. ~Before(q, q)
    <3>1. q \in Nat \X Nat
      OBVIOUS
    <3> QED BY <3>1 DEF Before
  <2>3. before \in SUBSET places /\ before /= places
    BY <2>2
  <2> HIDE DEF before
  <2>4. /\ IsFiniteSet(before) /\ Cardinality(before) <= size
        /\ Cardinality(before) /= size
    BY <2>3, FS_Subset
  <2>5. Cardinality(before) \in Nat
    BY <2>4, FS_CardinalityType
  <2>6. Cardinality(before) < size
    BY <1>2, <2>4, <2>5
  <2>7. Rank_(q, more) = Cardinality(before) /\ Rank_(q, places) = Cardinality(before)
    BY <2>1 DEF before
  <2> QED BY <2>5, <2>6, <2>7
<1>6. InOrder(places) = [n \in 1..size |-> Sole(At_(n, places))]
  BY DEF InOrder
<1>7. InOrder(more) = [n \in 1..Cardinality(more) |-> Sole(At_(n, more))]
  BY DEF InOrder
<1> HIDE DEF Rank_
<1>8. ASSUME NEW n \in 1..size PROVE At_(n, more) = At_(n, places)
  <2>1. n - 1 /= size
    BY <1>2
  <2> QED BY <1>4, <1>5, <2>1
<1>9. At_(size + 1, more) = {p}
  <2> DEFINE next == size + 1
  <2>1. next - 1 = size
    BY <1>2
  <2>2. \A q \in places : Rank_(q, more) /= size
    BY <1>2, <1>5
  <2>3. \A q \in more : Rank_(q, more) = size <=> q = p
    BY <1>4, <2>2
  <2> HIDE DEF next
  <2>4. At_(next, more) = {q \in more : Rank_(q, more) = size}
    BY <2>1, Zenon
  <2>5. {q \in more : Rank_(q, more) = size} = {p}
    <3>1. p \in more
      OBVIOUS
    <3> HIDE DEF more
    <3> QED BY <2>3, <3>1, Zenon
  <2> QED BY <2>4, <2>5, Zenon DEF next
<1> HIDE DEF At_, more, size
<1> DEFINE a == [n \in 1..size |-> Sole(At_(n, places))]
           b == [n \in 1..size + 1 |-> Sole(At_(n, more))]
<1>10. b = Append(a, p)
  <2> DEFINE S_ == {Sole(At_(n, places)) : n \in 1..size} \cup {p}
  <2>1. a \in Seq(S_) /\ Len(a) = size
    BY <1>2
  <2>2. \A n \in 1..size : b[n] = a[n]
    BY <1>2, <1>8
  <2>3. b[size + 1] = p
    <3>1. size + 1 \in 1..size + 1
      BY <1>2
    <3> QED BY <1>9, <3>1, SoleIs
  <2>4. b = [n \in 1..size + 1 |-> b[n]]
    OBVIOUS
  <2>5. p \in S_
    OBVIOUS
  <2> HIDE DEF a, b, S_
  <2>6. /\ Append(a, p) \in Seq(S_) /\ Len(Append(a, p)) = size + 1
        /\ \A n \in 1..size : Append(a, p)[n] = a[n]
        /\ Append(a, p)[size + 1] = p
    BY <2>1, <2>5, AppendProperties
  <2>7. Append(a, p) = [n \in 1..size + 1 |-> Append(a, p)[n]]
    <3>1. \A s : s \in Seq(S_) => s = [n \in 1..Len(s) |-> s[n]]
      OBVIOUS
    <3> QED BY <2>6, <3>1
  <2>8. \A n \in 1..size + 1 : b[n] = Append(a, p)[n]
    BY <1>2, <2>2, <2>3, <2>6
  <2> QED BY <2>4, <2>7, <2>8
<1>11. InOrder(more) = b /\ InOrder(places) = a
  BY <1>2, <1>6, <1>7
<1> HIDE DEF a, b
<1> QED BY <1>2, <1>10, <1>11 DEF more

LEMMA InOrderDomain ==
    ASSUME NEW places, IsFiniteSet(places)
    PROVE  /\ Cardinality(places) \in Nat
           /\ InOrder(places) = [n \in 1..Cardinality(places) |-> InOrder(places)[n]]
           /\ DOMAIN InOrder(places) = 1..Cardinality(places)
BY FS_CardinalityType DEF InOrder

LEMMA InOrderNone == InOrder({}) = <<>> /\ IsFiniteSet({})
<1>1. IsFiniteSet({}) /\ Cardinality({}) = 0
  BY FS_EmptySet
<1>2. 1..0 = {}
  OBVIOUS
<1>3. InOrder({}) = [n \in {} |-> InOrder({})[n]]
  BY <1>1, <1>2, InOrderDomain
<1>4. \A f : [n \in {} |-> f[n]] = <<>>
  OBVIOUS
<1> QED BY <1>1, <1>3, <1>4

----
(* The types of what a file has *)

LEMMA BlockFields ==
    ASSUME NEW block \in BlockType
    PROVE  /\ block.type \in {"STREAMINFO", "VORBIS_COMMENT", "PICTURE"}
           /\ block.type = "VORBIS_COMMENT" => block.comments \in Seq(CommentType)
           /\ block.type = "PICTURE" => block.picture \in PictureType
<1>1. CASE block \in [type : {"STREAMINFO"}]
  BY <1>1
<1>2. CASE block \in [type : {"VORBIS_COMMENT"}, comments : Seq(CommentType)]
  BY <1>2
<1>3. CASE block \in [type : {"PICTURE"}, picture : PictureType]
  BY <1>3
<1> QED BY <1>1, <1>2, <1>3 DEF BlockType

LEMMA CommentFields ==
    ASSUME NEW comment \in CommentType
    PROVE  /\ comment.field \in TextField \cup NumberField \cup GainField
                                    \cup {"METADATA_BLOCK_PICTURE", "other"}
           /\ comment.field \in TextField \cup NumberField => comment.value \in String
           /\ comment.field \in GainField => comment.gain \in Int
           /\ comment.field = "METADATA_BLOCK_PICTURE" =>
                comment.data \in Seq(PictureByte) /\ comment.base64 \in BOOLEAN
<1>1. /\ TextField \cap GainField = {} /\ NumberField \cap GainField = {}
      /\ "METADATA_BLOCK_PICTURE" \notin TextField \cup NumberField \cup GainField
      /\ "other" \notin GainField /\ "METADATA_BLOCK_PICTURE" /= "other"
  BY MetadataAssumption DEF NumberField, GainField
<1>2. CASE comment \in [field : TextField \cup NumberField \cup {"other"}, value : String]
  <2>1. comment.field \in TextField \cup NumberField \cup {"other"} /\ comment.value \in String
    BY <1>2
  <2> QED BY <1>1, <2>1
<1>3. CASE comment \in [field : GainField, gain : Int]
  <2>1. comment.field \in GainField /\ comment.gain \in Int
    BY <1>3
  <2> QED BY <1>1, <2>1
<1>4. CASE comment \in [field : {"METADATA_BLOCK_PICTURE"}, base64 : BOOLEAN,
                        data : Seq(PictureByte)]
  <2>1. /\ comment.field = "METADATA_BLOCK_PICTURE" /\ comment.base64 \in BOOLEAN
        /\ comment.data \in Seq(PictureByte)
    BY <1>4
  <2> QED BY <1>1, <2>1
<1> QED BY <1>2, <1>3, <1>4 DEF CommentType

LEMMA FileFields ==
    ASSUME NEW f \in Files
    PROVE  /\ f.kind \in {"flac", "vorbis"} /\ f.length \in String
           /\ f.blocks \in Seq(BlockType) /\ Len(f.blocks) \in Nat
           /\ DOMAIN f.blocks = 1..Len(f.blocks)
           /\ \A i \in 1..Len(f.blocks) : f.blocks[i] \in BlockType
           /\ f.kind = "vorbis" =>
                Len(f.blocks) = 1 /\ f.blocks[1].type = "VORBIS_COMMENT"
<1>1. f \in FileType
  BY MetadataAssumption
<1>2. f.kind \in {"flac", "vorbis"} /\ f.length \in String /\ f.blocks \in Seq(BlockType)
  BY <1>1 DEF FileType
<1>3. f.kind = "vorbis" => Len(f.blocks) = 1 /\ f.blocks[1].type = "VORBIS_COMMENT"
  BY MetadataAssumption
<1> QED BY <1>2, <1>3

LEMMA CommentsType ==
    ASSUME file \in Files, NEW i \in 1..Len(file.blocks),
           file.blocks[i].type = "VORBIS_COMMENT"
    PROVE  /\ file.blocks[i].comments \in Seq(CommentType)
           /\ Len(file.blocks[i].comments) \in Nat
           /\ DOMAIN file.blocks[i].comments = 1..Len(file.blocks[i].comments)
           /\ \A j \in 1..Len(file.blocks[i].comments) :
                file.blocks[i].comments[j] \in CommentType
<1>1. file.blocks[i].comments \in Seq(CommentType)
  BY FileFields, BlockFields
<1> QED BY <1>1

LEMMA PlacesAre ==
    ASSUME file \in Files
    PROVE  /\ CommentPlaces \subseteq Nat \X Nat
           /\ PicturePlaces \subseteq Nat \X Nat
           /\ \A p \in CommentPlaces :
                /\ p[1] \in 1..Len(file.blocks)
                /\ file.blocks[p[1]].type = "VORBIS_COMMENT"
                /\ p[2] \in 1..Len(file.blocks[p[1]].comments)
                /\ CommentAt(p) \in CommentType
                /\ p = <<p[1], p[2]>>
           /\ \A p \in PicturePlaces :
                /\ p[1] \in 1..Len(file.blocks)
                /\ file.blocks[p[1]].type = "PICTURE"
                /\ p[2] = 0
                /\ p = <<p[1], 0>>
           /\ \A i \in 1..Len(file.blocks) :
                /\ file.blocks[i].type = "PICTURE" => <<i, 0>> \in PicturePlaces
                /\ file.blocks[i].type = "VORBIS_COMMENT" =>
                    \A j \in 1..Len(file.blocks[i].comments) : <<i, j>> \in CommentPlaces
<1>1. DOMAIN file.blocks = 1..Len(file.blocks) /\ Len(file.blocks) \in Nat
  BY FileFields
<1>2. ASSUME NEW p \in PicturePlaces
      PROVE  /\ p \in Nat \X Nat
             /\ p[1] \in 1..Len(file.blocks)
             /\ file.blocks[p[1]].type = "PICTURE"
             /\ p[2] = 0
             /\ p = <<p[1], 0>>
  BY <1>1 DEF PicturePlaces
<1>3. ASSUME NEW i \in 1..Len(file.blocks), file.blocks[i].type = "PICTURE"
      PROVE  <<i, 0>> \in PicturePlaces
  BY <1>1, <1>3 DEF PicturePlaces
<1>4. ASSUME NEW p \in CommentPlaces
      PROVE  /\ p \in Nat \X Nat
             /\ p[1] \in 1..Len(file.blocks)
             /\ file.blocks[p[1]].type = "VORBIS_COMMENT"
             /\ p[2] \in 1..Len(file.blocks[p[1]].comments)
             /\ CommentAt(p) \in CommentType
             /\ p = <<p[1], p[2]>>
  <2>1. PICK i \in 1..Len(file.blocks) :
            p \in IF file.blocks[i].type = "VORBIS_COMMENT"
                  THEN {i} \X DOMAIN file.blocks[i].comments ELSE {}
    BY <1>1, Zenon DEF CommentPlaces
  <2>2. /\ file.blocks[i].type = "VORBIS_COMMENT"
        /\ p \in {i} \X DOMAIN file.blocks[i].comments
    BY <2>1
  <2>3. /\ DOMAIN file.blocks[i].comments = 1..Len(file.blocks[i].comments)
        /\ \A j \in 1..Len(file.blocks[i].comments) :
                file.blocks[i].comments[j] \in CommentType
    BY <2>2, CommentsType
  <2>4. p[1] = i /\ p[2] \in 1..Len(file.blocks[i].comments) /\ p = <<p[1], p[2]>>
    BY <2>2, <2>3
  <2>5. CommentAt(p) = file.blocks[i].comments[p[2]]
    BY <2>4 DEF CommentAt
  <2>6. i \in Nat /\ p[2] \in Nat
    BY <2>4
  <2> QED BY <2>2, <2>3, <2>4, <2>5, <2>6
<1>5. ASSUME NEW i \in 1..Len(file.blocks), file.blocks[i].type = "VORBIS_COMMENT",
             NEW j \in 1..Len(file.blocks[i].comments)
      PROVE  <<i, j>> \in CommentPlaces
  <2>1. <<i, j>> \in {i} \X DOMAIN file.blocks[i].comments
    BY <1>5, CommentsType
  <2>2. <<i, j>> \in IF file.blocks[i].type = "VORBIS_COMMENT"
                     THEN {i} \X DOMAIN file.blocks[i].comments ELSE {}
    BY <1>5, <2>1
  <2> QED BY <1>1, <2>2, Zenon DEF CommentPlaces
<1> QED BY <1>2, <1>3, <1>4, <1>5

----
(* What has been read *)

\* The blocks the decoder has come to, the comments of the last of them, and
\* how many of these it has come to.
Blocks == Len(file.blocks) - Len(blocks)
List == file.blocks[Blocks].comments
Heard == Len(List) - Len(comments)

Position ==
    /\ params \in GainParams /\ file \in Files
    /\ pc \in {"opened", "blocks", "comments", "done", "failed"}
    /\ Blocks \in 0..Len(file.blocks)
    /\ blocks = SubSeq(file.blocks, Blocks + 1, Len(file.blocks))
    /\ pc = "opened" => Blocks = 0
    /\ pc = "done" => Blocks = Len(file.blocks)
    /\ pc = "comments" =>
        /\ Blocks /= 0
        /\ file.blocks[Blocks].type = "VORBIS_COMMENT"
        /\ Heard \in 0..Len(List)
        /\ comments = SubSeq(List, Heard + 1, Len(List))

\* Those of the places that have been read.
IsRead(place) ==
    \/ place[1] < Blocks
    \/ place[1] = Blocks /\ (pc = "comments" => place[2] <= Heard)
Read(places) == {place \in places : IsRead(place)}

Places == CommentPlaces \cup PicturePlaces

----
(* What is known of it *)

TagType == [text : [Frame -> Seq(String)], pictures : Seq(PictureType)]

\* The gain comments of the list that is being read ...
LastGainUpTo(list, n, field) ==
    LET places == {i \in 1..n : list[i].field = field}
    IN  IF places = {} THEN kInvalidDb ELSE list[Max(places)].gain

GainsSoFar ==
    pc = "comments" =>
        /\ gains \in [GainField -> Int]
        /\ \A field \in GainField : gains[field] = LastGainUpTo(List, Heard, field)

\* ... and what the lists before it have set.
Lists(n) ==
    {i \in 1..n : file.blocks[i].type = "VORBIS_COMMENT" /\ HasGain(file.blocks[i].comments)}
LevelAfter(n) ==
    IF Lists(n) = {} THEN kInvalidDb ELSE Level(file.blocks[Max(Lists(n))].comments)

ScaleSoFar ==
    scale = LevelAfter(IF pc = "comments" THEN Blocks - 1 ELSE Blocks)

\* What a number frame has when its comments are at these places.
NumberText(number, total) ==
    IF number = {} /\ total = {} THEN <<>>
    ELSE <<(IF number = {} THEN <<>> ELSE CommentAt(Sole(number)).value)
           \o (IF total = {} THEN <<>> ELSE <<"/">> \o CommentAt(Sole(total)).value)>>

AtMostOne(places) == \A p, q \in places : p = q

NumberSoFar(number, total, frame) ==
    AtMostOne(Read(Given({number}))) /\ AtMostOne(Read(Given({total})))
    => tag.text[frame] = NumberText(Read(Given({number})), Read(Given({total})))

NumbersSoFar ==
    /\ NumberSoFar("TRACKNUMBER", "TRACKTOTAL", "TRCK")
    /\ NumberSoFar("DISCNUMBER", "DISCTOTAL", "TPOS")

FieldsOf(frame) == {field \in TextField : TextFrame[field] = frame}

\* The parameters of the stream have been set.
HasLength == pc = "done" \/ (file.kind = "vorbis" /\ pc /= "opened")

TextsSoFar ==
    /\ tag.text["TSSE"] = <<<<"MP3FS">>>>
    /\ tag.text["TLEN"] = IF HasLength THEN <<file.length>> ELSE <<>>
    /\ \A frame \in {TextFrame[field] : field \in TextField} :
        tag.text[frame] = ValuesAt(Read(Given(FieldsOf(frame))))

PicturesGiven ==
    IF file.kind = "flac" THEN PicturePlaces
    ELSE {place \in Given({"METADATA_BLOCK_PICTURE"}) : Whole(CommentAt(place)) /= {}}
PictureAt(place) ==
    IF file.kind = "flac" THEN file.blocks[place[1]].picture
    ELSE Sole(Whole(CommentAt(place)))

PicturesIn(order) == [n \in DOMAIN order |-> PictureAt(order[n])]

PicturesSoFar == tag.pictures = PicturesIn(InOrder(Read(PicturesGiven)))

\* Among Pictures are all that are whole in a comment of a file.
EveryPictureIsKnown ==
    \A f \in Files : \A i \in DOMAIN f.blocks : f.blocks[i].type = "VORBIS_COMMENT" =>
        \A j \in DOMAIN f.blocks[i].comments :
            LET comment == f.blocks[i].comments[j]
            IN  comment.field = "METADATA_BLOCK_PICTURE" =>
                    \A picture \in PictureType :
                        Fits(picture) /\ IsWhole(picture, comment.data)
                        => picture \in Pictures

SoFar ==
    /\ Position
    /\ pc /= "failed" =>
        /\ tag \in TagType
        /\ IsFiniteSet(Read(Places))
        /\ GainsSoFar
        /\ ScaleSoFar
        /\ NumbersSoFar
        /\ TextsSoFar
        /\ EveryPictureIsKnown => PicturesSoFar

----
(* What a step reads *)

\* What is left of a sequence after its first k elements.
Rest(s, k) == SubSeq(s, k + 1, Len(s))

RestIs(s, k) ==
    /\ Len(Rest(s, k)) = Len(s) - k
    /\ Rest(s, k) = <<>> <=> k = Len(s)
    /\ Rest(s, k) /= <<>> =>
        /\ k + 1 \in 1..Len(s)
        /\ Head(Rest(s, k)) = s[k + 1]
        /\ Tail(Rest(s, k)) = Rest(s, k + 1)
        /\ Len(Rest(s, k + 1)) = Len(s) - (k + 1)

LEMMA LeftOver ==
    ASSUME NEW S, NEW s \in Seq(S), NEW k \in 0..Len(s)
    PROVE  RestIs(s, k)
<1> DEFINE t == Rest(s, k)
<1>1. Len(s) \in Nat /\ k \in Nat /\ k <= Len(s)
  OBVIOUS
<1>2. /\ t \in Seq(S) /\ Len(t) = Len(s) - k
      /\ \A i \in 1..(Len(s) - k) : t[i] = s[k + i]
  BY <1>1 DEF Rest
<1> HIDE DEF t
<1>3. t = <<>> <=> Len(t) = 0
  BY <1>2, EmptySeq
<1>4. ASSUME t /= <<>>
      PROVE  /\ k + 1 \in 1..Len(s)
             /\ Head(t) = s[k + 1]
             /\ Tail(t) = Rest(s, k + 1)
             /\ Len(Rest(s, k + 1)) = Len(s) - (k + 1)
  <2>1. k + 1 \in 1..Len(s) /\ Len(t) \in Nat \ {0}
    BY <1>1, <1>2, <1>3, <1>4
  <2>2. Head(t) = t[1] /\ t[1] = s[k + 1]
    BY <1>2, <2>1
  <2>3. /\ Tail(t) \in Seq(S) /\ Len(Tail(t)) = Len(t) - 1
        /\ \A i \in 1..Len(t) - 1 : Tail(t)[i] = t[i + 1]
    BY <1>2, <1>4, HeadTailProperties
  <2> DEFINE u == Rest(s, k + 1)
  <2>4. /\ u \in Seq(S) /\ Len(u) = Len(s) - (k + 1)
        /\ \A i \in 1..(Len(s) - (k + 1)) : u[i] = s[(k + 1) + i]
    BY <1>1, <2>1 DEF Rest
  <2> HIDE DEF u
  <2>5. Len(Tail(t)) = Len(u)
    <3>1. Len(t) - 1 = Len(s) - (k + 1)
      BY <1>1, <1>2
    <3> QED BY <2>3, <2>4, <3>1
  <2>6. ASSUME NEW i \in 1..Len(Tail(t)) PROVE Tail(t)[i] = u[i]
    <3>1. i \in 1..(Len(s) - (k + 1)) /\ i + 1 \in 1..(Len(s) - k) /\ i \in 1..Len(t) - 1
          /\ k + (i + 1) = (k + 1) + i
      BY <1>1, <1>2, <2>1, <2>4, <2>5
    <3>2. t[i + 1] = s[k + (i + 1)]
      BY <1>2, <3>1
    <3> QED BY <2>3, <2>4, <3>1, <3>2
  <2>7. Tail(t) = u
    BY <2>3, <2>4, <2>5, <2>6, SeqEqual
  <2> QED BY <2>1, <2>2, <2>4, <2>5, <2>7 DEF u
<1> QED BY <1>1, <1>2, <1>3, <1>4 DEF t, RestIs

LEMMA Difference ==
    ASSUME NEW a \in Int, NEW b \in Int, NEW c, c = a - b
    PROVE  a - c = b
OBVIOUS

\* The next block.
LEMMA NextBlock ==
    ASSUME Position, pc = "blocks"
    PROVE  /\ Len(blocks) = Len(file.blocks) - Blocks /\ Blocks \in Nat
           /\ blocks = <<>> <=> Blocks = Len(file.blocks)
           /\ blocks /= <<>> =>
                /\ Blocks + 1 \in 1..Len(file.blocks)
                /\ Head(blocks) = file.blocks[Blocks + 1]
                /\ Tail(blocks) = SubSeq(file.blocks, (Blocks + 1) + 1, Len(file.blocks))
                /\ Len(file.blocks) - Len(Tail(blocks)) = Blocks + 1
<1>1. /\ file.blocks \in Seq(BlockType) /\ Len(file.blocks) \in Nat
      /\ Blocks \in 0..Len(file.blocks)
      /\ blocks = SubSeq(file.blocks, Blocks + 1, Len(file.blocks))
  BY FileFields DEF Position
<1> DEFINE k == Blocks
           all == file.blocks
           rest == blocks
<1>2. /\ all \in Seq(BlockType) /\ Len(all) \in Nat /\ k \in 0..Len(all)
      /\ rest = Rest(all, k)
  BY <1>1 DEF Rest
<1> HIDE DEF k, all, rest
<1>3. /\ Len(rest) = Len(all) - k
      /\ rest = <<>> <=> k = Len(all)
      /\ rest /= <<>> =>
            /\ k + 1 \in 1..Len(all)
            /\ Head(rest) = all[k + 1]
            /\ Tail(rest) = Rest(all, k + 1)
            /\ Len(Tail(rest)) = Len(all) - (k + 1)
  <2>1. RestIs(all, k)
    BY ONLY <1>2, LeftOver
  <2> QED BY ONLY <1>2, <2>1 DEF RestIs
<1>4. k \in Nat
  BY <1>2
<1>5. rest /= <<>> => Len(all) - Len(Tail(rest)) = k + 1
  BY <1>2, <1>3, <1>4, Difference
<1> QED BY <1>3, <1>4, <1>5 DEF k, all, rest, Rest

\* The next comment.
LEMMA NextComment ==
    ASSUME Position, pc = "comments"
    PROVE  /\ Blocks \in 1..Len(file.blocks) /\ Heard \in 0..Len(List)
           /\ file.blocks[Blocks].type = "VORBIS_COMMENT"
           /\ Len(List) \in Nat /\ Heard \in Nat
           /\ comments = <<>> <=> Heard = Len(List)
           /\ comments /= <<>> =>
                /\ Heard + 1 \in 1..Len(List)
                /\ Head(comments) = List[Heard + 1]
                /\ Head(comments) \in CommentType
                /\ Tail(comments) = SubSeq(List, (Heard + 1) + 1, Len(List))
                /\ Len(List) - Len(Tail(comments)) = Heard + 1
<1>1. /\ file \in Files /\ Len(file.blocks) \in Nat
      /\ Blocks \in 0..Len(file.blocks) /\ Blocks /= 0
      /\ file.blocks[Blocks].type = "VORBIS_COMMENT"
      /\ Heard \in 0..Len(List)
      /\ comments = SubSeq(List, Heard + 1, Len(List))
  BY FileFields DEF Position
<1>2. Blocks \in 1..Len(file.blocks)
  BY <1>1
<1>3. /\ List \in Seq(CommentType) /\ Len(List) \in Nat
      /\ \A j \in 1..Len(List) : List[j] \in CommentType
  BY <1>1, <1>2, CommentsType DEF List
<1> DEFINE k == Heard
<1>4. k \in 0..Len(List) /\ comments = Rest(List, k)
  BY <1>1 DEF Rest
<1> HIDE DEF k
<1>5. /\ comments = <<>> <=> k = Len(List)
      /\ comments /= <<>> =>
            /\ k + 1 \in 1..Len(List)
            /\ Head(comments) = List[k + 1]
            /\ Tail(comments) = Rest(List, k + 1)
            /\ Len(Tail(comments)) = Len(List) - (k + 1)
  <2>1. RestIs(List, k)
    BY ONLY <1>4, <1>3, LeftOver
  <2> QED BY ONLY <1>4, <2>1 DEF RestIs
<1>6. k \in Nat
  BY <1>1, <1>3 DEF k
<1>7. comments /= <<>> => Len(List) - Len(Tail(comments)) = k + 1
  BY ONLY <1>3, <1>5, <1>6, Difference
<1> QED BY <1>1, <1>2, <1>3, <1>5, <1>6, <1>7 DEF k, Rest

LEMMA PositionInit == Init => Position
<1> SUFFICES ASSUME Init PROVE Position
  OBVIOUS
<1>1. /\ params \in GainParams /\ file \in Files /\ pc = "opened" /\ blocks = file.blocks
  BY DEF Init
<1>2. file.blocks \in Seq(BlockType) /\ Len(file.blocks) \in Nat
  BY <1>1, FileFields
<1>3. Blocks = 0
  BY <1>1, <1>2 DEF Blocks
<1>4. file.blocks = SubSeq(file.blocks, 1, Len(file.blocks))
  BY <1>2, SubSeqFull
<1>5. blocks = SubSeq(file.blocks, Blocks + 1, Len(file.blocks))
  BY <1>1, <1>3, <1>4
<1> QED BY <1>1, <1>2, <1>3, <1>5 DEF Position

\* Before and after the blocks.
LEMMA PositionKept ==
    ASSUME Position, UNCHANGED <<params, file, blocks>>,
           pc /= "comments", pc' \in {"blocks", "done", "failed"},
           pc' = "done" => blocks = <<>> /\ pc = "blocks"
    PROVE  Position' /\ Blocks' = Blocks
<1>1. Blocks' = Blocks
  BY DEF Blocks
<1>2. pc' = "done" => Blocks' = Len(file.blocks)
  BY <1>1, NextBlock
<1> QED BY <1>1, <1>2 DEF Position

\* The decoder reads a block.
LEMMA PositionBlock ==
    ASSUME Position, UNCHANGED <<params, file>>, pc = "blocks", blocks /= <<>>,
           blocks' = Tail(blocks),
           \/ pc' = "blocks"
           \/ /\ pc' = "comments"
              /\ Head(blocks).type = "VORBIS_COMMENT"
              /\ comments' = Head(blocks).comments
    PROVE  /\ Position'
           /\ Blocks' = Blocks + 1
           /\ pc' = "comments" => Heard' = 0 /\ List' = Head(blocks).comments
<1> DEFINE n == Blocks + 1
<1>1. /\ n \in 1..Len(file.blocks) /\ Head(blocks) = file.blocks[n]
      /\ blocks' = SubSeq(file.blocks, n + 1, Len(file.blocks))
      /\ Len(file.blocks) - Len(blocks') = n
  BY NextBlock
<1>2. Blocks' = n
  BY <1>1 DEF Blocks
<1>3. Len(file.blocks) \in Nat
  BY FileFields DEF Position
<1> HIDE DEF n
<1>4. ASSUME pc' = "comments"
      PROVE  /\ List' = Head(blocks).comments /\ Heard' = 0
             /\ file.blocks[n].type = "VORBIS_COMMENT"
             /\ Heard' \in 0..Len(List')
             /\ comments' = SubSeq(List', Heard' + 1, Len(List'))
  <2>1. List' = file.blocks[n].comments /\ file.blocks[n].type = "VORBIS_COMMENT"
    BY <1>1, <1>2, <1>4 DEF List
  <2>2. List' \in Seq(CommentType) /\ Len(List') \in Nat
    BY <1>1, <2>1, CommentsType DEF Position
  <2>3. comments' = List'
    BY <1>1, <1>4, <2>1
  <2>4. Heard' = 0
    BY <2>2, <2>3 DEF Heard
  <2>5. List' = SubSeq(List', 1, Len(List'))
    BY <2>2, SubSeqFull
  <2> QED BY <1>1, <2>1, <2>2, <2>3, <2>4, <2>5
<1>5. Position'
  <2>1. n \in 0..Len(file.blocks) /\ n /= 0
    BY <1>1, <1>3
  <2> QED BY <1>1, <1>2, <1>4, <2>1 DEF Position
<1> QED BY <1>2, <1>4, <1>5 DEF n

\* The decoder reads a comment.
LEMMA PositionComment ==
    ASSUME Position, UNCHANGED <<params, file, blocks>>, pc = "comments",
           comments /= <<>>, comments' = Tail(comments), pc' \in {"comments", "failed"}
    PROVE  /\ Position'
           /\ Blocks' = Blocks /\ List' = List
           /\ Heard' = Heard + 1
<1>1. Blocks' = Blocks /\ List' = List
  BY DEF Blocks, List
<1>2. /\ Heard + 1 \in 1..Len(List) /\ Heard + 1 \in 0..Len(List)
      /\ comments' = SubSeq(List, (Heard + 1) + 1, Len(List))
      /\ Len(List) - Len(comments') = Heard + 1
  <2>1. Heard \in Nat /\ Len(List) \in Nat /\ Heard + 1 \in 1..Len(List)
    BY NextComment
  <2>2. Heard + 1 \in 0..Len(List)
    BY <2>1
  <2> QED BY <2>2, NextComment
<1>3. Heard' = Heard + 1
  BY <1>1, <1>2 DEF Heard
<1>4. Position'
  BY <1>1, <1>2, <1>3 DEF Position
<1> QED BY <1>1, <1>3, <1>4

\* The decoder is through with the comments.
LEMMA PositionEnd ==
    ASSUME Position, UNCHANGED <<params, file, blocks>>, pc = "comments",
           comments = <<>>, pc' = "blocks"
    PROVE  /\ Position'
           /\ Blocks' = Blocks /\ Heard = Len(List)
<1>1. Blocks' = Blocks
  BY DEF Blocks
<1>2. Heard = Len(List)
  BY NextComment
<1> QED BY <1>1, <1>2 DEF Position

\* What the file and the options say stays.
LEMMA FileKept ==
    ASSUME UNCHANGED <<params, file>>
    PROVE  /\ CommentPlaces' = CommentPlaces /\ PicturePlaces' = PicturePlaces
           /\ Places' = Places
           /\ \A place : CommentAt(place)' = CommentAt(place)
           /\ \A fields : Given(fields)' = Given(fields)
           /\ PicturesGiven' = PicturesGiven
           /\ \A place : PictureAt(place)' = PictureAt(place)
           /\ \A list : HasGain(list)' = HasGain(list) /\ Level(list)' = Level(list)
<1>1. CommentPlaces' = CommentPlaces /\ PicturePlaces' = PicturePlaces
  BY DEF CommentPlaces, PicturePlaces
<1>2. \A place : CommentAt(place)' = CommentAt(place)
  BY DEF CommentAt
<1>3. \A fields : Given(fields)' = Given(fields)
  BY <1>1, <1>2 DEF Given
<1>4. PicturesGiven' = PicturesGiven
  BY <1>1, <1>2, <1>3 DEF PicturesGiven
<1>5. \A place : PictureAt(place)' = PictureAt(place)
  BY <1>2 DEF PictureAt
<1>6. \A list : HasGain(list)' = HasGain(list) /\ Level(list)' = Level(list)
  BY DEF HasGain, Level, GainSource
<1>7. Places' = Places
  BY <1>1 DEF Places
<1> QED BY <1>1, <1>2, <1>3, <1>4, <1>5, <1>6, <1>7

LEMMA InPlaces ==
    /\ CommentPlaces \subseteq Places /\ PicturePlaces \subseteq Places
    /\ \A fields : Given(fields) \subseteq Places
    /\ PicturesGiven \subseteq Places
BY DEF Places, Given, PicturesGiven

\* The step reads no comment and no picture.
ReadsNone == \A place \in Places : IsRead(place)' <=> IsRead(place)

\* It reads the one at this place, and all that are read come before it.
Reads(p) ==
    /\ p \in Places
    /\ \A place \in Places : IsRead(place)' <=> (IsRead(place) \/ place = p)
    /\ \A place \in Read(Places) : Before(place, p)

LEMMA ReadNone ==
    ASSUME UNCHANGED <<params, file>>, ReadsNone
    PROVE  /\ Read(Places)' = Read(Places)
           /\ \A fields : Read(Given(fields))' = Read(Given(fields))
           /\ Read(PicturesGiven)' = Read(PicturesGiven)
<1>1. Read(Places)' = Read(Places)
  BY FileKept DEF Read, ReadsNone
<1>2. ASSUME NEW fields PROVE Read(Given(fields))' = Read(Given(fields))
  <2>1. Given(fields)' = Given(fields) /\ Given(fields) \subseteq Places
    BY FileKept, InPlaces
  <2> QED BY <2>1 DEF Read, ReadsNone
<1>3. Read(PicturesGiven)' = Read(PicturesGiven)
  BY FileKept, InPlaces DEF Read, ReadsNone
<1> QED BY <1>1, <1>2, <1>3

With(places, set, p) == IF p \in set THEN places \cup {p} ELSE places

LEMMA ReadOne ==
    ASSUME UNCHANGED <<params, file>>, NEW p, Reads(p)
    PROVE  /\ Read(Places)' = Read(Places) \cup {p}
           /\ \A fields : Read(Given(fields))' = With(Read(Given(fields)), Given(fields), p)
           /\ Read(PicturesGiven)' = With(Read(PicturesGiven), PicturesGiven, p)
<1>1. Read(Places)' = Read(Places) \cup {p}
  BY FileKept DEF Read, Reads
<1>2. ASSUME NEW fields
      PROVE  Read(Given(fields))' = With(Read(Given(fields)), Given(fields), p)
  <2>1. Given(fields)' = Given(fields) /\ Given(fields) \subseteq Places
    BY FileKept, InPlaces
  <2> QED BY <2>1 DEF Read, Reads, With
<1>3. Read(PicturesGiven)' = With(Read(PicturesGiven), PicturesGiven, p)
  BY FileKept, InPlaces DEF Read, Reads, With
<1> QED BY <1>1, <1>2, <1>3

\* Every place is in a block of its kind.
LEMMA PlaceIs ==
    ASSUME Position, NEW q \in Places
    PROVE  /\ q[1] \in Nat /\ q[2] \in Nat /\ q[1] \in 1..Len(file.blocks)
           /\ q = <<q[1], q[2]>> /\ q \in Nat \X Nat
           /\ \/ file.blocks[q[1]].type = "PICTURE" /\ q[2] = 0
              \/ /\ file.blocks[q[1]].type = "VORBIS_COMMENT"
                 /\ q[2] \in 1..Len(file.blocks[q[1]].comments)
                 /\ CommentAt(q) \in CommentType
<1>1. file \in Files
  BY DEF Position
<1>2. CASE q \in CommentPlaces
  BY <1>1, <1>2, PlacesAre
<1>3. CASE q \in PicturePlaces
  BY <1>1, <1>3, PlacesAre
<1> QED BY <1>2, <1>3 DEF Places

LEMMA ReadsNoneKept ==
    ASSUME Blocks' = Blocks, pc /= "comments", pc' /= "comments"
    PROVE  ReadsNone
BY DEF ReadsNone, IsRead

LEMMA ReadsNoneBlock ==
    ASSUME Position, pc = "blocks", blocks /= <<>>, Blocks' = Blocks + 1,
           \/ Head(blocks).type = "STREAMINFO" /\ pc' = "blocks"
           \/ Head(blocks).type = "VORBIS_COMMENT" /\ pc' = "comments" /\ Heard' = 0
    PROVE  ReadsNone
<1> SUFFICES ASSUME NEW q \in Places PROVE IsRead(q)' <=> IsRead(q)
  BY DEF ReadsNone
<1> DEFINE n == Blocks
<1>1. n \in Nat /\ Head(blocks) = file.blocks[n + 1]
  BY NextBlock
<1>2. q[1] \in Nat /\ q[2] \in Nat
  BY PlaceIs
<1>3. IsRead(q) <=> q[1] <= n
  BY <1>1, <1>2 DEF IsRead
<1>4. IsRead(q)' <=> \/ q[1] < n + 1
                     \/ q[1] = n + 1 /\ (pc' = "comments" => q[2] <= Heard')
  BY DEF IsRead
<1>5. ASSUME q[1] = n + 1 PROVE pc' = "comments" /\ Heard' = 0 /\ q[2] /= 0
  <2>1. file.blocks[q[1]].type = Head(blocks).type
    BY <1>1, <1>5
  <2> QED BY <1>5, <2>1, PlaceIs
<1>6. q[1] = n + 1 => ~(pc' = "comments" => q[2] <= Heard')
  BY <1>2, <1>5
<1> HIDE DEF n
<1> QED BY <1>1, <1>2, <1>3, <1>4, <1>6

LEMMA ReadsNoneEnd ==
    ASSUME Position, pc = "comments", comments = <<>>, Blocks' = Blocks, pc' = "blocks"
    PROVE  ReadsNone
<1> SUFFICES ASSUME NEW q \in Places PROVE IsRead(q)' <=> IsRead(q)
  BY DEF ReadsNone
<1>1. Heard = Len(List) /\ Len(List) \in Nat /\ file.blocks[Blocks].type = "VORBIS_COMMENT"
  BY NextComment
<1>2. IsRead(q)' <=> q[1] < Blocks \/ q[1] = Blocks
  BY DEF IsRead
<1>3. ASSUME q[1] = Blocks PROVE q[2] <= Heard
  <2>1. file.blocks[q[1]].type = "VORBIS_COMMENT" /\ List = file.blocks[q[1]].comments
    BY <1>1, <1>3 DEF List
  <2>2. q[2] \in 1..Len(file.blocks[q[1]].comments)
    BY <2>1, PlaceIs
  <2>3. q[2] \in 1..Len(List)
    BY <2>1, <2>2
  <2> QED BY <1>1, <2>3
<1> QED BY <1>2, <1>3 DEF IsRead

\* A picture block is read ...
LEMMA ReadsPicture ==
    ASSUME Position, pc = "blocks", blocks /= <<>>, Blocks' = Blocks + 1,
           Head(blocks).type = "PICTURE", pc' = "blocks"
    PROVE  /\ Reads(<<Blocks + 1, 0>>)
           /\ <<Blocks + 1, 0>> \in PicturePlaces
           /\ \A fields : <<Blocks + 1, 0>> \notin Given(fields)
           /\ PicturePlaces \in SUBSET (Nat \X Nat)
<1> DEFINE n == Blocks
           p == <<n + 1, 0>>
<1>1. /\ n \in Nat /\ n + 1 \in 1..Len(file.blocks) /\ Head(blocks) = file.blocks[n + 1]
      /\ file \in Files
  BY NextBlock DEF Position
<1>2. p \in PicturePlaces
  BY <1>1, PlacesAre
<1>3. \A q \in Places : IsRead(q) <=> q[1] <= n
  <2> TAKE q \in Places
  <2>1. q[1] \in Nat
    BY PlaceIs
  <2> QED BY <1>1, <2>1 DEF IsRead
<1>4. \A q \in Places : IsRead(q)' <=> q[1] <= n + 1
  <2> TAKE q \in Places
  <2>1. q[1] \in Nat
    BY PlaceIs
  <2> QED BY <1>1, <2>1 DEF IsRead
<1>5. ASSUME NEW q \in Places, q[1] = n + 1 PROVE q = p
  <2>1. q = <<q[1], q[2]>> /\ file.blocks[q[1]].type = "PICTURE"
    BY <1>1, <1>5, PlaceIs
  <2>2. q[2] = 0
    BY <2>1, PlaceIs
  <2> QED BY <1>5, <2>1, <2>2
<1>6. Reads(p)
  <2>1. p \in Places /\ p[1] = n + 1
    BY <1>2, InPlaces
  <2>2. ASSUME NEW q \in Places PROVE IsRead(q)' <=> (IsRead(q) \/ q = p)
    <3>1. q[1] \in Nat
      BY PlaceIs
    <3>2. q[1] = n + 1 <=> q = p
      BY <1>5, <2>1
    <3> HIDE DEF n, p
    <3> QED BY <1>1, <1>3, <1>4, <3>1, <3>2
  <2>3. ASSUME NEW q \in Read(Places) PROVE Before(q, p)
    <3>1. q \in Places /\ IsRead(q)
      BY DEF Read
    <3>2. q[1] \in Nat /\ q[1] <= n
      BY <1>3, <3>1, PlaceIs
    <3>3. q[1] < p[1]
      <4> HIDE DEF n, p
      <4> QED BY <1>1, <2>1, <3>2
    <3> QED BY <3>3 DEF Before
  <2> QED BY <2>1, <2>2, <2>3 DEF Reads
<1>7. ASSUME NEW fields PROVE p \notin Given(fields)
  <2>1. p \notin CommentPlaces
    <3>1. p[1] = n + 1 /\ file.blocks[n + 1].type /= "VORBIS_COMMENT"
      BY <1>1
    <3> QED BY <1>1, <3>1, PlacesAre
  <2> QED BY <2>1 DEF Given
<1> QED BY <1>1, <1>2, <1>6, <1>7, PlacesAre

\* ... or a comment.
LEMMA ReadsComment ==
    ASSUME Position, pc = "comments", comments /= <<>>, Blocks' = Blocks,
           Heard' = Heard + 1, pc' = "comments"
    PROVE  /\ Reads(<<Blocks, Heard + 1>>)
           /\ <<Blocks, Heard + 1>> \in CommentPlaces
           /\ CommentAt(<<Blocks, Heard + 1>>) = Head(comments)
           /\ \A fields : <<Blocks, Heard + 1>> \in Given(fields)
                            <=> Head(comments).field \in fields
<1> DEFINE n == Blocks
           k == Heard
           p == <<n, k + 1>>
<1>1. /\ n \in 1..Len(file.blocks) /\ file.blocks[n].type = "VORBIS_COMMENT"
      /\ file \in Files /\ k \in Nat /\ k + 1 \in 1..Len(List) /\ n \in Nat
      /\ Head(comments) = List[k + 1]
  BY NextComment, FileFields DEF Position
<1>2. p \in CommentPlaces
  <2>1. k + 1 \in 1..Len(file.blocks[n].comments)
    BY <1>1 DEF List
  <2> QED BY <1>1, <2>1, PlacesAre
<1>3. p[1] = n /\ p[2] = k + 1
  OBVIOUS
<1>4. CommentAt(p) = Head(comments)
  BY <1>1, <1>3 DEF CommentAt, List
<1>5. ASSUME NEW q \in Places
      PROVE  /\ IsRead(q) <=> q[1] < n \/ (q[1] = n /\ q[2] <= k)
             /\ IsRead(q)' <=> q[1] < n \/ (q[1] = n /\ q[2] <= k + 1)
  BY DEF IsRead
<1>6. ASSUME NEW q \in Places
      PROVE  /\ IsRead(q)' <=> (IsRead(q) \/ q = p)
             /\ IsRead(q) => Before(q, p)
  <2>1. q[1] \in Nat /\ q[2] \in Nat /\ q = <<q[1], q[2]>>
    BY PlaceIs
  <2>2. q = p <=> q[1] = n /\ q[2] = k + 1
    BY <1>3, <2>1
  <2> HIDE DEF n, k, p
  <2>3. IsRead(q)' <=> (IsRead(q) \/ q = p)
    BY <1>1, <1>5, <2>1, <2>2
  <2>4. IsRead(q) => Before(q, p)
    BY <1>1, <1>3, <1>5, <2>1 DEF Before
  <2> QED BY <2>3, <2>4
<1>7. Reads(p)
  <2>1. p \in Places
    BY <1>2, InPlaces
  <2> HIDE DEF p
  <2> QED BY <1>6, <2>1 DEF Reads, Read
<1>8. \A fields : p \in Given(fields) <=> Head(comments).field \in fields
  BY <1>2, <1>4 DEF Given
<1> QED BY <1>2, <1>4, <1>7, <1>8

\* In the end, all is read.
LEMMA AllRead ==
    ASSUME Position, pc = "done"
    PROVE  /\ \A fields : Read(Given(fields)) = Given(fields)
           /\ Read(PicturesGiven) = PicturesGiven
<1>1. ASSUME NEW q \in Places PROVE IsRead(q)
  <2>1. Blocks = Len(file.blocks) /\ Len(file.blocks) \in Nat /\ q[1] \in 1..Len(file.blocks)
    BY PlaceIs, FileFields DEF Position
  <2>2. q[1] <= Blocks /\ q[1] \in Nat /\ Blocks \in Nat
    BY <2>1
  <2> QED BY <2>2 DEF IsRead
<1> QED BY <1>1, InPlaces DEF Read

\* In the beginning, nothing is.
LEMMA NoneRead ==
    ASSUME Position, pc = "opened"
    PROVE  /\ Read(Places) = {}
           /\ \A fields : Read(Given(fields)) = {}
           /\ Read(PicturesGiven) = {}
<1>1. ASSUME NEW q \in Places PROVE ~IsRead(q)
  <2>1. Blocks = 0 /\ q[1] \in Nat \ {0}
    BY PlaceIs DEF Position
  <2> QED BY <2>1 DEF IsRead
<1> QED BY <1>1, InPlaces DEF Read

----
(* The gain *)

LEMMA MaxIs ==
    ASSUME NEW S \in SUBSET Nat, NEW m \in S, \A n \in S : n <= m
    PROVE  Max(S) = m
<1>1. \A n \in S : m >= n
  OBVIOUS
<1> DEFINE most == Max(S)
<1>2. most \in S /\ \A n \in S : most >= n
  BY <1>1, Zenon DEF Max
<1> HIDE DEF most
<1>3. most \in Nat /\ m \in Nat /\ most <= m /\ most >= m
  BY <1>1, <1>2
<1>4. most = m
  BY <1>3
<1> QED BY <1>4 DEF most

LEMMA LastGainStep ==
    ASSUME NEW list, NEW n \in Nat, NEW field
    PROVE  /\ LastGainUpTo(list, 0, field) = kInvalidDb
           /\ LastGainUpTo(list, n + 1, field) =
                IF list[n + 1].field = field THEN list[n + 1].gain
                ELSE LastGainUpTo(list, n, field)
<1> DEFINE next == n + 1
           At_(k) == {i \in 1..k : list[i].field = field}
<1>1. next \in 1..next /\ next \in Nat /\ \A i \in 1..next : i \in 1..n \/ i = next
  OBVIOUS
<1>2. 1..n \subseteq 1..next /\ \A i \in 1..next : i <= next
  OBVIOUS
<1>3. At_(0) = {}
  OBVIOUS
<1> HIDE DEF next
<1>4. CASE list[next].field = field
  <2>1. next \in At_(next) /\ \A i \in At_(next) : i <= next
    BY <1>1, <1>2, <1>4
  <2>2. At_(next) \in SUBSET Nat
    BY <1>1
  <2> HIDE DEF At_
  <2>3. Max(At_(next)) = next
    BY <2>1, <2>2, MaxIs
  <2>4. LastGainUpTo(list, next, field) = list[next].gain
    BY <2>1, <2>3 DEF LastGainUpTo, At_
  <2> QED BY <1>3, <1>4, <2>4 DEF next, At_, LastGainUpTo
<1>5. CASE list[next].field /= field
  <2>1. At_(next) = At_(n)
    BY <1>1, <1>2, <1>5
  <2>2. LastGainUpTo(list, next, field) = LastGainUpTo(list, n, field)
    BY <2>1 DEF LastGainUpTo
  <2> QED BY <1>3, <1>5, <2>2 DEF next, LastGainUpTo
<1> QED BY <1>4, <1>5

LEMMA LastGainIs ==
    ASSUME NEW list, DOMAIN list = 1..Len(list)
    PROVE  \A field : LastGainUpTo(list, Len(list), field) = LastGain(list, field)
BY DEF LastGain, LastGainUpTo

LEMMA LevelStep ==
    ASSUME file \in Files, NEW n \in Nat, n + 1 \in 1..Len(file.blocks)
    PROVE  LevelAfter(n + 1) =
                IF /\ file.blocks[n + 1].type = "VORBIS_COMMENT"
                   /\ HasGain(file.blocks[n + 1].comments)
                THEN Level(file.blocks[n + 1].comments) ELSE LevelAfter(n)
<1> DEFINE next == n + 1
           Counts(i) == /\ file.blocks[i].type = "VORBIS_COMMENT"
                        /\ HasGain(file.blocks[i].comments)
<1>1. next \in 1..next /\ next \in Nat /\ \A i \in 1..next : i \in 1..n \/ i = next
  OBVIOUS
<1>2. 1..n \subseteq 1..next /\ \A i \in 1..next : i <= next
  OBVIOUS
<1>3. \A k : Lists(k) = {i \in 1..k : Counts(i)}
  BY DEF Lists
<1> HIDE DEF next, Counts
<1>4. CASE Counts(next)
  <2>1. next \in Lists(next) /\ \A i \in Lists(next) : i <= next
    BY <1>1, <1>2, <1>3, <1>4
  <2>2. Lists(next) \in SUBSET Nat
    BY <1>1, <1>3
  <2>3. Max(Lists(next)) = next
    BY <2>1, <2>2, MaxIs
  <2>4. LevelAfter(next) = Level(file.blocks[next].comments)
    BY <2>1, <2>3 DEF LevelAfter
  <2> QED BY <1>4, <2>4 DEF next, Counts
<1>5. CASE ~Counts(next)
  <2>1. Lists(next) = Lists(n)
    BY <1>1, <1>2, <1>3, <1>5
  <2>2. LevelAfter(next) = LevelAfter(n)
    BY <2>1 DEF LevelAfter
  <2> QED BY <1>5, <2>2 DEF next, Counts
<1> QED BY <1>4, <1>5

LEMMA LevelKept ==
    ASSUME UNCHANGED <<params, file>>
    PROVE  \A n : LevelAfter(n)' = LevelAfter(n)
<1> TAKE n
<1>1. Lists(n)' = Lists(n)
  BY FileKept DEF Lists
<1> QED BY <1>1, FileKept DEF LevelAfter

LEMMA LevelNone == LevelAfter(0) = kInvalidDb
<1>1. Lists(0) = {}
  BY DEF Lists
<1> QED BY <1>1 DEF LevelAfter

\* What set_gain makes of the gains of a list.
LEMMA SetGainIs ==
    ASSUME params \in GainParams, NEW list, NEW before, gains \in [GainField -> Int],
           \A field \in GainField : gains[field] = LastGain(list, field)
    PROVE  set_gain(params, gains, before) = IF HasGain(list) THEN Level(list) ELSE before
<1> DEFINE mode == params.gainmode
           album == gains["REPLAYGAIN_ALBUM_GAIN"]
           track == gains["REPLAYGAIN_TRACK_GAIN"]
           reference == gains["REPLAYGAIN_REFERENCE_LOUDNESS"]
           source == IF mode = 1 /\ album /= kInvalidDb THEN album ELSE track
<1>1. mode \in {0, 1, 2} /\ params.gainref \in Int
  BY MetadataAssumption
<1>2. album \in Int /\ track \in Int /\ reference \in Int
  BY DEF GainField
<1>3. /\ album = LastGain(list, "REPLAYGAIN_ALBUM_GAIN")
      /\ track = LastGain(list, "REPLAYGAIN_TRACK_GAIN")
      /\ reference = LastGain(list, "REPLAYGAIN_REFERENCE_LOUDNESS")
  BY DEF GainField
<1>4. LastGain(list, GainSource(list)) = source
  BY <1>3 DEF GainSource
<1>5. ChosenGain(mode, gains) = IF mode /= 0 THEN source ELSE kInvalidDb
  BY <1>1 DEF ChosenGain
<1>6. HasGain(list) <=> ChosenGain(mode, gains) /= kInvalidDb
  BY <1>4, <1>5 DEF HasGain
<1> DEFINE base == IF reference = kInvalidDb THEN kDefaultGain ELSE reference
<1>7. base \in Int /\ source \in Int
  BY <1>2 DEF kDefaultGain
<1>8. Level(list) = params.gainref + source - base
  BY <1>3, <1>4 DEF Level
<1>9. set_gain(params, gains, before) =
        IF ChosenGain(mode, gains) = kInvalidDb THEN before
        ELSE params.gainref - base + ChosenGain(mode, gains)
  BY DEF set_gain
<1> HIDE DEF base, source
<1>10. params.gainref - base + source = params.gainref + source - base
  BY <1>1, <1>7
<1> QED BY <1>5, <1>6, <1>8, <1>9, <1>10

----
(* The strings of the frames *)

LEMMA MapAppend ==
    ASSUME NEW n \in Nat, NEW order, order = [i \in 1..n |-> order[i]], NEW p, NEW g
    PROVE  [i \in DOMAIN Append(order, p) |-> g[Append(order, p)[i]]]
            = Append([i \in DOMAIN order |-> g[order[i]]], g[p])
<1> DEFINE S_ == {order[i] : i \in 1..n} \cup {p}
           more == Append(order, p)
           V_ == {g[x] : x \in S_}
           s == [i \in DOMAIN order |-> g[order[i]]]
           t == [i \in DOMAIN more |-> g[more[i]]]
<1>1. order \in Seq(S_) /\ p \in S_ /\ DOMAIN order = 1..n
  OBVIOUS
<1>2. Len(order) = n
  BY <1>1
<1> HIDE DEF S_
<1>3. /\ more \in Seq(S_) /\ Len(more) = n + 1 /\ \A i \in 1..n : more[i] = order[i]
      /\ more[n + 1] = p
  BY <1>1, <1>2, AppendProperties
<1>4. DOMAIN more = 1..n + 1
  BY <1>3
<1> HIDE DEF more
<1>5. s \in Seq(V_) /\ Len(s) = n
  <2>1. \A i \in 1..n : order[i] \in S_
    BY <1>1, <1>2
  <2>2. s \in [1..n -> V_]
    BY <1>1, <2>1
  <2> QED BY <2>2
<1>6. \A i \in 1..n + 1 : t[i] = IF i = n + 1 THEN g[p] ELSE s[i]
  BY <1>1, <1>3, <1>4
<1>7. g[p] \in V_
  BY <1>1
<1>8. t = [i \in 1..n + 1 |-> t[i]]
  BY <1>4
<1> HIDE DEF s, t, V_
<1>9. /\ Append(s, g[p]) \in Seq(V_) /\ Len(Append(s, g[p])) = n + 1
      /\ \A i \in 1..n : Append(s, g[p])[i] = s[i]
      /\ Append(s, g[p])[n + 1] = g[p]
  BY <1>5, <1>7, AppendProperties
<1>10. Append(s, g[p]) = [i \in 1..n + 1 |-> Append(s, g[p])[i]]
  <2>1. \A u : u \in Seq(V_) => u = [i \in 1..Len(u) |-> u[i]]
    OBVIOUS
  <2> QED BY <1>9, <2>1
<1>11. \A i \in 1..n + 1 : t[i] = Append(s, g[p])[i]
  BY <1>6, <1>9
<1>12. t = Append(s, g[p])
  BY <1>8, <1>10, <1>11
<1> QED BY <1>12 DEF s, t, more

\* The order of the places to read, and one more place.
LEMMA OrderAppend ==
    ASSUME Position, IsFiniteSet(Read(Places)), NEW set \in SUBSET Read(Places),
           NEW p, Reads(p)
    PROVE  /\ InOrder(set \cup {p}) = Append(InOrder(set), p)
           /\ IsFiniteSet(Read(Places) \cup {p})
           /\ \E n \in Nat : InOrder(set) = [i \in 1..n |-> InOrder(set)[i]]
<1>1. Read(Places) \in SUBSET (Nat \X Nat) /\ p \in Nat \X Nat
  <2>1. \A q \in Places : q \in Nat \X Nat
    BY PlaceIs
  <2> QED BY <2>1 DEF Read, Reads
<1>2. IsFiniteSet(set) /\ IsFiniteSet({p})
  BY FS_Subset, FS_Singleton
<1>3. \A q \in Read(Places) : Before(q, p)
  BY DEF Reads
<1>4. InOrder(set \cup {p}) = Append(InOrder(set), p)
  <2>1. set \in SUBSET (Nat \X Nat) /\ \A q \in set : Before(q, p)
    BY <1>1, <1>3
  <2> QED BY <1>1, <1>2, <2>1, InOrderMore
<1>5. IsFiniteSet(Read(Places) \cup {p})
  BY <1>2, FS_Union
<1> QED BY <1>2, <1>4, <1>5, InOrderDomain

LEMMA ValuesMore ==
    ASSUME Position, IsFiniteSet(Read(Places)), NEW set \in SUBSET Read(Places),
           NEW p, Reads(p)
    PROVE  ValuesAt(set \cup {p}) = Append(ValuesAt(set), CommentAt(p).value)
<1> DEFINE order == InOrder(set)
           more == Append(order, p)
<1>1. PICK n \in Nat : order = [i \in 1..n |-> order[i]]
  BY OrderAppend
<1>2. InOrder(set \cup {p}) = more
  BY OrderAppend
<1> DEFINE S_ == {order[i] : i \in 1..n} \cup {p}
           g == [x \in S_ |-> CommentAt(x).value]
<1> HIDE DEF order
<1>3. order \in Seq(S_) /\ p \in S_
  BY <1>1
<1>4. DOMAIN order = 1..n
  BY <1>1
<1>5. \A i \in DOMAIN order : order[i] \in S_
  BY <1>4
<1>6. more \in Seq(S_)
  <2> HIDE DEF S_
  <2> QED BY <1>3, AppendProperties
<1>7. \A i \in DOMAIN more : more[i] \in S_
  <2> HIDE DEF S_, more
  <2> QED BY <1>6
<1> HIDE DEF more
<1>8. [i \in DOMAIN order |-> g[order[i]]] = [i \in DOMAIN order |-> CommentAt(order[i]).value]
  BY <1>5
<1>9. [i \in DOMAIN more |-> g[more[i]]] = [i \in DOMAIN more |-> CommentAt(more[i]).value]
  BY <1>7
<1>10. g[p] = CommentAt(p).value
  BY <1>3
<1> HIDE DEF g
<1>11. [i \in DOMAIN more |-> g[more[i]]] = Append([i \in DOMAIN order |-> g[order[i]]], g[p])
  BY <1>1, MapAppend DEF more
<1> QED BY <1>2, <1>8, <1>9, <1>10, <1>11 DEF ValuesAt, order

LEMMA PicturesMore ==
    ASSUME Position, IsFiniteSet(Read(Places)), NEW set \in SUBSET Read(Places),
           NEW p, Reads(p)
    PROVE  PicturesIn(InOrder(set \cup {p})) = Append(PicturesIn(InOrder(set)), PictureAt(p))
<1> DEFINE order == InOrder(set)
           more == Append(order, p)
<1>1. PICK n \in Nat : order = [i \in 1..n |-> order[i]]
  BY OrderAppend
<1>2. InOrder(set \cup {p}) = more
  BY OrderAppend
<1> DEFINE S_ == {order[i] : i \in 1..n} \cup {p}
           g == [x \in S_ |-> PictureAt(x)]
<1> HIDE DEF order
<1>3. order \in Seq(S_) /\ p \in S_
  BY <1>1
<1>4. DOMAIN order = 1..n
  BY <1>1
<1>5. \A i \in DOMAIN order : order[i] \in S_
  BY <1>4
<1>6. more \in Seq(S_)
  <2> HIDE DEF S_
  <2> QED BY <1>3, AppendProperties
<1>7. \A i \in DOMAIN more : more[i] \in S_
  <2> HIDE DEF S_, more
  <2> QED BY <1>6
<1> HIDE DEF more
<1>8. [i \in DOMAIN order |-> g[order[i]]] = PicturesIn(order)
  BY <1>5 DEF PicturesIn
<1>9. [i \in DOMAIN more |-> g[more[i]]] = PicturesIn(more)
  BY <1>7 DEF PicturesIn
<1>10. g[p] = PictureAt(p)
  BY <1>3
<1> HIDE DEF g
<1>11. [i \in DOMAIN more |-> g[more[i]]] = Append([i \in DOMAIN order |-> g[order[i]]], g[p])
  BY <1>1, MapAppend DEF more
<1> QED BY <1>2, <1>8, <1>9, <1>10, <1>11 DEF order

LEMMA NothingIn == ValuesAt({}) = <<>> /\ PicturesIn(InOrder({})) = <<>>
<1>1. InOrder({}) = <<>> /\ DOMAIN <<>> = {}
  BY InOrderNone
<1>2. \A f : [n \in {} |-> f[n]] = <<>>
  OBVIOUS
<1>3. ValuesAt({}) = [n \in {} |-> ValuesAt({})[n]]
  BY <1>1 DEF ValuesAt
<1>4. PicturesIn(<<>>) = [n \in {} |-> PicturesIn(<<>>)[n]]
  BY <1>1 DEF PicturesIn
<1> QED BY <1>1, <1>2, <1>3, <1>4

\* The comments of a field.
LEMMA GivenFields ==
    ASSUME Position, NEW fields, NEW q \in Given(fields)
    PROVE  /\ q \in Places /\ CommentAt(q).field \in fields /\ CommentAt(q) \in CommentType
<1>1. q \in CommentPlaces /\ CommentAt(q).field \in fields
  BY DEF Given
<1> QED BY <1>1, PlacesAre DEF Position, Places

LEMMA NumberValue ==
    ASSUME Position, NEW field \in NumberField, NEW q \in Given({field})
    PROVE  CommentAt(q).value \in Seq(Token)
<1>1. CommentAt(q).field \in NumberField /\ CommentAt(q) \in CommentType
  BY GivenFields
<1> QED BY <1>1, CommentFields DEF String

LEMMA AtMostOneIs ==
    ASSUME NEW places, AtMostOne(places), places /= {}
    PROVE  Sole(places) \in places
BY DEF Sole

\* One more comment of a number frame.
First(text) == IF text = <<>> THEN <<>> ELSE Head(text)

LEMMA NumberTextMore ==
    ASSUME Position, NEW field \in NumberField, NEW set \in SUBSET Given({field}),
           AtMostOne(set), NEW other \in NumberField, NEW p \in Given({other})
    PROVE  /\ NumberText({p}, set) = <<CommentAt(p).value \o First(NumberText({}, set))>>
           /\ NumberText(set, {p}) =
                <<First(NumberText(set, {})) \o <<"/">> \o CommentAt(p).value>>
<1> DEFINE value == CommentAt(p).value
           held == CommentAt(Sole(set)).value
           slash == <<"/">>
           number == IF set = {} THEN <<>> ELSE held
           tail == IF set = {} THEN <<>> ELSE slash \o held
<1>1. <<>> \in Seq(Token) /\ slash \in Seq(Token)
  <2>1. "/" \in Token
    BY MetadataAssumption
  <2> QED BY <2>1
<1>2. value \in Seq(Token)
  BY NumberValue
<1>3. set /= {} => held \in Seq(Token)
  BY AtMostOneIs, NumberValue
<1>4. number \in Seq(Token) /\ tail \in Seq(Token)
  <2> HIDE DEF slash, held
  <2> QED BY <1>1, <1>3, ConcatProperties
<1>5. /\ NumberText({p}, set) = <<value \o tail>>
      /\ NumberText(set, {p}) = <<number \o (slash \o value)>>
  BY SoleIs DEF NumberText
<1>6. /\ NumberText({}, set) = IF set = {} THEN <<>> ELSE <<<<>> \o tail>>
      /\ NumberText(set, {}) = IF set = {} THEN <<>> ELSE <<number \o <<>>>>
  BY DEF NumberText
<1>7. set = {} => number = <<>> /\ tail = <<>>
  OBVIOUS
<1> HIDE DEF number, tail, slash, value, held
<1>8. <<>> \o tail = tail /\ number \o <<>> = number
  BY <1>4, ConcatEmptySeq
<1>9. First(<<>>) = <<>> /\ \A x : First(<<x>>) = x
  BY DEF First
<1>10. First(NumberText({}, set)) = tail /\ First(NumberText(set, {})) = number
  BY <1>6, <1>7, <1>8, <1>9
<1>11. (number \o slash) \o value = number \o (slash \o value)
  BY <1>1, <1>2, <1>4, ConcatAssociative
<1> QED BY <1>5, <1>10, <1>11 DEF value, slash

LEMMA NumberKept ==
    ASSUME UNCHANGED <<params, file>>, NEW number, NEW total, NEW frame,
           Read(Given({number}))' = Read(Given({number})),
           Read(Given({total}))' = Read(Given({total})),
           tag'.text[frame] = tag.text[frame], NumberSoFar(number, total, frame)
    PROVE  NumberSoFar(number, total, frame)'
<1>1. NumberText(Read(Given({number})), Read(Given({total})))'
        = NumberText(Read(Given({number})), Read(Given({total})))
  BY DEF NumberText, CommentAt
<1> QED BY <1>1 DEF NumberSoFar, AtMostOne

LEMMA NotYetRead ==
    ASSUME Position, NEW p, Reads(p)
    PROVE  p \notin Read(Places)
<1>1. p[1] \in Nat /\ p[2] \in Nat
  BY PlaceIs DEF Reads
<1>2. ~Before(p, p)
  BY <1>1 DEF Before
<1> QED BY <1>2 DEF Reads

\* The comment at p is added to the frame.
LEMMA NumberRead ==
    ASSUME Position, UNCHANGED <<params, file>>, NEW p, Reads(p),
           NEW number \in NumberField, NEW total \in NumberField, number /= total,
           NEW frame, NumberSoFar(number, total, frame),
           \/ /\ p \in Given({number})
              /\ tag'.text[frame] = <<CommentAt(p).value \o First(tag.text[frame])>>
           \/ /\ p \in Given({total})
              /\ tag'.text[frame] = <<First(tag.text[frame]) \o <<"/">> \o CommentAt(p).value>>
    PROVE  NumberSoFar(number, total, frame)'
<1> DEFINE N_ == Read(Given({number}))
           T_ == Read(Given({total}))
<1>1. /\ N_ \in SUBSET Given({number}) /\ T_ \in SUBSET Given({total})
      /\ N_ \subseteq Read(Places) /\ T_ \subseteq Read(Places)
  BY InPlaces DEF Read
<1>2. N_' = With(N_, Given({number}), p) /\ T_' = With(T_, Given({total}), p)
  BY ReadOne
<1>3. p \notin Read(Places)
  BY NotYetRead
<1>4. p \in Given({number}) => p \notin Given({total})
  BY DEF Given
<1>5. SUFFICES ASSUME AtMostOne(N_)', AtMostOne(T_)'
               PROVE  tag'.text[frame] = NumberText(N_, T_)'
  BY DEF NumberSoFar
<1>6. AtMostOne(With(N_, Given({number}), p)) /\ AtMostOne(With(T_, Given({total}), p))
  BY <1>2, <1>5 DEF AtMostOne
<1>7. NumberText(N_, T_)' = NumberText(With(N_, Given({number}), p),
                                       With(T_, Given({total}), p))
  BY <1>2 DEF NumberText, CommentAt
<1> HIDE DEF N_, T_
<1>8. AtMostOne(N_) /\ AtMostOne(T_)
  BY <1>6 DEF AtMostOne, With
<1>9. tag.text[frame] = NumberText(N_, T_)
  BY <1>8 DEF NumberSoFar, N_, T_
<1>10. CASE /\ p \in Given({number})
            /\ tag'.text[frame] = <<CommentAt(p).value \o First(tag.text[frame])>>
  <2>1. N_ = {}
    BY <1>1, <1>3, <1>6, <1>10 DEF AtMostOne, With
  <2>2. With(N_, Given({number}), p) = {p} /\ With(T_, Given({total}), p) = T_
    BY <1>4, <1>10, <2>1 DEF With
  <2>3. NumberText({p}, T_) = <<CommentAt(p).value \o First(NumberText({}, T_))>>
    BY <1>1, <1>8, <1>10, NumberTextMore
  <2> QED BY <1>7, <1>9, <1>10, <2>1, <2>2, <2>3
<1>11. CASE /\ p \in Given({total})
            /\ tag'.text[frame] = <<First(tag.text[frame]) \o <<"/">> \o CommentAt(p).value>>
  <2>1. T_ = {}
    BY <1>1, <1>3, <1>6, <1>11 DEF AtMostOne, With
  <2>2. With(T_, Given({total}), p) = {p} /\ With(N_, Given({number}), p) = N_
    BY <1>4, <1>11, <2>1 DEF With
  <2>3. NumberText(N_, {p}) = <<First(NumberText(N_, {})) \o <<"/">> \o CommentAt(p).value>>
    BY <1>1, <1>8, <1>11, NumberTextMore
  <2> QED BY <1>7, <1>9, <1>11, <2>1, <2>2, <2>3
<1> QED BY <1>10, <1>11

----
(* What the setters do to the tag *)

LEMMA Frames ==
    /\ {"TRCK", "TPOS", "TSSE", "TLEN"} \subseteq Frame
    /\ \A field \in TextField : /\ TextFrame[field] \in Frame
                                /\ TextFrame[field] \notin {"TRCK", "TPOS", "TSSE", "TLEN"}
    /\ \A frame \in {TextFrame[field] : field \in TextField} :
            frame \in Frame /\ frame \notin {"TRCK", "TPOS", "TSSE", "TLEN"}
    /\ TextField \cap NumberField = {} /\ TextField \cap GainField = {}
    /\ NumberField \cap GainField = {}
    /\ {"METADATA_BLOCK_PICTURE", "other"} \cap (TextField \cup NumberField \cup GainField) = {}
<1>1. /\ TextField \cap (NumberField \cup GainField
                          \cup {"METADATA_BLOCK_PICTURE", "other"}) = {}
      /\ {TextFrame[field] : field \in TextField} \cap {"TRCK", "TPOS", "TSSE", "TLEN"} = {}
  BY MetadataAssumption
<1>2. \A field \in TextField : TextFrame[field] \in {TextFrame[key] : key \in TextField}
  OBVIOUS
<1>3. \A frame \in {TextFrame[field] : field \in TextField} :
            frame \in Frame /\ frame \notin {"TRCK", "TPOS", "TSSE", "TLEN"}
  BY <1>1 DEF Frame
<1>4. {"TRCK", "TPOS", "TSSE", "TLEN"} \subseteq Frame
  BY DEF Frame
<1>5. /\ NumberField \cap GainField = {}
      /\ {"METADATA_BLOCK_PICTURE", "other"} \cap (NumberField \cup GainField) = {}
  BY DEF NumberField, GainField
<1> QED BY <1>1, <1>2, <1>3, <1>4, <1>5

LEMMA AddStringIs ==
    ASSUME NEW old \in TagType, NEW frame \in Frame, NEW value \in String
    PROVE  /\ AddString(old, frame, value) \in TagType
           /\ AddString(old, frame, value).pictures = old.pictures
           /\ AddString(old, frame, value).text[frame] = Append(old.text[frame], value)
           /\ \A other \in Frame \ {frame} :
                AddString(old, frame, value).text[other] = old.text[other]
<1> DEFINE text == [old.text EXCEPT ![frame] = Append(@, value)]
<1>1. old.text \in [Frame -> Seq(String)] /\ old.pictures \in Seq(PictureType)
  BY DEF TagType
<1>2. text \in [Frame -> Seq(String)] /\ text[frame] = Append(old.text[frame], value)
  <2>1. old.text[frame] \in Seq(String)
    BY <1>1
  <2>2. Append(old.text[frame], value) \in Seq(String)
    BY <2>1, AppendProperties
  <2> QED BY <1>1, <2>2
<1>3. \A other \in Frame \ {frame} : text[other] = old.text[other]
  BY <1>1
<1>4. AddString(old, frame, value) = [text |-> text, pictures |-> old.pictures]
  <2> DEFINE more == Append(old.text[frame], value)
  <2>1. AddString(old, frame, value) = [old EXCEPT !.text[frame] = more]
    BY Zenon DEF AddString
  <2>2. text = [old.text EXCEPT ![frame] = more]
    BY Zenon
  <2> HIDE DEF more, text
  <2> QED BY <2>1, <2>2 DEF TagType
<1> QED BY <1>1, <1>2, <1>3, <1>4 DEF TagType

Glued(field, held, value) ==
    IF field \in {"TRACKNUMBER", "DISCNUMBER"} THEN value \o First(held)
    ELSE First(held) \o <<"/">> \o value

LEMMA AddNumberIs ==
    ASSUME NEW old \in TagType, NEW field \in NumberField, NEW value \in String
    PROVE  LET frame == FrameOfNumber(field)
           IN  /\ AddNumber(old, field, value) \in TagType
               /\ AddNumber(old, field, value).pictures = old.pictures
               /\ AddNumber(old, field, value).text[frame]
                    = <<Glued(field, old.text[frame], value)>>
               /\ \A other \in Frame \ {frame} :
                    AddNumber(old, field, value).text[other] = old.text[other]
<1> DEFINE frame == FrameOfNumber(field)
           glued == Glued(field, old.text[frame], value)
           text == [old.text EXCEPT ![frame] = <<glued>>]
<1>1. old.text \in [Frame -> Seq(String)] /\ old.pictures \in Seq(PictureType)
  BY DEF TagType
<1>2. frame \in Frame
  BY Frames DEF FrameOfNumber
<1>3. glued \in String
  <2> DEFINE held == old.text[frame]
             lat == First(held)
             slash == <<"/">>
  <2>1. held \in Seq(String)
    BY <1>1, <1>2
  <2>2. lat \in Seq(Token)
    <3> HIDE DEF held
    <3>1. CASE held = <<>>
      BY <3>1 DEF First
    <3>2. CASE held /= <<>>
      BY <2>1, <3>2, HeadTailProperties DEF First, String
    <3> QED BY <3>1, <3>2
  <2>3. slash \in Seq(Token) /\ value \in Seq(Token)
    <3>1. "/" \in Token
      BY MetadataAssumption
    <3> QED BY <3>1 DEF String
  <2>4. glued = IF field \in {"TRACKNUMBER", "DISCNUMBER"} THEN value \o lat
                ELSE (lat \o slash) \o value
    BY DEF Glued
  <2> HIDE DEF lat, slash, glued
  <2>5. value \o lat \in Seq(Token) /\ (lat \o slash) \o value \in Seq(Token)
    BY <2>2, <2>3, ConcatProperties
  <2> QED BY <2>4, <2>5 DEF String
<1>4. AddNumber(old, field, value) = [text |-> text, pictures |-> old.pictures]
  <2> DEFINE lat == IF old.text[frame] = <<>> THEN <<>> ELSE Head(old.text[frame])
  <2>1. glued = IF field \in {"TRACKNUMBER", "DISCNUMBER"} THEN value \o lat
                ELSE lat \o <<"/">> \o value
    BY DEF Glued, First
  <2>2. AddNumber(old, field, value) = [old EXCEPT !.text[frame] = <<glued>>]
    BY <2>1, Zenon DEF AddNumber
  <2> HIDE DEF glued, frame
  <2> QED BY <2>2 DEF TagType
<1>5. text \in [Frame -> Seq(String)] /\ text[frame] = <<glued>>
  <2> HIDE DEF glued, frame
  <2>1. <<glued>> \in Seq(String)
    BY <1>3
  <2> QED BY <1>1, <1>2, <2>1
<1>6. \A other \in Frame \ {frame} : text[other] = old.text[other]
  <2> HIDE DEF glued, frame
  <2> QED BY <1>1
<1> HIDE DEF glued
<1>7. /\ AddNumber(old, field, value) \in TagType
      /\ AddNumber(old, field, value).pictures = old.pictures
      /\ AddNumber(old, field, value).text[frame] = <<glued>>
      /\ \A other \in Frame \ {frame} :
            AddNumber(old, field, value).text[other] = old.text[other]
  BY <1>1, <1>4, <1>5, <1>6 DEF TagType
<1> QED BY <1>7 DEF glued

LEMMA AddPictureIs ==
    ASSUME NEW old \in TagType, NEW picture \in PictureType
    PROVE  /\ set_picture_tag(old, picture) \in TagType
           /\ set_picture_tag(old, picture).text = old.text
           /\ set_picture_tag(old, picture).pictures = Append(old.pictures, picture)
<1>1. old.text \in [Frame -> Seq(String)] /\ old.pictures \in Seq(PictureType)
  BY DEF TagType
<1>2. Append(old.pictures, picture) \in Seq(PictureType)
  BY <1>1, AppendProperties
<1>3. set_picture_tag(old, picture)
        = [text |-> old.text, pictures |-> Append(old.pictures, picture)]
  <2> DEFINE more == Append(old.pictures, picture)
  <2>1. set_picture_tag(old, picture) = [old EXCEPT !.pictures = more]
    BY Zenon DEF set_picture_tag
  <2> HIDE DEF more
  <2>2. [old EXCEPT !.pictures = more] = [text |-> old.text, pictures |-> more]
    BY DEF TagType
  <2> QED BY <2>1, <2>2 DEF more
<1> QED BY <1>1, <1>2, <1>3 DEF TagType

----
(* The frames of text *)

\* No text is read, and no frame changes but for the length.
LEMMA TextsKept ==
    ASSUME UNCHANGED <<params, file>>, NumbersSoFar, TextsSoFar,
           \A fields \in SUBSET (TextField \cup NumberField) :
                Read(Given(fields))' = Read(Given(fields)),
           \A frame \in Frame \ {"TLEN"} : tag'.text[frame] = tag.text[frame],
           tag'.text["TLEN"] = IF HasLength' THEN <<file.length>> ELSE <<>>
    PROVE  NumbersSoFar' /\ TextsSoFar'
<1>1. \A field \in NumberField : Read(Given({field}))' = Read(Given({field}))
  OBVIOUS
<1>2. {"TRACKNUMBER", "TRACKTOTAL", "DISCNUMBER", "DISCTOTAL"} \subseteq NumberField
  BY DEF NumberField
<1>3. {"TRCK", "TPOS", "TSSE"} \subseteq Frame \ {"TLEN"}
  BY Frames
<1>4. NumberSoFar("TRACKNUMBER", "TRACKTOTAL", "TRCK")'
  <2>1. NumberSoFar("TRACKNUMBER", "TRACKTOTAL", "TRCK")
    BY DEF NumbersSoFar
  <2>2. tag'.text["TRCK"] = tag.text["TRCK"]
    BY <1>3
  <2> QED BY <1>1, <1>2, <2>1, <2>2, NumberKept
<1>5. NumberSoFar("DISCNUMBER", "DISCTOTAL", "TPOS")'
  <2>1. NumberSoFar("DISCNUMBER", "DISCTOTAL", "TPOS")
    BY DEF NumbersSoFar
  <2>2. tag'.text["TPOS"] = tag.text["TPOS"]
    BY <1>3
  <2> QED BY <1>1, <1>2, <2>1, <2>2, NumberKept
<1>6. ASSUME NEW frame \in {TextFrame[field] : field \in TextField}
      PROVE  tag'.text[frame] = ValuesAt(Read(Given(FieldsOf(frame))))'
  <2>1. Read(Given(FieldsOf(frame)))' = Read(Given(FieldsOf(frame)))
    <3>1. FieldsOf(frame) \in SUBSET (TextField \cup NumberField)
      BY DEF FieldsOf
    <3> QED BY <3>1
  <2>2. ValuesAt(Read(Given(FieldsOf(frame))))' = ValuesAt(Read(Given(FieldsOf(frame))))
    BY <2>1 DEF ValuesAt, CommentAt
  <2>3. tag'.text[frame] = tag.text[frame]
    BY Frames
  <2> QED BY <2>2, <2>3 DEF TextsSoFar
<1>7. tag'.text["TSSE"] = <<<<"MP3FS">>>>
  BY <1>3 DEF TextsSoFar
<1> QED BY <1>4, <1>5, <1>6, <1>7 DEF NumbersSoFar, TextsSoFar

\* A text is read.
LEMMA TextRead ==
    ASSUME Position, IsFiniteSet(Read(Places)), tag \in TagType, UNCHANGED <<params, file>>,
           HasLength' = HasLength, NumbersSoFar, TextsSoFar,
           NEW p, Reads(p), NEW comment \in CommentType, comment = CommentAt(p),
           \A fields : p \in Given(fields) <=> comment.field \in fields,
           comment.field \in TextField, tag' = set_text_tag(tag, comment)
    PROVE  tag' \in TagType /\ tag'.pictures = tag.pictures /\ NumbersSoFar' /\ TextsSoFar'
<1> DEFINE frame == TextFrame[comment.field]
<1>1. /\ frame \in Frame /\ frame \notin {"TRCK", "TPOS", "TSSE", "TLEN"}
      /\ {"TRCK", "TPOS", "TSSE", "TLEN"} \subseteq Frame
      /\ comment.value \in String
  BY Frames, CommentFields
<1>2. tag' = AddString(tag, frame, comment.value)
  BY DEF set_text_tag
<1>3. /\ tag' \in TagType /\ tag'.pictures = tag.pictures
      /\ tag'.text[frame] = Append(tag.text[frame], comment.value)
      /\ \A other \in Frame \ {frame} : tag'.text[other] = tag.text[other]
  <2> DEFINE value == comment.value
             more == AddString(tag, frame, value)
  <2>1. frame \in Frame /\ value \in String
    BY <1>1
  <2> HIDE DEF frame, value
  <2>2. /\ more \in TagType /\ more.pictures = tag.pictures
        /\ more.text[frame] = Append(tag.text[frame], value)
        /\ \A other \in Frame \ {frame} : more.text[other] = tag.text[other]
    BY <2>1, AddStringIs
  <2>3. tag' = more
    BY <1>2 DEF value
  <2> HIDE DEF more
  <2> QED BY <2>2, <2>3 DEF value
<1>4. \A fields : comment.field \notin fields =>
            Read(Given(fields))' = Read(Given(fields))
  BY ReadOne DEF With
<1>5. /\ tag'.text["TRCK"] = tag.text["TRCK"] /\ tag'.text["TPOS"] = tag.text["TPOS"]
      /\ tag'.text["TSSE"] = tag.text["TSSE"] /\ tag'.text["TLEN"] = tag.text["TLEN"]
  BY <1>1, <1>3
<1>6. NumbersSoFar'
  <2>1. \A field \in NumberField : Read(Given({field}))' = Read(Given({field}))
    <3>1. comment.field \notin NumberField
      BY Frames
    <3> QED BY <1>4, <3>1
  <2>2. {"TRACKNUMBER", "TRACKTOTAL", "DISCNUMBER", "DISCTOTAL"} \subseteq NumberField
    BY DEF NumberField
  <2>3. /\ NumberSoFar("TRACKNUMBER", "TRACKTOTAL", "TRCK")
        /\ NumberSoFar("DISCNUMBER", "DISCTOTAL", "TPOS")
    BY DEF NumbersSoFar
  <2>4. NumberSoFar("TRACKNUMBER", "TRACKTOTAL", "TRCK")'
    BY <1>5, <2>1, <2>2, <2>3, NumberKept
  <2>5. NumberSoFar("DISCNUMBER", "DISCTOTAL", "TPOS")'
    BY <1>5, <2>1, <2>2, <2>3, NumberKept
  <2> QED BY <2>4, <2>5 DEF NumbersSoFar
<1>7. ASSUME NEW f \in {TextFrame[field] : field \in TextField}
      PROVE  tag'.text[f] = ValuesAt(Read(Given(FieldsOf(f))))'
  <2> DEFINE set == Read(Given(FieldsOf(f)))
  <2>1. f \in Frame /\ tag.text[f] = ValuesAt(set)
    BY Frames DEF TextsSoFar
  <2>2. CASE f = frame
    <3>1. comment.field \in FieldsOf(f)
      BY <2>2 DEF FieldsOf
    <3>2. set' = set \cup {p}
      BY <3>1, ReadOne DEF With
    <3>3. ValuesAt(set)' = ValuesAt(set \cup {p})
      BY <3>2 DEF ValuesAt, CommentAt
    <3>4. set \in SUBSET Read(Places)
      BY InPlaces DEF Read
    <3> HIDE DEF set
    <3>5. ValuesAt(set \cup {p}) = Append(ValuesAt(set), CommentAt(p).value)
      BY <3>4, ValuesMore
    <3> QED BY <1>3, <2>1, <2>2, <3>3, <3>5 DEF set
  <2>3. CASE f /= frame
    <3>1. comment.field \notin FieldsOf(f)
      BY <2>3 DEF FieldsOf
    <3>2. set' = set
      BY <1>4, <3>1
    <3>3. ValuesAt(set)' = ValuesAt(set)
      BY <3>2 DEF ValuesAt, CommentAt
    <3>4. tag'.text[f] = tag.text[f]
      <4> HIDE DEF frame
      <4> QED BY <1>3, <2>1, <2>3
    <3> QED BY <2>1, <3>3, <3>4
  <2> QED BY <2>2, <2>3
<1>8. TextsSoFar'
  <2>1. /\ tag'.text["TSSE"] = <<<<"MP3FS">>>>
        /\ tag'.text["TLEN"] = IF HasLength' THEN <<file.length>> ELSE <<>>
    BY <1>5 DEF TextsSoFar
  <2> QED BY <1>7, <2>1 DEF TextsSoFar
<1> QED BY <1>3, <1>6, <1>8

\* A number is read.
LEMMA NumberIsRead ==
    ASSUME Position, tag \in TagType, UNCHANGED <<params, file>>,
           HasLength' = HasLength, NumbersSoFar, TextsSoFar,
           NEW p, Reads(p), NEW comment \in CommentType, comment = CommentAt(p),
           \A fields : p \in Given(fields) <=> comment.field \in fields,
           comment.field \in NumberField, tag' = set_text_tag(tag, comment)
    PROVE  tag' \in TagType /\ tag'.pictures = tag.pictures /\ NumbersSoFar' /\ TextsSoFar'
<1> DEFINE frame == FrameOfNumber(comment.field)
<1>1. /\ comment.field \notin TextField /\ comment.value \in String
      /\ {"TRCK", "TPOS", "TSSE", "TLEN"} \subseteq Frame
  BY Frames, CommentFields
<1>2. tag' = AddNumber(tag, comment.field, comment.value)
  BY <1>1 DEF set_text_tag
<1>3. /\ tag' \in TagType /\ tag'.pictures = tag.pictures
      /\ tag'.text[frame] = <<Glued(comment.field, tag.text[frame], comment.value)>>
      /\ \A other \in Frame \ {frame} : tag'.text[other] = tag.text[other]
  BY <1>1, <1>2, AddNumberIs
<1>4. \A fields : comment.field \notin fields =>
            Read(Given(fields))' = Read(Given(fields))
  BY ReadOne DEF With
<1>5. /\ frame \in {"TRCK", "TPOS"}
      /\ tag'.text["TSSE"] = tag.text["TSSE"] /\ tag'.text["TLEN"] = tag.text["TLEN"]
  <2>1. frame \in {"TRCK", "TPOS"}
    BY DEF FrameOfNumber
  <2> HIDE DEF frame
  <2> QED BY <1>1, <1>3, <2>1
<1>6. /\ NumberSoFar("TRACKNUMBER", "TRACKTOTAL", "TRCK")
      /\ NumberSoFar("DISCNUMBER", "DISCTOTAL", "TPOS")
  BY DEF NumbersSoFar
<1>7. {"TRACKNUMBER", "TRACKTOTAL", "DISCNUMBER", "DISCTOTAL"} \subseteq NumberField
  BY DEF NumberField
<1>8. NumbersSoFar'
  <2>1. CASE comment.field \in {"TRACKNUMBER", "TRACKTOTAL"}
    <3>1. frame = "TRCK"
      BY <2>1 DEF FrameOfNumber
    <3>2. tag'.text["TPOS"] = tag.text["TPOS"]
      BY <1>1, <1>3, <3>1
    <3>3. /\ Read(Given({"DISCNUMBER"}))' = Read(Given({"DISCNUMBER"}))
          /\ Read(Given({"DISCTOTAL"}))' = Read(Given({"DISCTOTAL"}))
      BY <1>4, <2>1
    <3>4. NumberSoFar("DISCNUMBER", "DISCTOTAL", "TPOS")'
      BY <1>6, <3>2, <3>3, NumberKept
    <3>5. \/ /\ p \in Given({"TRACKNUMBER"})
             /\ tag'.text["TRCK"] = <<CommentAt(p).value \o First(tag.text["TRCK"])>>
          \/ /\ p \in Given({"TRACKTOTAL"})
             /\ tag'.text["TRCK"] =
                    <<First(tag.text["TRCK"]) \o <<"/">> \o CommentAt(p).value>>
      BY <1>3, <2>1, <3>1 DEF Glued
    <3>6. NumberSoFar("TRACKNUMBER", "TRACKTOTAL", "TRCK")'
      BY <1>6, <1>7, <3>5, NumberRead
    <3> QED BY <3>4, <3>6 DEF NumbersSoFar
  <2>2. CASE comment.field \in {"DISCNUMBER", "DISCTOTAL"}
    <3>1. frame = "TPOS"
      BY <2>2 DEF FrameOfNumber
    <3>2. tag'.text["TRCK"] = tag.text["TRCK"]
      BY <1>1, <1>3, <3>1
    <3>3. /\ Read(Given({"TRACKNUMBER"}))' = Read(Given({"TRACKNUMBER"}))
          /\ Read(Given({"TRACKTOTAL"}))' = Read(Given({"TRACKTOTAL"}))
      BY <1>4, <2>2
    <3>4. NumberSoFar("TRACKNUMBER", "TRACKTOTAL", "TRCK")'
      BY <1>6, <3>2, <3>3, NumberKept
    <3>5. \/ /\ p \in Given({"DISCNUMBER"})
             /\ tag'.text["TPOS"] = <<CommentAt(p).value \o First(tag.text["TPOS"])>>
          \/ /\ p \in Given({"DISCTOTAL"})
             /\ tag'.text["TPOS"] =
                    <<First(tag.text["TPOS"]) \o <<"/">> \o CommentAt(p).value>>
      BY <1>3, <2>2, <3>1 DEF Glued
    <3>6. NumberSoFar("DISCNUMBER", "DISCTOTAL", "TPOS")'
      BY <1>6, <1>7, <3>5, NumberRead
    <3> QED BY <3>4, <3>6 DEF NumbersSoFar
  <2> QED BY <2>1, <2>2 DEF NumberField
<1>9. ASSUME NEW f \in {TextFrame[field] : field \in TextField}
      PROVE  tag'.text[f] = ValuesAt(Read(Given(FieldsOf(f))))'
  <2> DEFINE set == Read(Given(FieldsOf(f)))
  <2>1. /\ f \in Frame /\ f \notin {"TRCK", "TPOS", "TSSE", "TLEN"}
        /\ tag.text[f] = ValuesAt(set)
    BY Frames DEF TextsSoFar
  <2>2. set' = set
    <3>1. comment.field \notin FieldsOf(f)
      BY <1>1 DEF FieldsOf
    <3> QED BY <1>4, <3>1
  <2>3. ValuesAt(set)' = ValuesAt(set)
    BY <2>2 DEF ValuesAt, CommentAt
  <2>4. tag'.text[f] = tag.text[f]
    <3> HIDE DEF frame
    <3> QED BY <1>3, <1>5, <2>1
  <2> QED BY <2>1, <2>3, <2>4
<1>10. TextsSoFar'
  <2>1. /\ tag'.text["TSSE"] = <<<<"MP3FS">>>>
        /\ tag'.text["TLEN"] = IF HasLength' THEN <<file.length>> ELSE <<>>
    BY <1>5 DEF TextsSoFar
  <2> QED BY <1>9, <2>1 DEF TextsSoFar
<1> QED BY <1>3, <1>8, <1>10

----
(* The gain comments *)

LEMMA GainsStart ==
    ASSUME gains' = NoGains, Heard' = 0
    PROVE  GainsSoFar'
<1>1. gains' \in [GainField -> Int] /\ \A field \in GainField : gains'[field] = kInvalidDb
  BY DEF NoGains, kInvalidDb
<1>2. \A field : LastGainUpTo(List', Heard', field) = kInvalidDb
  <2>1. 0 \in Nat
    OBVIOUS
  <2> QED BY <2>1, LastGainStep
<1> QED BY <1>1, <1>2 DEF GainsSoFar

\* The next comment is read.
LEMMA GainsMore ==
    ASSUME Position, pc = "comments", comments /= <<>>, GainsSoFar,
           List' = List, Heard' = Heard + 1,
           \/ Head(comments).field \notin GainField /\ gains' = gains
           \/ /\ Head(comments).field \in GainField
              /\ gains' = [gains EXCEPT ![Head(comments).field] = Head(comments).gain]
    PROVE  GainsSoFar'
<1> DEFINE comment == Head(comments)
           k == Heard
<1>1. k \in Nat /\ comment = List[k + 1] /\ comment \in CommentType
  BY NextComment
<1>2. /\ gains \in [GainField -> Int]
      /\ \A field \in GainField : gains[field] = LastGainUpTo(List, k, field)
  BY DEF GainsSoFar
<1>3. comment.field \in GainField => comment.gain \in Int
  BY <1>1, CommentFields
<1> HIDE DEF comment, k
<1>4. \A field : LastGainUpTo(List, k + 1, field) =
            IF comment.field = field THEN comment.gain ELSE LastGainUpTo(List, k, field)
  BY <1>1, LastGainStep
<1>5. /\ gains' \in [GainField -> Int]
      /\ \A field \in GainField : gains'[field] = LastGainUpTo(List, k + 1, field)
  <2>1. CASE comment.field \notin GainField /\ gains' = gains
    BY <1>2, <1>4, <2>1
  <2>2. CASE /\ comment.field \in GainField
             /\ gains' = [gains EXCEPT ![comment.field] = comment.gain]
    BY <1>2, <1>3, <1>4, <2>2
  <2> QED BY <2>1, <2>2 DEF comment
<1> QED BY <1>5 DEF GainsSoFar, k

----
(* The pictures *)

\* What a picture comment decodes to is the picture that is whole in it.
LEMMA DecodeIsKnown ==
    ASSUME EveryPictureIsKnown, Position, NEW q \in CommentPlaces,
           CommentAt(q).field = "METADATA_BLOCK_PICTURE"
    PROVE  /\ decode(CommentAt(q).data) = Whole(CommentAt(q))
           /\ Whole(CommentAt(q)) \subseteq PictureType
           /\ \A picture \in Whole(CommentAt(q)) : picture = Sole(Whole(CommentAt(q)))
<1> DEFINE comment == CommentAt(q)
           data == comment.data
<1>1. /\ file \in Files /\ q[1] \in DOMAIN file.blocks
      /\ file.blocks[q[1]].type = "VORBIS_COMMENT"
      /\ q[2] \in DOMAIN file.blocks[q[1]].comments
      /\ comment \in CommentType
      /\ comment = file.blocks[q[1]].comments[q[2]]
  <2>1. /\ file \in Files /\ q[1] \in 1..Len(file.blocks)
        /\ file.blocks[q[1]].type = "VORBIS_COMMENT"
        /\ q[2] \in 1..Len(file.blocks[q[1]].comments)
        /\ comment \in CommentType
    BY PlacesAre DEF Position
  <2>2. comment = file.blocks[q[1]].comments[q[2]]
    BY DEF CommentAt
  <2> QED BY <2>1, <2>2, FileFields, CommentsType
<1>2. data \in Seq(PictureByte)
  BY <1>1, CommentFields
<1>3. decode(data) = {p \in PictureType : Fits(p) /\ IsWhole(p, data)}
  BY <1>2, DecodeIsWhole
<1>4. \A p \in PictureType : Fits(p) /\ IsWhole(p, data) => p \in Pictures
  <2> DEFINE n == q[1]
             k == q[2]
  <2>1. /\ n \in DOMAIN file.blocks /\ file.blocks[n].type = "VORBIS_COMMENT"
        /\ k \in DOMAIN file.blocks[n].comments /\ comment = file.blocks[n].comments[k]
    BY <1>1
  <2> HIDE DEF n, k, comment
  <2>2. file \in Files /\ comment.field = "METADATA_BLOCK_PICTURE"
    BY <1>1 DEF comment
  <2>3. file.blocks[n].comments[k].field = "METADATA_BLOCK_PICTURE"
        => \A picture \in PictureType :
                Fits(picture) /\ IsWhole(picture, file.blocks[n].comments[k].data)
                => picture \in Pictures
    BY <2>1, <2>2, Zenon DEF EveryPictureIsKnown
  <2> QED BY <2>1, <2>2, <2>3
<1>5. Pictures \subseteq PictureType /\ \A p \in Pictures : Fits(p)
  BY MetadataAssumption
<1>6. Whole(comment) = {p \in Pictures : IsWhole(p, data)}
  BY DEF Whole
<1>7. decode(data) = Whole(comment)
  <2> HIDE DEF comment, data
  <2> QED BY <1>3, <1>4, <1>5, <1>6
<1>8. \A x, y \in decode(data) : x = y
  BY DEF decode
<1>9. \A picture \in Whole(comment) : picture = Sole(Whole(comment))
  <2> HIDE DEF comment, data
  <2> QED BY <1>7, <1>8 DEF Sole
<1> QED BY <1>5, <1>6, <1>7, <1>9

LEMMA PicturesKept ==
    ASSUME UNCHANGED <<params, file>>, tag'.pictures = tag.pictures,
           Read(PicturesGiven)' = Read(PicturesGiven), PicturesSoFar
    PROVE  PicturesSoFar'
<1>1. PicturesIn(InOrder(Read(PicturesGiven)))' = PicturesIn(InOrder(Read(PicturesGiven)))
  BY DEF PicturesIn, InOrder, PictureAt, CommentAt, Before
<1> QED BY <1>1 DEF PicturesSoFar

LEMMA PictureRead ==
    ASSUME Position, IsFiniteSet(Read(Places)), UNCHANGED <<params, file>>,
           NEW p \in PicturesGiven, Reads(p),
           tag'.pictures = Append(tag.pictures, PictureAt(p)), PicturesSoFar
    PROVE  PicturesSoFar'
<1> DEFINE set == Read(PicturesGiven)
<1>1. set' = set \cup {p}
  BY ReadOne DEF With
<1>2. PicturesIn(InOrder(set))' = PicturesIn(InOrder(set \cup {p}))
  BY <1>1 DEF PicturesIn, InOrder, PictureAt, CommentAt, Before
<1>3. set \in SUBSET Read(Places)
  BY InPlaces DEF Read
<1>4. tag.pictures = PicturesIn(InOrder(set))
  BY DEF PicturesSoFar
<1>5. tag'.pictures = PicturesIn(InOrder(set))' => PicturesSoFar'
  BY DEF PicturesSoFar
<1> HIDE DEF set
<1>6. PicturesIn(InOrder(set \cup {p})) = Append(PicturesIn(InOrder(set)), PictureAt(p))
  BY <1>3, PicturesMore
<1> QED BY <1>2, <1>4, <1>5, <1>6

\* A comment that brings no picture.
LEMMA NoPicture ==
    ASSUME UNCHANGED <<params, file>>, NEW p \in CommentPlaces, Reads(p), Position,
           tag'.pictures = tag.pictures, PicturesSoFar,
           file.kind = "flac" \/ CommentAt(p).field /= "METADATA_BLOCK_PICTURE"
                \/ Whole(CommentAt(p)) = {}
    PROVE  PicturesSoFar'
<1>1. p \notin PicturesGiven
  <2>1. CASE file.kind = "flac"
    <3>1. p[2] /= 0
      <4>1. p[2] \in 1..Len(file.blocks[p[1]].comments)
        BY PlacesAre DEF Position
      <4> QED BY <4>1
    <3>2. p \notin PicturePlaces
      BY <3>1, PlacesAre DEF Position
    <3> QED BY <2>1, <3>2 DEF PicturesGiven
  <2>2. CASE file.kind /= "flac"
    BY <2>2 DEF PicturesGiven, Given
  <2> QED BY <2>1, <2>2
<1>2. Read(PicturesGiven)' = Read(PicturesGiven)
  BY <1>1, ReadOne DEF With
<1> QED BY <1>2, PicturesKept

----
(* The invariant *)

LEMMA SoFarInit == Init => SoFar
<1> SUFFICES ASSUME Init PROVE SoFar
  OBVIOUS
<1>1. Position /\ pc = "opened" /\ file \in Files
  BY PositionInit DEF Init
<1>2. /\ Read(Places) = {} /\ Read(PicturesGiven) = {}
      /\ \A fields : Read(Given(fields)) = {}
  BY <1>1, NoneRead
<1> DEFINE empty == [text |-> [frame \in Frame |-> <<>>], pictures |-> <<>>]
           name == <<"MP3FS">>
<1>3. empty \in TagType /\ name \in String
  <2>1. "MP3FS" \in Token
    BY MetadataAssumption
  <2>2. empty \in TagType
    BY DEF TagType
  <2> QED BY <2>1, <2>2 DEF String
<1>4. /\ "TSSE" \in Frame /\ \A frame \in Frame : empty.text[frame] = <<>>
      /\ empty.pictures = <<>> /\ {"TRCK", "TPOS", "TLEN"} \subseteq Frame \ {"TSSE"}
  BY Frames
<1>5. tag = AddString(empty, "TSSE", name)
  BY DEF Init
<1> HIDE DEF empty, name
<1>6. /\ tag \in TagType /\ tag.pictures = <<>>
      /\ tag.text["TSSE"] = Append(<<>>, name)
      /\ \A frame \in Frame \ {"TSSE"} : tag.text[frame] = <<>>
  <2> DEFINE more == AddString(empty, "TSSE", name)
  <2>1. /\ more \in TagType /\ more.pictures = empty.pictures
        /\ more.text["TSSE"] = Append(empty.text["TSSE"], name)
        /\ \A frame \in Frame \ {"TSSE"} : more.text[frame] = empty.text[frame]
    BY <1>3, <1>4, AddStringIs
  <2> HIDE DEF more
  <2>2. tag = more
    BY <1>5 DEF more
  <2> QED BY <1>4, <2>1, <2>2
<1>7. GainsSoFar /\ ScaleSoFar
  <2>1. Blocks = 0 /\ scale = kInvalidDb
    BY <1>1 DEF Position, Init
  <2> QED BY <1>1, <2>1, LevelNone DEF GainsSoFar, ScaleSoFar
<1>8. NumbersSoFar
  BY <1>2, <1>4, <1>6 DEF NumbersSoFar, NumberSoFar, NumberText
<1>9. TextsSoFar
  <2>1. ~HasLength
    BY <1>1 DEF HasLength
  <2>2. tag.text["TSSE"] = <<<<"MP3FS">>>> /\ tag.text["TLEN"] = <<>>
    BY <1>4, <1>6 DEF name
  <2>3. ASSUME NEW frame \in {TextFrame[field] : field \in TextField}
        PROVE  tag.text[frame] = ValuesAt(Read(Given(FieldsOf(frame))))
    <3>1. frame \in Frame \ {"TSSE"}
      BY Frames
    <3> QED BY <1>2, <1>6, <3>1, NothingIn
  <2> QED BY <2>1, <2>2, <2>3 DEF TextsSoFar
<1>10. PicturesSoFar
  BY <1>2, <1>6, NothingIn DEF PicturesSoFar
<1>11. IsFiniteSet(Read(Places))
  BY <1>2, FS_EmptySet
<1> QED BY <1>1, <1>6, <1>7, <1>8, <1>9, <1>10, <1>11 DEF SoFar

\* What a step that reads no text and no picture, and does not touch the tag,
\* leaves as it is.
LEMMA TagKept ==
    ASSUME SoFar, pc /= "failed", UNCHANGED <<params, file, tag>>, ReadsNone,
           HasLength' = HasLength
    PROVE  /\ tag' \in TagType /\ IsFiniteSet(Read(Places))'
           /\ NumbersSoFar' /\ TextsSoFar'
           /\ EveryPictureIsKnown => PicturesSoFar'
<1>1. /\ tag \in TagType /\ IsFiniteSet(Read(Places)) /\ NumbersSoFar /\ TextsSoFar
      /\ EveryPictureIsKnown => PicturesSoFar
  BY DEF SoFar
<1>2. /\ Read(Places)' = Read(Places)
      /\ \A fields : Read(Given(fields))' = Read(Given(fields))
      /\ Read(PicturesGiven)' = Read(PicturesGiven)
  BY ReadNone
<1>3. tag'.text["TLEN"] = IF HasLength' THEN <<file.length>> ELSE <<>>
  BY <1>1 DEF TextsSoFar
<1>4. NumbersSoFar' /\ TextsSoFar'
  BY <1>1, <1>2, <1>3, TextsKept
<1>5. EveryPictureIsKnown => PicturesSoFar'
  BY <1>1, <1>2, PicturesKept
<1> QED BY <1>1, <1>2, <1>4, <1>5

\* The parameters of the stream are set.
LEMMA LengthSet ==
    ASSUME SoFar, pc /= "failed", UNCHANGED <<params, file>>, ReadsNone,
           tag' = AddString(tag, "TLEN", file.length), ~HasLength, HasLength'
    PROVE  /\ tag' \in TagType /\ IsFiniteSet(Read(Places))'
           /\ NumbersSoFar' /\ TextsSoFar'
           /\ EveryPictureIsKnown => PicturesSoFar'
<1>1. /\ tag \in TagType /\ IsFiniteSet(Read(Places)) /\ NumbersSoFar /\ TextsSoFar
      /\ EveryPictureIsKnown => PicturesSoFar /\ file \in Files
  BY DEF SoFar, Position
<1>2. /\ Read(Places)' = Read(Places)
      /\ \A fields : Read(Given(fields))' = Read(Given(fields))
      /\ Read(PicturesGiven)' = Read(PicturesGiven)
  BY ReadNone
<1>3. "TLEN" \in Frame /\ file.length \in String
  <2>1. file \in Files
    BY DEF SoFar, Position
  <2> QED BY <2>1, Frames, FileFields
<1>4. /\ tag' \in TagType /\ tag'.pictures = tag.pictures
      /\ tag'.text["TLEN"] = Append(tag.text["TLEN"], file.length)
      /\ \A frame \in Frame \ {"TLEN"} : tag'.text[frame] = tag.text[frame]
  BY <1>1, <1>3, AddStringIs
<1>5. tag'.text["TLEN"] = IF HasLength' THEN <<file.length>> ELSE <<>>
  <2>1. tag.text["TLEN"] = <<>>
    BY <1>1 DEF TextsSoFar
  <2> QED BY <1>4, <2>1
<1>6. NumbersSoFar' /\ TextsSoFar'
  BY <1>1, <1>2, <1>4, <1>5, TextsKept
<1>7. EveryPictureIsKnown => PicturesSoFar'
  BY <1>1, <1>2, <1>4, PicturesKept
<1> QED BY <1>1, <1>2, <1>4, <1>6, <1>7

\* Between two blocks, nothing is known of gains but what LAME has been given.
LEMMA ScaleKept ==
    ASSUME SoFar, pc \notin {"failed", "comments"}, UNCHANGED <<params, file, scale>>,
           \/ Blocks' = Blocks /\ pc' /= "comments"
           \/ Blocks' = Blocks + 1 /\ pc' = "comments"
           \/ /\ Blocks' = Blocks + 1 /\ pc' /= "comments" /\ pc = "blocks"
              /\ blocks /= <<>> /\ Head(blocks).type /= "VORBIS_COMMENT"
    PROVE  ScaleSoFar'
<1> DEFINE n == Blocks
<1>1. scale = LevelAfter(n) /\ Position /\ n \in Nat
  <2>1. scale = LevelAfter(Blocks) /\ Position
    BY DEF SoFar, ScaleSoFar
  <2>2. Blocks \in Nat
    <3>1. Len(file.blocks) \in Nat
      BY <2>1, FileFields DEF Position
    <3> QED BY <2>1, <3>1 DEF Position
  <2> QED BY <2>1, <2>2
<1> DEFINE m == IF pc' = "comments" THEN Blocks' - 1 ELSE Blocks'
<1>2. \A k : LevelAfter(k)' = LevelAfter(k)
  BY LevelKept
<1>3. scale' = LevelAfter(m) => ScaleSoFar'
  <2>1. LevelAfter(m) = LevelAfter(IF pc = "comments" THEN Blocks - 1 ELSE Blocks)'
    BY DEF LevelAfter, Lists, HasGain, Level, GainSource
  <2> QED BY <2>1 DEF ScaleSoFar
<1>4. CASE Blocks' = Blocks /\ pc' /= "comments"
  BY <1>1, <1>3, <1>4
<1>5. CASE Blocks' = Blocks + 1 /\ pc' = "comments"
  <2>1. m = n
    BY <1>1, <1>5
  <2> QED BY <1>1, <1>3, <2>1
<1>6. CASE /\ Blocks' = Blocks + 1 /\ pc' /= "comments" /\ pc = "blocks"
           /\ blocks /= <<>> /\ Head(blocks).type /= "VORBIS_COMMENT"
  <2>1. n + 1 \in 1..Len(file.blocks) /\ file.blocks[n + 1].type /= "VORBIS_COMMENT"
    BY <1>1, <1>6, NextBlock
  <2>2. LevelAfter(n + 1) = LevelAfter(n)
    <3>1. file \in Files
      BY <1>1 DEF Position
    <3> HIDE DEF n
    <3> QED BY <1>1, <2>1, <3>1, LevelStep
  <2>3. m = n + 1
    BY <1>6
  <2> QED BY <1>1, <1>3, <2>2, <2>3
<1> QED BY <1>4, <1>5, <1>6

\* What a step that reads a comment does to what is not the tag.
LEMMA CommentStep ==
    ASSUME SoFar, NEW fields, TakeComment(fields), pc' = "comments",
           \/ Head(comments).field \notin GainField /\ gains' = gains
           \/ /\ Head(comments).field \in GainField
              /\ gains' = [gains EXCEPT ![Head(comments).field] = Head(comments).gain]
    PROVE  LET p == <<Blocks, Heard + 1>>
           IN  /\ Position' /\ GainsSoFar' /\ ScaleSoFar' /\ HasLength' = HasLength
               /\ IsFiniteSet(Read(Places))'
               /\ Reads(p) /\ p \in CommentPlaces /\ CommentAt(p) = Head(comments)
               /\ \A set : p \in Given(set) <=> Head(comments).field \in set
               /\ Head(comments) \in CommentType /\ Head(comments).field \in fields
<1> DEFINE p == <<Blocks, Heard + 1>>
<1>1. /\ Position /\ pc = "comments" /\ comments /= <<>> /\ comments' = Tail(comments)
      /\ UNCHANGED <<params, file, blocks, scale>> /\ Head(comments).field \in fields
      /\ GainsSoFar /\ ScaleSoFar /\ IsFiniteSet(Read(Places))
  BY DEF SoFar, TakeComment
<1>2. Position' /\ Blocks' = Blocks /\ List' = List /\ Heard' = Heard + 1
  BY <1>1, PositionComment
<1>3. /\ Reads(p) /\ p \in CommentPlaces /\ CommentAt(p) = Head(comments)
      /\ \A set : p \in Given(set) <=> Head(comments).field \in set
  BY <1>1, <1>2, ReadsComment
<1>4. GainsSoFar'
  BY <1>1, <1>2, GainsMore
<1>5. ScaleSoFar'
  <2>1. scale = LevelAfter(Blocks - 1)
    BY <1>1 DEF ScaleSoFar
  <2>2. LevelAfter(IF pc = "comments" THEN Blocks - 1 ELSE Blocks)' = LevelAfter(Blocks - 1)
    BY <1>1, <1>2 DEF LevelAfter, Lists, HasGain, Level, GainSource
  <2> QED BY <1>1, <2>1, <2>2 DEF ScaleSoFar
<1>6. HasLength' = HasLength
  BY <1>1 DEF HasLength
<1>7. IsFiniteSet(Read(Places))'
  <2>1. Read(Places)' = Read(Places) \cup {p}
    BY <1>1, <1>3, ReadOne
  <2>2. IsFiniteSet(Read(Places) \cup {p})
    <3> HIDE DEF p
    <3> QED BY <1>1, FS_AddElement
  <2> QED BY <2>1, <2>2
<1>8. Head(comments) \in CommentType
  BY <1>1, NextComment
<1> QED BY <1>1, <1>2, <1>3, <1>4, <1>5, <1>6, <1>7, <1>8

LEMMA SoFarNext == SoFar /\ [Next]_vars => SoFar'
<1> SUFFICES ASSUME SoFar, [Next]_vars PROVE SoFar'
  OBVIOUS
<1>1. Position /\ file \in Files /\ file.kind \in {"flac", "vorbis"}
  <2>1. Position /\ file \in Files
    BY DEF SoFar, Position
  <2> QED BY <2>1, FileFields
\* A step that stops reading.
<1>2. ASSUME Position', pc' = "failed" PROVE SoFar'
  BY <1>2 DEF SoFar
<1>3. CASE UNCHANGED vars
  <2>1. UNCHANGED <<params, file, pc, blocks, comments, gains, tag, scale>>
    BY <1>3 DEF vars
  <2>2. Blocks' = Blocks /\ List' = List /\ Heard' = Heard
    BY <2>1 DEF Blocks, List, Heard
  <2>3. Position' /\ HasLength' = HasLength
    BY <1>1, <2>1, <2>2 DEF Position, HasLength
  <2>4. CASE pc = "failed"
    BY <1>2, <2>1, <2>3, <2>4
  <2>5. CASE pc /= "failed"
    <3>1. ReadsNone
      BY <2>1, <2>2 DEF ReadsNone, IsRead
    <3>2. /\ tag' \in TagType /\ IsFiniteSet(Read(Places))' /\ NumbersSoFar' /\ TextsSoFar'
          /\ EveryPictureIsKnown => PicturesSoFar'
      BY <2>1, <2>3, <2>5, <3>1, TagKept
    <3>3. GainsSoFar'
      BY <2>1, <2>2, <2>5 DEF SoFar, GainsSoFar
    <3>4. ScaleSoFar'
      BY <2>1, <2>2, <2>5
         DEF SoFar, ScaleSoFar, LevelAfter, Lists, HasGain, Level, GainSource
    <3> QED BY <2>3, <3>2, <3>3, <3>4 DEF SoFar
  <2> QED BY <2>4, <2>5
<1>4. CASE StartVorbis
  <2>1. /\ pc = "opened" /\ file.kind = "vorbis" /\ pc' \in {"blocks", "failed"}
        /\ UNCHANGED <<params, file, blocks, scale>>
        /\ pc' /= "failed" => tag' = AddString(tag, "TLEN", file.length)
    BY <1>4 DEF StartVorbis, SetStreamParams, FailMetadata
  <2>2. Position' /\ Blocks' = Blocks
    BY <1>1, <2>1, PositionKept
  <2>3. CASE pc' = "failed"
    BY <1>2, <2>2, <2>3
  <2>4. CASE pc' /= "failed"
    <3>1. ReadsNone
      BY <2>1, <2>2, ReadsNoneKept
    <3>2. ~HasLength /\ HasLength'
      BY <2>1, <2>4 DEF HasLength
    <3>3. /\ tag' \in TagType /\ IsFiniteSet(Read(Places))' /\ NumbersSoFar' /\ TextsSoFar'
          /\ EveryPictureIsKnown => PicturesSoFar'
      BY <2>1, <2>4, <3>1, <3>2, LengthSet
    <3>4. GainsSoFar' /\ ScaleSoFar'
      <4>1. ScaleSoFar'
        BY <2>1, <2>2, ScaleKept
      <4> QED BY <2>1, <4>1 DEF GainsSoFar
    <3> QED BY <2>2, <3>3, <3>4 DEF SoFar
  <2> QED BY <2>3, <2>4
<1>5. CASE StartFlac \/ EndVorbis
  <2>1. /\ \/ pc = "opened" /\ file.kind = "flac" /\ pc' = "blocks"
           \/ pc = "blocks" /\ blocks = <<>> /\ file.kind = "vorbis" /\ pc' = "done"
        /\ UNCHANGED <<params, file, blocks, tag, scale>>
    BY <1>5 DEF StartFlac, EndVorbis
  <2>2. Position' /\ Blocks' = Blocks
    BY <1>1, <2>1, PositionKept
  <2>3. ReadsNone
    BY <2>1, <2>2, ReadsNoneKept
  <2>4. HasLength' = HasLength
    BY <2>1 DEF HasLength
  <2>5. /\ tag' \in TagType /\ IsFiniteSet(Read(Places))' /\ NumbersSoFar' /\ TextsSoFar'
        /\ EveryPictureIsKnown => PicturesSoFar'
    BY <2>1, <2>3, <2>4, TagKept
  <2>6. ScaleSoFar'
    BY <2>1, <2>2, ScaleKept
  <2> QED BY <2>1, <2>2, <2>5, <2>6 DEF SoFar, GainsSoFar
<1>6. CASE ReadStreaminfo
  <2>1. /\ pc = "blocks" /\ blocks /= <<>> /\ Head(blocks).type = "STREAMINFO"
        /\ pc' = "blocks" /\ blocks' = Tail(blocks)
        /\ UNCHANGED <<params, file, tag, scale>>
    BY <1>6 DEF ReadStreaminfo
  <2>2. Position' /\ Blocks' = Blocks + 1
    BY <1>1, <2>1, PositionBlock
  <2>3. ReadsNone
    BY <1>1, <2>1, <2>2, ReadsNoneBlock
  <2>4. HasLength' = HasLength
    BY <2>1 DEF HasLength
  <2>5. /\ tag' \in TagType /\ IsFiniteSet(Read(Places))' /\ NumbersSoFar' /\ TextsSoFar'
        /\ EveryPictureIsKnown => PicturesSoFar'
    BY <2>1, <2>3, <2>4, TagKept
  <2>6. ScaleSoFar'
    BY <2>1, <2>2, ScaleKept
  <2> QED BY <2>1, <2>2, <2>5, <2>6 DEF SoFar, GainsSoFar
<1>7. CASE ReadPictureBlock
  <2> DEFINE p == <<Blocks + 1, 0>>
             picture == Head(blocks).picture
  <2>1. /\ pc = "blocks" /\ blocks /= <<>> /\ Head(blocks).type = "PICTURE"
        /\ pc' = "blocks" /\ blocks' = Tail(blocks)
        /\ tag' = set_picture_tag(tag, picture)
        /\ UNCHANGED <<params, file, scale>>
    BY <1>7 DEF ReadPictureBlock
  <2>2. Position' /\ Blocks' = Blocks + 1
    BY <1>1, <2>1, PositionBlock
  <2>3. Reads(p) /\ p \in PicturePlaces /\ \A fields : p \notin Given(fields)
    BY <1>1, <2>1, <2>2, ReadsPicture
  <2>4. /\ Blocks + 1 \in 1..Len(file.blocks)
        /\ Head(blocks) = file.blocks[Blocks + 1]
    BY <1>1, <2>1, NextBlock
  <2>5. Head(blocks) \in BlockType /\ picture \in PictureType
    <3>1. Head(blocks) \in BlockType
      BY <1>1, <2>4, FileFields
    <3> QED BY <2>1, <3>1, BlockFields
  <2>6. /\ tag \in TagType /\ IsFiniteSet(Read(Places)) /\ NumbersSoFar /\ TextsSoFar
        /\ EveryPictureIsKnown => PicturesSoFar
    BY <2>1 DEF SoFar
  <2>7. /\ tag' \in TagType /\ tag'.text = tag.text
        /\ tag'.pictures = Append(tag.pictures, picture)
    <3> HIDE DEF picture
    <3> QED BY <2>1, <2>5, <2>6, AddPictureIs
  <2>8. /\ Read(Places)' = Read(Places) \cup {p}
        /\ \A fields : Read(Given(fields))' = Read(Given(fields))
    BY <2>1, <2>3, ReadOne DEF With
  <2>9. IsFiniteSet(Read(Places))'
    <3>1. IsFiniteSet(Read(Places) \cup {p})
      <4> HIDE DEF p
      <4> QED BY <2>6, FS_AddElement
    <3> QED BY <2>8, <3>1
  <2>10. NumbersSoFar' /\ TextsSoFar'
    <3>1. HasLength' = HasLength
      BY <2>1 DEF HasLength
    <3>2. tag'.text["TLEN"] = IF HasLength' THEN <<file.length>> ELSE <<>>
      BY <2>6, <2>7, <3>1 DEF TextsSoFar
    <3> QED BY <2>1, <2>6, <2>7, <2>8, <3>2, TextsKept
  <2>11. ASSUME EveryPictureIsKnown PROVE PicturesSoFar'
    <3>1. file.kind = "flac"
      <4>1. ASSUME file.kind = "vorbis" PROVE FALSE
        <5>1. Len(file.blocks) = 1 /\ file.blocks[1].type = "VORBIS_COMMENT"
          BY <1>1, <4>1, FileFields
        <5>2. Blocks + 1 = 1
          BY <2>4, <5>1
        <5> QED BY <2>1, <2>4, <5>1, <5>2
      <4> QED BY <1>1, <4>1
    <3>2. p \in PicturesGiven /\ PictureAt(p) = picture
      BY <2>3, <2>4, <3>1 DEF PicturesGiven, PictureAt
    <3> HIDE DEF p, picture
    <3> QED BY <1>1, <2>1, <2>3, <2>6, <2>7, <2>11, <3>2, PictureRead
  <2>12. ScaleSoFar'
    BY <2>1, <2>2, ScaleKept
  <2> QED BY <2>1, <2>2, <2>7, <2>9, <2>10, <2>11, <2>12 DEF SoFar, GainsSoFar
<1>8. CASE StartComments
  <2>1. /\ pc = "blocks" /\ blocks /= <<>> /\ Head(blocks).type = "VORBIS_COMMENT"
        /\ pc' = "comments" /\ comments' = Head(blocks).comments
        /\ gains' = NoGains /\ blocks' = Tail(blocks)
        /\ UNCHANGED <<params, file, tag, scale>>
    BY <1>8 DEF StartComments
  <2>2. Position' /\ Blocks' = Blocks + 1 /\ Heard' = 0
    BY <1>1, <2>1, PositionBlock
  <2>3. ReadsNone
    BY <1>1, <2>1, <2>2, ReadsNoneBlock
  <2>4. HasLength' = HasLength
    BY <2>1 DEF HasLength
  <2>5. /\ tag' \in TagType /\ IsFiniteSet(Read(Places))' /\ NumbersSoFar' /\ TextsSoFar'
        /\ EveryPictureIsKnown => PicturesSoFar'
    BY <2>1, <2>3, <2>4, TagKept
  <2>6. ScaleSoFar'
    BY <2>1, <2>2, ScaleKept
  <2>7. GainsSoFar'
    BY <2>1, <2>2, GainsStart
  <2> QED BY <2>1, <2>2, <2>5, <2>6, <2>7 DEF SoFar
<1>9. CASE ReadText
  <2> DEFINE p == <<Blocks, Heard + 1>>
             comment == Head(comments)
  <2>1. /\ TakeComment(TextField \cup NumberField) /\ pc = "comments" /\ pc' = "comments"
        /\ gains' = gains /\ tag' = set_text_tag(tag, comment)
        /\ UNCHANGED <<params, file>> /\ comment.field \in TextField \cup NumberField
    BY <1>9 DEF ReadText, TakeComment
  <2>2. comment.field \notin GainField
    BY <2>1, Frames
  <2>3. /\ Position' /\ GainsSoFar' /\ ScaleSoFar' /\ HasLength' = HasLength
        /\ IsFiniteSet(Read(Places))'
        /\ Reads(p) /\ p \in CommentPlaces /\ CommentAt(p) = comment
        /\ \A set : p \in Given(set) <=> comment.field \in set
        /\ comment \in CommentType
    BY <2>1, <2>2, CommentStep
  <2>4. /\ tag \in TagType /\ IsFiniteSet(Read(Places)) /\ NumbersSoFar /\ TextsSoFar
        /\ EveryPictureIsKnown => PicturesSoFar
    BY <2>1 DEF SoFar
  <2> HIDE DEF p, comment
  <2>5. tag' \in TagType /\ tag'.pictures = tag.pictures /\ NumbersSoFar' /\ TextsSoFar'
    <3>1. CASE comment.field \in TextField
      BY <1>1, <2>1, <2>3, <2>4, <3>1, TextRead
    <3>2. CASE comment.field \in NumberField
      BY <1>1, <2>1, <2>3, <2>4, <3>2, NumberIsRead
    <3> QED BY <2>1, <3>1, <3>2
  <2>6. CommentAt(p).field /= "METADATA_BLOCK_PICTURE"
    BY <2>1, <2>3, Frames
  <2>7. EveryPictureIsKnown => PicturesSoFar'
    BY <1>1, <2>1, <2>3, <2>4, <2>5, <2>6, NoPicture
  <2> QED BY <2>1, <2>3, <2>5, <2>7 DEF SoFar
<1>10. CASE ReadGain \/ ReadOther
  <2> DEFINE p == <<Blocks, Heard + 1>>
             comment == Head(comments)
             fields == GainField \cup {"other", "METADATA_BLOCK_PICTURE"}
  <2>1. /\ TakeComment(fields) /\ pc = "comments" /\ pc' = "comments"
        /\ UNCHANGED <<params, file, tag>> /\ comment.field \in fields
        /\ \/ comment.field \notin GainField /\ gains' = gains
           \/ /\ comment.field \in GainField
              /\ gains' = [gains EXCEPT ![comment.field] = comment.gain]
        /\ file.kind = "flac" \/ comment.field /= "METADATA_BLOCK_PICTURE"
    <3>1. CASE ReadGain
      BY <3>1, Frames DEF ReadGain, TakeComment
    <3>2. CASE ReadOther
      BY <3>2, Frames DEF ReadOther, TakeComment
    <3> QED BY <1>10, <3>1, <3>2
  <2>2. /\ Position' /\ GainsSoFar' /\ ScaleSoFar' /\ HasLength' = HasLength
        /\ IsFiniteSet(Read(Places))'
        /\ Reads(p) /\ p \in CommentPlaces /\ CommentAt(p) = comment
        /\ \A set : p \in Given(set) <=> comment.field \in set
    <3> HIDE DEF fields
    <3> QED BY <2>1, CommentStep
  <2>3. /\ tag \in TagType /\ IsFiniteSet(Read(Places)) /\ NumbersSoFar /\ TextsSoFar
        /\ EveryPictureIsKnown => PicturesSoFar
    BY <2>1 DEF SoFar
  <2> HIDE DEF p, comment
  <2>4. NumbersSoFar' /\ TextsSoFar'
    <3>1. \A set \in SUBSET (TextField \cup NumberField) : p \notin Given(set)
      BY <2>1, <2>2, Frames
    <3>2. \A set \in SUBSET (TextField \cup NumberField) :
                Read(Given(set))' = Read(Given(set))
      BY <2>1, <2>2, <3>1, ReadOne DEF With
    <3>3. tag'.text["TLEN"] = IF HasLength' THEN <<file.length>> ELSE <<>>
      BY <2>1, <2>2, <2>3 DEF TextsSoFar
    <3> QED BY <2>1, <2>3, <3>2, <3>3, TextsKept
  <2>5. EveryPictureIsKnown => PicturesSoFar'
    BY <1>1, <2>1, <2>2, <2>3, NoPicture
  <2> QED BY <2>1, <2>2, <2>3, <2>4, <2>5 DEF SoFar
<1>11. CASE ReadPictureComment
  <2> DEFINE p == <<Blocks, Heard + 1>>
             comment == Head(comments)
             fields == {"METADATA_BLOCK_PICTURE"}
  <2>1. /\ file.kind = "vorbis" /\ TakeComment(fields) /\ pc = "comments"
        /\ pc' \in {"comments", "failed"} /\ gains' = gains
        /\ UNCHANGED <<params, file, blocks>> /\ comments /= <<>>
        /\ comments' = Tail(comments) /\ comment.field = "METADATA_BLOCK_PICTURE"
        /\ pc' = "comments" =>
            \/ decode(comment.data) = {} /\ tag' = tag
            \/ \E picture \in decode(comment.data) : tag' = set_picture_tag(tag, picture)
    BY <1>11 DEF ReadPictureComment, TakeComment
  <2>2. Position'
    BY <1>1, <2>1, PositionComment
  <2>3. CASE pc' = "failed"
    BY <1>2, <2>2, <2>3
  <2>4. CASE pc' = "comments"
    <3>1. /\ GainsSoFar' /\ ScaleSoFar' /\ HasLength' = HasLength
          /\ IsFiniteSet(Read(Places))'
          /\ Reads(p) /\ p \in CommentPlaces /\ CommentAt(p) = comment
          /\ \A set : p \in Given(set) <=> comment.field \in set
          /\ comment \in CommentType
      <4>1. comment.field \notin GainField
        BY <2>1, Frames
      <4> HIDE DEF fields
      <4> QED BY <2>1, <2>4, <4>1, CommentStep
    <3>2. /\ tag \in TagType /\ IsFiniteSet(Read(Places)) /\ NumbersSoFar /\ TextsSoFar
          /\ EveryPictureIsKnown => PicturesSoFar
      BY <2>1 DEF SoFar
    <3> DEFINE data == comment.data
    <3>3. data \in Seq(PictureByte) /\ decode(data) \subseteq PictureType
      <4>1. data \in Seq(PictureByte)
        BY <2>1, <3>1, CommentFields
      <4> QED BY <4>1, DecodeIsWhole
    <3> HIDE DEF p, comment
    <3>4. /\ tag' \in TagType /\ tag'.text = tag.text
          /\ \/ decode(data) = {} /\ tag'.pictures = tag.pictures
             \/ \E picture \in decode(data) : tag'.pictures = Append(tag.pictures, picture)
      <4>1. CASE decode(data) = {} /\ tag' = tag
        BY <3>2, <4>1
      <4>2. ASSUME NEW picture \in decode(data), tag' = set_picture_tag(tag, picture)
            PROVE  /\ tag' \in TagType /\ tag'.text = tag.text
                   /\ tag'.pictures = Append(tag.pictures, picture)
        <5>1. picture \in PictureType
          BY <3>3
        <5> QED BY <3>2, <4>2, <5>1, AddPictureIs
      <4> HIDE DEF data
      <4>3. \/ decode(data) = {} /\ tag' = tag
            \/ \E picture \in decode(data) : tag' = set_picture_tag(tag, picture)
        BY <2>1, <2>4 DEF data
      <4> QED BY <4>1, <4>2, <4>3
    <3>5. NumbersSoFar' /\ TextsSoFar'
      <4>1. \A set \in SUBSET (TextField \cup NumberField) : p \notin Given(set)
        BY <2>1, <3>1, Frames
      <4>2. \A set \in SUBSET (TextField \cup NumberField) :
                Read(Given(set))' = Read(Given(set))
        BY <2>1, <3>1, <4>1, ReadOne DEF With
      <4>3. tag'.text["TLEN"] = IF HasLength' THEN <<file.length>> ELSE <<>>
        BY <3>1, <3>2, <3>4 DEF TextsSoFar
      <4> QED BY <2>1, <3>2, <3>4, <4>2, <4>3, TextsKept
    <3>6. ASSUME EveryPictureIsKnown PROVE PicturesSoFar'
      <4>1. /\ decode(data) = Whole(comment)
            /\ \A picture \in Whole(comment) : picture = Sole(Whole(comment))
        BY <1>1, <2>1, <3>1, <3>6, DecodeIsKnown
      <4>2. CASE decode(data) = {} /\ tag'.pictures = tag.pictures
        BY <1>1, <2>1, <3>1, <3>2, <3>6, <4>1, <4>2, NoPicture
      <4>3. ASSUME NEW picture \in decode(data), tag'.pictures = Append(tag.pictures, picture)
            PROVE  PicturesSoFar'
        <5>1. p \in Given({"METADATA_BLOCK_PICTURE"}) /\ Whole(CommentAt(p)) /= {}
          BY <2>1, <3>1, <4>1, <4>3
        <5>2. p \in PicturesGiven
          BY <2>1, <5>1 DEF PicturesGiven
        <5>3. PictureAt(p) = picture
          BY <2>1, <3>1, <4>1, <4>3 DEF PictureAt
        <5> QED BY <1>1, <2>1, <3>1, <3>2, <3>6, <4>3, <5>2, <5>3, PictureRead
      <4> QED BY <3>4, <4>2, <4>3
    <3> QED BY <2>1, <2>2, <2>4, <3>1, <3>4, <3>5, <3>6 DEF SoFar
  <2> QED BY <2>1, <2>3, <2>4
<1>12. CASE EndComments
  <2>1. /\ pc = "comments" /\ comments = <<>> /\ pc' = "blocks"
        /\ scale' = set_gain(params, gains, scale)
        /\ UNCHANGED <<params, file, blocks, tag>>
    BY <1>12 DEF EndComments
  <2>2. Position' /\ Blocks' = Blocks /\ Heard = Len(List)
    BY <1>1, <2>1, PositionEnd
  <2>3. ReadsNone
    BY <1>1, <2>1, <2>2, ReadsNoneEnd
  <2>4. HasLength' = HasLength
    BY <2>1 DEF HasLength
  <2>5. /\ tag' \in TagType /\ IsFiniteSet(Read(Places))' /\ NumbersSoFar' /\ TextsSoFar'
        /\ EveryPictureIsKnown => PicturesSoFar'
    BY <2>1, <2>3, <2>4, TagKept
  <2>6. ScaleSoFar'
    <3> DEFINE list == List
               n == Blocks
    <3>1. /\ n \in 1..Len(file.blocks) /\ file.blocks[n].type = "VORBIS_COMMENT"
          /\ list = file.blocks[n].comments /\ DOMAIN list = 1..Len(list)
      BY <1>1, <2>1, NextComment, CommentsType DEF List
    <3>2. /\ gains \in [GainField -> Int]
          /\ \A field \in GainField : gains[field] = LastGain(list, field)
      <4>1. /\ gains \in [GainField -> Int]
            /\ \A field \in GainField : gains[field] = LastGainUpTo(list, Len(list), field)
        BY <2>1, <2>2 DEF SoFar, GainsSoFar
      <4> HIDE DEF list
      <4> QED BY <3>1, <4>1, LastGainIs
    <3>3. scale = LevelAfter(n - 1)
      BY <2>1 DEF SoFar, ScaleSoFar
    <3>4. params \in GainParams
      BY <1>1 DEF Position
    <3>5. n - 1 \in Nat /\ (n - 1) + 1 = n
      <4>1. Len(file.blocks) \in Nat
        BY <1>1, FileFields
      <4> HIDE DEF n
      <4> QED BY <3>1, <4>1
    <3>6. LevelAfter(IF pc = "comments" THEN Blocks - 1 ELSE Blocks)' = LevelAfter(n)
      BY <2>1, <2>2 DEF LevelAfter, Lists, HasGain, Level, GainSource
    <3> HIDE DEF list, n
    <3>7. scale' = IF HasGain(list) THEN Level(list) ELSE scale
      BY <2>1, <3>2, <3>4, SetGainIs
    <3>8. LevelAfter(n) = IF HasGain(list) THEN Level(list) ELSE LevelAfter(n - 1)
      <4> DEFINE m == n - 1
      <4>1. m \in Nat /\ m + 1 = n
        BY <3>5
      <4> HIDE DEF m
      <4>2. LevelAfter(m + 1) =
                IF /\ file.blocks[m + 1].type = "VORBIS_COMMENT"
                   /\ HasGain(file.blocks[m + 1].comments)
                THEN Level(file.blocks[m + 1].comments) ELSE LevelAfter(m)
        BY <1>1, <3>1, <4>1, LevelStep
      <4> QED BY <3>1, <4>1, <4>2 DEF m
    <3> QED BY <3>3, <3>6, <3>7, <3>8 DEF ScaleSoFar
  <2> QED BY <2>1, <2>2, <2>5, <2>6 DEF SoFar, GainsSoFar
<1>13. CASE EndFlac
  <2>1. /\ pc = "blocks" /\ blocks = <<>> /\ file.kind = "flac"
        /\ pc' \in {"done", "failed"}
        /\ UNCHANGED <<params, file, blocks, scale>>
        /\ pc' /= "failed" => tag' = AddString(tag, "TLEN", file.length)
    BY <1>13 DEF EndFlac, SetStreamParams, FailMetadata
  <2>2. Position' /\ Blocks' = Blocks
    BY <1>1, <2>1, PositionKept
  <2>3. CASE pc' = "failed"
    BY <1>2, <2>2, <2>3
  <2>4. CASE pc' /= "failed"
    <3>1. ReadsNone
      BY <2>1, <2>2, ReadsNoneKept
    <3>2. ~HasLength /\ HasLength'
      BY <2>1, <2>4 DEF HasLength
    <3>3. /\ tag' \in TagType /\ IsFiniteSet(Read(Places))' /\ NumbersSoFar' /\ TextsSoFar'
          /\ EveryPictureIsKnown => PicturesSoFar'
      BY <2>1, <2>4, <3>1, <3>2, LengthSet
    <3>4. ScaleSoFar'
      BY <2>1, <2>2, ScaleKept
    <3> QED BY <2>1, <2>2, <3>3, <3>4 DEF SoFar, GainsSoFar
  <2> QED BY <2>3, <2>4
<1> QED BY <1>3, <1>4, <1>5, <1>6, <1>7, <1>8, <1>9, <1>10, <1>11, <1>12, <1>13 DEF Next

\* What the decoders know of the metadata they have read so far.
THEOREM KnownSoFar == Spec => []SoFar
BY SoFarInit, SoFarNext, PTL DEF Spec

----
(* The properties *)

LEMMA SoFarNumbers == SoFar => NumbersInAnyOrder
<1> SUFFICES ASSUME SoFar, pc = "done",
                    NEW pair \in {<<"TRACKNUMBER", "TRACKTOTAL", "TRCK">>,
                                  <<"DISCNUMBER", "DISCTOTAL", "TPOS">>},
                    \A places \in {Given({pair[1]}), Given({pair[2]})} :
                        \A p, q \in places : p = q
             PROVE  tag.text[pair[3]] = NumberText(Given({pair[1]}), Given({pair[2]}))
  BY Zenon DEF NumbersInAnyOrder, NumberText
<1>1. \A fields : Read(Given(fields)) = Given(fields)
  BY AllRead DEF SoFar
<1>2. NumberSoFar(pair[1], pair[2], pair[3])
  BY DEF SoFar, NumbersSoFar
<1>3. AtMostOne(Given({pair[1]})) /\ AtMostOne(Given({pair[2]}))
  BY DEF AtMostOne
<1> QED BY <1>1, <1>2, <1>3 DEF NumberSoFar

\* A number and a total make "number/total", whatever their order in the file.
THEOREM NumbersAreInOrder == Spec => []NumbersInAnyOrder
BY KnownSoFar, SoFarNumbers, PTL

LEMMA SoFarTexts == SoFar => TextFramesHaveAllValues
<1> SUFFICES ASSUME SoFar, pc = "done" PROVE TextFramesHaveAllValues
  BY DEF TextFramesHaveAllValues
<1>1. \A fields : Read(Given(fields)) = Given(fields)
  BY AllRead DEF SoFar
<1>2. TextsSoFar /\ HasLength
  BY DEF SoFar, HasLength
<1>3. tag.text["TSSE"] = <<<<"MP3FS">>>> /\ tag.text["TLEN"] = <<file.length>>
  BY <1>2 DEF TextsSoFar
<1>4. ASSUME NEW frame \in {TextFrame[field] : field \in TextField}
      PROVE  tag.text[frame] =
                ValuesAt(Given({field \in TextField : TextFrame[field] = frame}))
  <2>1. tag.text[frame] = ValuesAt(Read(Given(FieldsOf(frame))))
    BY <1>2 DEF TextsSoFar
  <2> QED BY <1>1, <2>1 DEF FieldsOf
<1> QED BY <1>3, <1>4 DEF TextFramesHaveAllValues

\* A text frame has the values of all its comments in the order of the file, and
\* the program's name and the length of the track are there once.
THEOREM TextsAreComplete == Spec => []TextFramesHaveAllValues
BY KnownSoFar, SoFarTexts, PTL

\* The parameters of a FLAC stream are set last, when LAME has been told all.
AppliedWhenDone == pc = "done" /\ file.kind = "flac" => applied = scale

LEMMA AppliedInit == Init => AppliedWhenDone
BY DEF Init, AppliedWhenDone

LEMMA AppliedNext == AppliedWhenDone /\ [Next]_vars => AppliedWhenDone'
<1> SUFFICES ASSUME AppliedWhenDone, [Next]_vars, pc' = "done", file'.kind = "flac"
             PROVE  applied' = scale'
  BY DEF AppliedWhenDone
<1>1. CASE UNCHANGED vars
  BY <1>1 DEF vars, AppliedWhenDone
<1>2. CASE StartVorbis
  BY <1>2 DEF StartVorbis, SetStreamParams, FailMetadata
<1>3. CASE StartFlac \/ EndVorbis
  BY <1>3 DEF StartFlac, EndVorbis
<1>4. CASE ReadStreaminfo \/ ReadPictureBlock \/ StartComments
  BY <1>4 DEF ReadStreaminfo, ReadPictureBlock, StartComments
<1>5. CASE ReadText \/ ReadGain \/ ReadOther \/ EndComments
  BY <1>5 DEF ReadText, ReadGain, ReadOther, EndComments, TakeComment
<1>6. CASE ReadPictureComment
  BY <1>6 DEF ReadPictureComment, TakeComment
<1>7. CASE EndFlac
  BY <1>7 DEF EndFlac, SetStreamParams, FailMetadata
<1> QED BY <1>1, <1>2, <1>3, <1>4, <1>5, <1>6, <1>7 DEF Next

\* What LAME encodes a FLAC file with is what it was told.
THEOREM ScaleIsApplied == Spec => []AppliedWhenDone
BY AppliedInit, AppliedNext, PTL DEF Spec

LEMMA SoFarGain == SoFar /\ AppliedWhenDone => GainFollowsTheMode
<1> SUFFICES ASSUME SoFar, AppliedWhenDone, pc = "done" PROVE GainFollowsTheMode
  BY DEF GainFollowsTheMode
<1>1. scale = LevelAfter(Blocks) /\ Blocks = Len(file.blocks) /\ file \in Files
  BY DEF SoFar, ScaleSoFar, Position
<1>2. DOMAIN file.blocks = 1..Len(file.blocks)
  BY <1>1, FileFields
<1>3. scale = LevelOfFile
  BY <1>1, <1>2 DEF LevelOfFile, LevelAfter, Lists
<1> QED BY <1>3 DEF GainFollowsTheMode, AppliedWhenDone

\* LAME is told the level of the gain that the mode asks for, and for FLAC it
\* encodes with it; for Ogg Vorbis it does not, see GainIsApplied.
THEOREM GainIsOfTheMode == Spec => []GainFollowsTheMode
BY KnownSoFar, ScaleIsApplied, SoFarGain, PTL

LEMMA SoFarPictures ==
    ASSUME EveryPictureIsKnown
    PROVE  SoFar => PicturesAreTheWholeOnes
<1> SUFFICES ASSUME SoFar, pc = "done" PROVE PicturesAreTheWholeOnes
  BY DEF PicturesAreTheWholeOnes
<1>1. Read(PicturesGiven) = PicturesGiven
  BY AllRead DEF SoFar
<1>2. tag.pictures = PicturesIn(InOrder(PicturesGiven))
  BY <1>1 DEF SoFar, PicturesSoFar
<1> QED BY <1>2 DEF PicturesAreTheWholeOnes, PicturesIn, PicturesGiven, PictureAt

\* In an instance for TLC, the pictures to have are those the comments decode to.
LEMMA KnownWhenDecoded ==
    ASSUME \A f \in Files : \A i \in DOMAIN f.blocks : f.blocks[i].type = "VORBIS_COMMENT" =>
                \A j \in DOMAIN f.blocks[i].comments :
                    LET comment == f.blocks[i].comments[j]
                    IN  comment.field = "METADATA_BLOCK_PICTURE" =>
                            decode(comment.data) \subseteq Pictures
    PROVE  EveryPictureIsKnown
<1> SUFFICES ASSUME NEW f \in Files, NEW i \in DOMAIN f.blocks,
                    f.blocks[i].type = "VORBIS_COMMENT",
                    NEW j \in DOMAIN f.blocks[i].comments,
                    f.blocks[i].comments[j].field = "METADATA_BLOCK_PICTURE",
                    NEW picture \in PictureType, Fits(picture),
                    IsWhole(picture, f.blocks[i].comments[j].data)
             PROVE  picture \in Pictures
  BY Zenon DEF EveryPictureIsKnown
<1> DEFINE comment == f.blocks[i].comments[j]
<1>1. decode(comment.data) \subseteq Pictures
  OBVIOUS
<1>2. comment \in CommentType
  <2>1. f.blocks[i].comments \in Seq(CommentType)
    BY FileFields, BlockFields
  <2> QED BY <2>1
<1>3. comment.data \in Seq(PictureByte)
  BY <1>2, CommentFields
<1>4. picture \in decode(comment.data)
  <2> HIDE DEF comment
  <2> QED BY <1>3, DecodeIsWhole DEF comment
<1> QED BY <1>1, <1>4

\* The tag has the pictures that are whole in the file and no others, when
\* Pictures has all that can be whole in one of its comments.
THEOREM PicturesAreWhole ==
    ASSUME EveryPictureIsKnown
    PROVE  Spec => []PicturesAreTheWholeOnes
BY KnownSoFar, SoFarPictures, PTL
====
