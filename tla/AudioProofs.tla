---- MODULE AudioProofs ----
(***************************************************************************)
(* Theorems about Audio, for any files, bitrates and packets: how the size *)
(* that calculate_size foresees compares with that of LAME's stream, and   *)
(* that LAME hears what the decoders decode.                               *)
(***************************************************************************)
EXTENDS Audio, SequenceTheorems, WellFoundedInduction, TLAPS

----
(* Arithmetic *)

\* Quotient and remainder.
LEMMA Division ==
    ASSUME NEW a \in Int, NEW r \in Nat \ {0}
    PROVE  /\ a \div r \in Int
           /\ a % r \in 0..r - 1
           /\ a = (a \div r) * r + (a % r)
OBVIOUS

LEMMA NatQuotient ==
    ASSUME NEW a \in Nat, NEW r \in Nat \ {0}
    PROVE  a \div r \in Nat
OBVIOUS

LEMMA ProductMonotone ==
    ASSUME NEW a \in Int, NEW b \in Int, a <= b, NEW n \in Nat
    PROVE  n * a <= n * b
OBVIOUS

\* What is less than the next multiple is no greater multiple.
LEMMA MultipleBelow ==
    ASSUME NEW a \in Int, NEW b \in Int, NEW r \in Nat \ {0}, a * r < (b + 1) * r
    PROVE  a <= b
<1> SUFFICES ASSUME a >= b + 1 PROVE FALSE
  OBVIOUS
<1>1. r * (b + 1) <= r * a
  BY ProductMonotone
<1> QED BY <1>1

\* A multiple that fits fits into the quotient.
LEMMA QuotientBound ==
    ASSUME NEW a \in Int, NEW k \in Int, NEW r \in Nat \ {0}, k * r <= a
    PROVE  k <= a \div r
<1> DEFINE q == a \div r
           m == a % r
<1>1. q \in Int /\ m \in 0..r - 1 /\ a = q * r + m
  BY Division
<1> HIDE DEF q, m
<1>2. k * r < (q + 1) * r
  <2>1. (q + 1) * r = q * r + r
    BY <1>1
  <2>2. q * r \in Int /\ k * r \in Int
    BY <1>1
  <2> QED BY <1>1, <2>1, <2>2
<1>3. k <= q
  BY <1>1, <1>2, MultipleBelow
<1> QED BY <1>3 DEF q

LEMMA QuotientMonotone ==
    ASSUME NEW a \in Nat, NEW b \in Nat, a <= b, NEW r \in Nat \ {0}
    PROVE  a \div r <= b \div r
<1>1. (a \div r) * r <= a
  BY Division
<1>2. (a \div r) * r <= b /\ a \div r \in Int
  BY <1>1, Division
<1> QED BY <1>2, QuotientBound

\* A number that is a remainder more than a multiple has this quotient, or one
\* next to it.
LEMMA QuotientUpTo ==
    ASSUME NEW a \in Int, NEW k \in Int, NEW r \in Nat \ {0}, NEW e \in Int,
           k * r = a + e, -r < e, e < r
    PROVE  k - (a \div r) \in {0, 1}
<1> DEFINE q == a \div r
           m == a % r
<1>1. q \in Int /\ m \in 0..r - 1 /\ a = q * r + m
  BY Division
<1> HIDE DEF q, m
<1>2. k * r = q * r + m + e
  BY <1>1
<1>3. q * r \in Int /\ k * r \in Int
  BY <1>1
<1>4. (q + 2) * r = q * r + 2 * r /\ (q - 1 + 1) * r = q * r /\ (k + 1) * r = k * r + r
  BY <1>1
<1>5. k <= q + 1
  <2>1. (q + 1 + 1) * r = q * r + 2 * r
    BY <1>1
  <2>2. k * r < (q + 1 + 1) * r
    BY <1>1, <1>2, <1>3, <2>1
  <2> QED BY <1>1, <2>2, MultipleBelow
<1>6. q <= k
  <2>1. q * r < (k + 1) * r
    BY <1>1, <1>2, <1>3, <1>4
  <2> QED BY <1>1, <2>1, MultipleBelow
<1>7. k - q \in {0, 1}
  BY <1>1, <1>5, <1>6
<1> QED BY <1>7 DEF q

----
(* Bitrates *)

LEMMA BitratesAreNumbers == Bitrates \subseteq Nat \ {0} /\ Bitrates /= {}
BY DEF Bitrates

LEMMA DistanceType ==
    ASSUME NEW a \in Nat, NEW b \in Nat
    PROVE  Distance(a, b) \in Nat /\ (Distance(a, b) = 0 <=> a = b)
BY DEF Distance

\* There is a nearest one.
LEMMA NearestIsNearest ==
    ASSUME NEW bitrate \in Nat
    PROVE  /\ Nearest(bitrate) \in Bitrates
           /\ \A c \in Bitrates : Distance(bitrate, Nearest(bitrate)) <= Distance(bitrate, c)
<1> DEFINE T == {Distance(bitrate, b) : b \in Bitrates}
<1>1. T \subseteq Nat /\ T /= {}
  <2>1. \A b \in Bitrates : Distance(bitrate, b) \in Nat
    BY BitratesAreNumbers, DistanceType
  <2> QED BY <2>1, BitratesAreNumbers
<1>2. PICK x \in T : \A y \in T : ~(<<y, x>> \in OpToRel(<, Nat))
  <2> HIDE DEF T
  <2> QED BY <1>1, WFMin, NatLessThanWellFounded
<1>3. ASSUME NEW y \in T PROVE x <= y
  <2>1. y < x => <<y, x>> \in OpToRel(<, Nat)
    <3>1. y \in Nat /\ x \in Nat
      BY <1>1
    <3> HIDE DEF T
    <3> QED BY <3>1, Zenon DEF OpToRel
  <2>2. ~(<<y, x>> \in OpToRel(<, Nat))
    BY <1>2, <1>3, Zenon
  <2>3. ~(y < x)
    BY <2>1, <2>2, Zenon
  <2>4. y \in Nat /\ x \in Nat
    BY <1>1, <1>3
  <2> HIDE DEF T
  <2> QED BY <2>3, <2>4
<1>4. PICK b \in Bitrates : x = Distance(bitrate, b)
  OBVIOUS
<1>5. \A c \in Bitrates : Distance(bitrate, b) <= Distance(bitrate, c)
  BY <1>3, <1>4
<1> QED BY <1>4, <1>5 DEF Nearest

\* A bitrate that LAME knows is its own nearest.
LEMMA KnownBitrate ==
    ASSUME params.bitrate \in Bitrates
    PROVE  Nearest(params.bitrate) = params.bitrate
<1> DEFINE b == params.bitrate
           n == Nearest(b)
<1>1. b \in Nat /\ n \in Nat
  BY BitratesAreNumbers, NearestIsNearest
<1>2. Distance(b, n) <= Distance(b, b)
  BY <1>1, NearestIsNearest
<1> HIDE DEF b, n
<1>3. n = b
  BY <1>1, <1>2, DistanceType
<1> QED BY <1>3 DEF n, b

\* None is nearer to nothing than the least.
LEMMA LeastBitrate ==
    ASSUME NEW bitrate \in Nat
    PROVE  Nearest(0) <= Nearest(bitrate)
<1>1. Nearest(0) \in Nat /\ Nearest(bitrate) \in Nat /\ Nearest(bitrate) \in Bitrates
  BY BitratesAreNumbers, NearestIsNearest
<1>2. Distance(0, Nearest(0)) <= Distance(0, Nearest(bitrate))
  BY <1>1, NearestIsNearest
<1> QED BY <1>1, <1>2 DEF Distance

----
(* The size *)

\* What EmitCbr owes after n frames of F fractions, and how many bytes it adds
\* for it.
Owed(F, r, n, lag) == lag - n * (F % r)

Padding(owed, r) == IF owed < 0 THEN (r - 1 - owed) \div r ELSE 0

Paid(F, r, n, lag) ==
    LET owed == Owed(F, r, n, lag)
        padding == Padding(owed, r)
    IN  /\ padding \in Nat
        /\ owed + padding * r \in 0..r - 1
        /\ (n * (F \div r) + padding) * r = n * F + (owed + padding * r) - lag

LEMMA OwedIsPaid ==
    ASSUME NEW F \in Nat, NEW r \in Nat \ {0}, NEW n \in Nat, NEW lag \in 0..r - 1
    PROVE  Paid(F, r, n, lag)
<1> DEFINE owed == Owed(F, r, n, lag)
           padding == Padding(owed, r)
<1>o. owed = lag - n * (F % r)
  BY DEF Owed
<1>p. padding = IF owed < 0 THEN (r - 1 - owed) \div r ELSE 0
  BY DEF Padding
<1> HIDE DEF owed, padding
<1> DEFINE q == F \div r
           m == F % r
           nm == n * m
           nq == n * q
<1>1. q \in Nat /\ m \in 0..r - 1 /\ F = q * r + m
  <2>1. q \in Nat
    BY NatQuotient
  <2>2. F \in Int
    OBVIOUS
  <2>3. m \in 0..r - 1 /\ F = q * r + m
    BY <2>2, Division, Zenon
  <2> QED BY <2>1, <2>3
<1>2. m \in Nat /\ owed = lag - nm
  BY <1>1, <1>o
<1> HIDE DEF q, m
<1>3. nm \in Nat /\ nq \in Nat /\ n * F = nq * r + nm
  BY <1>1, <1>2
<1> HIDE DEF nm, nq
<1>4. owed \in Int /\ owed < r
  BY <1>2, <1>3
<1>5. padding \in Nat /\ owed + padding * r \in 0..r - 1
  <2>1. CASE owed >= 0
    <3>1. padding = 0
      BY <2>1, <1>4, <1>p
    <3> QED BY <3>1, <2>1, <1>4
  <2>2. CASE owed < 0
    <3> DEFINE a == r - 1 - owed
               t == a % r
    <3>1. a \in Nat /\ padding = a \div r
      BY <2>2, <1>4, <1>p
    <3>2. owed = r - 1 - a
      BY <1>4
    <3> HIDE DEF a
    <3>3. padding \in Nat /\ t \in 0..r - 1 /\ a = padding * r + t
      <4>1. padding \in Nat
        BY <3>1, NatQuotient
      <4>2. a \in Int
        BY <3>1
      <4>3. t \in 0..r - 1 /\ a = padding * r + t
        BY <3>1, <4>2, Division, Zenon
      <4> QED BY <4>1, <4>3
    <3> HIDE DEF t
    <3>4. padding * r \in Nat
      BY <3>3
    <3>5. owed + padding * r = r - 1 - t
      BY <3>2, <3>3, <3>4
    <3> QED BY <3>3, <3>5
  <2> QED BY <1>4, <2>1, <2>2
<1>6. (nq + padding) * r = nq * r + padding * r
  BY <1>3, <1>5
<1>7. nq * r \in Nat /\ padding * r \in Nat
  BY <1>3, <1>5
<1>8. (nq + padding) * r = n * F + (owed + padding * r) - lag
  <2> DEFINE u == nq * r
             v == padding * r
             w == n * F
             x == (nq + padding) * r
  <2>1. u \in Nat /\ v \in Nat /\ w = u + nm /\ x = u + v
    BY <1>3, <1>6, <1>7
  <2> HIDE DEF u, v, w, x
  <2>2. x = w + (owed + v) - lag
    BY <1>2, <1>3, <2>1
  <2> QED BY <2>2 DEF u, v, w, x
<1> QED BY <1>5, <1>8, Zenon DEF Paid, nq, q, owed, padding

\* The size of the largest frame, times the output's rate.
Factor == FrameFactor(Nearest(params.bitrate))

LEMMA FactorStays ==
    ASSUME UNCHANGED <<params, source>>
    PROVE  UNCHANGED <<Factor, Placeholder, FrameFactor(Nearest(0))>>
<1>1. UNCHANGED MpegVersion
  BY DEF MpegVersion
<1>2. UNCHANGED Bitrates
  BY <1>1 DEF Bitrates
<1>3. \A bitrate : Nearest(bitrate)' = Nearest(bitrate)
  BY <1>2 DEF Nearest
<1> QED BY <1>1, <1>3 DEF Factor, FrameFactor, Placeholder

LEMMA FactorType ==
    ASSUME params \in ParamSets, source \in Sources
    PROVE  /\ Factor \in Nat
           /\ FrameFactor(Nearest(0)) \in Nat
           /\ FrameFactor(Nearest(0)) <= Factor
           /\ Placeholder \in Nat
           /\ source.out_rate \in Nat \ {0}
           /\ source.frames \in Nat \ {0}
           /\ params.vbr \in BOOLEAN
<1> DEFINE least == Nearest(0)
           nearest == Nearest(params.bitrate)
<1>1. params.bitrate \in Nat /\ params.vbr \in BOOLEAN
  BY AudioAssumption DEF ParamsType
<1>2. source.out_rate \in Nat \ {0} /\ source.frames \in Nat \ {0}
  BY AudioAssumption DEF SourceType
<1>3. least \in Nat /\ nearest \in Nat /\ least <= nearest
  BY <1>1, NearestIsNearest, BitratesAreNumbers, LeastBitrate
<1> HIDE DEF least, nearest
<1>4. FrameFactor(least) \in Nat /\ FrameFactor(nearest) \in Nat
      /\ FrameFactor(least) <= FrameFactor(nearest)
  BY <1>3 DEF FrameFactor
<1>5. Placeholder \in Nat
  <2>1. FrameFactor(IF MpegVersion = 1 THEN 128 ELSE 64) \in Nat
    BY DEF FrameFactor
  <2> HIDE DEF least, nearest
  <2> QED BY <1>2, <2>1, NatQuotient DEF Placeholder
<1> QED BY <1>1, <1>2, <1>4, <1>5 DEF Factor, least, nearest

\* With CBR LAME keeps its account: what it has returned, and what it owes,
\* make up the frames.
CbrSize ==
    ~params.vbr =>
        bytes * source.out_rate
            = framesOut * Factor + slotLag - (Factor % source.out_rate)

\* With VBR no frame is larger than the largest, and the first one comes with
\* the placeholder.
VbrSize ==
    params.vbr =>
        /\ framesOut = 0 => bytes = 0
        /\ bytes <= Placeholder + framesOut * (Factor \div source.out_rate)

SizesInv ==
    /\ params \in ParamSets
    /\ source \in Sources
    /\ framesOut \in 0..source.frames
    /\ state = "done" => framesOut = source.frames
    /\ bytes \in Nat
    /\ slotLag \in 0..source.out_rate - 1
    /\ CbrSize
    /\ VbrSize

LEMMA InitSizes ==
    ASSUME Init
    PROVE  SizesInv
<1> DEFINE r == source.out_rate
           m == Factor % r
           q == Factor \div r
<1>1. params \in ParamSets /\ source \in Sources /\ framesOut = 0 /\ bytes = 0
      /\ state = "decoding" /\ slotLag = m
  BY DEF Init, Factor
<1>2. r \in Nat \ {0} /\ source.frames \in Nat /\ Factor \in Nat /\ Placeholder \in Nat
  BY <1>1, FactorType
<1>3. Factor \in Int
  BY <1>2
<1>4. m \in 0..r - 1 /\ q \in Nat
  BY <1>2, <1>3, Division, NatQuotient
<1> HIDE DEF m, q, r
<1>5. bytes * r = framesOut * Factor + slotLag - m
  BY <1>1, <1>2, <1>4
<1>6. bytes <= Placeholder + framesOut * q
  BY <1>1, <1>2, <1>4
<1>7. CbrSize
  BY <1>5 DEF CbrSize, r, m
<1>8. VbrSize
  BY <1>1, <1>6 DEF VbrSize, r, q
<1> QED BY <1>1, <1>2, <1>4, <1>7, <1>8 DEF SizesInv, r

LEMMA EmitCbrSizes ==
    ASSUME SizesInv, ~params.vbr, NEW n \in Nat, EmitCbr(n), framesOut' = framesOut + n,
           UNCHANGED <<params, source>>
    PROVE  bytes' \in Nat /\ slotLag' \in 0..source.out_rate - 1 /\ CbrSize'
<1> DEFINE r == source.out_rate
           F == Factor
           m == F % r
           q == F \div r
           owed == Owed(F, r, n, slotLag)
           padding == Padding(owed, r)
<1>1. r \in Nat \ {0} /\ F \in Nat /\ slotLag \in 0..r - 1 /\ bytes \in Nat /\ framesOut \in Nat
  BY FactorType DEF SizesInv
<1>2. bytes * r = framesOut * F + slotLag - m
  BY DEF SizesInv, CbrSize
<1>3. bytes' = bytes + n * q + padding /\ slotLag' = owed + padding * r
  BY DEF EmitCbr, Factor, Owed, Padding
<1>4. /\ padding \in Nat
      /\ owed + padding * r \in 0..r - 1
      /\ (n * q + padding) * r = n * F + (owed + padding * r) - slotLag
  <2> HIDE DEF r, F
  <2>1. Paid(F, r, n, slotLag)
    BY <1>1, OwedIsPaid
  <2> QED BY <2>1, Zenon DEF Paid
<1>5. m \in Nat /\ q \in Nat
  <2> HIDE DEF r, F
  <2>1. F \in Int
    BY <1>1
  <2>2. m \in 0..r - 1
    BY <1>1, <2>1, Division
  <2>3. q \in Nat
    BY <1>1, NatQuotient
  <2> QED BY <1>1, <2>2, <2>3
<1> HIDE DEF r, F, m, q, padding, owed
<1>6. slotLag' \in 0..r - 1
  BY <1>3, <1>4
<1> DEFINE added == n * q + padding
<1>7. added \in Nat /\ added * r = n * F + slotLag' - slotLag /\ bytes' = bytes + added
  BY <1>1, <1>3, <1>4, <1>5
<1> HIDE DEF added
<1>8. bytes' * r = (framesOut + n) * F + slotLag' - m
  <2> DEFINE u == bytes * r
             v == added * r
             w == framesOut * F
             x == n * F
  <2>1. u \in Nat /\ v \in Nat /\ w \in Nat /\ x \in Nat
    BY <1>1, <1>7
  <2>2. bytes' * r = u + v /\ (framesOut + n) * F = w + x
    BY <1>1, <1>7
  <2>3. u = w + slotLag - m /\ v = x + slotLag' - slotLag
    BY <1>2, <1>7
  <2> HIDE DEF u, v, w, x
  <2>4. u + v = (w + x) + slotLag' - m
    BY <1>1, <1>5, <1>6, <2>1, <2>3
  <2> QED BY <2>2, <2>4
<1>9. CbrSize'
  <2>1. Factor' = Factor
    BY FactorStays
  <2> QED BY <1>8, <2>1 DEF CbrSize, r, F, m
<1> QED BY <1>1, <1>6, <1>7, <1>9 DEF r

\* What EmitVbr adds is no more than as many of the largest frames.
LEMMA SomeLarge ==
    ASSUME NEW n \in Nat, NEW large \in 0..n, NEW most \in Nat, NEW least \in Nat,
           least <= most
    PROVE  /\ large * most + (n - large) * least \in Nat
           /\ large * most + (n - large) * least <= n * most
<1> DEFINE a == large * most
           b == (n - large) * least
           c == (n - large) * most
<1>1. n - large \in Nat /\ large \in Nat
  OBVIOUS
<1>2. b <= c
  BY <1>1, ProductMonotone
<1>3. n * most = a + c /\ a \in Nat /\ b \in Nat /\ c \in Nat
  BY <1>1
<1> HIDE DEF a, b, c
<1>4. a + b \in Nat /\ a + b <= n * most
  BY <1>2, <1>3
<1> QED BY <1>4 DEF a, b

LEMMA EmitVbrSizes ==
    ASSUME SizesInv, params.vbr, NEW n \in Nat, EmitVbr(n), framesOut' = framesOut + n,
           UNCHANGED <<params, source>>
    PROVE  bytes' \in Nat /\ slotLag' \in 0..source.out_rate - 1 /\ VbrSize'
<1> DEFINE r == source.out_rate
           q == Factor \div r
           least == FrameFactor(Nearest(0)) \div r
           head == IF framesOut = 0 /\ n > 0 THEN Placeholder ELSE 0
<1>1. /\ r \in Nat \ {0} /\ slotLag \in 0..r - 1 /\ bytes \in Nat /\ framesOut \in Nat
      /\ Placeholder \in Nat /\ Factor \in Nat /\ FrameFactor(Nearest(0)) \in Nat
      /\ FrameFactor(Nearest(0)) <= Factor
  BY FactorType DEF SizesInv
<1>2. /\ framesOut = 0 => bytes = 0
      /\ bytes <= Placeholder + framesOut * q
  BY DEF SizesInv, VbrSize
<1>3. PICK large \in 0..n : bytes' = bytes + head + large * q + (n - large) * least
  BY DEF EmitVbr, Factor
<1>4. slotLag' = slotLag
  BY DEF EmitVbr
<1>5. q \in Nat /\ least \in Nat /\ least <= q
  <2> HIDE DEF r
  <2>1. q \in Nat /\ least \in Nat
    BY <1>1, NatQuotient
  <2>2. least <= q
    BY <1>1, QuotientMonotone
  <2> QED BY <2>1, <2>2
<1>6. /\ head \in Nat /\ head <= Placeholder
      /\ framesOut /= 0 => head = 0
      /\ n = 0 => head = 0
  BY <1>1
<1> DEFINE added == large * q + (n - large) * least
<1> HIDE DEF r, q, least, head
<1>7. added \in Nat /\ added <= n * q
  BY <1>5, SomeLarge
<1>8. large * q \in Nat /\ (n - large) * least \in Nat
  BY <1>5
<1>9. bytes' = bytes + head + added
  BY <1>1, <1>3, <1>6, <1>8
<1> HIDE DEF added
<1>10. bytes' \in Nat
  BY <1>1, <1>6, <1>7, <1>9
<1>11. framesOut' = 0 => bytes' = 0
  <2> SUFFICES ASSUME framesOut' = 0 PROVE bytes' = 0
    OBVIOUS
  <2>1. framesOut = 0 /\ n = 0
    BY <1>1
  <2>2. added = 0
    BY <2>1, <1>5, <1>7
  <2> QED BY <1>2, <1>6, <1>9, <2>1, <2>2
<1>12. bytes' <= Placeholder + framesOut' * q
  <2> DEFINE u == framesOut * q
             v == n * q
  <2>1. u \in Nat /\ v \in Nat /\ framesOut' * q = u + v
    BY <1>1, <1>5
  <2>2. bytes + head <= Placeholder + u
    BY <1>1, <1>2, <1>6, <2>1
  <2>3. added <= v
    BY <1>7
  <2> HIDE DEF u, v
  <2>4. bytes' <= Placeholder + (u + v)
    BY <1>1, <1>6, <1>7, <1>9, <2>1, <2>2, <2>3
  <2> QED BY <2>1, <2>4
<1>13. VbrSize'
  <2>1. Factor' = Factor /\ Placeholder' = Placeholder
    BY FactorStays
  <2> QED BY <1>11, <1>12, <2>1 DEF VbrSize, r, q
<1> QED BY <1>1, <1>4, <1>10, <1>13 DEF r

LEMMA EmitSizes ==
    ASSUME SizesInv, NEW n \in 0..source.frames - framesOut, Emit(n),
           UNCHANGED <<params, source>>,
           state' = "done" => n = source.frames - framesOut
    PROVE  SizesInv'
<1>1. framesOut \in Nat /\ source.frames \in Nat /\ n \in Nat /\ params.vbr \in BOOLEAN
  BY FactorType DEF SizesInv
<1>2. framesOut' = framesOut + n
  BY DEF Emit
<1>3. framesOut' \in 0..source'.frames /\ (state' = "done" => framesOut' = source'.frames)
  BY <1>1, <1>2
<1>4. bytes' \in Nat /\ slotLag' \in 0..source'.out_rate - 1 /\ CbrSize' /\ VbrSize'
  <2>1. CASE params.vbr
    <3>1. EmitVbr(n)
      BY <2>1 DEF Emit
    <3>2. CbrSize'
      BY <2>1 DEF CbrSize
    <3> QED BY <1>1, <1>2, <2>1, <3>1, <3>2, EmitVbrSizes
  <2>2. CASE ~params.vbr
    <3>1. EmitCbr(n)
      BY <2>2 DEF Emit
    <3>2. VbrSize'
      BY <2>2 DEF VbrSize
    <3> QED BY <1>1, <1>2, <2>2, <3>1, <3>2, EmitCbrSizes
  <2> QED BY <2>1, <2>2
<1>5. params' \in ParamSets /\ source' \in Sources
  BY DEF SizesInv
<1> QED BY <1>3, <1>4, <1>5 DEF SizesInv

\* A step that decodes emits what LAME has ready.
LEMMA EmitSomeSizes ==
    ASSUME SizesInv, EmitSome, UNCHANGED <<params, source, state>>, state = "decoding"
    PROVE  SizesInv'
<1>1. PICK n \in 0..source.frames - framesOut - 1 : Emit(n)
  BY DEF EmitSome
<1>2. n \in 0..source.frames - framesOut /\ (state' = "done" => n = source.frames - framesOut)
  BY FactorType DEF SizesInv
<1> QED BY <1>1, <1>2, EmitSizes

LEMMA NextSizes ==
    ASSUME SizesInv, [Next]_vars
    PROVE  SizesInv'
<1>1. CASE write_callback
  BY <1>1, EmitSomeSizes DEF write_callback
<1>2. CASE process_single_fr
  BY <1>2, EmitSomeSizes DEF process_single_fr
<1>3. CASE encode_finish
  <2>1. source.frames - framesOut \in 0..source.frames - framesOut
    BY FactorType DEF SizesInv
  <2> QED BY <1>3, <2>1, EmitSizes DEF encode_finish
<1>4. CASE EncoderFails
  BY <1>4, FactorStays DEF EncoderFails, SizesInv, CbrSize, VbrSize
<1>5. CASE UNCHANGED vars
  BY <1>5, FactorStays DEF vars, SizesInv, CbrSize, VbrSize
<1> QED BY <1>1, <1>2, <1>3, <1>4, <1>5 DEF Next

LEMMA SpecSizes == Spec => []SizesInv
BY InitSizes, NextSizes, PTL DEF Spec

\* What calculate_size divides.
Bits == source.totalframes * conversion_factor * params.bitrate

\* What calculate_size computes for the audio.
LEMMA ForeseenBytes ==
    ASSUME source.totalframes \in Nat, source.in_rate \in Nat \ {0},
           source.out_rate \in Nat \ {0}, params.bitrate \in Nat
    PROVE  /\ Bits \in Nat
           /\ params.vbr => Foreseen = 2880 + (Bits \div source.in_rate)
           /\ ~params.vbr => Foreseen = Bits \div source.out_rate
<1> DEFINE x == Bits \div source.in_rate
           y == Bits \div source.out_rate
<1>1. Bits \in Nat
  BY DEF Bits, conversion_factor
<1>2. x \in Nat /\ y \in Nat
  BY <1>1, NatQuotient
<1>3. calculate_size(0) = IF params.vbr THEN 0 + 128 + 2880 + x ELSE 0 + 128 + y
  BY DEF calculate_size, kId3v1TagLength, MAX_VBR_FRAME_SIZE, Bits
<1> HIDE DEF x, y
<1>4. /\ params.vbr => Foreseen = 2880 + x
      /\ ~params.vbr => Foreseen = y
  BY <1>2, <1>3 DEF Foreseen, kId3v1TagLength
<1> QED BY <1>1, <1>4 DEF x, y

LEMMA ExactSize ==
    ASSUME SizesInv
    PROVE  ForeseenSizeIsExact
<1> SUFFICES ASSUME Finished, ~params.vbr, params.bitrate \in Bitrates, MpegVersion = 1
             PROVE  bytes - Foreseen \in {0, 1}
  BY DEF ForeseenSizeIsExact
<1> DEFINE r == source.out_rate
           m == Factor % r
<1>1. /\ r \in Nat \ {0} /\ slotLag \in 0..r - 1 /\ bytes \in Nat /\ Factor \in Nat
      /\ source.totalframes \in Nat /\ source.in_rate \in Nat \ {0}
      /\ params.bitrate \in Nat
  BY FactorType, AudioAssumption DEF SizesInv, SourceType, ParamsType
<1>2. framesOut = source.totalframes
  BY DEF Finished, SizesInv
<1>3. Factor = 144000 * params.bitrate
  BY KnownBitrate DEF Factor, FrameFactor
<1>4. framesOut * Factor = Bits /\ Bits \in Nat
  BY <1>1, <1>2, <1>3 DEF Bits, conversion_factor
<1>5. bytes * r = framesOut * Factor + slotLag - m
  BY DEF SizesInv, CbrSize
<1>6. m \in 0..r - 1
  <2>1. Factor \in Int
    BY <1>1
  <2> HIDE DEF r
  <2> QED BY <1>1, <2>1, Division
<1>7. Foreseen = Bits \div r
  BY <1>1, ForeseenBytes
<1> HIDE DEF r, m
<1>8. bytes * r = Bits + (slotLag - m) /\ -r < slotLag - m /\ slotLag - m < r
  <2> DEFINE u == bytes * r
  <2>1. u \in Nat /\ u = Bits + slotLag - m
    BY <1>1, <1>4, <1>5
  <2> HIDE DEF u
  <2>2. u = Bits + (slotLag - m) /\ -r < slotLag - m /\ slotLag - m < r
    BY <1>1, <1>4, <1>6, <2>1
  <2> QED BY <2>2 DEF u
<1>9. bytes - (Bits \div r) \in {0, 1}
  <2>1. slotLag - m \in Int /\ Bits \in Int /\ bytes \in Int
    BY <1>1, <1>4, <1>6
  <2> QED BY <1>1, <1>8, <2>1, QuotientUpTo
<1> QED BY <1>7, <1>9

\* With a constant bitrate the size that calculate_size foresees is that of
\* LAME's stream, or a byte short, whatever the length, the rate and the
\* bitrate, and however LAME's frames come about (mp3_encoder.cc:302-305).
THEOREM CbrSizeIsForeseen == Spec => []ForeseenSizeIsExact
BY SpecSizes, ExactSize, PTL

\* LAME's output has a rate of MPEG-1 or MPEG-2: from 16 kHz on.
OutputRates == \A s \in Sources : s.out_rate >= 16000

\* The placeholder fits into what calculate_size adds for the Xing frame.
LEMMA PlaceholderFits ==
    ASSUME OutputRates, source \in Sources
    PROVE  Placeholder <= 2880
<1> DEFINE r == source.out_rate
           F == FrameFactor(IF MpegVersion = 1 THEN 128 ELSE 64)
           q == F \div r
<1>1. r \in Nat /\ r >= 16000
  BY AudioAssumption DEF OutputRates, SourceType
<1>2. r \in Nat \ {0} /\ F \in Nat /\ F <= 144000 * 128 /\ (r < 32000 => F = 72000 * 64)
  BY <1>1 DEF FrameFactor, MpegVersion
<1> HIDE DEF F, r
<1>3. q \in Nat /\ q * r <= F
  <2>1. q \in Nat
    BY <1>2, NatQuotient
  <2>2. F \in Int /\ r \in Nat \ {0}
    BY <1>2
  <2> DEFINE m == F % r
  <2>3. m \in 0..r - 1 /\ F = q * r + m
    BY <2>2, Division, Zenon
  <2> HIDE DEF q, m
  <2>4. q * r \in Nat
    BY <1>2, <2>1
  <2> QED BY <1>2, <2>1, <2>3, <2>4
<1> HIDE DEF q
<1>4. q <= 2880
  <2>1. q * 16000 <= q * r
    BY <1>1, <1>3, ProductMonotone
  <2>2. q * 16000 <= F
    BY <1>2, <1>3, <2>1
  <2> QED BY <1>2, <1>3, <2>2
<1> QED BY <1>4 DEF Placeholder, q, F, r

LEMMA SufficientSize ==
    ASSUME OutputRates, SizesInv
    PROVE  ForeseenVbrSizeSuffices
<1> SUFFICES ASSUME Finished, params.vbr, source.in_rate <= source.out_rate,
                    Nearest(params.bitrate) <= params.bitrate
             PROVE  bytes <= Foreseen
  BY DEF ForeseenVbrSizeSuffices
<1> DEFINE r == source.out_rate
           in == source.in_rate
           q == Factor \div r
           n == source.totalframes
<1>1. /\ r \in Nat \ {0} /\ in \in Nat \ {0} /\ bytes \in Nat /\ Factor \in Nat
      /\ n \in Nat /\ params.bitrate \in Nat /\ Placeholder \in Nat
  BY FactorType, AudioAssumption DEF SizesInv, SourceType, ParamsType
<1>2. framesOut = n
  BY DEF Finished, SizesInv
<1>3. Factor <= 144000 * params.bitrate
  <2> DEFINE b == Nearest(params.bitrate)
  <2>1. b \in Nat /\ b <= params.bitrate
    BY <1>1, NearestIsNearest, BitratesAreNumbers
  <2>2. Factor = (IF MpegVersion = 1 THEN 144000 ELSE 72000) * b
    BY DEF Factor, FrameFactor
  <2> HIDE DEF b
  <2> QED BY <1>1, <2>1, <2>2
<1>4. n * Factor <= Bits /\ Bits \in Nat
  <2>1. n * Factor <= n * (144000 * params.bitrate)
    BY <1>1, <1>3, ProductMonotone
  <2>2. Bits = n * (144000 * params.bitrate)
    BY <1>1 DEF Bits, conversion_factor
  <2> QED BY <1>1, <2>1, <2>2
<1>5. bytes <= Placeholder + n * q
  BY <1>2 DEF SizesInv, VbrSize
<1>6. Placeholder <= 2880
  BY PlaceholderFits DEF SizesInv
<1>7. Foreseen = 2880 + (Bits \div in)
  BY <1>1, ForeseenBytes
<1>8. q \in Nat /\ q * r <= Factor
  <2> HIDE DEF r
  <2>1. q \in Nat
    BY <1>1, NatQuotient
  <2>2. Factor \in Int
    BY <1>1
  <2> DEFINE m == Factor % r
  <2>3. m \in 0..r - 1 /\ Factor = q * r + m
    BY <1>1, <2>2, Division, Zenon
  <2> HIDE DEF q, m
  <2>4. q * r \in Nat
    BY <1>1, <2>1
  <2> QED BY <1>1, <2>1, <2>3, <2>4
<1> HIDE DEF q
<1>9. (n * q) * in <= Bits
  <2>1. n * (q * in) <= n * (q * r)
    <3>1. q * in <= q * r
      BY <1>1, <1>8, ProductMonotone
    <3>2. q * in \in Int /\ q * r \in Int
      BY <1>1, <1>8
    <3> QED BY <1>1, <3>1, <3>2, ProductMonotone
  <2>2. n * (q * r) <= n * Factor
    <3>1. q * r \in Int
      BY <1>1, <1>8
    <3> QED BY <1>1, <1>8, <3>1, ProductMonotone
  <2> HIDE DEF n, in, r
  <2>3. (n * q) * in = n * (q * in)
    BY <1>1, <1>8
  <2>4. n * (q * in) \in Nat /\ n * (q * r) \in Nat /\ n * Factor \in Nat
    BY <1>1, <1>8
  <2> DEFINE a == n * (q * in)
             b == n * (q * r)
             c == n * Factor
  <2>5. a \in Nat /\ b \in Nat /\ c \in Nat /\ a <= b /\ b <= c /\ c <= Bits
    BY <1>4, <2>1, <2>2, <2>4
  <2> HIDE DEF a, b, c
  <2>6. a <= Bits
    BY <1>4, <2>5
  <2> QED BY <2>3, <2>6 DEF a
<1> HIDE DEF n, in, r
<1>10. n * q <= Bits \div in
  <2>1. n * q \in Int /\ Bits \in Int
    BY <1>1, <1>4, <1>8
  <2> QED BY <1>1, <1>9, <2>1, QuotientBound
<1>11. n * q \in Nat /\ Bits \div in \in Nat
  BY <1>1, <1>4, <1>8, NatQuotient
<1> DEFINE u == n * q
           v == Bits \div in
<1>12. u \in Nat /\ v \in Nat /\ u <= v /\ bytes <= Placeholder + u
  BY <1>5, <1>10, <1>11
<1> HIDE DEF u, v
<1>13. bytes <= 2880 + v
  BY <1>1, <1>6, <1>12
<1> QED BY <1>7, <1>13 DEF v

\* With VBR, unless LAME reduces the rate or rounds the bitrate up, the size
\* that calculate_size foresees is no less than that of LAME's stream, with the
\* frame for the Xing data, whatever bitrates LAME picks
\* (mp3_encoder.cc:297-301).
THEOREM VbrSizeIsForeseen ==
    ASSUME OutputRates
    PROVE  Spec => []ForeseenVbrSizeSuffices
BY SpecSizes, SufficientSize, PTL

----
(* The samples *)

\* The laws of powers that left alignment rests on, as far as the width of an
\* int: the provers know the operator ^ by name only.
PowersOfTwo ==
    /\ 2^1 = 2
    /\ \A n \in 0..IntBits : 2^n \in Nat \ {0}
    /\ \A m, n \in 0..IntBits : m + n <= IntBits => 2^(m + n) = 2^m * 2^n

Power(n) == 2^n

LEMMA Powers ==
    ASSUME PowersOfTwo, NEW size \in 1..IntBits
    PROVE  /\ Power(IntBits - size) \in Nat \ {0}
           /\ Power(size - 1) \in Nat \ {0}
           /\ Power(IntBits - 1) = Power(IntBits - size) * Power(size - 1)
           /\ Power(IntBits) = 2 * Power(IntBits - 1)
<1>1. IntBits \in Nat \ {0}
  BY AudioAssumption
<1>2. /\ 1 \in 0..IntBits /\ IntBits - size \in 0..IntBits /\ size - 1 \in 0..IntBits
      /\ IntBits - 1 \in 0..IntBits
      /\ (IntBits - size) + (size - 1) = IntBits - 1
      /\ 1 + (IntBits - 1) = IntBits
  BY <1>1
<1>3. /\ \A n \in 0..IntBits : Power(n) \in Nat \ {0}
      /\ \A m, n \in 0..IntBits : m + n <= IntBits => Power(m + n) = Power(m) * Power(n)
      /\ Power(1) = 2
  BY Zenon DEF PowersOfTwo, Power
<1>4. Power(IntBits - size) \in Nat \ {0} /\ Power(size - 1) \in Nat \ {0}
  BY <1>2, <1>3
<1>5. Power((IntBits - size) + (size - 1)) = Power(IntBits - size) * Power(size - 1)
  BY <1>1, <1>2, <1>3
<1>6. Power(1 + (IntBits - 1)) = Power(1) * Power(IntBits - 1)
  BY <1>1, <1>2, <1>3
<1> QED BY <1>2, <1>3, <1>4, <1>5, <1>6

\* A sample that is shifted to the left end of an int stays within the int.
LEMMA Alignment ==
    ASSUME PowersOfTwo, NEW size \in 1..IntBits, NEW x \in Signed(size)
    PROVE  /\ LeftAligned(x, size) \in Int
           /\ LeftAligned(x, size) * 2^(size - 1) = x * 2^(IntBits - 1)
<1> DEFINE P == Power(IntBits - size)
           H == Power(size - 1)
           T == Power(IntBits - 1)
           U == Power(IntBits)
           y == x * P
<1>1. P \in Nat \ {0} /\ H \in Nat \ {0} /\ T = P * H /\ U = 2 * T
  BY Powers
<1>2. x \in -H..H - 1
  BY Zenon DEF Signed, Power
<1>3. LeftAligned(x, size) = ((y + T) % U) - T
  BY Zenon DEF LeftAligned, Wrapped, Power
<1> HIDE DEF P, H, T, U
<1>4. x \in Int /\ T \in Nat \ {0} /\ U \in Nat \ {0}
  BY <1>1, <1>2
<1>5. -T <= y /\ y < T /\ y \in Int
  <2>1. P * (-H) <= P * x
    BY <1>1, <1>2, ProductMonotone
  <2>2. P * x <= P * (H - 1)
    BY <1>1, <1>2, ProductMonotone
  <2>3. P * (-H) = -T /\ P * (H - 1) = T - P /\ P * x = y
    BY <1>1, <1>4
  <2>4. y \in Int
    BY <1>1, <1>4
  <2> HIDE DEF y
  <2> QED BY <1>1, <1>4, <2>1, <2>2, <2>3, <2>4
<1> HIDE DEF y
<1>6. (y + T) % U = y + T
  <2>1. y + T \in 0..U - 1
    BY <1>1, <1>4, <1>5
  <2> QED BY <1>4, <2>1
<1>7. LeftAligned(x, size) = y
  BY <1>3, <1>4, <1>5, <1>6
<1>8. y * H = x * T
  BY <1>1, <1>4 DEF y
<1>9. LeftAligned(x, size) * H = x * T
  BY <1>7, <1>8
<1> QED BY <1>5, <1>7, <1>9 DEF H, T, Power

LEMMA SourceFacts ==
    ASSUME source \in Sources
    PROVE  /\ source.sample_size \in 1..IntBits
           /\ Len(source.channels) \in Nat \ {0}
           /\ source.channels \in [1..Len(source.channels) -> Seq(Int)]
           /\ \A c \in 1..Len(source.channels) :
                /\ Len(source.channels[c]) = Len(source.channels[1])
                /\ \A i \in 1..Len(source.channels[1]) :
                    source.channels[c][i] \in Signed(source.sample_size)
           /\ source.kind = "vorbis" =>
                source.sample_size = VorbisBits /\ Len(source.channels) \in 1..2
<1> DEFINE channels == source.channels
<1>1. channels \in Seq(Seq(Int)) /\ channels /= <<>>
  BY AudioAssumption DEF SourceType
<1>2. /\ source.sample_size \in 1..IntBits
      /\ source.kind = "vorbis" => source.sample_size = VorbisBits /\ Len(channels) <= 2
      /\ \A c \in DOMAIN channels :
            /\ Len(channels[c]) = Len(channels[1])
            /\ ToSet(channels[c]) \subseteq Signed(source.sample_size)
  BY AudioAssumption
<1> HIDE DEF channels
<1>3. /\ DOMAIN channels = 1..Len(channels) /\ Len(channels) \in Nat \ {0}
      /\ channels \in [1..Len(channels) -> Seq(Int)]
  BY <1>1
<1>4. ASSUME NEW c \in 1..Len(channels), NEW i \in 1..Len(channels[1])
      PROVE  channels[c][i] \in Signed(source.sample_size)
  <2>1. channels[c] \in Seq(Int) /\ Len(channels[c]) = Len(channels[1])
    BY <1>2, <1>3
  <2>2. channels[c][i] \in ToSet(channels[c])
    BY <2>1 DEF ToSet
  <2> QED BY <1>2, <1>3, <2>2
<1>5. source.kind = "vorbis" => Len(channels) \in 1..2
  BY <1>2, <1>3
<1>6. /\ \A c \in 1..Len(channels) :
            /\ Len(channels[c]) = Len(channels[1])
            /\ \A i \in 1..Len(channels[1]) : channels[c][i] \in Signed(source.sample_size)
      /\ source.kind = "vorbis" =>
            source.sample_size = VorbisBits /\ Len(channels) \in 1..2
  BY <1>2, <1>3, <1>4, <1>5
<1> QED BY <1>2, <1>3, <1>6, Zenon DEF channels

\* The first n samples of a channel, left aligned.
Aligned(samples, channel, n, size) ==
    /\ samples \in Seq(Int)
    /\ Len(samples) = n
    /\ \A i \in 1..n : samples[i] = LeftAligned(channel[i], size)

Silent(samples, n) ==
    /\ samples \in Seq(Int)
    /\ Len(samples) = n
    /\ \A i \in 1..n : samples[i] = 0

\* The next n samples of a channel, left aligned, after the first p.
LEMMA MoreAligned ==
    ASSUME NEW samples, NEW channel, NEW p \in Nat, NEW size, NEW n \in Nat,
           Aligned(samples, channel, p, size),
           NEW more \in Seq(Int), Len(more) = n,
           \A i \in 1..n : more[i] = LeftAligned(channel[p + i], size)
    PROVE  Aligned(samples \o more, channel, p + n, size)
<1>1. samples \in Seq(Int) /\ Len(samples) = p
  BY DEF Aligned
<1>2. samples \o more \in Seq(Int) /\ Len(samples \o more) = p + n
  BY <1>1
<1>3. ASSUME NEW i \in 1..p + n
      PROVE  (samples \o more)[i] = LeftAligned(channel[i], size)
  <2>1. CASE i <= p
    <3>1. (samples \o more)[i] = samples[i] /\ i \in 1..p
      BY <1>1, <2>1
    <3> QED BY <3>1 DEF Aligned
  <2>2. CASE i > p
    <3> DEFINE j == i - p
    <3>1. j \in 1..n /\ p + j = i
      BY <2>2
    <3>2. (samples \o more)[i] = more[j]
      <4>1. i \in 1..Len(samples) + Len(more) /\ ~(i <= Len(samples))
        BY <1>1, <2>2
      <4>2. (samples \o more)[i] = more[i - Len(samples)]
        BY <1>1, <4>1, ConcatProperties
      <4> QED BY <1>1, <4>2
    <3> HIDE DEF j
    <3>3. more[j] = LeftAligned(channel[p + j], size)
      BY <3>1
    <3> QED BY <3>1, <3>2, <3>3, Zenon
  <2>3. i <= p \/ i > p
    OBVIOUS
  <2> QED BY <2>1, <2>2, <2>3, Zenon
<1> QED BY <1>2, <1>3 DEF Aligned

LEMMA MoreSilence ==
    ASSUME NEW samples, NEW p \in Nat, NEW n \in Nat, Silent(samples, p)
    PROVE  Silent(samples \o [i \in 1..n |-> 0], p + n)
<1> DEFINE more == [i \in 1..n |-> 0]
<1>1. more \in Seq(Int) /\ Len(more) = n /\ \A i \in 1..n : more[i] = 0
  OBVIOUS
<1>2. samples \in Seq(Int) /\ Len(samples) = p /\ \A i \in 1..p : samples[i] = 0
  BY DEF Silent
<1> HIDE DEF more
<1>3. samples \o more \in Seq(Int) /\ Len(samples \o more) = p + n
  BY <1>1, <1>2
<1>4. ASSUME NEW i \in 1..p + n PROVE (samples \o more)[i] = 0
  BY <1>1, <1>2
<1>5. Silent(samples \o more, p + n)
  BY <1>3, <1>4 DEF Silent
<1> QED BY <1>5 DEF more

\* What LAME has heard is what has been decoded.
HeardInv ==
    /\ source \in Sources
    /\ position \in 0..Len(source.channels[1])
    /\ heard = [left |-> heard.left, right |-> heard.right]
    /\ Aligned(heard.left, source.channels[1], position, source.sample_size)
    /\ Len(source.channels) = 1 => Silent(heard.right, position)
    /\ Len(source.channels) /= 1 =>
        Aligned(heard.right, source.channels[2], position, source.sample_size)

\* The samples of data are the next n of the channels.
NextOf(data, n) ==
    \A c \in 1..NumChannels : \A i \in 1..n : data[c][i] = source.channels[c][position + i]

LEMMA HearsMore ==
    ASSUME PowersOfTwo, HeardInv, NEW n \in Nat, n <= Rest, NEW data, NextOf(data, n),
           encode_pcm_data(data, n, source.sample_size),
           position' = position + n, UNCHANGED source
    PROVE  HeardInv'
<1> DEFINE channels == source.channels
           size == source.sample_size
           buf(c) == [i \in 1..n |-> LeftAligned(data[c][i], size)]
<1>1. /\ position \in Nat /\ Len(channels[1]) \in Nat /\ position + n <= Len(channels[1])
      /\ NumChannels \in 1..2 /\ NumChannels <= Len(channels)
      /\ (NumChannels = 1 <=> Len(channels) = 1)
  <2>1. /\ channels \in [1..Len(channels) -> Seq(Int)]
        /\ Len(channels) \in Nat \ {0}
    BY SourceFacts DEF HeardInv
  <2>2. Len(channels[1]) \in Nat
    BY <2>1
  <2>3. position \in Nat /\ n <= Len(channels[1]) - position
    BY <2>2 DEF HeardInv, Rest
  <2>4. NumChannels = IF Len(channels) = 1 THEN 1 ELSE 2
    BY DEF NumChannels
  <2> HIDE DEF channels
  <2> QED BY <2>1, <2>2, <2>3, <2>4
<1>2. ASSUME NEW c \in 1..NumChannels
      PROVE  /\ buf(c) \in Seq(Int) /\ Len(buf(c)) = n
             /\ \A i \in 1..n : buf(c)[i] = LeftAligned(channels[c][position + i], size)
  <2>1. ASSUME NEW i \in 1..n
        PROVE  /\ LeftAligned(data[c][i], size) \in Int
               /\ data[c][i] = channels[c][position + i]
    <3>1. data[c][i] = channels[c][position + i]
      BY DEF NextOf
    <3>2. position + i \in 1..Len(channels[1]) /\ c \in 1..Len(channels)
      <4>1. Len(channels) \in Nat
        BY SourceFacts DEF HeardInv
      <4> HIDE DEF channels
      <4> QED BY <1>1, <4>1
    <3>3. channels[c][position + i] \in Signed(size) /\ size \in 1..IntBits
      BY <3>2, SourceFacts DEF HeardInv
    <3> QED BY <3>1, <3>3, Alignment
  <2> HIDE DEF channels, size
  <2> QED BY <2>1
<1>3. heard' = [left |-> heard.left \o buf(1),
                right |-> heard.right \o
                    IF NumChannels > 1 THEN buf(2) ELSE [i \in 1..n |-> 0]]
  BY DEF encode_pcm_data
<1>4. /\ heard' = [left |-> heard'.left, right |-> heard'.right]
      /\ heard'.left = heard.left \o buf(1)
      /\ NumChannels > 1 => heard'.right = heard.right \o buf(2)
      /\ ~(NumChannels > 1) => heard'.right = heard.right \o [i \in 1..n |-> 0]
  <2> HIDE DEF buf
  <2> QED BY <1>3
<1>5. Aligned(heard'.left, channels[1], position + n, size)
  <2>1. 1 \in 1..NumChannels
    BY <1>1
  <2>2. Aligned(heard.left, channels[1], position, size)
    BY DEF HeardInv
  <2>3. heard'.left = heard.left \o buf(1)
    BY <1>4
  <2> HIDE DEF channels, size, buf
  <2>4. /\ buf(1) \in Seq(Int) /\ Len(buf(1)) = n
        /\ \A i \in 1..n : buf(1)[i] = LeftAligned(channels[1][position + i], size)
    BY <1>2, <2>1
  <2>5. Aligned(heard.left \o buf(1), channels[1], position + n, size)
    BY <1>1, <2>2, <2>4, MoreAligned
  <2> QED BY <2>3, <2>5
<1>6. ASSUME Len(channels) /= 1
      PROVE  Aligned(heard'.right, channels[2], position + n, size)
  <2>1. 2 \in 1..NumChannels /\ NumChannels > 1
    BY <1>1, <1>6
  <2>2. Aligned(heard.right, channels[2], position, size)
    BY <1>6 DEF HeardInv
  <2>3. heard'.right = heard.right \o buf(2)
    BY <1>4, <2>1
  <2> HIDE DEF channels, size, buf
  <2>4. /\ buf(2) \in Seq(Int) /\ Len(buf(2)) = n
        /\ \A i \in 1..n : buf(2)[i] = LeftAligned(channels[2][position + i], size)
    BY <1>2, <2>1
  <2>5. Aligned(heard.right \o buf(2), channels[2], position + n, size)
    BY <1>1, <2>2, <2>4, MoreAligned
  <2> QED BY <2>3, <2>5
<1>7. ASSUME Len(channels) = 1
      PROVE  Silent(heard'.right, position + n)
  <2>1. ~(NumChannels > 1) /\ Silent(heard.right, position)
    BY <1>1, <1>7 DEF HeardInv
  <2> QED BY <1>1, <1>4, <2>1, MoreSilence
<1>8. source' \in Sources /\ position' \in 0..Len(source'.channels[1])
  BY <1>1 DEF HeardInv
<1> QED BY <1>4, <1>5, <1>6, <1>7, <1>8 DEF HeardInv

LEMMA InitHeard ==
    ASSUME Init
    PROVE  HeardInv
<1>1. source \in Sources /\ position = 0 /\ heard = [left |-> <<>>, right |-> <<>>]
  BY DEF Init
<1>2. Len(source.channels[1]) \in Nat
  BY <1>1, SourceFacts
<1>3. heard.left = <<>> /\ heard.right = <<>> /\ heard = [left |-> heard.left, right |-> heard.right]
  BY <1>1
<1> QED BY <1>1, <1>2, <1>3 DEF HeardInv, Aligned, Silent

\* SubSeq hands out the next samples.
LEMMA NextSamplesAreNext ==
    ASSUME HeardInv, NEW n \in Nat, n <= Rest, NEW c \in 1..Len(source.channels)
    PROVE  /\ NextSamples(c, n) \in Seq(Int)
           /\ Len(NextSamples(c, n)) = n
           /\ \A i \in 1..n : NextSamples(c, n)[i] = source.channels[c][position + i]
<1> DEFINE channel == source.channels[c]
<1>1. channel \in Seq(Int) /\ Len(channel) = Len(source.channels[1])
  BY SourceFacts DEF HeardInv
<1>2. position \in Nat /\ position + n <= Len(channel)
  BY <1>1 DEF HeardInv, Rest
<1>3. NextSamples(c, n) = SubSeq(channel, position + 1, position + n)
  BY DEF NextSamples
<1> HIDE DEF channel
<1>4. \A i \in position + 1..position + n : channel[i] \in Int
  BY <1>1, <1>2
<1>5. /\ NextSamples(c, n) \in Seq(Int)
      /\ Len(NextSamples(c, n)) = n
      /\ \A i \in 1..n : NextSamples(c, n)[i] = channel[position + i]
  BY <1>1, <1>2, <1>3, <1>4
<1> QED BY <1>5 DEF channel

LEMMA FlacHears ==
    ASSUME PowersOfTwo, HeardInv, write_callback
    PROVE  HeardInv'
<1>1. PICK n \in 1..MaxPacket :
        /\ n <= Rest
        /\ encode_pcm_data([c \in DOMAIN source.channels |-> NextSamples(c, n)], n,
                           source.sample_size)
        /\ position' = position + n
  BY DEF write_callback
<1> DEFINE data == [c \in DOMAIN source.channels |-> NextSamples(c, n)]
<1>2. n \in Nat
  OBVIOUS
<1>3. NextOf(data, n)
  <2> SUFFICES ASSUME NEW c \in 1..NumChannels, NEW i \in 1..n
               PROVE  data[c][i] = source.channels[c][position + i]
    BY DEF NextOf
  <2>1. c \in 1..Len(source.channels) /\ DOMAIN source.channels = 1..Len(source.channels)
    <3>1. /\ Len(source.channels) \in Nat \ {0}
          /\ source.channels \in [1..Len(source.channels) -> Seq(Int)]
      BY SourceFacts DEF HeardInv
    <3>2. c \in 1..Len(source.channels)
      <4> DEFINE C == Len(source.channels)
      <4>1. C \in Nat \ {0} /\ c \in 1..IF C = 1 THEN 1 ELSE 2
        BY <3>1, Zenon DEF NumChannels
      <4> HIDE DEF C
      <4>2. c \in 1..C
        BY <4>1
      <4> QED BY <4>2 DEF C
    <3>3. DOMAIN source.channels = 1..Len(source.channels)
      BY <3>1
    <3> QED BY <3>2, <3>3
  <2>2. data[c] = NextSamples(c, n)
    BY <2>1
  <2>3. NextSamples(c, n)[i] = source.channels[c][position + i]
    BY <1>1, <1>2, <2>1, NextSamplesAreNext
  <2> QED BY <2>2, <2>3, Zenon
<1>4. UNCHANGED source
  BY DEF write_callback
<1> HIDE DEF data
<1>5. encode_pcm_data(data, n, source.sample_size)
  BY <1>1, Zenon DEF data
<1> QED BY <1>1, <1>2, <1>3, <1>4, <1>5, HearsMore

\* Taking the channels apart undoes how ov_read puts them together.
LEMMA DeinterleavedIsNext ==
    ASSUME HeardInv, NEW n \in Nat, n <= Rest, source.kind = "vorbis"
    PROVE  LET data == Deinterleaved(Interleaved(n), Len(source.channels))
           IN  NextOf(data, n) /\ Len(data[1]) = n
<1> DEFINE C == Len(source.channels)
           buffer == Interleaved(n)
           data == Deinterleaved(buffer, C)
<1>1. C \in 1..2
  BY SourceFacts DEF HeardInv
<1>2. C * n \in Nat /\ n * C = C * n
  BY <1>1
<1>3. buffer = [i \in 1..n * C |-> NextSamples(((i - 1) % C) + 1, n)[(i - 1) \div C + 1]]
  BY DEF Interleaved
<1>4. Len(buffer) = n * C
  BY <1>2, <1>3
<1>5. Len(buffer) \div C = n
  <2> HIDE DEF C, buffer
  <2>1. CASE C = 1
    BY <1>4, <2>1
  <2>2. CASE C = 2
    BY <1>4, <2>2
  <2> QED BY <1>1, <2>1, <2>2
<1> HIDE DEF C, buffer
<1>6. data = [c \in 1..C |-> [i \in 1..n |-> buffer[(i - 1) * C + c]]]
  BY <1>5 DEF Deinterleaved
<1> HIDE DEF data
<1>7. ASSUME NEW c \in 1..C, NEW i \in 1..n
      PROVE  data[c][i] = NextSamples(c, n)[i]
  <2> DEFINE k == (i - 1) * C + c
  <2>1. k \in 1..n * C /\ (k - 1) % C = c - 1 /\ (k - 1) \div C = i - 1
    <3>1. CASE C = 1
      BY <3>1
    <3>2. CASE C = 2
      BY <3>2
    <3> QED BY <1>1, <3>1, <3>2
  <2>2. data[c][i] = buffer[k]
    BY <1>6
  <2> HIDE DEF k
  <2>3. buffer[k] = NextSamples(((k - 1) % C) + 1, n)[(k - 1) \div C + 1]
    BY <1>3, <2>1, Zenon
  <2>4. ((k - 1) % C) + 1 = c /\ (k - 1) \div C + 1 = i
    BY <1>1, <2>1
  <2> QED BY <2>2, <2>3, <2>4, Zenon
<1>8. NextOf(data, n)
  <2> SUFFICES ASSUME NEW c \in 1..NumChannels, NEW i \in 1..n
               PROVE  data[c][i] = source.channels[c][position + i]
    BY DEF NextOf
  <2>1. c \in 1..C
    <3>1. NumChannels = IF C = 1 THEN 1 ELSE 2
      BY DEF NumChannels, C
    <3> QED BY <1>1, <3>1
  <2>2. c \in 1..Len(source.channels)
    BY <2>1 DEF C
  <2>3. NextSamples(c, n)[i] = source.channels[c][position + i]
    BY <2>2, NextSamplesAreNext
  <2> QED BY <1>7, <2>1, <2>3, Zenon
<1>9. Len(data[1]) = n
  BY <1>1, <1>6
<1> QED BY <1>8, <1>9, Zenon DEF data, buffer, C

LEMMA VorbisHears ==
    ASSUME PowersOfTwo, HeardInv, process_single_fr
    PROVE  HeardInv'
<1>1. PICK n \in 1..MaxPacket :
        LET encode_buffer == Deinterleaved(Interleaved(n), Len(source.channels))
        IN  /\ n <= Rest
            /\ encode_pcm_data(encode_buffer, Len(encode_buffer[1]), VorbisBits)
            /\ position' = position + n
  BY DEF process_single_fr
<1> DEFINE data == Deinterleaved(Interleaved(n), Len(source.channels))
<1>2. n \in Nat
  OBVIOUS
<1>3. source.kind = "vorbis" /\ UNCHANGED source
  BY DEF process_single_fr
<1>4. /\ n <= Rest
      /\ encode_pcm_data(data, Len(data[1]), VorbisBits)
      /\ position' = position + n
  BY <1>1, Zenon
<1>5. NextOf(data, n) /\ Len(data[1]) = n
  BY <1>2, <1>3, <1>4, DeinterleavedIsNext, Zenon
<1>6. source.sample_size = VorbisBits
  BY <1>3, SourceFacts DEF HeardInv
<1> HIDE DEF data
<1>7. encode_pcm_data(data, n, source.sample_size)
  BY <1>4, <1>5, <1>6, Zenon
<1> QED BY <1>2, <1>3, <1>4, <1>5, <1>7, HearsMore

LEMMA NextHeard ==
    ASSUME PowersOfTwo, HeardInv, [Next]_vars
    PROVE  HeardInv'
<1>1. CASE UNCHANGED <<source, position, heard>>
  BY <1>1 DEF HeardInv
<1>2. CASE encode_finish \/ EncoderFails \/ UNCHANGED vars
  BY <1>1, <1>2 DEF encode_finish, EncoderFails, vars
<1> QED BY <1>2, FlacHears, VorbisHears DEF Next

LEMMA HeardIsTheSource ==
    ASSUME PowersOfTwo, HeardInv
    PROVE  LameHearsTheSource
<1> DEFINE channels == source.channels
           size == source.sample_size
<1>1. /\ size \in 1..IntBits /\ Len(channels) \in Nat \ {0}
      /\ position \in 0..Len(channels[1]) /\ Len(channels[1]) \in Nat
      /\ \A c \in 1..Len(channels) :
            \A i \in 1..Len(channels[1]) : channels[c][i] \in Signed(size)
  BY SourceFacts DEF HeardInv
<1>2. ASSUME NEW samples, NEW c \in 1..Len(channels),
             Aligned(samples, channels[c], position, size)
      PROVE  SoundsLike(samples, channels[c])
  <2>1. ASSUME NEW i \in 1..position
        PROVE  samples[i] * 2^(size - 1) = channels[c][i] * 2^(IntBits - 1)
    <3>1. channels[c][i] \in Signed(size)
      BY <1>1
    <3>2. samples[i] = LeftAligned(channels[c][i], size)
      BY <1>2 DEF Aligned
    <3> QED BY <1>1, <3>1, <3>2, Alignment, Zenon
  <2> QED BY <1>2, <2>1 DEF SoundsLike, Aligned
<1>3. SoundsLike(heard.left, channels[1])
  <2>1. 1 \in 1..Len(channels) /\ Aligned(heard.left, channels[1], position, size)
    BY <1>1 DEF HeardInv
  <2> HIDE DEF channels, size
  <2> QED BY <1>2, <2>1
<1>4. CASE Len(channels) = 1
  <2> DEFINE silence == [i \in 1..position |-> 0]
  <2>1. Silent(heard.right, position)
    BY <1>4 DEF HeardInv
  <2>2. \A i \in 1..position : heard.right[i] = 0 /\ silence[i] = 0
    BY <2>1 DEF Silent
  <2>3. 2^(size - 1) \in Nat /\ 2^(IntBits - 1) \in Nat
    BY <1>1, Powers, AudioAssumption DEF Power, PowersOfTwo
  <2>4. \A i \in 1..position :
            heard.right[i] * 2^(size - 1) = silence[i] * 2^(IntBits - 1)
    BY <2>2, <2>3
  <2>5. SoundsLike(heard.right, silence)
    BY <2>1, <2>4 DEF SoundsLike, Silent
  <2> QED BY <1>3, <1>4, <2>5 DEF LameHearsTheSource
<1>5. CASE Len(channels) /= 1
  <2>1. 2 \in 1..Len(channels) /\ Aligned(heard.right, channels[2], position, size)
    <3>1. Aligned(heard.right, channels[2], position, size)
      BY <1>5 DEF HeardInv
    <3>2. 2 \in 1..Len(channels)
      <4> DEFINE C == Len(channels)
      <4>1. C \in Nat \ {0} /\ C /= 1
        BY <1>1, <1>5, Zenon
      <4> HIDE DEF C
      <4>2. 2 \in 1..C
        BY <4>1
      <4> QED BY <4>2, Zenon DEF C
    <3> QED BY <3>1, <3>2
  <2>2. SoundsLike(heard.right, channels[2])
    <3> HIDE DEF channels, size
    <3> QED BY <1>2, <2>1
  <2> QED BY <1>3, <1>5, <2>2 DEF LameHearsTheSource
<1> QED BY <1>4, <1>5

\* However the libraries cut the source into frames or packets, LAME has heard
\* exactly what has been decoded, each channel on its side, in order and as loud
\* as in the source, for every width of the samples up to that of an int
\* (mp3_encoder.cc:324-340, vorbis_decoder.cc:208-214).
THEOREM SamplesReachLame ==
    ASSUME PowersOfTwo
    PROVE  Spec => []LameHearsTheSource
BY InitHeard, NextHeard, HeardIsTheSource, PTL DEF Spec
====
