---- MODULE StartupProofs ----
(***************************************************************************)
(* Theorems about Startup and Logging, for any command line, any messages  *)
(* and any number of threads that log them.                                *)
(***************************************************************************)
EXTENDS Startup, FiniteSetTheorems, SequenceTheorems, WellFoundedInduction, TLAPS

----
(* The arguments that are kept *)

Rank(p, places) == Cardinality({q \in places : q <= p})

\* The sequence has the elements of list at these places, in order.
InOrder(sequence, list, places) ==
    /\ IsFiniteSet(places) /\ places \subseteq Nat
    /\ sequence \in Seq(ToSet(list))
    /\ Len(sequence) = Cardinality(places)
    /\ \A p \in places : sequence[Rank(p, places)] = list[p]
    /\ \A i \in 1..Cardinality(places) : \E p \in places : Rank(p, places) = i

LEMMA RankType ==
    ASSUME NEW places \in SUBSET Nat, IsFiniteSet(places), NEW p \in places
    PROVE  Rank(p, places) \in 1..Cardinality(places)
<1> DEFINE upto == {q \in places : q <= p}
<1>1. upto \subseteq places /\ p \in upto
  OBVIOUS
<1>2. IsFiniteSet(upto) /\ Cardinality(upto) <= Cardinality(places)
  BY <1>1, FS_Subset
<1>3. Cardinality(upto) \in Nat /\ Cardinality(places) \in Nat
  BY <1>2, FS_CardinalityType
<1>4. Cardinality(upto) /= 0
  BY <1>1, <1>2, FS_EmptySet
<1> QED BY <1>2, <1>3, <1>4 DEF Rank

\* A place after all the others comes last.
LEMMA RankAfter ==
    ASSUME NEW places \in SUBSET Nat, IsFiniteSet(places), NEW n \in Nat,
           \A p \in places : p < n
    PROVE  LET more == places \cup {n}
           IN  /\ more \subseteq Nat /\ IsFiniteSet(more)
               /\ Cardinality(more) = Cardinality(places) + 1
               /\ Rank(n, more) = Cardinality(places) + 1
               /\ \A p \in places : Rank(p, more) = Rank(p, places)
<1> DEFINE more == places \cup {n}
<1>1. n \notin places
  OBVIOUS
<1>2. IsFiniteSet(more) /\ Cardinality(more) = Cardinality(places) + 1
  BY <1>1, FS_AddElement
<1>3. {q \in more : q <= n} = more
  <2>1. ASSUME NEW q \in more PROVE q <= n
    <3>1. CASE q = n
      BY <3>1
    <3>2. CASE q \in places
      <4>1. q < n /\ q \in Nat
        BY <3>2
      <4> QED BY <4>1
    <3> QED BY <3>1, <3>2
  <2> QED BY <2>1
<1>4. ASSUME NEW p \in places PROVE {q \in more : q <= p} = {q \in places : q <= p}
  <2>1. p < n /\ p \in Nat
    OBVIOUS
  <2>2. ~(n <= p)
    BY <2>1
  <2> QED BY <2>2
<1> HIDE DEF more
<1>5. Rank(n, more) = Cardinality(places) + 1
  BY <1>2, <1>3 DEF Rank
<1>6. \A p \in places : Rank(p, more) = Rank(p, places)
  BY <1>4 DEF Rank
<1> QED BY <1>2, <1>5, <1>6 DEF more

LEMMA KeepNext ==
    ASSUME NEW sequence, NEW list, NEW places, InOrder(sequence, list, places),
           NEW n \in Nat, n \in DOMAIN list, \A p \in places : p < n
    PROVE  InOrder(Append(sequence, list[n]), list, places \cup {n})
<1> DEFINE more == places \cup {n}
           longer == Append(sequence, list[n])
           size == Cardinality(places)
<1>1. /\ places \in SUBSET Nat /\ IsFiniteSet(places) /\ size \in Nat
      /\ sequence \in Seq(ToSet(list)) /\ Len(sequence) = size
      /\ \A p \in places : sequence[Rank(p, places)] = list[p]
      /\ \A i \in 1..size : \E p \in places : Rank(p, places) = i
  BY FS_CardinalityType DEF InOrder
<1>2. /\ more \subseteq Nat /\ IsFiniteSet(more) /\ Cardinality(more) = size + 1
      /\ Rank(n, more) = size + 1
      /\ \A p \in places : Rank(p, more) = Rank(p, places)
  BY <1>1, RankAfter
<1>3. list[n] \in ToSet(list)
  BY DEF ToSet
<1>4. /\ longer \in Seq(ToSet(list)) /\ Len(longer) = size + 1
      /\ longer[size + 1] = list[n]
      /\ \A i \in 1..size : longer[i] = sequence[i]
  BY <1>1, <1>3
<1> HIDE DEF longer, size
<1>5. ASSUME NEW p \in more PROVE longer[Rank(p, more)] = list[p]
  <2>1. CASE p = n
    BY <1>2, <1>4, <2>1
  <2>2. CASE p \in places
    <3>1. Rank(p, places) \in 1..size
      BY <1>1, <2>2, RankType DEF size
    <3> QED BY <1>1, <1>2, <1>4, <2>2, <3>1
  <2> QED BY <2>1, <2>2
<1>6. ASSUME NEW i \in 1..(size + 1) PROVE \E p \in more : Rank(p, more) = i
  <2>1. CASE i = size + 1
    BY <1>2, <2>1
  <2>2. CASE i \in 1..size
    <3>1. PICK p \in places : Rank(p, places) = i
      BY <1>1, <2>2
    <3> QED BY <1>2, <3>1
  <2>3. size \in Nat
    BY <1>1
  <2>4. i = size + 1 \/ i \in 1..size
    BY <2>3
  <2> QED BY <2>1, <2>2, <2>4
<1> HIDE DEF more
<1>7. InOrder(longer, list, more)
  BY <1>2, <1>4, <1>5, <1>6 DEF InOrder
<1> QED BY <1>7 DEF longer, more

\* It is the one that Chosen gives.
LEMMA InOrderIs ==
    ASSUME NEW sequence, NEW list, NEW places, InOrder(sequence, list, places)
    PROVE  sequence = Chosen(list, places)
<1> DEFINE size == Cardinality(places)
           At_(i) == CHOOSE p \in places : Rank(p, places) = i
<1>1. ASSUME NEW i \in 1..size PROVE sequence[i] = list[At_(i)]
  <2>1. \E p \in places : Rank(p, places) = i
    BY DEF InOrder
  <2>2. At_(i) \in places /\ Rank(At_(i), places) = i
    BY <2>1
  <2> HIDE DEF At_
  <2> QED BY <2>2 DEF InOrder
<1>2. sequence \in Seq(ToSet(list)) /\ Len(sequence) = size
  BY DEF InOrder
<1>3. sequence = [i \in 1..size |-> sequence[i]]
  <2> HIDE DEF size
  <2> QED BY <1>2
<1>4. sequence = [i \in 1..size |-> list[At_(i)]]
  <2> HIDE DEF size, At_
  <2> QED BY <1>1, <1>3
<1> QED BY <1>4, Zenon DEF Rank, Chosen

----
(* The command line, as far as it has been parsed *)

\* The places of the arguments with these options among the first n of list.
Upto(list, n, opts) == {i \in 1..n : list[i].opt \in opts}

\* The last value that these give to opt, or the default.
IsLast(value, default, list, n, opt) ==
    \/ Upto(list, n, {opt}) = {} /\ value = default
    \/ \E i \in Upto(list, n, {opt}) :
        (\A j \in Upto(list, n, {opt}) : j <= i) /\ value = list[i].value

\* The first plain argument among them.
IsFirst(value, list, n) ==
    \/ Upto(list, n, {"plain"}) = {} /\ value = NoPath
    \/ \E i \in Upto(list, n, {"plain"}) :
        (\A j \in Upto(list, n, {"plain"}) : i <= j) /\ value = list[i].value

\* What is for fuse_main: what it knows but the first plain argument.
ForFuse(list, n) ==
    {i \in Upto(list, n, {"plain", "debug", "other"}) :
        list[i].opt = "plain" => \E j \in Upto(list, n, {"plain"}) : j < i}

LEMMA UptoType ==
    ASSUME NEW list, NEW n \in Nat, NEW opts
    PROVE  Upto(list, n, opts) \subseteq 1..n
BY DEF Upto

LEMMA OneMore ==
    ASSUME NEW list, NEW n \in Nat, NEW opts
    PROVE  Upto(list, n + 1, opts) =
             IF list[n + 1].opt \in opts THEN Upto(list, n, opts) \cup {n + 1}
             ELSE Upto(list, n, opts)
<1>1. 1..(n + 1) = (1..n) \cup {n + 1}
  OBVIOUS
<1> QED BY <1>1 DEF Upto

LEMMA LastSet ==
    ASSUME NEW list, NEW n \in Nat, NEW default
    PROVE  IsLast(list[n + 1].value, default, list, n + 1, list[n + 1].opt)
<1> DEFINE opt == list[n + 1].opt
<1>1. Upto(list, n + 1, {opt}) = Upto(list, n, {opt}) \cup {n + 1}
  BY OneMore
<1>2. Upto(list, n, {opt}) \subseteq 1..n
  BY UptoType
<1>3. \A j \in Upto(list, n + 1, {opt}) : j <= n + 1
  BY <1>1, <1>2
<1> QED BY <1>1, <1>3 DEF IsLast

LEMMA LastStays ==
    ASSUME NEW list, NEW n \in Nat, NEW default, NEW value, NEW opt,
           list[n + 1].opt /= opt, IsLast(value, default, list, n, opt)
    PROVE  IsLast(value, default, list, n + 1, opt)
<1>1. Upto(list, n + 1, {opt}) = Upto(list, n, {opt})
  BY OneMore
<1> QED BY <1>1 DEF IsLast

LEMMA FirstTaken ==
    ASSUME NEW list, NEW n \in Nat, list[n + 1].opt = "plain", IsFirst(NoPath, list, n),
           \A i \in 1..n : list[i].opt = "plain" => list[i].value /= NoPath
    PROVE  /\ IsFirst(list[n + 1].value, list, n + 1)
           /\ ForFuse(list, n + 1) = ForFuse(list, n)
<1>1. Upto(list, n, {"plain"}) = {}
  BY DEF IsFirst, Upto
<1>2. Upto(list, n + 1, {"plain"}) = {n + 1}
  <2>1. Upto(list, n + 1, {"plain"}) = Upto(list, n, {"plain"}) \cup {n + 1}
    BY OneMore
  <2> QED BY <1>1, <2>1
<1>3. Upto(list, n + 1, {"plain", "debug", "other"}) =
        Upto(list, n, {"plain", "debug", "other"}) \cup {n + 1}
  BY OneMore
<1>4. Upto(list, n, {"plain", "debug", "other"}) \subseteq 1..n
  BY UptoType
<1>5. \A i \in Upto(list, n, {"plain", "debug", "other"}) : list[i].opt /= "plain"
  BY <1>1 DEF Upto
<1>6. ForFuse(list, n + 1) = ForFuse(list, n)
  BY <1>1, <1>2, <1>3, <1>4, <1>5 DEF ForFuse
<1> QED BY <1>2, <1>6 DEF IsFirst

LEMMA FirstStays ==
    ASSUME NEW list, NEW n \in Nat, NEW value, IsFirst(value, list, n),
           list[n + 1].opt = "plain" => value /= NoPath
    PROVE  /\ IsFirst(value, list, n + 1)
           /\ ForFuse(list, n + 1) =
                IF list[n + 1].opt \in {"plain", "debug", "other"}
                THEN ForFuse(list, n) \cup {n + 1} ELSE ForFuse(list, n)
<1> DEFINE some == Upto(list, n, {"plain", "debug", "other"})
           more == Upto(list, n + 1, {"plain", "debug", "other"})
           plain == Upto(list, n, {"plain"})
           plain2 == Upto(list, n + 1, {"plain"})
<1>1. more = IF list[n + 1].opt \in {"plain", "debug", "other"}
             THEN some \cup {n + 1} ELSE some
  BY OneMore
<1>2. plain2 = IF list[n + 1].opt = "plain" THEN plain \cup {n + 1} ELSE plain
  BY OneMore
<1>3. plain \subseteq 1..n /\ some \subseteq 1..n
  BY UptoType
<1>4. list[n + 1].opt = "plain" => plain /= {}
  BY DEF IsFirst
<1>5. ForFuse(list, n) = {i \in some : list[i].opt = "plain" => \E j \in plain : j < i}
  BY DEF ForFuse
<1>6. ForFuse(list, n + 1) = {i \in more : list[i].opt = "plain" => \E j \in plain2 : j < i}
  BY DEF ForFuse
<1>7. IsFirst(value, list, n + 1) <=>
        \/ plain2 = {} /\ value = NoPath
        \/ \E i \in plain2 : (\A j \in plain2 : i <= j) /\ value = list[i].value
  BY DEF IsFirst
<1>8. \/ plain = {} /\ value = NoPath
      \/ \E i \in plain : (\A j \in plain : i <= j) /\ value = list[i].value
  BY DEF IsFirst
<1> HIDE DEF some, more, plain, plain2
<1>9. \A i \in some : (\E j \in plain2 : j < i) <=> (\E j \in plain : j < i)
  BY <1>2, <1>3
<1>10. ASSUME list[n + 1].opt = "plain" PROVE \E j \in plain2 : j < n + 1
  <2>1. PICK j \in plain : TRUE
    BY <1>4, <1>10
  <2>2. j \in plain2 /\ j < n + 1
    BY <1>2, <1>3, <1>10, <2>1
  <2> QED BY <2>2
<1>11. ForFuse(list, n + 1) =
         IF list[n + 1].opt \in {"plain", "debug", "other"}
         THEN ForFuse(list, n) \cup {n + 1} ELSE ForFuse(list, n)
  BY <1>1, <1>3, <1>5, <1>6, <1>9, <1>10
<1>12. IsFirst(value, list, n + 1)
  BY <1>2, <1>3, <1>4, <1>7, <1>8
<1> QED BY <1>11, <1>12

\* The options, when the first n arguments of list have been parsed.
ParsedTo(p, list, n) ==
    /\ DOMAIN p = Options \cup {"basepath"}
    /\ \A opt \in Options \ {"debug"} : IsLast(p[opt], Defaults[opt], list, n, opt)
    /\ p["debug"] = IF Upto(list, n, {"debug"}) = {} THEN 0 ELSE 1
    /\ IsFirst(p["basepath"], list, n)

LEMMA NothingParsed ==
    ASSUME NEW list
    PROVE  ParsedTo(Defaults, list, 0) /\ InOrder(<<>>, list, ForFuse(list, 0))
<1>1. \A opts : Upto(list, 0, opts) = {}
  BY DEF Upto
<1>2. DOMAIN Defaults = Options \cup {"basepath"}
  BY DEF Defaults, Options
<1>3. Defaults["debug"] = 0 /\ Defaults["basepath"] = NoPath
  BY DEF Defaults
<1>4. \A opt \in Options \ {"debug"} : IsLast(Defaults[opt], Defaults[opt], list, 0, opt)
  BY <1>1 DEF IsLast
<1>5. IsFirst(Defaults["basepath"], list, 0)
  BY <1>1, <1>3 DEF IsFirst
<1>6. ParsedTo(Defaults, list, 0)
  BY <1>1, <1>2, <1>3, <1>4, <1>5 DEF ParsedTo
<1>7. ForFuse(list, 0) = {}
  BY <1>1 DEF ForFuse
<1>8. InOrder(<<>>, list, {})
  BY FS_EmptySet DEF InOrder
<1> QED BY <1>6, <1>7, <1>8

LEMMA OptionParsed ==
    ASSUME NEW list, NEW n \in Nat, NEW p, ParsedTo(p, list, n),
           list[n + 1].opt \in Options \ {"debug"}
    PROVE  /\ ParsedTo([p EXCEPT ![list[n + 1].opt] = list[n + 1].value], list, n + 1)
           /\ ForFuse(list, n + 1) = ForFuse(list, n)
<1> DEFINE opt == list[n + 1].opt
           q == [p EXCEPT ![opt] = list[n + 1].value]
<1>1. opt \notin {"debug", "plain", "other", "basepath"} /\ opt \in Options
  BY DEF Options
<1>2. DOMAIN p = Options \cup {"basepath"}
  BY DEF ParsedTo
<1>3. /\ DOMAIN q = Options \cup {"basepath"} /\ q[opt] = list[n + 1].value
      /\ \A o \in (Options \cup {"basepath"}) \ {opt} : q[o] = p[o]
  BY <1>1, <1>2
<1>4. q["debug"] = p["debug"] /\ q["basepath"] = p["basepath"]
  BY <1>1, <1>3 DEF Options
<1> HIDE DEF q
<1>5. ASSUME NEW o \in Options \ {"debug"}
      PROVE  IsLast(q[o], Defaults[o], list, n + 1, o)
  <2>1. CASE o = opt
    BY <1>3, <2>1, LastSet
  <2>2. CASE o /= opt
    <3>1. IsLast(p[o], Defaults[o], list, n, o)
      BY DEF ParsedTo
    <3> QED BY <1>3, <2>2, <3>1, LastStays
  <2> QED BY <2>1, <2>2
<1>6. Upto(list, n + 1, {"debug"}) = Upto(list, n, {"debug"})
  BY <1>1, OneMore
<1>7. IsFirst(p["basepath"], list, n)
  BY DEF ParsedTo
<1>8. IsFirst(p["basepath"], list, n + 1) /\ ForFuse(list, n + 1) = ForFuse(list, n)
  BY <1>1, <1>7, FirstStays
<1>9. q["debug"] = IF Upto(list, n + 1, {"debug"}) = {} THEN 0 ELSE 1
  BY <1>4, <1>6 DEF ParsedTo
<1>10. ParsedTo(q, list, n + 1)
  BY <1>3, <1>4, <1>5, <1>8, <1>9 DEF ParsedTo
<1> QED BY <1>8, <1>10 DEF q

LEMMA DebugParsed ==
    ASSUME NEW list, NEW n \in Nat, NEW p, ParsedTo(p, list, n), list[n + 1].opt = "debug"
    PROVE  /\ ParsedTo([p EXCEPT !["debug"] = 1], list, n + 1)
           /\ ForFuse(list, n + 1) = ForFuse(list, n) \cup {n + 1}
<1> DEFINE q == [p EXCEPT !["debug"] = 1]
<1>1. DOMAIN p = Options \cup {"basepath"}
  BY DEF ParsedTo
<1>2. /\ DOMAIN q = Options \cup {"basepath"} /\ q["debug"] = 1
      /\ \A o \in (Options \cup {"basepath"}) \ {"debug"} : q[o] = p[o]
  BY <1>1 DEF Options
<1>3. q["basepath"] = p["basepath"]
  BY <1>2
<1> HIDE DEF q
<1>4. ASSUME NEW o \in Options \ {"debug"}
      PROVE  IsLast(q[o], Defaults[o], list, n + 1, o)
  <2>1. IsLast(p[o], Defaults[o], list, n, o)
    BY DEF ParsedTo
  <2> QED BY <1>2, <2>1, LastStays
<1>5. Upto(list, n + 1, {"debug"}) = Upto(list, n, {"debug"}) \cup {n + 1}
  BY OneMore
<1>6. IsFirst(p["basepath"], list, n)
  BY DEF ParsedTo
<1>7. IsFirst(p["basepath"], list, n + 1)
      /\ ForFuse(list, n + 1) = ForFuse(list, n) \cup {n + 1}
  BY <1>6, FirstStays
<1>8. ParsedTo(q, list, n + 1)
  <2>1. Upto(list, n + 1, {"debug"}) /= {}
    BY <1>5
  <2> QED BY <1>2, <1>3, <1>4, <1>7, <2>1 DEF ParsedTo
<1> QED BY <1>7, <1>8 DEF q

LEMMA BasepathParsed ==
    ASSUME NEW list, NEW n \in Nat, NEW p, ParsedTo(p, list, n),
           list[n + 1].opt = "plain", p["basepath"] = NoPath,
           \A i \in 1..n : list[i].opt = "plain" => list[i].value /= NoPath
    PROVE  /\ ParsedTo([p EXCEPT !["basepath"] = list[n + 1].value], list, n + 1)
           /\ ForFuse(list, n + 1) = ForFuse(list, n)
<1> DEFINE q == [p EXCEPT !["basepath"] = list[n + 1].value]
<1>1. DOMAIN p = Options \cup {"basepath"}
  BY DEF ParsedTo
<1>2. /\ DOMAIN q = Options \cup {"basepath"} /\ q["basepath"] = list[n + 1].value
      /\ \A o \in Options : q[o] = p[o]
  BY <1>1 DEF Options
<1>3. q["debug"] = p["debug"]
  BY <1>2 DEF Options
<1> HIDE DEF q
<1>4. ASSUME NEW o \in Options \ {"debug"}
      PROVE  IsLast(q[o], Defaults[o], list, n + 1, o)
  <2>1. IsLast(p[o], Defaults[o], list, n, o)
    BY DEF ParsedTo
  <2>2. list[n + 1].opt /= o
    BY DEF Options
  <2>3. IsLast(p[o], Defaults[o], list, n + 1, o)
    BY <2>1, <2>2, LastStays
  <2> QED BY <1>2, <2>3
<1>5. Upto(list, n + 1, {"debug"}) = Upto(list, n, {"debug"})
  <2> DEFINE opts == {"debug"}
  <2>1. list[n + 1].opt \notin opts
    OBVIOUS
  <2> HIDE DEF opts
  <2>2. Upto(list, n + 1, opts) = Upto(list, n, opts)
    BY <2>1, OneMore
  <2> QED BY <2>2 DEF opts
<1>6. IsFirst(NoPath, list, n)
  BY DEF ParsedTo
<1>7. IsFirst(list[n + 1].value, list, n + 1) /\ ForFuse(list, n + 1) = ForFuse(list, n)
  BY <1>6, FirstTaken
<1>8. q["debug"] = IF Upto(list, n + 1, {"debug"}) = {} THEN 0 ELSE 1
  BY <1>3, <1>5 DEF ParsedTo
<1>9. ParsedTo(q, list, n + 1)
  BY <1>2, <1>4, <1>7, <1>8 DEF ParsedTo
<1> QED BY <1>7, <1>9 DEF q

LEMMA RestParsed ==
    ASSUME NEW list, NEW n \in Nat, NEW p, ParsedTo(p, list, n),
           \/ list[n + 1].opt = "plain" /\ p["basepath"] /= NoPath
           \/ list[n + 1].opt = "other"
    PROVE  /\ ParsedTo(p, list, n + 1)
           /\ ForFuse(list, n + 1) = ForFuse(list, n) \cup {n + 1}
<1>1. ASSUME NEW o \in Options \ {"debug"}
      PROVE  IsLast(p[o], Defaults[o], list, n + 1, o)
  <2>1. IsLast(p[o], Defaults[o], list, n, o)
    BY DEF ParsedTo
  <2>2. o \notin {"plain", "other"}
    BY DEF Options
  <2> QED BY <2>1, <2>2, LastStays
<1>2. Upto(list, n + 1, {"debug"}) = Upto(list, n, {"debug"})
  BY OneMore
<1>3. IsFirst(p["basepath"], list, n)
  BY DEF ParsedTo
<1>4. IsFirst(p["basepath"], list, n + 1)
      /\ ForFuse(list, n + 1) = ForFuse(list, n) \cup {n + 1}
  BY <1>3, FirstStays
<1> QED BY <1>1, <1>2, <1>4 DEF ParsedTo

----
(* From the command line to the mount *)

LEMMA ArgListType ==
    ASSUME NEW list \in ArgLists
    PROVE  /\ list \in Seq(ToSet(list)) /\ Len(list) \in Nat /\ DOMAIN list = 1..Len(list)
           /\ \A i \in 1..Len(list) : ArgumentOK(list[i])
<1>1. list \in Seq(ToSet(list)) /\ \A i \in DOMAIN list : ArgumentOK(list[i])
  BY StartupAssumption
<1>2. Len(list) \in Nat /\ DOMAIN list = 1..Len(list)
  BY <1>1
<1> QED BY <1>1, <1>2

LEMMA KeptForFuse ==
    ASSUME NEW list \in ArgLists, NEW n \in Nat, n < Len(list), NEW sequence,
           InOrder(sequence, list, ForFuse(list, n))
    PROVE  InOrder(Append(sequence, list[n + 1]), list, ForFuse(list, n) \cup {n + 1})
<1>1. n + 1 \in DOMAIN list /\ n + 1 \in Nat
  BY ArgListType
<1>2. ForFuse(list, n) \subseteq 1..n
  BY UptoType DEF ForFuse
<1>3. \A p \in ForFuse(list, n) : p < n + 1
  BY <1>2
<1> QED BY <1>1, <1>3, KeepNext

\* The log as the options want it.
LogOf(p) ==
    [max_level |-> string_to_level(p.log_maxlevel), log_format |-> p.log_format,
     to_stderr |-> p.log_stderr /= 0, to_syslog |-> p.log_syslog /= 0,
     to_file |-> p.logfile /= ""]

CommandLine ==
    /\ args \in ArgLists /\ taken \in 0..Len(args)
    /\ InOrder(outargs, args, ForFuse(args, taken))

\* All arguments have been parsed, and debug has overridden what it overrides.
Started ==
    /\ taken = Len(args)
    /\ \E p : ParsedTo(p, args, taken) /\ params = WithDebug(p)
    /\ logging = LogOf(params) /\ logging.max_level /= Level.INVALID

OnTheWay ==
    /\ phase \in {"parsing", "checking", "announcing", "serving", "exited"}
    /\ phase /= "exited" => CommandLine
    /\ phase = "parsing" => ParsedTo(params, args, taken)
    /\ phase \in {"checking", "announcing", "serving"} => Started
    /\ phase \in {"announcing", "serving"} => ~Refused
    /\ phase = "serving" => Upto(args, taken, {"plain"}) /= {}

LEMMA OnTheWayInit == Init => OnTheWay
<1> SUFFICES ASSUME Init PROVE OnTheWay
  OBVIOUS
<1>1. args \in ArgLists /\ taken = 0 /\ outargs = <<>> /\ params = Defaults /\ phase = "parsing"
  BY DEF Init
<1>2. Len(args) \in Nat
  BY <1>1, ArgListType
<1>3. CommandLine
  BY <1>1, <1>2, NothingParsed DEF CommandLine
<1>4. ParsedTo(params, args, taken)
  BY <1>1, NothingParsed
<1> QED BY <1>1, <1>3, <1>4 DEF OnTheWay

\* An argument has been parsed, and dropped or kept.
LEMMA OnTheWayParsed ==
    ASSUME OnTheWay, NEW opt, Parse(opt), phase' = phase,
           ParsedTo(params', args, taken + 1),
           \/ outargs' = outargs /\ ForFuse(args, taken + 1) = ForFuse(args, taken)
           \/ /\ outargs' = Append(outargs, Arg)
              /\ ForFuse(args, taken + 1) = ForFuse(args, taken) \cup {taken + 1}
    PROVE  OnTheWay'
<1>1. /\ phase = "parsing" /\ phase' = "parsing" /\ args' = args /\ taken' = taken + 1
      /\ taken < Len(args) /\ args \in ArgLists /\ taken \in 0..Len(args)
      /\ InOrder(outargs, args, ForFuse(args, taken))
  BY DEF OnTheWay, Parse, CommandLine
<1>2. Len(args) \in Nat
  BY <1>1, ArgListType
<1>3. taken \in Nat /\ taken + 1 \in 0..Len(args)
  BY <1>1, <1>2
<1>4. InOrder(outargs', args, ForFuse(args, taken + 1))
  BY <1>1, <1>3, KeptForFuse DEF Arg
<1>5. CommandLine'
  BY <1>1, <1>3, <1>4 DEF CommandLine
<1>6. ParsedTo(params, args, taken)'
  BY <1>1
<1> QED BY <1>1, <1>5, <1>6 DEF OnTheWay

LEMMA OnTheWayParse ==
    ASSUME OnTheWay, SetOption \/ TakeDebug \/ TakePlain \/ TakeOther
    PROVE  OnTheWay'
<1>1. ASSUME NEW opt, Parse(opt)
      PROVE  /\ phase = "parsing" /\ args \in ArgLists /\ taken \in Nat
             /\ ParsedTo(params, args, taken) /\ args[taken + 1].opt = opt
             /\ \A i \in 1..taken : args[i].opt = "plain" => args[i].value /= NoPath
             /\ DOMAIN params = Options \cup {"basepath"}
  <2>1. /\ phase = "parsing" /\ args \in ArgLists /\ taken \in 0..Len(args)
        /\ ParsedTo(params, args, taken) /\ args[taken + 1].opt = opt
    BY <1>1 DEF Parse, OnTheWay, CommandLine
  <2>2. Len(args) \in Nat /\ \A i \in 1..Len(args) : ArgumentOK(args[i])
    BY <2>1, ArgListType
  <2>3. taken \in Nat /\ 1..taken \subseteq 1..Len(args)
    BY <2>1, <2>2
  <2>4. \A i \in 1..taken : args[i].opt = "plain" => args[i].value /= NoPath
    BY <2>2, <2>3 DEF ArgumentOK
  <2> QED BY <2>1, <2>3, <2>4 DEF ParsedTo
<1>2. CASE SetOption
  <2>1. PICK opt \in Options \ {"debug"} :
            /\ Parse(opt)
            /\ params' = [params EXCEPT ![opt] = Arg.value]
            /\ Drop
    BY <1>2 DEF SetOption
  <2>2. ParsedTo(params', args, taken + 1) /\ ForFuse(args, taken + 1) = ForFuse(args, taken)
    <3>1. /\ taken \in Nat /\ ParsedTo(params, args, taken)
          /\ args[taken + 1].opt \in Options \ {"debug"}
      BY <1>1, <2>1
    <3>2. params' = [params EXCEPT ![args[taken + 1].opt] = args[taken + 1].value]
      BY <1>1, <2>1 DEF Arg
    <3> QED BY <3>1, <3>2, OptionParsed
  <2> QED BY <2>1, <2>2, OnTheWayParsed DEF Drop
<1>3. CASE TakeDebug
  <2>1. Parse("debug") /\ params' = [params EXCEPT !["debug"] = 1] /\ Keep
    BY <1>3 DEF TakeDebug
  <2>2. /\ ParsedTo(params', args, taken + 1)
        /\ ForFuse(args, taken + 1) = ForFuse(args, taken) \cup {taken + 1}
    <3>1. taken \in Nat /\ ParsedTo(params, args, taken) /\ args[taken + 1].opt = "debug"
      BY <1>1, <2>1
    <3>2. params' = [params EXCEPT !["debug"] = 1]
      BY <2>1
    <3> QED BY <3>1, <3>2, DebugParsed
  <2> QED BY <2>1, <2>2, OnTheWayParsed DEF Keep
<1>4. CASE TakePlain
  <2>1. Parse("plain")
    BY <1>4 DEF TakePlain
  <2>2. CASE params.basepath = NoPath
    <3>1. params' = [params EXCEPT !["basepath"] = Arg.value] /\ Drop
      BY <1>4, <2>2 DEF TakePlain
    <3>2. ParsedTo(params', args, taken + 1) /\ ForFuse(args, taken + 1) = ForFuse(args, taken)
      <4>1. /\ taken \in Nat /\ ParsedTo(params, args, taken)
            /\ args[taken + 1].opt = "plain" /\ params["basepath"] = NoPath
            /\ \A i \in 1..taken : args[i].opt = "plain" => args[i].value /= NoPath
        BY <1>1, <2>1, <2>2
      <4>2. params' = [params EXCEPT !["basepath"] = args[taken + 1].value]
        BY <3>1 DEF Arg
      <4> QED BY <4>1, <4>2, BasepathParsed
    <3> QED BY <2>1, <3>1, <3>2, OnTheWayParsed DEF Drop
  <2>3. CASE params.basepath /= NoPath
    <3>1. params' = params /\ Keep
      BY <1>4, <2>3 DEF TakePlain
    <3>2. /\ ParsedTo(params', args, taken + 1)
          /\ ForFuse(args, taken + 1) = ForFuse(args, taken) \cup {taken + 1}
      BY <1>1, <2>1, <2>3, <3>1, RestParsed
    <3> QED BY <2>1, <3>1, <3>2, OnTheWayParsed DEF Keep
  <2> QED BY <2>2, <2>3
<1>5. CASE TakeOther
  <2>1. Parse("other") /\ params' = params /\ Keep
    BY <1>5 DEF TakeOther
  <2>2. /\ ParsedTo(params', args, taken + 1)
        /\ ForFuse(args, taken + 1) = ForFuse(args, taken) \cup {taken + 1}
    BY <1>1, <2>1, RestParsed
  <2> QED BY <2>1, <2>2, OnTheWayParsed DEF Keep
<1> QED BY <1>2, <1>3, <1>4, <1>5

LEMMA OnTheWayStartLogging ==
    ASSUME OnTheWay, StartLogging PROVE OnTheWay'
<1>1. /\ phase = "parsing" /\ taken = Len(args) /\ params' = WithDebug(params)
      /\ args' = args /\ taken' = taken /\ outargs' = outargs
  BY DEF StartLogging
<1>2. CommandLine /\ ParsedTo(params, args, taken)
  BY <1>1 DEF OnTheWay
<1>3. CASE Exit(1)
  BY <1>3 DEF Exit, OnTheWay
<1>4. CASE /\ init_logging(params.logfile, string_to_level(params'.log_maxlevel),
                           params.log_format, params'.log_stderr /= 0, params.log_syslog /= 0)
           /\ phase' = "checking"
  <2>1. CommandLine'
    BY <1>1, <1>2 DEF CommandLine
  <2>2. /\ params'.logfile = params.logfile /\ params'.log_format = params.log_format
        /\ params'.log_syslog = params.log_syslog
    <3>1. DOMAIN params = Options \cup {"basepath"}
      BY <1>2 DEF ParsedTo
    <3> QED BY <1>1, <3>1 DEF WithDebug, Options
  <2>3. logging' = LogOf(params')
    BY <1>4, <2>2 DEF init_logging, LogOf
  <2>4. logging'.max_level /= Level.INVALID
    BY <1>4 DEF init_logging, InitLoggingFails
  <2>5. Started'
    BY <1>1, <1>2, <2>3, <2>4 DEF Started
  <2> QED BY <1>4, <2>1, <2>5 DEF OnTheWay
<1> QED BY <1>3, <1>4 DEF StartLogging

LEMMA OnTheWayFuseMain ==
    ASSUME OnTheWay, fuse_main PROVE OnTheWay'
<1>1. /\ phase = "announcing" /\ args' = args /\ taken' = taken /\ outargs' = outargs
      /\ params' = params /\ logging' = logging
  BY DEF fuse_main
<1>2. CommandLine /\ Started /\ ~Refused
  BY <1>1 DEF OnTheWay
<1>3. CASE Exit(1)
  BY <1>3 DEF Exit, OnTheWay
<1>4. CASE phase' = "serving" /\ "plain" \in {outargs[i].opt : i \in DOMAIN outargs}
  <2>1. CommandLine' /\ Started' /\ ~Refused'
    BY <1>1, <1>2 DEF CommandLine, Started, Refused
  <2>2. PICK i \in DOMAIN outargs : outargs[i].opt = "plain"
    BY <1>4
  <2>3. outargs \in Seq(ToSet(args)) /\ args \in ArgLists
    BY <1>2 DEF CommandLine, InOrder
  <2>4. outargs[i] \in ToSet(args)
    BY <2>2, <2>3
  <2>5. PICK j \in DOMAIN args : outargs[i] = args[j]
    BY <2>4 DEF ToSet
  <2>6. j \in 1..taken
    BY <1>2, <2>3, <2>5, ArgListType DEF Started
  <2>7. Upto(args, taken, {"plain"}) /= {}
    BY <2>2, <2>5, <2>6 DEF Upto
  <2> QED BY <1>1, <1>4, <2>1, <2>7 DEF OnTheWay
<1> QED BY <1>3, <1>4 DEF fuse_main

LEMMA OnTheWayElse ==
    ASSUME OnTheWay, logging' = logging, UNCHANGED startVars
    PROVE  OnTheWay'
BY DEF OnTheWay, startVars, CommandLine, Started, Refused

LEMMA OnTheWayNext == OnTheWay /\ [Next]_vars => OnTheWay'
<1> SUFFICES ASSUME OnTheWay, [Next]_vars PROVE OnTheWay'
  OBVIOUS
<1>1. CASE SetOption \/ TakeDebug \/ TakePlain \/ TakeOther
  BY <1>1, OnTheWayParse
<1>2. CASE TakeMalformed \/ TakeHelp \/ TakeVersion
  BY <1>2 DEF TakeMalformed, TakeHelp, TakeVersion, Exit, OnTheWay
<1>3. CASE StartLogging
  BY <1>3, OnTheWayStartLogging
<1>4. CASE CheckOptions
  <2>1. /\ phase = "checking" /\ args' = args /\ taken' = taken /\ outargs' = outargs
        /\ params' = params /\ logging' = logging
    BY <1>4 DEF CheckOptions, loggingVars
  <2>2. CASE Refused
    BY <1>4, <2>2 DEF CheckOptions, Exit, OnTheWay
  <2>3. CASE ~Refused
    <3>1. phase' = "announcing"
      BY <1>4, <2>3 DEF CheckOptions
    <3>2. CommandLine' /\ Started' /\ ~Refused'
      BY <2>1, <2>3 DEF OnTheWay, CommandLine, Started, Refused
    <3> QED BY <3>1, <3>2 DEF OnTheWay
  <2> QED BY <2>2, <2>3
<1>5. CASE fuse_main
  BY <1>5, OnTheWayFuseMain
<1>6. CASE Announce
  BY <1>6, OnTheWayElse DEF Announce, Log
<1>7. CASE HandlerLogs
  BY <1>7, OnTheWayElse DEF HandlerLogs, Log
<1>8. CASE LogOn
  <2>1. PICK t \in Threads : LogStep(t)
    BY <1>8 DEF LogOn
  <2>2. logging' = logging
    BY <2>1 DEF LogStep, LocalTime, StrFTime, Syslog, FileInsert, FileBump, FileNewline,
                FileFlush, FileReset, Clog
  <2> QED BY <1>8, <2>2, OnTheWayElse DEF LogOn
<1>9. CASE TimePasses
  BY <1>9, OnTheWayElse DEF TimePasses, Tick
<1>10. CASE UNCHANGED vars
  BY <1>10, OnTheWayElse DEF vars, loggingVars
<1> QED BY <1>1, <1>2, <1>3, <1>4, <1>5, <1>6, <1>7, <1>8, <1>9, <1>10 DEF Next

\* In the words of MountedAsAsked.
LEMMA InItsWords ==
    ASSUME args \in ArgLists, taken = Len(args)
    PROVE  /\ \A opts : Places(opts) = Upto(args, taken, opts)
           /\ \A value, opt : IsLast(value, Defaults[opt], args, taken, opt) => value = Asked(opt)
<1>1. Len(args) \in Nat /\ DOMAIN args = 1..Len(args)
  BY ArgListType
<1>2. ASSUME NEW opts PROVE Places(opts) = Upto(args, taken, opts)
  BY <1>1 DEF Places, Upto
<1>3. ASSUME NEW value, NEW opt, IsLast(value, Defaults[opt], args, taken, opt)
      PROVE  value = Asked(opt)
  <2> DEFINE set == Places({opt})
  <2>1. set = Upto(args, taken, {opt}) /\ set \subseteq 1..Len(args)
    BY <1>1, <1>2, UptoType
  <2>2. CASE set = {}
    BY <1>3, <2>1, <2>2 DEF IsLast, Asked
  <2>3. CASE set /= {}
    <3>1. PICK i \in set : (\A j \in set : j <= i) /\ value = args[i].value
      BY <1>3, <2>1, <2>3 DEF IsLast
    <3> HIDE DEF set
    <3>2. set \subseteq Nat
      BY <1>1, <2>1
    <3>3. \A x \in set : (\A y \in set : x >= y) <=> x = i
      BY <3>1, <3>2
    <3>4. Max(set) = i
      BY <3>1, <3>3 DEF Max
    <3> QED BY <2>3, <3>1, <3>4 DEF Asked, set
  <2> QED BY <2>2, <2>3
<1> QED BY <1>2, <1>3

LEMMA FirstInItsWords ==
    ASSUME args \in ArgLists, taken = Len(args), NEW value, IsFirst(value, args, taken),
           Upto(args, taken, {"plain"}) /= {}
    PROVE  /\ value = args[Min(Places({"plain"}))].value
           /\ ForFuse(args, taken) =
                Places({"plain", "debug", "other"}) \ {Min(Places({"plain"}))}
<1> DEFINE set == Places({"plain"})
           all == Places({"plain", "debug", "other"})
<1>1. /\ set = Upto(args, taken, {"plain"}) /\ Len(args) \in Nat /\ set \subseteq 1..Len(args)
      /\ all = Upto(args, taken, {"plain", "debug", "other"})
  BY InItsWords, ArgListType, UptoType
<1>2. all \subseteq 1..Len(args)
  BY <1>1, UptoType
<1>3. \A i \in all : i \in set <=> args[i].opt = "plain"
  BY <1>1 DEF Upto
<1>4. set \subseteq all
  BY <1>1 DEF Upto
<1>5. PICK first \in set : (\A j \in set : first <= j) /\ value = args[first].value
  BY <1>1 DEF IsFirst
<1>6. ForFuse(args, taken) = {i \in all : args[i].opt = "plain" => \E j \in set : j < i}
  BY <1>1 DEF ForFuse
<1> HIDE DEF set, all
<1>7. set \subseteq Nat
  BY <1>1
<1>8. \A x \in set : (\A y \in set : x <= y) <=> x = first
  BY <1>5, <1>7
<1>9. Min(set) = first
  BY <1>5, <1>8 DEF Min
<1>10. \A i \in set : (\E j \in set : j < i) <=> i /= first
  BY <1>5, <1>7
<1>11. ForFuse(args, taken) = all \ {first}
  BY <1>3, <1>4, <1>5, <1>6, <1>10
<1> QED BY <1>5, <1>9, <1>11 DEF set, all

LEMMA RestInItsWords ==
    ASSUME args \in ArgLists, taken = Len(args), NEW value, IsFirst(value, args, taken),
           Upto(args, taken, {"plain"}) /= {}, InOrder(outargs, args, ForFuse(args, taken))
    PROVE  LET rest == Places({"plain", "debug", "other"}) \ {Min(Places({"plain"}))}
           IN  outargs = Chosen(args, rest)
<1>1. InOrder(outargs, args, Places({"plain", "debug", "other"}) \ {Min(Places({"plain"}))})
  BY FirstInItsWords
<1> QED BY <1>1, InOrderIs

LEMMA AsAsked == OnTheWay => MountedAsAsked
<1> SUFFICES ASSUME OnTheWay, phase = "serving" PROVE MountedAsAsked
  BY DEF MountedAsAsked
<1>1. CommandLine /\ Started /\ ~Refused /\ Upto(args, taken, {"plain"}) /= {}
  BY DEF OnTheWay
<1>2. /\ args \in ArgLists /\ taken = Len(args) /\ logging = LogOf(params)
      /\ logging.max_level /= Level.INVALID /\ InOrder(outargs, args, ForFuse(args, taken))
  BY <1>1 DEF CommandLine, Started
<1>3. PICK p : ParsedTo(p, args, taken) /\ params = WithDebug(p)
  BY <1>1 DEF Started
<1>4. DOMAIN p = Options \cup {"basepath"} /\ IsFirst(p["basepath"], args, taken)
      /\ p["debug"] = IF Upto(args, taken, {"debug"}) = {} THEN 0 ELSE 1
  BY <1>3 DEF ParsedTo
<1>5. \A opt \in Options \ {"debug"} : IsLast(p[opt], Defaults[opt], args, taken, opt)
  BY <1>3 DEF ParsedTo
<1>6. \A opt \in Options \ {"debug"} : p[opt] = Asked(opt)
  BY <1>2, <1>5, InItsWords
<1>7. Debugging <=> p.debug = 1
  BY <1>2, <1>4, InItsWords DEF Debugging
<1>8. /\ \A opt \in (Options \cup {"basepath"}) \ {"debug", "log_stderr", "log_maxlevel"} :
            params[opt] = p[opt]
      /\ Debugging => params.log_stderr = 1 /\ params.log_maxlevel = "DEBUG"
      /\ ~Debugging => params = p
  <2>1. CASE Debugging
    <3>0. p.debug /= 0
      BY <1>7, <2>1
    <3>1. params = [p EXCEPT !.log_stderr = 1, !.log_maxlevel = "DEBUG"]
      BY <1>3, <3>0, Zenon DEF WithDebug
    <3>2. "log_stderr" \in DOMAIN p /\ "log_maxlevel" \in DOMAIN p
      BY <1>4 DEF Options
    <3> QED BY <1>4, <2>1, <3>1, <3>2
  <2>2. CASE ~Debugging
    <3>1. p.debug = 0
      BY <1>4, <1>7, <2>2
    <3> QED BY <1>3, <2>2, <3>1 DEF WithDebug
  <2> QED BY <2>1, <2>2
<1>9. \A opt \in Options \ {"debug", "log_stderr", "log_maxlevel"} : params[opt] = Asked(opt)
  BY <1>6, <1>8
<1>10. logging.max_level = IF Debugging THEN Level.DEBUG ELSE Level[Asked("log_maxlevel")]
  <2>1. logging.max_level = string_to_level(params.log_maxlevel)
    BY <1>2 DEF LogOf
  <2>2. logging.max_level = Level[params.log_maxlevel]
    BY <1>2, <2>1 DEF string_to_level
  <2>3. CASE Debugging
    BY <1>8, <2>2, <2>3
  <2>4. CASE ~Debugging
    <3>1. params["log_maxlevel"] = Asked("log_maxlevel")
      BY <1>6, <1>8, <2>4 DEF Options
    <3> QED BY <2>2, <2>4, <3>1
  <2> QED BY <2>3, <2>4
<1>11. logging.to_stderr = (Debugging \/ Asked("log_stderr") = 1)
  <2>1. logging.to_stderr = (params["log_stderr"] /= 0)
    BY <1>2 DEF LogOf
  <2>2. p["log_stderr"] \in {0, 1}
    <3>1. IsLast(p["log_stderr"], 0, args, taken, "log_stderr")
      BY <1>5 DEF Options, Defaults
    <3>2. \A i \in Upto(args, taken, {"log_stderr"}) : args[i].value = 1
      BY <1>2, ArgListType DEF Upto, ArgumentOK
    <3> QED BY <3>1, <3>2 DEF IsLast
  <2>3. p["log_stderr"] = Asked("log_stderr")
    BY <1>6 DEF Options
  <2>4. CASE Debugging
    BY <1>8, <2>1, <2>4
  <2>5. CASE ~Debugging
    <3>1. params["log_stderr"] = p["log_stderr"]
      BY <1>8, <2>5
    <3>2. (p["log_stderr"] /= 0) <=> (p["log_stderr"] = 1)
      BY <2>2
    <3> QED BY <2>1, <2>3, <2>5, <3>1, <3>2
  <2> QED BY <2>4, <2>5
<1>12. logging.to_file = (Asked("logfile") /= "")
  BY <1>2, <1>9 DEF LogOf, Options
<1>13. params["basepath"] = args[Min(Places({"plain"}))].value
  BY <1>1, <1>2, <1>4, <1>8, FirstInItsWords DEF Options
<1>14. params.basepath \in Directories
  BY <1>1 DEF Refused
<1>15. params.quality \in 0..kQualityMax
  <2>1. IsLast(p["quality"], 5, args, taken, "quality")
    BY <1>5 DEF Options, Defaults
  <2>2. \A i \in Upto(args, taken, {"quality"}) : args[i].value \in Int
    BY <1>2, ArgListType DEF Upto, ArgumentOK
  <2>3. p["quality"] \in Int
    BY <2>1, <2>2 DEF IsLast
  <2>4. params["quality"] = p["quality"]
    BY <1>8 DEF Options
  <2>5. kQualityMax \in Nat
    BY StartupAssumption
  <2> QED BY <1>1, <2>3, <2>4, <2>5 DEF Refused
<1>16. LET rest == Places({"plain", "debug", "other"}) \ {Min(Places({"plain"}))}
       IN  outargs = Chosen(args, rest)
  BY <1>1, <1>2, <1>4, RestInItsWords
<1> QED
  BY <1>9, <1>10, <1>11, <1>12, <1>13, <1>14, <1>15, <1>16, Zenon DEF MountedAsAsked

\* A mount is as the command line asks, whatever that is: each option has the last
\* value given, or its default; debug wins over the log's options; the first plain
\* argument is the directory; and the rest goes to fuse_main in order
\* (mp3fs.cc:66-100, 174-200, 237-289).
THEOREM WhatIsMountedIsAsked == Spec => []MountedAsAsked
<1>1. OnTheWay => MountedAsAsked
  BY AsAsked
<1> QED BY <1>1, OnTheWayInit, OnTheWayNext, PTL DEF Spec

----
(* The keys of the format *)

\* Induction: a set of numbers that is not empty has a least one.
LEMMA LeastIs ==
    ASSUME NEW set \in SUBSET Nat, set /= {}
    PROVE  \E m \in set : \A j \in set : m <= j
<1>1. IsWellFoundedOn(OpToRel(<, Nat), Nat)
  BY NatLessThanWellFounded
<1>2. \E m \in set : \A j \in set : <<j, m>> \notin OpToRel(<, Nat)
  BY <1>1, WFMin, Zenon
<1>3. PICK m \in set : \A j \in set : <<j, m>> \notin OpToRel(<, Nat)
  BY <1>2
<1>4. ASSUME NEW j \in set PROVE m <= j
  <2>1. ~(j < m)
    BY <1>3 DEF OpToRel
  <2> QED BY <2>1
<1> QED BY <1>4

\* Substitutes for keys of two tokens.
SubstitutesFor(subs, tokens) == \A key \in DOMAIN subs : subs[key] \in Seq(tokens)

\* No key begins in another.
KeysApart(src, subs) ==
    \A i \in 1..Len(src) : KeyAt(src, i, subs) => ~KeyAt(src, i + 1, subs)

\* What multi_substitute makes of each token, and of what is left from each on.
Piece(src, subs, i) ==
    CASE KeyAt(src, i, subs) -> subs[SubSeq(src, i, i + 1)]
      [] i > 1 /\ KeyAt(src, i - 1, subs) -> <<>>
      [] OTHER -> <<src[i]>>

RestAt(src, subs, i, r) ==
    IF i > Len(src) THEN <<>>
    ELSE IF KeyAt(src, i, subs) THEN subs[SubSeq(src, i, i + 1)] \o r[i + 2]
    ELSE <<src[i]>> \o r[i + 1]

\* The function that it computes, from k on.
IsRest(src, subs, k, r) == r = [i \in k..(Len(src) + 1) |-> RestAt(src, subs, i, r)]

LEMMA RestFrom ==
    ASSUME NEW src, NEW subs, Len(src) \in Nat, NEW k \in 1..(Len(src) + 1)
    PROVE  \E r : IsRest(src, subs, k, r)
<1> DEFINE n == Len(src)
           missing == {m \in 0..n : ~(\E r : IsRest(src, subs, n + 1 - m, r))}
<1>1. SUFFICES ASSUME missing /= {} PROVE FALSE
  <2>1. n + 1 - k \in 0..n /\ n + 1 - (n + 1 - k) = k
    OBVIOUS
  <2>2. \E r : IsRest(src, subs, n + 1 - (n + 1 - k), r)
    BY <1>1, <2>1
  <2> QED BY <2>1, <2>2
<1>2. missing \in SUBSET Nat
  OBVIOUS
<1>3. PICK m \in missing : \A j \in missing : m <= j
  BY <1>1, <1>2, LeastIs
<1>4. CASE m = 0
  <2> DEFINE r == [i \in (n + 1)..(n + 1) |-> <<>>]
  <2>1. IsRest(src, subs, n + 1, r)
    <3>1. \A i \in (n + 1)..(n + 1) : RestAt(src, subs, i, r) = <<>>
      BY DEF RestAt
    <3>2. \A i \in (n + 1)..(n + 1) : r[i] = RestAt(src, subs, i, r)
      BY <3>1
    <3> QED BY <3>1 DEF IsRest
  <2>2. n + 1 - m = n + 1
    BY <1>4
  <2> QED BY <1>3, <2>1, <2>2
<1>5. CASE m \in 1..n
  <2> DEFINE i0 == n + 1 - m
  <2>1. m - 1 \in 0..n /\ ~(m <= m - 1) /\ n + 1 - (m - 1) = i0 + 1
    BY <1>5
  <2>2. PICK r : IsRest(src, subs, i0 + 1, r)
    BY <1>3, <2>1
  <2> DEFINE s == [i \in i0..(n + 1) |-> IF i = i0 THEN RestAt(src, subs, i0, r) ELSE r[i]]
  <2>3. i0 \in 1..n
    BY <1>5
  <2>4. \A i \in (i0 + 1)..(n + 1) : s[i] = r[i]
    BY <2>3
  <2>5. ASSUME NEW i \in i0..(n + 1) PROVE RestAt(src, subs, i, s) = RestAt(src, subs, i, r)
    <3>1. i <= n => i + 1 \in (i0 + 1)..(n + 1)
      BY <2>3
    <3>2. i < n => i + 2 \in (i0 + 1)..(n + 1)
      BY <2>3
    <3> HIDE DEF s, n, i0
    <3>3. i \in Nat /\ n \in Nat
      BY <2>3 DEF n
    <3> QED BY <2>4, <3>1, <3>2, <3>3 DEF RestAt, KeyAt, n
  <2>6. \A i \in (i0 + 1)..(n + 1) : r[i] = RestAt(src, subs, i, r)
    BY <2>2 DEF IsRest
  <2>7. ASSUME NEW i \in i0..(n + 1) PROVE s[i] = RestAt(src, subs, i, s)
    <3>1. CASE i = i0
      BY <2>5, <3>1
    <3>2. CASE i \in (i0 + 1)..(n + 1)
      BY <2>4, <2>5, <2>6, <3>2
    <3> HIDE DEF n, i0
    <3>3. n \in Nat /\ i0 \in Nat
      BY <2>3 DEF n
    <3>4. i = i0 \/ i \in (i0 + 1)..(n + 1)
      BY <3>3
    <3> QED BY <3>1, <3>2, <3>4
  <2>8. s = [i \in i0..(n + 1) |-> s[i]]
    OBVIOUS
  <2> HIDE DEF s
  <2>9. IsRest(src, subs, i0, s)
    BY <2>7, <2>8 DEF IsRest
  <2> QED BY <1>3, <2>9
<1> QED BY <1>3, <1>4, <1>5

\* The function that FlattenSeq computes, up to n.
IsFlat(seqs, n, f) == f = [i \in 1..n |-> IF i = 1 THEN seqs[i] ELSE f[i - 1] \o seqs[i]]

LEMMA FlatUpTo ==
    ASSUME NEW seqs, NEW n \in Nat
    PROVE  \E f : IsFlat(seqs, n, f)
<1> DEFINE missing == {m \in Nat : ~(\E f : IsFlat(seqs, m, f))}
<1>1. SUFFICES ASSUME missing /= {} PROVE FALSE
  BY <1>1
<1>2. PICK m \in missing : \A j \in missing : m <= j
  BY <1>1, LeastIs
<1>3. CASE m = 0
  <2> DEFINE f == [i \in 1..0 |-> <<>>]
  <2>1. \A i : i \notin 1..0
    OBVIOUS
  <2>2. f = [i \in 1..0 |-> IF i = 1 THEN seqs[i] ELSE f[i - 1] \o seqs[i]]
    BY <2>1
  <2>3. IsFlat(seqs, 0, f)
    BY <2>2 DEF IsFlat
  <2> QED BY <1>2, <1>3, <2>3
<1>4. CASE m /= 0
  <2>1. m - 1 \in Nat /\ ~(m <= m - 1)
    BY <1>4
  <2>2. PICK f : IsFlat(seqs, m - 1, f)
    BY <1>2, <2>1
  <2> DEFINE Next_(i, h) == IF i = 1 THEN seqs[i] ELSE h[i - 1] \o seqs[i]
             g == [i \in 1..m |-> IF i = m THEN Next_(m, f) ELSE f[i]]
  <2>3. \A i \in 1..(m - 1) : f[i] = Next_(i, f)
    BY <2>2 DEF IsFlat
  <2>4. \A i \in 1..(m - 1) : g[i] = f[i]
    BY <2>1
  <2>5. \A i \in 1..m : Next_(i, g) = Next_(i, f)
    <3> SUFFICES ASSUME NEW i \in 1..m, i /= 1 PROVE g[i - 1] = f[i - 1]
      OBVIOUS
    <3>1. i - 1 \in 1..(m - 1)
      BY <2>1
    <3> QED BY <2>4, <3>1
  <2>6. g[m] = Next_(m, f)
    BY <1>4
  <2>7. g = [i \in 1..m |-> g[i]]
    OBVIOUS
  <2> HIDE DEF g, Next_
  <2>8. ASSUME NEW i \in 1..m PROVE g[i] = Next_(i, g)
    <3>1. CASE i = m
      BY <2>5, <2>6, <3>1
    <3>2. CASE i \in 1..(m - 1)
      BY <2>3, <2>4, <2>5, <3>2
    <3> QED BY <2>1, <3>1, <3>2
  <2>9. g = [i \in 1..m |-> Next_(i, g)]
    BY <2>7, <2>8
  <2>10. IsFlat(seqs, m, g)
    BY <2>9 DEF IsFlat, Next_
  <2> QED BY <1>2, <2>10
<1> QED BY <1>2, <1>3, <1>4

LEMMA FlattenIs ==
    ASSUME NEW seqs, Len(seqs) \in Nat \ {0}
    PROVE  \E f : IsFlat(seqs, Len(seqs), f) /\ FlattenSeq(seqs) = f[Len(seqs)]
<1> DEFINE f == CHOOSE g : IsFlat(seqs, Len(seqs), g)
<1>1. IsFlat(seqs, Len(seqs), f)
  BY FlatUpTo
<1>2. FlattenSeq(seqs) = f[Len(seqs)]
  BY Zenon DEF FlattenSeq, IsFlat
<1> QED BY <1>1, <1>2

LEMMA MultiSubstituteIs ==
    ASSUME NEW src, NEW subs, Len(src) \in Nat
    PROVE  \E r : IsRest(src, subs, 1, r) /\ multi_substitute(src, subs) = r[1]
<1> DEFINE r == CHOOSE g : IsRest(src, subs, 1, g)
<1>1. IsRest(src, subs, 1, r)
  <2>1. 1 \in 1..(Len(src) + 1)
    OBVIOUS
  <2>2. \E g : IsRest(src, subs, 1, g)
    BY <2>1, RestFrom
  <2> QED BY <2>2
<1>2. multi_substitute(src, subs) = r[1]
  BY Zenon DEF multi_substitute, IsRest, RestAt
<1> QED BY <1>1, <1>2

\* The same, one equation for each token.
RestsAre(src, subs, n, r) ==
    /\ r[n + 1] = <<>>
    /\ \A i \in 1..n :
        r[i] = IF KeyAt(src, i, subs) THEN subs[SubSeq(src, i, i + 1)] \o r[i + 2]
               ELSE <<src[i]>> \o r[i + 1]

LEMMA RestIs ==
    ASSUME NEW src, NEW subs, NEW n \in Nat, n = Len(src), NEW r, IsRest(src, subs, 1, r)
    PROVE  RestsAre(src, subs, n, r)
<1>1. \A i \in 1..(n + 1) : r[i] = RestAt(src, subs, i, r)
  BY DEF IsRest
<1>2. n + 1 \in 1..(n + 1) /\ n + 1 > Len(src)
  OBVIOUS
<1>3. r[n + 1] = <<>>
  BY <1>1, <1>2 DEF RestAt
<1>4. ASSUME NEW i \in 1..n
      PROVE  r[i] = IF KeyAt(src, i, subs) THEN subs[SubSeq(src, i, i + 1)] \o r[i + 2]
                    ELSE <<src[i]>> \o r[i + 1]
  <2>1. i \in 1..(n + 1) /\ ~(i > Len(src))
    OBVIOUS
  <2>2. r[i] = RestAt(src, subs, i, r)
    BY <1>1, <2>1
  <2> QED BY <2>1, <2>2, Zenon DEF RestAt
<1> QED BY <1>3, <1>4, Zenon DEF RestsAre

\* What is after the token at i, or after the key there.
After(src, subs, i) == IF KeyAt(src, i, subs) THEN i + 2 ELSE i + 1

\* multi_substitute replaces each key by its substitute, where it is, in one pass.
LEMMA SubstitutesInOnePass ==
    ASSUME NEW tokens, NEW src \in Seq(tokens), NEW subs,
           SubstitutesFor(subs, tokens), KeysApart(src, subs)
    PROVE  /\ multi_substitute(src, subs) = Substituted(src, subs)
           /\ multi_substitute(src, subs) \in Seq(tokens)
<1> DEFINE n == Len(src)
           pieces == [i \in 1..n |-> Piece(src, subs, i)]
           next(i) == After(src, subs, i)
<1>1. n \in Nat /\ n = Len(src)
  OBVIOUS
<1>2. PICK r : IsRest(src, subs, 1, r) /\ multi_substitute(src, subs) = r[1]
  BY <1>1, MultiSubstituteIs
<1>3. RestsAre(src, subs, n, r)
  <2> HIDE DEF n
  <2> QED BY <1>1, <1>2, RestIs
<1>4. Substituted(src, subs) = FlattenSeq(pieces)
  BY Zenon DEF Substituted, Piece
<1>5. r[n + 1] = <<>>
  BY <1>3 DEF RestsAre
<1>6. CASE n = 0
  <2>1. pieces = <<>>
    BY <1>6
  <2>2. FlattenSeq(pieces) = <<>>
    BY <2>1 DEF FlattenSeq
  <2>3. r[1] = <<>> /\ <<>> \in Seq(tokens)
    BY <1>5, <1>6
  <2> QED BY <1>2, <1>4, <2>2, <2>3
<1>7. CASE n /= 0
  <2>1. Len(pieces) = n
    BY <1>1
  <2>2. PICK f : IsFlat(pieces, n, f) /\ FlattenSeq(pieces) = f[n]
    BY <1>1, <1>7, <2>1, FlattenIs
  <2>3. /\ \A i \in 1..n : pieces[i] = Piece(src, subs, i)
        /\ f[1] = pieces[1]
        /\ \A i \in 2..n : f[i] = f[i - 1] \o pieces[i]
    <3>1. \A i \in 1..n : f[i] = IF i = 1 THEN pieces[i] ELSE f[i - 1] \o pieces[i]
      BY <2>2 DEF IsFlat
    <3>2. \A i \in 1..n : pieces[i] = Piece(src, subs, i)
      OBVIOUS
    <3> HIDE DEF pieces
    <3>3. 1 \in 1..n /\ \A i \in 2..n : i \in 1..n /\ i /= 1
      BY <1>1, <1>7
    <3>4. f[1] = pieces[1]
      BY <3>1, <3>3
    <3>5. \A i \in 2..n : f[i] = f[i - 1] \o pieces[i]
      BY <3>1, <3>3
    <3> QED BY <3>2, <3>4, <3>5
  <2> HIDE DEF pieces
  <2>4. ASSUME NEW i \in 1..n PROVE pieces[i] \in Seq(tokens)
    <3>1. KeyAt(src, i, subs) => subs[SubSeq(src, i, i + 1)] \in Seq(tokens)
      BY DEF KeyAt, SubstitutesFor
    <3>2. <<src[i]>> \in Seq(tokens) /\ <<>> \in Seq(tokens)
      BY <1>1
    <3> QED BY <2>3, <3>1, <3>2 DEF Piece
  <2>5. ASSUME NEW i \in 1..n
        PROVE  /\ next(i) \in 1..(n + 1)
               /\ KeyAt(src, i, subs) => i + 1 \in 1..n /\ ~KeyAt(src, i + 1, subs)
    <3>1. KeyAt(src, i, subs) => i < n
      BY DEF KeyAt
    <3> QED BY <1>1, <3>1 DEF KeysApart, After
  \* What a token that is not the second of a key adds.
  <2>6. ASSUME NEW i \in 1..n, i > 1 => ~KeyAt(src, i - 1, subs)
        PROVE  r[i] = pieces[i] \o r[next(i)]
    <3>1. r[i] = IF KeyAt(src, i, subs) THEN subs[SubSeq(src, i, i + 1)] \o r[i + 2]
                 ELSE <<src[i]>> \o r[i + 1]
      BY <1>3 DEF RestsAre
    <3>2. CASE KeyAt(src, i, subs)
      <4>1. pieces[i] = subs[SubSeq(src, i, i + 1)]
        BY <2>3, <2>6, <3>2 DEF Piece
      <4> QED BY <3>1, <3>2, <4>1, Zenon DEF After
    <3>3. CASE ~KeyAt(src, i, subs)
      <4>1. pieces[i] = <<src[i]>>
        BY <2>3, <2>6, <3>3 DEF Piece
      <4> QED BY <3>1, <3>3, <4>1, Zenon DEF After
    <3> QED BY <3>2, <3>3
  <2> DEFINE wrong == {m \in Nat : m <= n /\ r[n + 1 - m] \notin Seq(tokens)}
  <2>7. wrong = {}
    <3> SUFFICES ASSUME wrong /= {} PROVE FALSE
      OBVIOUS
    <3>1. PICK m \in wrong : \A j \in wrong : m <= j
      BY LeastIs
    <3> DEFINE i == n + 1 - m
    <3>2. m /= 0
      <4>1. n + 1 - 0 = n + 1 /\ r[n + 1] \in Seq(tokens)
        BY <1>1, <1>5
      <4> QED BY <3>1, <4>1
    <3>3. i \in 1..n /\ m - 1 \in Nat /\ m \in Nat
      BY <1>1, <3>1, <3>2
    <3>4. \A k \in (i + 1)..(n + 1) : r[k] \in Seq(tokens)
      <4> SUFFICES ASSUME NEW k \in (i + 1)..(n + 1), r[k] \notin Seq(tokens) PROVE FALSE
        OBVIOUS
      <4>1. n + 1 - k \in Nat /\ n + 1 - k <= n /\ n + 1 - (n + 1 - k) = k /\ n + 1 - k < m
        BY <1>1, <3>3
      <4> QED BY <3>1, <4>1
    <3>5. /\ r[i] = IF KeyAt(src, i, subs) THEN subs[SubSeq(src, i, i + 1)] \o r[i + 2]
                    ELSE <<src[i]>> \o r[i + 1]
          /\ r[i] \notin Seq(tokens)
      BY <1>3, <3>1, <3>3 DEF RestsAre
    <3> HIDE DEF i
    <3>6. CASE KeyAt(src, i, subs)
      <4>1. subs[SubSeq(src, i, i + 1)] \in Seq(tokens)
        BY <3>6 DEF KeyAt, SubstitutesFor
      <4>2. i + 2 \in (i + 1)..(n + 1)
        BY <1>1, <2>5, <3>3, <3>6 DEF After
      <4>3. r[i] = subs[SubSeq(src, i, i + 1)] \o r[i + 2]
        BY <3>5, <3>6
      <4>4. r[i + 2] \in Seq(tokens)
        BY <3>4, <4>2
      <4> QED BY <3>5, <4>1, <4>3, <4>4, ConcatProperties
    <3>7. CASE ~KeyAt(src, i, subs)
      <4>1. <<src[i]>> \in Seq(tokens)
        BY <3>3
      <4>2. i + 1 \in (i + 1)..(n + 1)
        BY <1>1, <3>3
      <4>3. r[i] = <<src[i]>> \o r[i + 1]
        BY <3>5, <3>7
      <4>4. r[i + 1] \in Seq(tokens)
        BY <3>4, <4>2
      <4> QED BY <3>5, <4>1, <4>3, <4>4, ConcatProperties
    <3> QED BY <3>6, <3>7
  <2>8. \A i \in 1..(n + 1) : r[i] \in Seq(tokens)
    <3> SUFFICES ASSUME NEW i \in 1..(n + 1), r[i] \notin Seq(tokens) PROVE FALSE
      OBVIOUS
    <3>1. n + 1 - i \in Nat /\ n + 1 - i <= n /\ n + 1 - (n + 1 - i) = i
      BY <1>1
    <3> QED BY <2>7, <3>1
  <2> HIDE DEF wrong
  \* The pieces so far and what is left are the whole.
  <2> DEFINE Whole(i) == f[i] \in Seq(tokens) /\ f[i] \o r[next(i)] = r[1]
             broken == {i \in 1..n : ~Whole(i)}
  <2>9. broken = {}
    <3> SUFFICES ASSUME broken /= {} PROVE FALSE
      OBVIOUS
    <3>1. PICK i \in broken : \A j \in broken : i <= j
      <4>1. broken \in SUBSET Nat
        <5>1. 1..n \subseteq Nat
          BY <1>1
        <5> QED BY <5>1
      <4> HIDE DEF broken
      <4> QED BY <4>1, LeastIs
    <3>2. i \in 1..n /\ ~Whole(i)
      BY <3>1
    <3>3. CASE i = 1
      <4>1. f[1] \in Seq(tokens)
        BY <2>3, <2>4, <3>2, <3>3
      <4>2. r[1] = pieces[1] \o r[next(1)]
        <5>1. 1 \in 1..n /\ (1 > 1 => ~KeyAt(src, 1 - 1, subs))
          BY <3>2, <3>3
        <5> HIDE DEF next
        <5> QED BY <2>6, <5>1
      <4> QED BY <2>3, <3>2, <3>3, <4>1, <4>2
    <3>4. CASE i > 1
      <4> DEFINE j == i - 1
      <4>1. j \in 1..n /\ i \in 2..n /\ ~(i <= j)
        BY <1>1, <3>2, <3>4
      <4>2. Whole(j)
        BY <3>1, <4>1
      <4>3. f[i] = f[j] \o pieces[i] /\ f[j] \in Seq(tokens) /\ pieces[i] \in Seq(tokens)
        BY <2>3, <2>4, <3>2, <4>1, <4>2
      <4>4. f[i] \in Seq(tokens)
        BY <4>3, ConcatProperties
      <4>5. r[next(i)] \in Seq(tokens)
        BY <2>5, <2>8, <3>2
      <4>6. CASE KeyAt(src, j, subs)
        <5>1. pieces[i] = <<>>
          <6>1. ~KeyAt(src, i, subs) /\ i > 1 /\ KeyAt(src, i - 1, subs)
            BY <2>5, <3>4, <4>1, <4>6
          <6>2. pieces[i] = Piece(src, subs, i)
            BY <2>3, <3>2
          <6> QED BY <6>1, <6>2, Zenon DEF Piece
        <5>2. ~KeyAt(src, i, subs)
          BY <2>5, <4>1, <4>6
        <5>3. next(j) = i + 1 /\ next(i) = i + 1
          BY <4>1, <4>6, <5>2 DEF After
        <5>4. f[i] = f[j]
          BY <4>3, <5>1, ConcatEmptySeq
        <5> QED BY <3>2, <4>2, <4>4, <5>3, <5>4
      <4>7. CASE ~KeyAt(src, j, subs)
        <5>1. next(j) = i
          BY <4>1, <4>7 DEF After
        <5>2. r[i] = pieces[i] \o r[next(i)]
          BY <2>6, <3>2, <4>7
        <5>3. f[j] \o r[i] = f[i] \o r[next(i)]
          <6> DEFINE a == f[j]
                     b == pieces[i]
                     c == r[next(i)]
          <6>2. a \in Seq(tokens) /\ b \in Seq(tokens) /\ c \in Seq(tokens)
            BY <4>3, <4>5
          <6> HIDE DEF a, b, c
          <6>3. (a \o b) \o c = a \o (b \o c)
            BY <6>2, ConcatAssociative, SMTT(30)
          <6>4. f[i] = a \o b /\ r[i] = b \o c
            BY <4>3, <5>2, Zenon DEF a, b, c
          <6>5. a \o r[i] = f[i] \o c
            BY <6>3, <6>4, Zenon
          <6> QED BY <6>5, Zenon DEF a, c
        <5> QED BY <3>2, <4>2, <4>4, <5>1, <5>3
      <4> QED BY <4>6, <4>7
    <3> QED BY <1>1, <3>2, <3>3, <3>4
  <2>10. Whole(n)
    <3>1. n \in 1..n
      BY <1>1, <1>7
    <3> QED BY <2>9, <3>1
  <2>11. next(n) = n + 1
    BY <1>1 DEF KeyAt, After
  <2>12. f[n] = r[1] /\ f[n] \in Seq(tokens)
    BY <1>5, <2>10, <2>11, ConcatEmptySeq
  <2> QED BY <1>2, <1>4, <2>2, <2>12
<1> QED BY <1>6, <1>7

----
(* What threads that log share *)

IsSeq(s) == s \in Seq(ToSet(s))

MessageOK(message) ==
    message.level \in 1..Len(kLevelNameMap) /\ IsSeq(message.text)

BeforeSyslog == {"localtime", "localtime2", "strftime", "syslog"}
InFile == {"bump", "newline", "flush", "reset"}
OnConsole == {"clog", "endl"}
PastSyslog == {"insert"} \cup InFile \cup OnConsole
Steps == BeforeSyslog \cup PastSyslog

\* What a thread that logs has in hand.
Working(entry) ==
    /\ DOMAIN entry = {"pc", "message", "now", "text", "at", "begun", "alone"}
    /\ entry.pc \in Steps
    /\ MessageOK(entry.message)
    /\ entry.now \in 1..MaxTime /\ entry.at \in 0..MaxBuffered /\ entry.begun \in Nat

ThreadsTyped ==
    /\ DOMAIN thread = Threads
    /\ \A t \in Threads : thread[t] = Idle \/ Working(thread[t])
    /\ DOMAIN history = Threads
    /\ \A t \in Threads : IsSeq(history[t])

LogTyped ==
    /\ IsSeq(logging.log_format)
    /\ clock \in 1..MaxTime
    /\ tm \in AnyFields
    /\ ThreadsTyped
    /\ IsSeq(buffered) /\ Len(buffered) = MaxBuffered /\ pptr \in 0..MaxBuffered
    /\ IsSeq(file) /\ IsSeq(syslog) /\ IsSeq(console)

LEMMA LevelsAre == Len(kLevelNameMap) = 3
BY DEF kLevelNameMap

LEMMA SeqGrows ==
    ASSUME NEW S, NEW T, S \subseteq T, NEW s \in Seq(S)
    PROVE  s \in Seq(T)
<1>1. s \in [1..Len(s) -> T] /\ Len(s) \in Nat
  OBVIOUS
<1> QED BY <1>1

LEMMA IsSeqOf ==
    ASSUME NEW S, NEW s \in Seq(S)
    PROVE  IsSeq(s)
<1>1. s \in [1..Len(s) -> S] /\ Len(s) \in Nat /\ DOMAIN s = 1..Len(s)
  OBVIOUS
<1>2. ToSet(s) = {s[i] : i \in 1..Len(s)}
  BY <1>1 DEF ToSet
<1>3. s \in [1..Len(s) -> ToSet(s)]
  BY <1>1, <1>2
<1> QED BY <1>1, <1>3 DEF IsSeq

LEMMA SeqIs ==
    ASSUME NEW s, IsSeq(s)
    PROVE  /\ Len(s) \in Nat /\ DOMAIN s = 1..Len(s)
           /\ \A i \in 1..Len(s) : s[i] \in ToSet(s)
BY DEF IsSeq

LEMMA AppendIs ==
    ASSUME NEW s, IsSeq(s), NEW e
    PROVE  /\ IsSeq(Append(s, e)) /\ Len(Append(s, e)) = Len(s) + 1
           /\ Append(s, e)[Len(s) + 1] = e
           /\ \A i \in 1..Len(s) : Append(s, e)[i] = s[i]
<1> DEFINE S == ToSet(s) \cup {e}
<1>1. s \in Seq(S)
  BY SeqGrows DEF IsSeq
<1>2. e \in S
  OBVIOUS
<1> HIDE DEF S
<1>3. Append(s, e) \in Seq(S)
  BY <1>1, <1>2
<1>4. IsSeq(Append(s, e))
  BY <1>3, IsSeqOf
<1> QED BY <1>1, <1>2, <1>4

LEMMA ConcatIs ==
    ASSUME NEW s, IsSeq(s), NEW t, IsSeq(t)
    PROVE  /\ IsSeq(s \o t) /\ Len(s \o t) = Len(s) + Len(t)
           /\ \A i \in 1..Len(s) : (s \o t)[i] = s[i]
           /\ \A i \in 1..Len(t) : (s \o t)[Len(s) + i] = t[i]
<1> DEFINE S == ToSet(s) \cup ToSet(t)
<1>1. s \in Seq(S) /\ t \in Seq(S)
  BY SeqGrows DEF IsSeq
<1> HIDE DEF S
<1>2. /\ s \o t \in Seq(S) /\ Len(s \o t) = Len(s) + Len(t)
      /\ \A i \in 1..(Len(s) + Len(t)) :
            (s \o t)[i] = IF i <= Len(s) THEN s[i] ELSE t[i - Len(s)]
  BY <1>1, ConcatProperties
<1>3. IsSeq(s \o t)
  BY <1>2, IsSeqOf
<1> DEFINE u == s \o t
           m == Len(s)
           n == Len(t)
<1>4. m \in Nat /\ n \in Nat
  BY <1>1
<1> HIDE DEF u, m, n
<1>5. \A i \in 1..(m + n) : u[i] = IF i <= m THEN s[i] ELSE t[i - m]
  BY <1>2 DEF u, m, n
<1>6. \A i \in 1..m : u[i] = s[i]
  BY <1>4, <1>5
<1>7. \A i \in 1..n : u[m + i] = t[i]
  <2> SUFFICES ASSUME NEW i \in 1..n PROVE u[m + i] = t[i]
    OBVIOUS
  <2>1. m + i \in 1..(m + n) /\ ~(m + i <= m) /\ (m + i) - m = i
    BY <1>4
  <2> QED BY <1>5, <2>1
<1> QED BY <1>2, <1>3, <1>6, <1>7 DEF u, m, n

LEMMA BusyIsWorking ==
    ASSUME ThreadsTyped, NEW t \in Threads
    PROVE  Busy(t) <=> Working(thread[t])
<1>1. ASSUME thread[t] = Idle, Working(thread[t]) PROVE FALSE
  <2>1. thread[t].pc = "idle"
    BY <1>1 DEF Idle
  <2>2. thread[t].pc \in Steps
    BY <1>1 DEF Working
  <2> QED BY <2>1, <2>2 DEF Steps, BeforeSyslog, PastSyslog, InFile, OnConsole
<1> QED BY <1>1 DEF ThreadsTyped, Busy

\* A thread has gone on at pc, or is done.
GoneOn(t, pc) ==
    /\ \A u \in Threads \ {t} : thread'[u] = thread[u] /\ history'[u] = history[u]
    /\ pc /= "idle" => thread'[t] = [thread[t] EXCEPT !.pc = pc] /\ history' = history
    /\ pc = "idle" =>
        thread'[t] = Idle /\ history'[t] = Append(history[t], thread[t].message)

LEMMA GoOnIs ==
    ASSUME ThreadsTyped, NEW t \in Threads, Busy(t), NEW pc \in Steps \cup {"idle"},
           GoOn(t, pc)
    PROVE  GoneOn(t, pc) /\ ThreadsTyped'
<1>1. Working(thread[t]) /\ DOMAIN thread = Threads /\ DOMAIN history = Threads
  BY BusyIsWorking DEF ThreadsTyped
<1>2. CASE pc = "idle"
  <2>1. /\ thread' = [thread EXCEPT ![t] = Idle]
        /\ history' = [history EXCEPT ![t] = Append(@, thread[t].message)]
    BY <1>2 DEF GoOn
  <2>2. /\ DOMAIN thread' = Threads /\ thread'[t] = Idle
        /\ \A u \in Threads \ {t} : thread'[u] = thread[u]
    BY <1>1, <2>1
  <2>3. /\ DOMAIN history' = Threads /\ history'[t] = Append(history[t], thread[t].message)
        /\ \A u \in Threads \ {t} : history'[u] = history[u]
    BY <1>1, <2>1
  <2>4. IsSeq(history'[t])
    BY <2>3, AppendIs DEF ThreadsTyped
  <2>5. ThreadsTyped'
    <3>1. \A u \in Threads : thread'[u] = Idle \/ Working(thread'[u])
      BY <2>2 DEF ThreadsTyped
    <3>2. \A u \in Threads : IsSeq(history'[u])
      BY <2>3, <2>4 DEF ThreadsTyped
    <3> QED BY <2>2, <2>3, <3>1, <3>2 DEF ThreadsTyped
  <2> QED BY <1>2, <2>2, <2>3, <2>5 DEF GoneOn
<1>3. CASE pc /= "idle"
  <2>1. thread' = [thread EXCEPT ![t].pc = pc] /\ history' = history
    BY <1>3 DEF GoOn
  <2>2. /\ DOMAIN thread' = Threads /\ thread'[t] = [thread[t] EXCEPT !.pc = pc]
        /\ \A u \in Threads \ {t} : thread'[u] = thread[u]
    BY <1>1, <2>1
  <2>3. Working(thread'[t])
    BY <1>1, <1>3, <2>2 DEF Working
  <2>4. ThreadsTyped'
    <3>1. \A u \in Threads : thread'[u] = Idle \/ Working(thread'[u])
      BY <2>2, <2>3 DEF ThreadsTyped
    <3> QED BY <2>1, <2>2, <3>1 DEF ThreadsTyped
  <2> QED BY <1>3, <2>1, <2>2, <2>4 DEF GoneOn
<1> QED BY <1>2, <1>3

LEMMA AftersAre ==
    /\ AfterFile \in {"clog", "idle"}
    /\ AfterSyslog \in {"insert", "clog", "idle"}
    /\ AfterTime \in {"syslog", "insert", "clog", "idle"}
BY DEF AfterFile, AfterSyslog, AfterTime

\* Keys begin with "%", which is no second token of one: they do not overlap.
LEMMA FormatKeysApart ==
    ASSUME NEW src, IsSeq(src), NEW t, NEW message, NEW time
    PROVE  KeysApart(src, Substitutes(t, message, time))
<1> DEFINE subs == Substitutes(t, message, time)
<1>1. DOMAIN subs = {"%"} \X {"T", "I", "L", "M"}
  BY DEF Substitutes
<1>2. ASSUME NEW i \in Nat \ {0}, KeyAt(src, i, subs)
      PROVE  src[i] = "%" /\ src[i + 1] \in {"T", "I", "L", "M"}
  <2>1. i < Len(src) /\ SubSeq(src, i, i + 1) \in {"%"} \X {"T", "I", "L", "M"}
    BY <1>1, <1>2 DEF KeyAt
  <2> DEFINE pair == SubSeq(src, i, i + 1)
             n == Len(src)
  <2>2. pair[1] = src[i] /\ pair[2] = src[i + 1]
    <3>1. src \in Seq(ToSet(src)) /\ n \in Nat /\ i < n
      BY <2>1 DEF IsSeq
    <3> HIDE DEF n
    <3>2. \A k \in i..(i + 1) : src[k] \in ToSet(src)
      <4>1. \A k \in i..(i + 1) : k \in 1..n
        BY <3>1
      <4> QED BY <4>1, SeqIs DEF n
    <3>3. \A k \in 1..((i + 1) - i + 1) : pair[k] = src[i + k - 1]
      BY <3>2, SubSeqProperties
    <3>4. (i + 1) - i + 1 = 2 /\ i + 1 - 1 = i /\ i + 2 - 1 = i + 1
      OBVIOUS
    <3>5. 1 \in 1..2 /\ 2 \in 1..2
      OBVIOUS
    <3>6. pair[1] = src[i + 1 - 1] /\ pair[2] = src[i + 2 - 1]
      BY <3>3, <3>4, <3>5
    <3> QED BY <3>4, <3>6
  <2> HIDE DEF pair
  <2>3. pair[1] = "%" /\ pair[2] \in {"T", "I", "L", "M"}
    BY <2>1 DEF pair
  <2> QED BY <2>2, <2>3
<1> HIDE DEF subs
<1>3. ASSUME NEW i \in 1..Len(src), KeyAt(src, i, subs), KeyAt(src, i + 1, subs) PROVE FALSE
  <2>1. src[i + 1] \in {"T", "I", "L", "M"} /\ src[i + 1] = "%"
    BY <1>2, <1>3
  <2> QED BY <2>1
<1> QED BY <1>3 DEF KeysApart, subs

LEMMA MsgIs ==
    ASSUME NEW src, IsSeq(src), NEW t, NEW message, MessageOK(message), NEW time
    PROVE  multi_substitute(src, Substitutes(t, message, time)) =
             Substituted(src, Substitutes(t, message, time))
<1> DEFINE subs == Substitutes(t, message, time)
           level == kLevelNameMap[message.level]
           tokens == ToSet(src) \cup ToSet(message.text) \cup {t, time, level}
<1>1. src \in Seq(tokens)
  BY SeqGrows DEF IsSeq
<1>2. message.text \in Seq(tokens)
  <2>1. ToSet(message.text) \subseteq tokens /\ message.text \in Seq(ToSet(message.text))
    BY DEF MessageOK, IsSeq
  <2> HIDE DEF tokens
  <2> QED BY <2>1, SeqGrows
<1>3. t \in tokens /\ time \in tokens /\ level \in tokens
  OBVIOUS
<1> HIDE DEF tokens, level
<1>4. SubstitutesFor(subs, tokens)
  <2> SUFFICES ASSUME NEW key \in {"%"} \X {"T", "I", "L", "M"}
               PROVE  subs[key] \in Seq(tokens)
    BY DEF SubstitutesFor, Substitutes
  <2>1. key[2] \in {"T", "I", "L", "M"}
    OBVIOUS
  <2>2. subs[key] = CASE key[2] = "T" -> <<time>>
                      [] key[2] = "I" -> <<t>>
                      [] key[2] = "L" -> <<level>>
                      [] key[2] = "M" -> message.text
    BY DEF Substitutes, level
  <2> QED BY <1>2, <1>3, <2>1, <2>2
<1>5. KeysApart(src, subs)
  BY FormatKeysApart
<1> HIDE DEF subs
<1>6. multi_substitute(src, subs) = Substituted(src, subs)
  BY <1>1, <1>4, <1>5, SubstitutesInOnePass
<1> QED BY <1>6 DEF subs

LEMMA FieldsTyped ==
    ASSUME NEW time \in 1..MaxTime, tm \in AnyFields
    PROVE  /\ [tm EXCEPT ![1] = Broken(time)[1]] \in AnyFields
           /\ [tm EXCEPT ![2] = Broken(time)[2]] \in AnyFields
           /\ Broken(time) \in AnyFields
<1>1. PICK f \in 0..MaxTime, g \in 0..1 : tm = <<f, g>>
  BY DEF AnyFields
<1>2. MaxTime \in Nat
  BY LoggingAssumption
<1>3. time \div 2 \in 0..MaxTime /\ (time % 2) \in 0..1
  BY <1>2
<1>4. Broken(time) = <<time \div 2, time % 2>>
  BY DEF Broken
<1> DEFINE x == time \div 2
           y == time % 2
<1> HIDE DEF x, y
<1>5. x \in 0..MaxTime /\ y \in 0..1 /\ Broken(time) = <<x, y>>
  BY <1>3, <1>4 DEF x, y
<1>6. [tm EXCEPT ![1] = Broken(time)[1]] = <<x, g>> /\ [tm EXCEPT ![2] = Broken(time)[2]] = <<f, y>>
  BY <1>1, <1>5
<1> QED BY <1>1, <1>5, <1>6 DEF AnyFields

LEMMA BufferedTyped ==
    ASSUME IsSeq(buffered), Len(buffered) = MaxBuffered, pptr \in Nat, pptr < MaxBuffered,
           MaxBuffered \in Nat, NEW string
    PROVE  /\ IsSeq(Buffered(string)) /\ Len(Buffered(string)) = MaxBuffered
           /\ Buffered(string)[pptr + 1] = string
           /\ \A i \in 1..MaxBuffered : i /= pptr + 1 => Buffered(string)[i] = buffered[i]
<1> DEFINE S == ToSet(buffered) \cup {string}
           more == [buffered EXCEPT ![pptr + 1] = string]
<1>1. buffered \in [1..MaxBuffered -> S]
  BY DEF IsSeq
<1>2. pptr + 1 \in 1..MaxBuffered /\ string \in S
  OBVIOUS
<1> HIDE DEF S
<1>3. /\ more \in [1..MaxBuffered -> S] /\ more[pptr + 1] = string
      /\ \A i \in 1..MaxBuffered : i /= pptr + 1 => more[i] = buffered[i]
  BY <1>1, <1>2
<1> HIDE DEF more
<1>4. more \in Seq(S) /\ Len(more) = MaxBuffered
  BY <1>3
<1> QED BY <1>3, <1>4, IsSeqOf DEF more, Buffered

LEMMA LogStepTyped ==
    ASSUME LogTyped, NEW t \in Threads, LogStep(t)
    PROVE  LogTyped'
<1>1. Busy(t)
  BY DEF LogStep, LocalTime, StrFTime, Syslog, FileInsert, FileBump, FileNewline,
         FileFlush, FileReset, Clog
<1>2. /\ Working(thread[t]) /\ ThreadsTyped /\ DOMAIN thread = Threads
      /\ MaxBuffered \in Nat /\ pptr \in Nat /\ pptr <= MaxBuffered
  BY <1>1, BusyIsWorking, LoggingAssumption DEF LogTyped, ThreadsTyped
<1>3. ASSUME NEW pc \in Steps \cup {"idle"}, GoOn(t, pc) PROVE ThreadsTyped'
  BY <1>1, <1>2, <1>3, GoOnIs
\* Threads are typed if this one is, and the history stays.
<1>4. ASSUME NEW entry, Working(entry), thread' = [thread EXCEPT ![t] = entry],
             history' = history
      PROVE  ThreadsTyped'
  <2>1. DOMAIN thread' = Threads /\ thread'[t] = entry
        /\ \A u \in Threads \ {t} : thread'[u] = thread[u]
    BY <1>2, <1>4
  <2>2. \A u \in Threads : thread'[u] = Idle \/ Working(thread'[u])
    BY <1>2, <1>4, <2>1 DEF ThreadsTyped
  <2> QED BY <1>2, <1>4, <2>1, <2>2 DEF ThreadsTyped
<1>5. CASE LocalTime(t)
  <2>1. thread[t].now \in 1..MaxTime
    BY <1>2 DEF Working
  <2>2. tm' \in AnyFields
    BY <1>5, <2>1, FieldsTyped DEF LocalTime, LogTyped
  <2>3. ThreadsTyped'
    BY <1>3, <1>5 DEF LocalTime, Steps, BeforeSyslog
  <2> QED BY <1>5, <2>2, <2>3 DEF LocalTime, LogTyped, output
<1>6. CASE StrFTime(t)
  <2> DEFINE msg == multi_substitute(logging.log_format,
                        Substitutes(t, thread[t].message, Formatted(tm)))
  <2> HIDE DEF msg
  <2>1. CASE AfterTime = "idle" /\ GoOn(t, "idle")
    BY <1>3, <1>6, <2>1 DEF StrFTime, LogTyped, output
  <2>2. CASE /\ AfterTime /= "idle" /\ history' = history
             /\ thread' = [thread EXCEPT ![t].pc = AfterTime, ![t].text = msg]
    <3> DEFINE entry == [thread[t] EXCEPT !.pc = AfterTime, !.text = msg]
    <3>1. AfterTime \in Steps
      BY <2>2, AftersAre DEF Steps, BeforeSyslog, PastSyslog, OnConsole
    <3>2. Working(entry)
      BY <1>2, <3>1 DEF Working
    <3>3. thread' = [thread EXCEPT ![t] = entry]
      BY <1>2, <2>2
    <3> HIDE DEF entry
    <3>4. ThreadsTyped'
      BY <1>4, <2>2, <3>2, <3>3
    <3> QED BY <1>6, <3>4 DEF StrFTime, LogTyped, output
  <2> QED BY <1>6, <2>1, <2>2 DEF StrFTime, msg
<1>7. CASE Syslog(t)
  <2>1. AfterSyslog \in Steps \cup {"idle"}
    BY AftersAre DEF Steps, PastSyslog, OnConsole
  <2>2. ThreadsTyped'
    BY <1>3, <1>7, <2>1 DEF Syslog
  <2>3. IsSeq(syslog')
    BY <1>7, AppendIs DEF Syslog, LogTyped
  <2> QED BY <1>7, <2>2, <2>3 DEF Syslog, LogTyped
<1>8. ASSUME pptr < MaxBuffered, NEW string, buffered' = Buffered(string)
      PROVE  IsSeq(buffered') /\ Len(buffered') = MaxBuffered
  BY <1>2, <1>8, BufferedTyped DEF LogTyped
<1>9. CASE FileInsert(t)
  <2> DEFINE entry == [thread[t] EXCEPT !.pc = "bump", !.at = pptr]
  <2>1. pptr \in 0..MaxBuffered /\ "bump" \in Steps
    BY DEF LogTyped, Steps, PastSyslog, InFile
  <2>2. Working(entry)
    BY <1>2, <2>1 DEF Working
  <2>3. thread' = [thread EXCEPT ![t] = entry] /\ history' = history
    BY <1>2, <1>9 DEF FileInsert
  <2> HIDE DEF entry
  <2>4. ThreadsTyped'
    BY <1>4, <2>2, <2>3
  <2> QED BY <1>8, <1>9, <2>4 DEF FileInsert, LogTyped, output
<1>10. CASE FileBump(t)
  <2>1. ThreadsTyped'
    BY <1>3, <1>10 DEF FileBump, Steps, PastSyslog, InFile
  <2>2. thread[t].at \in Nat
    BY <1>2 DEF Working
  <2>3. pptr' \in 0..MaxBuffered
    BY <1>2, <1>10, <2>2 DEF FileBump
  <2> QED BY <1>10, <2>1, <2>3 DEF FileBump, LogTyped, output
<1>11. CASE FileNewline(t)
  <2>1. pptr' \in 0..MaxBuffered
    BY <1>2, <1>11 DEF FileNewline
  <2>2. ThreadsTyped'
    BY <1>3, <1>11 DEF FileNewline, Steps, PastSyslog, InFile
  <2> QED BY <1>8, <1>11, <2>1, <2>2 DEF FileNewline, LogTyped, output
<1>12. CASE FileFlush(t)
  <2>1. ThreadsTyped'
    BY <1>3, <1>12 DEF FileFlush, Steps, PastSyslog, InFile
  <2>2. SubSeq(buffered, 1, pptr) \in Seq(ToSet(buffered))
    BY <1>2 DEF LogTyped, IsSeq
  <2>3. IsSeq(file')
    BY <1>12, <2>2, IsSeqOf, ConcatIs DEF FileFlush, LogTyped
  <2> QED BY <1>12, <2>1, <2>3 DEF FileFlush, LogTyped
<1>13. CASE FileReset(t)
  <2>1. AfterFile \in Steps \cup {"idle"}
    BY AftersAre DEF Steps, PastSyslog, OnConsole
  <2>2. ThreadsTyped'
    BY <1>3, <1>13, <2>1 DEF FileReset
  <2> QED BY <1>2, <1>13, <2>2 DEF FileReset, LogTyped, output
<1>14. CASE Clog(t)
  <2>1. ThreadsTyped'
    BY <1>3, <1>14 DEF Clog, Steps, PastSyslog, OnConsole
  <2>2. IsSeq(console')
    <3>1. IsSeq(console) /\ IsSeq(Append(console, MyText(t)))
          /\ IsSeq(Append(console, MyEndOfLine(t)))
      BY AppendIs DEF LogTyped
    <3> QED BY <1>14, <3>1 DEF Clog, Shown
  <2> QED BY <1>14, <2>1, <2>2 DEF Clog, LogTyped
<1> QED BY <1>5, <1>6, <1>7, <1>9, <1>10, <1>11, <1>12, <1>13, <1>14 DEF LogStep

\* A thread has begun to log a message, or its message is dropped.
Begun(t, message) ==
    /\ message.level > logging.max_level =>
        /\ thread' = thread /\ history'[t] = Append(history[t], message)
        /\ \A u \in Threads \ {t} : history'[u] = history[u]
    /\ ~(message.level > logging.max_level) =>
        /\ history' = history /\ Working(thread'[t])
        /\ thread'[t].pc = "localtime" /\ thread'[t].message = message
        /\ thread'[t].begun = Len(file)
        /\ thread'[t].alone <=> \A u \in Threads : ~Busy(u)
        /\ \A u \in Threads \ {t} :
            /\ ~Busy(u) => thread'[u] = Idle
            /\ Busy(u) => thread'[u] = [thread[u] EXCEPT !.alone = FALSE]

LEMMA LogIs ==
    ASSUME LogTyped, NEW t \in Threads, NEW message, MessageOK(message), Log(t, message)
    PROVE  Begun(t, message) /\ LogTyped'
<1>1. /\ DOMAIN thread = Threads /\ DOMAIN history = Threads /\ Len(file) \in Nat
      /\ \A u \in Threads : IsSeq(history[u])
      /\ \A u \in Threads : thread[u] = Idle \/ Working(thread[u])
  BY SeqIs DEF LogTyped, ThreadsTyped
<1>2. /\ UNCHANGED <<logging, clock, tm, buffered, pptr, output>>
      /\ ~Busy(t)
  BY DEF Log
<1>3. CASE message.level > logging.max_level
  <2>1. thread' = thread /\ history' = [history EXCEPT ![t] = Append(@, message)]
    BY <1>3 DEF Log
  <2>2. /\ DOMAIN history' = Threads /\ history'[t] = Append(history[t], message)
        /\ \A u \in Threads \ {t} : history'[u] = history[u]
    BY <1>1, <2>1
  <2>3. IsSeq(history'[t])
    BY <1>1, <2>2, AppendIs
  <2>4. ThreadsTyped'
    BY <1>1, <2>1, <2>2, <2>3 DEF ThreadsTyped
  <2> QED BY <1>2, <1>3, <2>1, <2>2, <2>4 DEF Begun, LogTyped, output
<1>4. CASE ~(message.level > logging.max_level)
  <2> DEFINE entry == [pc |-> "localtime", message |-> message, now |-> clock, text |-> <<>>,
                       at |-> 0, begun |-> Len(file),
                       alone |-> \A v \in Threads : ~Busy(v)]
  <2>1. /\ history' = history
        /\ thread' = [u \in Threads |->
                IF u = t THEN entry
                ELSE IF Busy(u) THEN [thread[u] EXCEPT !.alone = FALSE] ELSE Idle]
    BY <1>4 DEF Log
  <2>2. /\ Working(entry) /\ entry.pc = "localtime" /\ entry.message = message
        /\ entry.begun = Len(file)
        /\ entry.alone <=> \A v \in Threads : ~Busy(v)
    <3>1. clock \in 1..MaxTime /\ 0 \in 0..MaxBuffered /\ "localtime" \in Steps
      BY LoggingAssumption DEF LogTyped, Steps, BeforeSyslog
    <3> QED BY <1>1, <3>1 DEF Working
  <2> HIDE DEF entry
  <2>3. /\ DOMAIN thread' = Threads /\ thread'[t] = entry
        /\ \A u \in Threads \ {t} :
            /\ ~Busy(u) => thread'[u] = Idle
            /\ Busy(u) => thread'[u] = [thread[u] EXCEPT !.alone = FALSE]
    BY <2>1
  <2>4. ASSUME NEW u \in Threads PROVE thread'[u] = Idle \/ Working(thread'[u])
    <3>1. CASE u = t
      BY <2>2, <2>3, <3>1
    <3>2. CASE u /= t /\ Busy(u)
      <4>1. Working(thread[u])
        BY <1>1, <3>2 DEF Busy
      <4>2. thread'[u] = [thread[u] EXCEPT !.alone = FALSE]
        BY <2>3, <3>2
      <4> QED BY <4>1, <4>2 DEF Working
    <3>3. CASE u /= t /\ ~Busy(u)
      BY <2>3, <3>3
    <3> QED BY <3>1, <3>2, <3>3
  <2>5. ThreadsTyped'
    BY <1>1, <2>1, <2>3, <2>4 DEF ThreadsTyped
  <2>6. Begun(t, message)
    <3>1. thread'[t].alone <=> \A u \in Threads : ~Busy(u)
      BY <2>2, <2>3, Zenon
    <3>2. Working(thread'[t]) /\ thread'[t].pc = "localtime" /\ thread'[t].message = message
          /\ thread'[t].begun = Len(file)
      BY <2>2, <2>3, Zenon
    <3> QED BY <1>4, <2>1, <2>3, <3>1, <3>2, Zenon DEF Begun
  <2> QED BY <1>2, <2>5, <2>6 DEF LogTyped, output
<1> QED BY <1>3, <1>4

\* While main starts nobody logs, and then nobody but main, three times.
Quiet ==
    /\ phase \in {"parsing", "checking"} =>
        (\A t \in Threads : history[t] = <<>>) /\ syslog = <<>> /\ console = <<>>
    /\ phase \in {"parsing", "checking", "announcing"} => attached = TRUE
    /\ phase /= "serving" => \A t \in Threads \ {Main} : ~Busy(t)
    /\ phase \notin {"announcing", "serving"} => ~Busy(Main)
    /\ phase = "announcing" /\ Busy(Main) => Len(history[Main]) < 3

LEMMA LogInit == Init => LogTyped /\ Quiet
<1> SUFFICES ASSUME Init PROVE LogTyped /\ Quiet
  OBVIOUS
<1>1. LoggingInit /\ phase = "parsing"
  BY DEF Init
<1>2. \A t \in Threads : ~Busy(t) /\ history[t] = <<>>
  BY <1>1 DEF LoggingInit, Busy
<1>3. IsSeq(<<>>)
  BY DEF IsSeq
<1>4. ThreadsTyped
  BY <1>1, <1>2, <1>3 DEF LoggingInit, ThreadsTyped, Busy
<1>5. IsSeq(buffered) /\ Len(buffered) = MaxBuffered
  <2>1. MaxBuffered \in Nat /\ buffered = [i \in 1..MaxBuffered |-> Garbage]
    BY <1>1, LoggingAssumption DEF LoggingInit
  <2>2. buffered \in Seq({Garbage}) /\ Len(buffered) = MaxBuffered
    BY <2>1
  <2> QED BY <2>2, IsSeqOf
<1>6. tm \in AnyFields
  BY <1>1, LoggingAssumption DEF LoggingInit, AnyFields
<1>7. LogTyped
  <2>1. /\ logging.log_format = <<>> /\ clock = 1 /\ pptr = 0
        /\ file = <<>> /\ syslog = <<>> /\ console = <<>>
    BY <1>1 DEF LoggingInit, NoLogging
  <2>2. 1 \in 1..MaxTime /\ 0 \in 0..MaxBuffered
    BY LoggingAssumption
  <2> QED BY <1>3, <1>4, <1>5, <1>6, <2>1, <2>2 DEF LogTyped
<1>8. Quiet
  BY <1>1, <1>2, StartupAssumption DEF LoggingInit, Quiet
<1> QED BY <1>7, <1>8

LEMMA FormatTyped ==
    ASSUME OnTheWay, phase = "parsing"
    PROVE  DOMAIN params = Options \cup {"basepath"} /\ IsSeq(params.log_format)
<1>1. ParsedTo(params, args, taken) /\ args \in ArgLists /\ taken \in 0..Len(args)
  BY DEF OnTheWay, CommandLine
<1>2. IsLast(params["log_format"], Defaults["log_format"], args, taken, "log_format")
  BY <1>1 DEF ParsedTo, Options
<1>3. IsSeq(Defaults.log_format)
  <2> DEFINE S == {"%", "T", "I", "L", "M"}
  <2>1. <<"%", "T", "%", "I", "%", "L", "%", "M">> \in Seq(S)
    OBVIOUS
  <2>2. IsSeq(<<"%", "T", "%", "I", "%", "L", "%", "M">>)
    BY <2>1, IsSeqOf
  <2> QED BY <2>2 DEF Defaults
<1>4. \A i \in Upto(args, taken, {"log_format"}) : IsSeq(args[i].value)
  <2> SUFFICES ASSUME NEW i \in Upto(args, taken, {"log_format"}) PROVE IsSeq(args[i].value)
    OBVIOUS
  <2>1. Len(args) \in Nat /\ \A j \in 1..Len(args) : ArgumentOK(args[j])
    BY <1>1, ArgListType
  <2>2. i \in 1..Len(args) /\ args[i].opt = "log_format"
    BY <1>1, <2>1 DEF Upto
  <2>3. ArgumentOK(args[i])
    BY <2>1, <2>2
  <2> QED BY <2>2, <2>3 DEF ArgumentOK, IsSeq
<1>5. IsSeq(params["log_format"])
  BY <1>2, <1>3, <1>4, Zenon DEF IsLast
<1> QED BY <1>1, <1>5 DEF ParsedTo

\* What a step of the program is to the log.
ToTheLog ==
    \/ /\ UNCHANGED loggingVars
       /\ \/ phase' = phase
          \/ /\ phase \in {"parsing", "checking", "announcing"} /\ ~Busy(Main)
             /\ phase' \in {"announcing", "exited"}
    \/ /\ phase = "parsing" /\ phase' = "checking"
       /\ IsSeq(logging'.log_format)
       /\ UNCHANGED <<clock, tm, thread, buffered, pptr, output, history>>
    \/ /\ phase = "announcing" /\ phase' = "serving" /\ ~Busy(Main)
       /\ UNCHANGED <<logging, clock, tm, thread, buffered, pptr, file, syslog, console,
                      history>>
    \/ \E t \in Threads : \E message :
        /\ MessageOK(message) /\ Log(t, message) /\ UNCHANGED startVars
        /\ \/ phase = "serving"
           \/ phase = "announcing" /\ t = Main /\ Len(history[Main]) < 3
    \/ (\E t \in Threads : LogStep(t)) /\ UNCHANGED startVars
    \/ Tick /\ UNCHANGED startVars

LEMMA StepToTheLog == OnTheWay /\ Quiet /\ [Next]_vars => ToTheLog
<1> SUFFICES ASSUME OnTheWay, Quiet, [Next]_vars PROVE ToTheLog
  OBVIOUS
<1>1. CASE \/ SetOption \/ TakeDebug \/ TakePlain \/ TakeOther
           \/ TakeMalformed \/ TakeHelp \/ TakeVersion
  <2>1. phase = "parsing" /\ UNCHANGED loggingVars
    BY <1>1 DEF SetOption, TakeDebug, TakePlain, TakeOther, TakeMalformed, TakeHelp,
                TakeVersion, Parse
  <2>2. phase' = phase \/ phase' = "exited"
    BY <1>1 DEF SetOption, TakeDebug, TakePlain, TakeOther, TakeMalformed, TakeHelp,
                TakeVersion, Drop, Keep, Exit
  <2> QED BY <2>1, <2>2 DEF Quiet, ToTheLog
<1>2. CASE StartLogging
  <2>1. phase = "parsing"
    BY <1>2 DEF StartLogging
  <2>2. CASE Exit(1) /\ UNCHANGED loggingVars
    BY <2>1, <2>2 DEF Exit, Quiet, ToTheLog
  <2>3. CASE /\ init_logging(params.logfile, string_to_level(params'.log_maxlevel),
                             params.log_format, params'.log_stderr /= 0,
                             params.log_syslog /= 0)
             /\ phase' = "checking"
    <3>1. logging'.log_format = params.log_format
          /\ UNCHANGED <<clock, tm, thread, buffered, pptr, output, history>>
      BY <2>3 DEF init_logging
    <3>2. IsSeq(params.log_format)
      BY <2>1, FormatTyped
    <3> QED BY <2>1, <2>3, <3>1, <3>2 DEF ToTheLog
  <2> QED BY <1>2, <2>2, <2>3 DEF StartLogging
<1>3. CASE CheckOptions
  <2>1. phase = "checking" /\ UNCHANGED loggingVars /\ phase' \in {"announcing", "exited"}
    BY <1>3 DEF CheckOptions, Exit
  <2> QED BY <2>1 DEF Quiet, ToTheLog
<1>4. CASE Announce
  <2>1. PICK i \in DOMAIN Announcements :
            Len(history[Main]) = i - 1 /\ Log(Main, Announcement(Announcements[i]))
    BY <1>4 DEF Announce
  <2>2. i \in 1..3
    BY <2>1 DEF Announcements
  <2>3. Len(history[Main]) < 3
    BY <2>1, <2>2
  <2>4. MessageOK(Announcement(Announcements[i]))
    <3> DEFINE what == Announcements[i]
    <3>1. <<what>> \in Seq({what})
      OBVIOUS
    <3>2. IsSeq(<<what>>)
      BY <3>1, IsSeqOf
    <3> HIDE DEF what
    <3>3. Announcement(what).level = 3 /\ Announcement(what).text = <<what>>
      BY DEF Announcement, Level
    <3>4. 3 \in 1..Len(kLevelNameMap)
      BY LevelsAre
    <3>5. MessageOK(Announcement(what))
      BY <3>2, <3>3, <3>4 DEF MessageOK
    <3> QED BY <3>5 DEF what
  <2> QED BY <1>4, <2>1, <2>3, <2>4, StartupAssumption DEF Announce, ToTheLog
<1>5. CASE fuse_main
  <2>1. phase = "announcing" /\ Len(history[Main]) = 3
    BY <1>5 DEF fuse_main, Announcements
  <2>2. ~Busy(Main)
    BY <2>1 DEF Quiet
  <2>3. UNCHANGED <<logging, clock, tm, thread, buffered, pptr, file, syslog, console,
                    history>>
    BY <1>5 DEF fuse_main
  <2>4. phase' = "serving" \/ (Exit(1) /\ UNCHANGED attached)
    BY <1>5 DEF fuse_main
  <2> QED BY <2>1, <2>2, <2>3, <2>4 DEF Exit, ToTheLog, loggingVars, output
<1>6. CASE HandlerLogs
  <2>1. PICK t \in Handlers, message \in Messages : Log(t, message)
    BY <1>6 DEF HandlerLogs
  <2>2. MessageOK(message)
    BY StartupAssumption DEF MessageOK, IsSeq
  <2>3. phase = "serving" /\ UNCHANGED startVars /\ t \in Threads
    BY <1>6 DEF HandlerLogs, Handlers
  <2> QED BY <2>1, <2>2, <2>3 DEF ToTheLog
<1>7. CASE LogOn
  BY <1>7 DEF LogOn, ToTheLog
<1>8. CASE TimePasses
  BY <1>8 DEF TimePasses, ToTheLog
<1>9. CASE UNCHANGED vars
  BY <1>9 DEF vars, startVars, ToTheLog
<1> QED BY <1>1, <1>2, <1>3, <1>4, <1>5, <1>6, <1>7, <1>8, <1>9 DEF Next

\* A thread that goes on is busy, the others stay as they are, and what it has
\* logged it has logged when it is done.
LEMMA LogStepIs ==
    ASSUME LogTyped, NEW t \in Threads, LogStep(t)
    PROVE  /\ Busy(t) /\ Working(thread[t])
           /\ UNCHANGED <<logging, clock, attached>>
           /\ \A u \in Threads \ {t} : thread'[u] = thread[u] /\ history'[u] = history[u]
           /\ \/ thread'[t] /= Idle /\ history' = history
              \/ thread'[t] = Idle /\ history'[t] = Append(history[t], thread[t].message)
<1>1. Busy(t) /\ UNCHANGED <<logging, clock, attached>>
  BY DEF LogStep, LocalTime, StrFTime, Syslog, FileInsert, FileBump, FileNewline,
         FileFlush, FileReset, Clog, output
<1>2. Working(thread[t]) /\ ThreadsTyped /\ DOMAIN thread = Threads /\ ThreadsTyped'
  BY <1>1, BusyIsWorking, LogStepTyped DEF LogTyped, ThreadsTyped
<1>3. \/ \E pc \in Steps \cup {"idle"} : GoOn(t, pc)
      \/ StrFTime(t) /\ AfterTime /= "idle"
      \/ FileInsert(t)
  BY AftersAre DEF LogStep, LocalTime, StrFTime, Syslog, FileInsert, FileBump, FileNewline,
         FileFlush, FileReset, Clog, Steps, BeforeSyslog, PastSyslog, InFile, OnConsole
<1> DEFINE Goal ==
           /\ \A u \in Threads \ {t} : thread'[u] = thread[u] /\ history'[u] = history[u]
           /\ \/ thread'[t] /= Idle /\ history' = history
              \/ thread'[t] = Idle /\ history'[t] = Append(history[t], thread[t].message)
<1>4. ASSUME NEW pc \in Steps \cup {"idle"}, GoOn(t, pc) PROVE Goal
  <2>1. GoneOn(t, pc)
    BY <1>1, <1>2, <1>4, GoOnIs
  <2>2. CASE pc = "idle"
    BY <2>1, <2>2 DEF GoneOn
  <2>3. CASE pc /= "idle"
    <3>1. thread'[t] = [thread[t] EXCEPT !.pc = pc] /\ history' = history
      BY <2>1, <2>3 DEF GoneOn
    <3>2. thread'[t] /= Idle
      BY <1>2, <2>3, <3>1 DEF Working, Idle
    <3> QED BY <2>1, <3>1, <3>2 DEF GoneOn
  <2> QED BY <2>2, <2>3
<1>5. CASE StrFTime(t) /\ AfterTime /= "idle"
  <2> DEFINE msg == multi_substitute(logging.log_format,
                        Substitutes(t, thread[t].message, Formatted(tm)))
  <2>1. history' = history /\ thread' = [thread EXCEPT ![t].pc = AfterTime, ![t].text = msg]
    BY <1>5 DEF StrFTime
  <2> HIDE DEF msg
  <2>2. thread'[t] = [thread[t] EXCEPT !.pc = AfterTime, !.text = msg]
        /\ \A u \in Threads \ {t} : thread'[u] = thread[u]
    BY <1>2, <2>1
  <2>3. thread'[t] /= Idle
    BY <1>2, <1>5, <2>2 DEF Working, Idle
  <2> QED BY <1>1, <1>2, <2>1, <2>2, <2>3
<1>6. CASE FileInsert(t)
  <2>1. history' = history /\ thread' = [thread EXCEPT ![t].pc = "bump", ![t].at = pptr]
    BY <1>6 DEF FileInsert
  <2>2. thread'[t] = [thread[t] EXCEPT !.pc = "bump", !.at = pptr]
        /\ \A u \in Threads \ {t} : thread'[u] = thread[u]
    BY <1>2, <2>1
  <2>3. thread'[t] /= Idle
    BY <1>2, <2>2 DEF Working, Idle
  <2> QED BY <1>1, <1>2, <2>1, <2>2, <2>3
<1> QED BY <1>1, <1>2, <1>3, <1>4, <1>5, <1>6

LEMMA BusyNext ==
    ASSUME NEW t
    PROVE  Busy(t)' <=> thread'[t] /= Idle
BY DEF Busy

LEMMA QuietNext ==
    ASSUME LogTyped, Quiet, ToTheLog
    PROVE  LogTyped' /\ Quiet'
<1>0. Main \in Threads /\ ThreadsTyped
  BY StartupAssumption DEF LogTyped
<1>1. CASE /\ UNCHANGED loggingVars
           /\ \/ phase' = phase
              \/ /\ phase \in {"parsing", "checking", "announcing"} /\ ~Busy(Main)
                 /\ phase' \in {"announcing", "exited"}
  <2>1. LogTyped'
    BY <1>1 DEF LogTyped, ThreadsTyped, loggingVars, output
  <2>2. /\ thread' = thread /\ history' = history /\ attached' = attached
        /\ syslog' = syslog /\ console' = console
    BY <1>1 DEF loggingVars, output
  <2>3. Quiet'
    BY <1>1, <2>2 DEF Quiet, Busy
  <2> QED BY <2>1, <2>3
<1>2. CASE /\ phase = "parsing" /\ phase' = "checking"
           /\ IsSeq(logging'.log_format)
           /\ UNCHANGED <<clock, tm, thread, buffered, pptr, output, history>>
  <2>1. LogTyped'
    BY <1>2 DEF LogTyped, ThreadsTyped, output
  <2>2. Quiet'
    BY <1>2 DEF Quiet, Busy, output
  <2> QED BY <2>1, <2>2
<1>3. CASE /\ phase = "announcing" /\ phase' = "serving" /\ ~Busy(Main)
           /\ UNCHANGED <<logging, clock, tm, thread, buffered, pptr, file, syslog, console,
                          history>>
  <2>1. LogTyped'
    BY <1>3 DEF LogTyped, ThreadsTyped
  <2>2. Quiet'
    BY <1>3 DEF Quiet, Busy
  <2> QED BY <2>1, <2>2
<1>4. ASSUME NEW t \in Threads, NEW message, MessageOK(message), Log(t, message),
             UNCHANGED startVars,
             \/ phase = "serving"
             \/ phase = "announcing" /\ t = Main /\ Len(history[Main]) < 3
      PROVE  LogTyped' /\ Quiet'
  <2>1. LogTyped' /\ Begun(t, message)
    BY <1>4, LogIs
  <2>2. UNCHANGED <<attached, phase>> /\ ~Busy(t)
    BY <1>4 DEF Log, output, startVars
  <2>3. CASE phase = "serving"
    BY <2>1, <2>2, <2>3 DEF Quiet
  <2>4. CASE phase = "announcing" /\ t = Main /\ Len(history[Main]) < 3
    <3>1. ASSUME NEW u \in Threads \ {Main} PROVE ~Busy(u)'
      <4>1. ~Busy(u)
        BY <2>4 DEF Quiet
      <4>2. thread'[u] = Idle
        BY <2>1, <2>4, <4>1 DEF Begun, Busy
      <4> QED BY <4>2, BusyNext
    <3>2. Busy(Main)' => Len(history'[Main]) < 3
      <4>1. CASE message.level > logging.max_level
        BY <2>1, <2>2, <2>4, <4>1 DEF Begun, Busy
      <4>2. CASE ~(message.level > logging.max_level)
        BY <2>1, <2>4, <4>2 DEF Begun
      <4> QED BY <4>1, <4>2
    <3>3. attached' = TRUE
      BY <2>2, <2>4 DEF Quiet
    <3> QED BY <2>1, <2>2, <2>4, <3>1, <3>2, <3>3 DEF Quiet
  <2> QED BY <1>4, <2>3, <2>4
<1>5. ASSUME NEW t \in Threads, LogStep(t), UNCHANGED startVars
      PROVE  LogTyped' /\ Quiet'
  <2>1. LogTyped'
    BY <1>5, LogStepTyped
  <2>2. /\ Busy(t) /\ attached' = attached /\ phase' = phase
        /\ \A u \in Threads \ {t} : thread'[u] = thread[u] /\ history'[u] = history[u]
        /\ \/ thread'[t] /= Idle /\ history' = history
           \/ thread'[t] = Idle /\ history'[t] = Append(history[t], thread[t].message)
    BY <1>5, LogStepIs DEF startVars
  <2>3. CASE phase = "serving"
    BY <2>1, <2>2, <2>3 DEF Quiet
  <2>4. CASE phase /= "serving"
    <3>1. t = Main /\ phase = "announcing"
      BY <2>2, <2>4 DEF Quiet
    <3>2. \A u \in Threads \ {Main} : ~Busy(u)'
      BY <2>2, <2>4, <3>1, BusyNext DEF Quiet, Busy
    <3>3. Busy(Main)' => Len(history'[Main]) < 3
      BY <2>2, <3>1, BusyNext DEF Quiet
    <3> QED BY <2>1, <2>2, <3>1, <3>2, <3>3 DEF Quiet
  <2> QED BY <2>3, <2>4
<1>6. CASE Tick /\ UNCHANGED startVars
  <2>1. LogTyped'
    <3>1. clock' \in 1..MaxTime
      BY <1>6, LoggingAssumption DEF Tick, LogTyped
    <3> QED BY <1>6, <3>1 DEF Tick, LogTyped, ThreadsTyped, output
  <2>2. Quiet'
    BY <1>6 DEF Tick, Quiet, Busy, startVars, output
  <2> QED BY <2>1, <2>2
<1> QED BY <1>1, <1>2, <1>3, <1>4, <1>5, <1>6 DEF ToTheLog

----
(* A message that nobody else logs at the same time *)

\* The stream's buffer is empty when nobody uses it.
StreamEmpty == (\A u \in Threads : thread[u].pc \notin InFile) => pptr = 0

\* The entry that a thread is to make of its message.
EntryOf(t) == Entry(t, thread[t].message, Broken(thread[t].now))

\* The file has had a line written since the thread began to log.
LineWritten(t) == Len(file) = thread[t].begun + 2 /\ EndsWithLine(file, EntryOf(t))

\* How far a thread has come that is alone since it began to log.
Alone(t) ==
    LET pc == thread[t].pc
        entry == EntryOf(t)
    IN  /\ \A u \in Threads \ {t} : ~Busy(u)
        /\ pc = "localtime2" => tm[1] = Broken(thread[t].now)[1]
        /\ pc = "strftime" => tm = Broken(thread[t].now)
        /\ pc \notin {"localtime", "localtime2", "strftime"} => MyText(t) = entry
        /\ pc \in PastSyslog /\ logging.to_syslog => Last(syslog) = entry
        /\ pc \in BeforeSyslog \cup {"insert", "bump", "newline", "flush"} =>
            Len(file) = thread[t].begun
        /\ pc \in {"bump", "newline", "flush"} => buffered[1] = entry
        /\ pc = "bump" => pptr = 0 /\ thread[t].at = 0
        /\ pc = "newline" => pptr = 1
        /\ pc = "flush" => pptr = 2 /\ buffered[2] = MyEndOfLine(t)
        /\ pc = "reset" \/ (pc \in OnConsole /\ logging.to_file) => LineWritten(t)
        /\ pc = "endl" /\ attached => Len(console) > 0 /\ Last(console) = entry

AloneIsRight ==
    /\ StreamEmpty
    /\ \A t \in Threads : Busy(t) /\ thread[t].alone => Alone(t)

\* What LoneEntryIsRight says of a thread that is done.
DoneRight(t) ==
    LET entry == EntryOf(t)
    IN  /\ logging.to_file => Len(file') = thread[t].begun + 2 /\ EndsWithLine(file', entry)
        /\ logging.to_stderr /\ attached => EndsWithLine(console', entry)
        /\ logging.to_syslog => Last(syslog') = entry

\* A step from one place to the next keeps what the thread has in hand.
SameEntry(t) ==
    /\ thread'[t].message = thread[t].message /\ thread'[t].now = thread[t].now
    /\ thread'[t].begun = thread[t].begun /\ thread'[t].text = thread[t].text
    /\ thread'[t].at = thread[t].at
    /\ thread'[t].alone <=> thread[t].alone

LEMMA GoOnKeeps ==
    ASSUME ThreadsTyped, NEW t \in Threads, Busy(t), NEW pc \in Steps, GoOn(t, pc)
    PROVE  /\ thread'[t].pc = pc /\ SameEntry(t)
           /\ MyText(t)' = MyText(t) /\ MyEndOfLine(t)' = MyEndOfLine(t)
<1>1. Working(thread[t])
  BY BusyIsWorking
<1>2. pc /= "idle"
  BY DEF Steps, BeforeSyslog, PastSyslog, InFile, OnConsole
<1>3. thread'[t] = [thread[t] EXCEPT !.pc = pc]
  BY <1>2, GoOnIs DEF GoneOn
<1>4. thread'[t].pc = pc /\ SameEntry(t)
  BY <1>1, <1>3 DEF Working, SameEntry
<1> QED BY <1>4 DEF SameEntry, MyText, MyEndOfLine, EndOfLine

LEMMA BrokenIs ==
    ASSUME tm \in AnyFields, NEW time
    PROVE  /\ [tm EXCEPT ![1] = Broken(time)[1]][1] = Broken(time)[1]
           /\ tm[1] = Broken(time)[1] => [tm EXCEPT ![2] = Broken(time)[2]] = Broken(time)
<1>1. PICK f \in 0..MaxTime, g \in 0..1 : tm = <<f, g>>
  BY DEF AnyFields
<1> DEFINE x == time \div 2
           y == time % 2
<1>2. Broken(time) = <<x, y>>
  BY DEF Broken
<1> HIDE DEF x, y
<1> QED BY <1>1, <1>2

LEMMA EntryIs ==
    ASSUME NEW t, NEW message, NEW fields
    PROVE  Entry(t, message, fields).by = t /\ Entry(t, message, fields).message = message
BY DEF Entry, Text

\* A line at the end of a sequence.
LEMMA LineAtEnd ==
    ASSUME NEW s, IsSeq(s), NEW t, NEW message, NEW fields
    PROVE  LET entry == Entry(t, message, fields)
           IN  /\ Last(s) = entry /\ Len(s) > 0 =>
                    EndsWithLine(Append(s, EndOfLine(t, message)), entry)
               /\ EndsWithLine(s \o <<entry, EndOfLine(t, message)>>, entry)
<1> DEFINE entry == Entry(t, message, fields)
           end == EndOfLine(t, message)
           n == Len(s)
<1>1. n \in Nat /\ entry.by = t /\ entry.message = message
  BY SeqIs, EntryIs
<1>2. ASSUME n > 0, s[n] = entry PROVE EndsWithLine(Append(s, end), entry)
  <2>1. /\ Len(Append(s, end)) = n + 1 /\ Append(s, end)[n + 1] = end
        /\ Append(s, end)[n] = s[n]
    <3>1. n \in 1..n
      BY <1>1, <1>2
    <3> QED BY <3>1, AppendIs
  <2> HIDE DEF n, entry
  <2>2. n + 1 >= 2 /\ (n + 1) - 1 = n
    BY <1>1, <1>2
  <2> QED BY <1>1, <1>2, <2>1, <2>2 DEF EndsWithLine, Last
<1>3. EndsWithLine(s \o <<entry, end>>, entry)
  <2> DEFINE two == <<entry, end>>
  <2>1. two \in Seq({entry, end}) /\ Len(two) = 2 /\ two[1] = entry /\ two[2] = end
    OBVIOUS
  <2>2. IsSeq(two)
    BY <2>1, IsSeqOf
  <2> HIDE DEF two, entry, n
  <2>3. /\ Len(s \o two) = Len(s) + Len(two)
        /\ \A i \in 1..Len(two) : (s \o two)[Len(s) + i] = two[i]
    BY <2>2, ConcatIs
  <2>4. Len(s \o two) = n + 2 /\ (s \o two)[n + 1] = entry /\ (s \o two)[n + 2] = end
    BY <2>1, <2>3 DEF n
  <2>5. n + 2 >= 2 /\ (n + 2) - 1 = n + 1
    BY <1>1
  <2>6. EndsWithLine(s \o two, entry)
    BY <1>1, <2>4, <2>5 DEF EndsWithLine, Last
  <2> QED BY <2>6 DEF two
<1> QED BY <1>2, <1>3 DEF Last

LEMMA AloneSame ==
    ASSUME NEW t, UNCHANGED <<logging, tm, thread, buffered, pptr, output>>
    PROVE  Alone(t)' <=> Alone(t)
<1>1. /\ logging' = logging /\ tm' = tm /\ thread' = thread /\ buffered' = buffered
      /\ pptr' = pptr /\ file' = file /\ syslog' = syslog /\ console' = console
      /\ attached' = attached
  BY DEF output
<1> QED
  BY <1>1 DEF Alone, EntryOf, Entry, MyText, MyEndOfLine, LineWritten, Busy

LEMMA StreamEmptyNext ==
    ASSUME LogTyped, StreamEmpty, ToTheLog
    PROVE  StreamEmpty'
<1>0. ThreadsTyped /\ DOMAIN thread = Threads /\ \A u \in Threads : ~Busy(u) => thread[u] = Idle
  BY DEF LogTyped, ThreadsTyped, Busy
<1>1. CASE thread' = thread /\ pptr' = pptr
  BY <1>1 DEF StreamEmpty
<1>2. ASSUME NEW t \in Threads, NEW message, MessageOK(message), Log(t, message)
      PROVE  StreamEmpty'
  <2>1. Begun(t, message) /\ ~Busy(t) /\ pptr' = pptr
    BY <1>2, LogIs DEF Log
  <2>2. CASE message.level > logging.max_level
    BY <1>1, <2>1, <2>2 DEF Begun
  <2>3. CASE ~(message.level > logging.max_level)
    <3>1. thread[t].pc \notin InFile
      BY <1>0, <2>1 DEF Idle, InFile
    <3>2. ASSUME NEW u \in Threads \ {t} PROVE thread'[u].pc = thread[u].pc
      <4>1. CASE Busy(u)
        <5>1. Working(thread[u])
          BY <1>0, <4>1, BusyIsWorking
        <5>2. thread'[u] = [thread[u] EXCEPT !.alone = FALSE]
          BY <2>1, <2>3, <4>1 DEF Begun
        <5> QED BY <5>1, <5>2 DEF Working
      <4>2. CASE ~Busy(u)
        BY <1>0, <2>1, <2>3, <4>2 DEF Begun
      <4> QED BY <4>1, <4>2
    <3> QED BY <2>1, <3>1, <3>2 DEF StreamEmpty
  <2> QED BY <2>2, <2>3
<1>3. ASSUME NEW t \in Threads, LogStep(t) PROVE StreamEmpty'
  <2>1. Busy(t) /\ Working(thread[t]) /\ \A u \in Threads \ {t} : thread'[u] = thread[u]
    BY <1>3, LogStepIs
  <2>2. \/ thread'[t].pc \in InFile
        \/ pptr' = 0
        \/ pptr' = pptr /\ thread[t].pc \notin InFile
    <3>1. CASE LocalTime(t) \/ StrFTime(t) \/ Syslog(t) \/ Clog(t)
      BY <3>1 DEF LocalTime, StrFTime, Syslog, Clog, At, InFile
    <3>2. ASSUME NEW pc \in InFile, GoOn(t, pc) PROVE thread'[t].pc \in InFile
      <4>1. pc \in Steps
        BY DEF Steps, PastSyslog
      <4> QED BY <1>0, <2>1, <3>2, <4>1, GoOnKeeps
    <3>3. CASE FileInsert(t)
      <4>1. thread' = [thread EXCEPT ![t].pc = "bump", ![t].at = pptr]
        BY <3>3 DEF FileInsert
      <4>2. thread'[t].pc = "bump"
        BY <1>0, <2>1, <4>1 DEF Working
      <4> QED BY <4>2 DEF InFile
    <3>4. CASE FileBump(t) \/ FileNewline(t) \/ FileFlush(t)
      BY <3>2, <3>4 DEF FileBump, FileNewline, FileFlush, InFile
    <3>5. CASE FileReset(t)
      BY <3>5 DEF FileReset
    <3> QED BY <1>3, <3>1, <3>3, <3>4, <3>5 DEF LogStep
  <2> QED BY <2>1, <2>2 DEF StreamEmpty
<1> QED BY <1>1, <1>2, <1>3 DEF ToTheLog, Tick, loggingVars

LEMMA AloneBegins ==
    ASSUME LogTyped, NEW t \in Threads, NEW message, MessageOK(message), Log(t, message),
           AloneIsRight, NEW u \in Threads, Busy(u)', thread'[u].alone
    PROVE  Alone(u)'
<1>1. Begun(t, message) /\ ~Busy(t) /\ UNCHANGED <<logging, tm, buffered, pptr, output>>
  BY LogIs DEF Log
<1>2. CASE message.level > logging.max_level
  <2>1. thread' = thread
    BY <1>1, <1>2 DEF Begun
  <2>2. Busy(u) /\ thread[u].alone
    BY <2>1 DEF Busy
  <2> QED BY <1>1, <2>1, <2>2, AloneSame DEF AloneIsRight
<1>3. CASE ~(message.level > logging.max_level) /\ u = t
  <2>1. /\ thread'[t].pc = "localtime" /\ thread'[t].begun = Len(file)
        /\ \A v \in Threads : ~Busy(v)
        /\ \A v \in Threads \ {t} : ~Busy(v)'
    BY <1>1, <1>3, BusyNext DEF Begun
  <2>2. file' = file
    BY <1>1 DEF output
  <2> QED BY <1>3, <2>1, <2>2 DEF Alone, PastSyslog, InFile, OnConsole
<1>4. CASE ~(message.level > logging.max_level) /\ u /= t
  <2>1. CASE Busy(u)
    <3>1. Working(thread[u])
      BY <2>1, BusyIsWorking DEF LogTyped
    <3>2. thread'[u] = [thread[u] EXCEPT !.alone = FALSE]
      BY <1>1, <1>4, <2>1 DEF Begun
    <3>3. thread'[u].alone = FALSE
      BY <3>1, <3>2 DEF Working
    <3> QED BY <3>3
  <2>2. CASE ~Busy(u)
    BY <1>1, <1>4, <2>2, BusyNext DEF Begun
  <2> QED BY <2>1, <2>2
<1> QED BY <1>2, <1>3, <1>4

\* A thread that is alone has gone on: the ones beside it are idle, and what it
\* has in hand and is to make of it stays.
LEMMA AloneGoOn ==
    ASSUME LogTyped, NEW t \in Threads, NEW pc \in Steps, GoOn(t, pc), LogStep(t), Alone(t)
    PROVE  /\ thread'[t].pc = pc /\ thread'[t] /= Idle /\ SameEntry(t)
           /\ MyText(t)' = MyText(t) /\ MyEndOfLine(t)' = MyEndOfLine(t)
           /\ EntryOf(t)' = EntryOf(t) /\ logging' = logging /\ attached' = attached
           /\ \A u \in Threads \ {t} : ~Busy(u)'
<1>1. ThreadsTyped /\ Busy(t) /\ logging' = logging /\ attached' = attached
  BY LogStepIs DEF LogTyped
<1>2. /\ thread'[t].pc = pc /\ SameEntry(t)
      /\ MyText(t)' = MyText(t) /\ MyEndOfLine(t)' = MyEndOfLine(t)
  BY <1>1, GoOnKeeps
<1>3. thread'[t] /= Idle
  BY <1>2 DEF Idle, Steps, BeforeSyslog, PastSyslog, InFile, OnConsole
<1>4. EntryOf(t)' = EntryOf(t)
  BY <1>1, <1>2 DEF SameEntry, EntryOf, Entry
<1>5. \A u \in Threads \ {t} : ~Busy(u)'
  BY LogStepIs, BusyNext DEF Alone, Busy
<1> QED BY <1>1, <1>2, <1>3, <1>4, <1>5

LEMMA FirstTwo ==
    ASSUME NEW s, IsSeq(s), Len(s) >= 2
    PROVE  SubSeq(s, 1, 2) = <<s[1], s[2]>>
<1> DEFINE two == SubSeq(s, 1, 2)
<1>1. Len(two) = 2 /\ two \in Seq(ToSet(s)) /\ two[1] = s[1] /\ two[2] = s[2]
  BY DEF IsSeq
<1> HIDE DEF two
<1>2. two = <<two[1], two[2]>>
  BY <1>1
<1> QED BY <1>1, <1>2 DEF two

LEMMA AloneGoesOn ==
    ASSUME LogTyped, NEW t \in Threads, LogStep(t), StreamEmpty, Alone(t)
    PROVE  /\ thread'[t] /= Idle => Alone(t)'
           /\ thread'[t] = Idle => DoneRight(t)
<1> DEFINE Goal == /\ thread'[t] /= Idle => Alone(t)'
                   /\ thread'[t] = Idle => DoneRight(t)
           entry == EntryOf(t)
           end == MyEndOfLine(t)
<1>1. /\ Working(thread[t]) /\ ThreadsTyped /\ Busy(t) /\ DOMAIN thread = Threads
      /\ MaxBuffered \in Nat /\ pptr \in Nat /\ Len(file) \in Nat
      /\ thread[t].begun \in Nat /\ thread[t].now \in 1..MaxTime
      /\ logging' = logging /\ attached' = attached
      /\ \A u \in Threads \ {t} : ~Busy(u)'
  BY LogStepIs, SeqIs, LoggingAssumption, BusyNext
     DEF LogTyped, ThreadsTyped, Working, Alone, Busy
<1>2. CASE LocalTime(t)
  <2>1. UNCHANGED <<pptr, buffered, file, syslog, console>>
    BY <1>2 DEF LocalTime, output
  <2>2. CASE /\ At(t, "localtime") /\ tm' = [tm EXCEPT ![1] = Broken(thread[t].now)[1]]
             /\ GoOn(t, "localtime2")
    <3>1. tm'[1] = Broken(thread[t].now)[1]
      BY <2>2, BrokenIs DEF LogTyped
    <3>2. Len(file) = thread[t].begun
      BY <2>2 DEF At, Alone, BeforeSyslog
    <3>3. "localtime2" \in Steps
      BY DEF Steps, BeforeSyslog
    <3>4. /\ thread'[t].pc = "localtime2" /\ thread'[t] /= Idle /\ SameEntry(t)
          /\ \A u \in Threads \ {t} : ~Busy(u)'
      BY <1>2, <2>2, <3>3, AloneGoOn
    <3> QED BY <2>1, <3>1, <3>2, <3>4
            DEF SameEntry, Alone, PastSyslog, InFile, OnConsole
  <2>3. CASE /\ At(t, "localtime2") /\ tm' = [tm EXCEPT ![2] = Broken(thread[t].now)[2]]
             /\ GoOn(t, "strftime")
    <3>1. tm' = Broken(thread[t].now)
      BY <2>3, BrokenIs DEF LogTyped, At, Alone
    <3>2. Len(file) = thread[t].begun
      BY <2>3 DEF At, Alone, BeforeSyslog
    <3>3. "strftime" \in Steps
      BY DEF Steps, BeforeSyslog
    <3>4. /\ thread'[t].pc = "strftime" /\ thread'[t] /= Idle /\ SameEntry(t)
          /\ \A u \in Threads \ {t} : ~Busy(u)'
      BY <1>2, <2>3, <3>3, AloneGoOn
    <3> QED BY <2>1, <3>1, <3>2, <3>4
            DEF SameEntry, Alone, PastSyslog, InFile, OnConsole
  <2> QED BY <1>2, <2>2, <2>3 DEF LocalTime
<1>3. CASE StrFTime(t)
  <2> DEFINE msg == multi_substitute(logging.log_format,
                        Substitutes(t, thread[t].message, Formatted(tm)))
  <2>1. /\ tm = Broken(thread[t].now) /\ Len(file) = thread[t].begun
        /\ UNCHANGED <<pptr, buffered, file, syslog, console, tm>>
    BY <1>3 DEF StrFTime, At, Alone, BeforeSyslog, output
  <2>2. Text(t, thread[t].message, msg) = entry
    <3>1. msg = Substituted(logging.log_format,
                            Substitutes(t, thread[t].message, Formatted(tm)))
      BY <1>1, MsgIs DEF LogTyped, Working
    <3> HIDE DEF msg
    <3> QED BY <2>1, <3>1 DEF EntryOf, Entry
  <2> HIDE DEF msg
  <2>3. CASE AfterTime = "idle" /\ GoOn(t, "idle")
    <3>1. thread'[t] = Idle
      BY <1>1, <2>3, GoOnIs DEF GoneOn
    <3>2. ~logging.to_file /\ ~logging.to_stderr /\ ~logging.to_syslog
      BY <2>3 DEF AfterTime, AfterSyslog, AfterFile
    <3> QED BY <3>1, <3>2 DEF DoneRight
  <2>4. CASE /\ AfterTime /= "idle"
             /\ thread' = [thread EXCEPT ![t].pc = AfterTime, ![t].text = msg]
    <3>1. thread'[t] = [thread[t] EXCEPT !.pc = AfterTime, !.text = msg]
      BY <1>1, <2>4
    <3>2. /\ thread'[t].pc = AfterTime /\ thread'[t].text = msg
          /\ thread'[t].message = thread[t].message /\ thread'[t].now = thread[t].now
          /\ thread'[t].begun = thread[t].begun
      BY <1>1, <3>1 DEF Working
    <3>3. EntryOf(t)' = entry /\ MyText(t)' = entry
      BY <1>1, <2>2, <3>2 DEF EntryOf, Entry, MyText
    <3>4. /\ AfterTime \in {"syslog", "insert", "clog"}
          /\ AfterTime \in {"insert", "clog"} => ~logging.to_syslog
          /\ AfterTime = "clog" => ~logging.to_file
      BY <2>4 DEF AfterTime, AfterSyslog, AfterFile
    <3>5. thread'[t] /= Idle
      BY <3>2, <3>4 DEF Idle
    <3> HIDE DEF entry
    <3>6. Alone(t)'
      BY <1>1, <2>1, <3>2, <3>3, <3>4
         DEF Alone, PastSyslog, InFile, OnConsole, BeforeSyslog
    <3> QED BY <3>5, <3>6
  <2> QED BY <1>3, <2>3, <2>4 DEF StrFTime, msg
<1>4. CASE Syslog(t)
  <2>1. /\ MyText(t) = entry /\ Len(file) = thread[t].begun
        /\ syslog' = Append(syslog, entry)
        /\ UNCHANGED <<pptr, buffered, file, console, tm>>
        /\ GoOn(t, AfterSyslog)
    BY <1>4 DEF Syslog, At, Alone, BeforeSyslog
  <2>2. Last(syslog') = entry
    <3>1. Len(syslog') = Len(syslog) + 1 /\ syslog'[Len(syslog) + 1] = entry
      BY <2>1, AppendIs DEF LogTyped
    <3> QED BY <3>1 DEF Last
  <2>3. /\ AfterSyslog \in {"insert", "clog", "idle"}
        /\ AfterSyslog = "clog" => ~logging.to_file
        /\ AfterSyslog = "idle" => ~logging.to_file /\ ~logging.to_stderr
    BY DEF AfterSyslog, AfterFile
  <2> HIDE DEF entry
  <2>4. CASE AfterSyslog = "idle"
    <3>1. thread'[t] = Idle
      BY <1>1, <2>1, <2>4, GoOnIs DEF GoneOn
    <3> QED BY <2>2, <2>3, <2>4, <3>1 DEF DoneRight, entry
  <2>5. CASE AfterSyslog /= "idle"
    <3>1. AfterSyslog \in Steps
      BY <2>3, <2>5 DEF Steps, PastSyslog, OnConsole
    <3>2. /\ thread'[t].pc = AfterSyslog /\ thread'[t] /= Idle /\ SameEntry(t)
          /\ MyText(t)' = MyText(t) /\ EntryOf(t)' = entry
      BY <1>4, <2>1, <3>1, AloneGoOn DEF LogStep, entry
    <3>3. Alone(t)'
      BY <1>1, <2>1, <2>2, <2>3, <2>5, <3>2
         DEF SameEntry, Alone, PastSyslog, InFile, OnConsole, BeforeSyslog
    <3> QED BY <3>2, <3>3
  <2> QED BY <2>4, <2>5
<1>5. CASE FileInsert(t)
  <2>1. /\ MyText(t) = entry /\ Len(file) = thread[t].begun /\ pptr = 0
        /\ logging.to_syslog => Last(syslog) = entry
        /\ UNCHANGED <<pptr, file, syslog, console, tm>>
        /\ buffered' = Buffered(entry) /\ pptr < MaxBuffered
        /\ thread' = [thread EXCEPT ![t].pc = "bump", ![t].at = pptr]
    <3>1. At(t, "insert")
      BY <1>5 DEF FileInsert
    <3>2. \A u \in Threads : thread[u].pc \notin InFile
      BY <3>1 DEF At, Alone, Busy, Idle, InFile
    <3>3. pptr = 0
      BY <3>2 DEF StreamEmpty
    <3> QED BY <1>5, <3>3 DEF FileInsert, At, Alone, PastSyslog, output
  <2>2. buffered'[1] = entry
    <3>1. buffered'[pptr + 1] = entry
      BY <1>1, <2>1, BufferedTyped DEF LogTyped
    <3> QED BY <2>1, <3>1
  <2>3. thread'[t] = [thread[t] EXCEPT !.pc = "bump", !.at = pptr]
    BY <1>1, <2>1
  <2>4. /\ thread'[t].pc = "bump" /\ thread'[t].at = 0 /\ thread'[t].text = thread[t].text
        /\ thread'[t].message = thread[t].message /\ thread'[t].now = thread[t].now
        /\ thread'[t].begun = thread[t].begun
    BY <1>1, <2>1, <2>3 DEF Working
  <2>5. EntryOf(t)' = entry /\ MyText(t)' = entry
    BY <1>1, <2>1, <2>4 DEF EntryOf, Entry, MyText
  <2>6. thread'[t] /= Idle
    BY <2>4 DEF Idle
  <2> HIDE DEF entry
  <2>7. Alone(t)'
    BY <1>1, <2>1, <2>2, <2>4, <2>5 DEF Alone, PastSyslog, InFile, OnConsole, BeforeSyslog
  <2> QED BY <2>6, <2>7
\* The steps in the file, with the place that the thread is at and goes on to.
<1>6. ASSUME NEW pc \in InFile, GoOn(t, pc)
      PROVE  /\ thread'[t].pc = pc /\ thread'[t] /= Idle /\ SameEntry(t)
             /\ MyText(t)' = MyText(t) /\ EntryOf(t)' = entry /\ MyEndOfLine(t)' = end
  BY <1>6, AloneGoOn DEF Steps, PastSyslog
<1>7. CASE FileBump(t)
  <2>1. /\ MyText(t) = entry /\ Len(file) = thread[t].begun /\ buffered[1] = entry
        /\ logging.to_syslog => Last(syslog) = entry
        /\ UNCHANGED <<buffered, file, syslog, console, tm>>
        /\ pptr' = 1 /\ GoOn(t, "newline")
    BY <1>7 DEF FileBump, At, Alone, PastSyslog, InFile, output
  <2>2. /\ thread'[t].pc = "newline" /\ thread'[t] /= Idle /\ SameEntry(t)
        /\ MyText(t)' = MyText(t) /\ EntryOf(t)' = entry
    BY <1>6, <2>1 DEF InFile
  <2> HIDE DEF entry
  <2>3. Alone(t)'
    BY <1>1, <2>1, <2>2 DEF SameEntry, Alone, PastSyslog, InFile, OnConsole, BeforeSyslog
  <2> QED BY <2>2, <2>3
<1>8. CASE FileNewline(t)
  <2>1. /\ MyText(t) = entry /\ Len(file) = thread[t].begun /\ buffered[1] = entry
        /\ logging.to_syslog => Last(syslog) = entry
        /\ UNCHANGED <<file, syslog, console, tm>> /\ pptr = 1 /\ pptr < MaxBuffered
        /\ buffered' = Buffered(end) /\ pptr' = 2 /\ GoOn(t, "flush")
    BY <1>8 DEF FileNewline, At, Alone, PastSyslog, InFile, output
  <2>2. /\ thread'[t].pc = "flush" /\ thread'[t] /= Idle /\ SameEntry(t)
        /\ MyText(t)' = MyText(t) /\ EntryOf(t)' = entry /\ MyEndOfLine(t)' = end
    BY <1>6, <2>1 DEF InFile
  <2>3. buffered'[1] = entry /\ buffered'[2] = end
    <3>1. /\ buffered'[pptr + 1] = end
          /\ \A i \in 1..MaxBuffered : i /= pptr + 1 => buffered'[i] = buffered[i]
      BY <1>1, <2>1, BufferedTyped DEF LogTyped
    <3>2. 1 \in 1..MaxBuffered
      BY <1>1, <2>1
    <3> QED BY <2>1, <3>1, <3>2
  <2> HIDE DEF entry, end
  <2>4. Alone(t)'
    BY <1>1, <2>1, <2>2, <2>3
       DEF SameEntry, Alone, PastSyslog, InFile, OnConsole, BeforeSyslog
  <2> QED BY <2>2, <2>4
<1>9. CASE FileFlush(t)
  <2>1. /\ MyText(t) = entry /\ Len(file) = thread[t].begun /\ buffered[1] = entry
        /\ buffered[2] = end /\ pptr = 2
        /\ logging.to_syslog => Last(syslog) = entry
        /\ UNCHANGED <<buffered, pptr, syslog, console, tm>>
        /\ file' = file \o SubSeq(buffered, 1, pptr) /\ GoOn(t, "reset")
    BY <1>9 DEF FileFlush, At, Alone, PastSyslog, InFile
  <2>2. /\ thread'[t].pc = "reset" /\ thread'[t] /= Idle /\ SameEntry(t)
        /\ MyText(t)' = MyText(t) /\ EntryOf(t)' = entry
    BY <1>6, <2>1 DEF InFile
  <2>3. SubSeq(buffered, 1, pptr) = <<entry, end>>
    <3>1. 2 <= MaxBuffered /\ Len(buffered) = MaxBuffered /\ IsSeq(buffered)
      BY <1>1, <2>1 DEF LogTyped
    <3>2. SubSeq(buffered, 1, 2) = <<buffered[1], buffered[2]>>
      BY <1>1, <3>1, FirstTwo
    <3> QED BY <2>1, <3>2
  <2>4. LineWritten(t)'
    <3>1. file' = file \o <<entry, end>>
      BY <2>1, <2>3
    <3>2. EndsWithLine(file', entry)
      BY <3>1, LineAtEnd DEF LogTyped, EntryOf, MyEndOfLine
    <3>3. Len(file') = Len(file) + 2
      <4> HIDE DEF entry, end
      <4>1. <<entry, end>> \in Seq({entry, end}) /\ Len(<<entry, end>>) = 2
        OBVIOUS
      <4>2. IsSeq(<<entry, end>>)
        BY <4>1, IsSeqOf
      <4> QED BY <3>1, <4>1, <4>2, ConcatIs DEF LogTyped
    <3>4. EndsWithLine(file', EntryOf(t)')
      BY <2>2, <3>2
    <3> QED BY <2>1, <2>2, <3>3, <3>4 DEF LineWritten, SameEntry
  <2> HIDE DEF entry, end
  <2>5. Alone(t)'
    BY <1>1, <2>1, <2>2, <2>4
       DEF SameEntry, Alone, PastSyslog, InFile, OnConsole, BeforeSyslog
  <2> QED BY <2>2, <2>5
<1>10. CASE FileReset(t)
  <2>1. /\ MyText(t) = entry /\ LineWritten(t)
        /\ logging.to_syslog => Last(syslog) = entry
        /\ UNCHANGED <<buffered, file, syslog, console, tm>> /\ GoOn(t, AfterFile)
    <3>1. At(t, "reset") /\ UNCHANGED <<buffered, output, tm>> /\ GoOn(t, AfterFile)
      BY <1>10 DEF FileReset
    <3>2. thread[t].pc = "reset"
      BY <3>1 DEF At
    <3>3. MyText(t) = entry
      BY <3>2 DEF Alone
    <3>5. LineWritten(t)
      BY <3>2 DEF Alone
    <3>4. logging.to_syslog => Last(syslog) = entry
      BY <3>2 DEF Alone, PastSyslog, InFile
    <3> QED BY <3>1, <3>3, <3>4, <3>5 DEF output
  <2> HIDE DEF entry
  <2>2. CASE AfterFile = "idle"
    <3>1. thread'[t] = Idle
      BY <1>1, <2>1, <2>2, GoOnIs DEF GoneOn
    <3>2. ~logging.to_stderr
      BY <2>2 DEF AfterFile
    <3> QED BY <2>1, <3>1, <3>2 DEF DoneRight, LineWritten, entry
  <2>3. CASE AfterFile = "clog"
    <3>1. /\ thread'[t].pc = "clog" /\ thread'[t] /= Idle /\ SameEntry(t)
          /\ MyText(t)' = MyText(t) /\ EntryOf(t)' = entry
      BY <2>1, <2>3, AloneGoOn DEF Steps, PastSyslog, OnConsole, entry
    <3>2. LineWritten(t)'
      BY <2>1, <3>1 DEF LineWritten, SameEntry, EndsWithLine, entry
    <3>3. Alone(t)'
      BY <1>1, <2>1, <3>1, <3>2
         DEF SameEntry, Alone, PastSyslog, InFile, OnConsole, BeforeSyslog
    <3> QED BY <3>1, <3>3
  <2> QED BY <2>2, <2>3, AftersAre
<1>11. CASE Clog(t)
  <2>1. /\ MyText(t) = entry /\ UNCHANGED <<buffered, pptr, file, syslog, tm>>
        /\ logging.to_file => LineWritten(t)
        /\ logging.to_syslog => Last(syslog) = entry
    BY <1>11 DEF Clog, At, Alone, PastSyslog, OnConsole, BeforeSyslog
  <2> HIDE DEF entry
  <2>2. CASE At(t, "clog") /\ console' = Shown(MyText(t)) /\ GoOn(t, "endl")
    <3>1. /\ thread'[t].pc = "endl" /\ thread'[t] /= Idle /\ SameEntry(t)
          /\ MyText(t)' = MyText(t) /\ EntryOf(t)' = entry
      BY <2>2, AloneGoOn DEF Steps, PastSyslog, OnConsole, entry
    <3>2. attached => Len(console') > 0 /\ Last(console') = entry
      <4>1. /\ Len(Append(console, entry)) = Len(console) + 1
            /\ Append(console, entry)[Len(console) + 1] = entry /\ Len(console) \in Nat
        BY AppendIs, SeqIs DEF LogTyped
      <4>2. attached => console' = Append(console, entry)
        BY <2>1, <2>2 DEF Shown
      <4> QED BY <4>1, <4>2 DEF Last
    <3>3. logging.to_file => LineWritten(t)'
      BY <2>1, <3>1 DEF LineWritten, SameEntry, EndsWithLine, entry
    <3>4. Alone(t)'
      BY <1>1, <2>1, <3>1, <3>2, <3>3
         DEF SameEntry, Alone, PastSyslog, InFile, OnConsole, BeforeSyslog
    <3> QED BY <3>1, <3>4
  <2>3. CASE At(t, "endl") /\ console' = Shown(MyEndOfLine(t)) /\ GoOn(t, "idle")
    <3>1. thread'[t] = Idle
      BY <1>1, <2>3, GoOnIs DEF GoneOn
    <3>2. attached => Len(console) > 0 /\ Last(console) = entry
      BY <2>3 DEF At, Alone, entry
    <3>3. attached => EndsWithLine(console', entry)
      <4>1. attached => console' = Append(console, MyEndOfLine(t))
        BY <2>3 DEF Shown
      <4> QED BY <3>2, <4>1, LineAtEnd DEF LogTyped, entry, EntryOf, MyEndOfLine
    <3> QED BY <2>1, <3>1, <3>3 DEF DoneRight, LineWritten, entry
  <2> QED BY <1>11, <2>2, <2>3 DEF Clog
<1> QED BY <1>2, <1>3, <1>4, <1>5, <1>7, <1>8, <1>9, <1>10, <1>11 DEF LogStep

\* A step of a thread that is not its last keeps its message, and whether it is alone.
LEMMA StepKeeps ==
    ASSUME LogTyped, NEW t \in Threads, LogStep(t), thread'[t] /= Idle
    PROVE  /\ thread'[t].message = thread[t].message
           /\ thread'[t].alone <=> thread[t].alone
<1>1. Busy(t) /\ Working(thread[t]) /\ ThreadsTyped /\ DOMAIN thread = Threads
  BY LogStepIs DEF LogTyped, ThreadsTyped
<1>2. ASSUME NEW pc \in Steps \cup {"idle"}, GoOn(t, pc)
      PROVE  /\ thread'[t].message = thread[t].message
             /\ thread'[t].alone <=> thread[t].alone
  <2>1. pc \in Steps
    BY <1>1, <1>2, GoOnIs DEF GoneOn
  <2> QED BY <1>1, <1>2, <2>1, GoOnKeeps DEF SameEntry
<1>3. CASE StrFTime(t) /\ AfterTime /= "idle"
  <2> DEFINE msg == multi_substitute(logging.log_format,
                        Substitutes(t, thread[t].message, Formatted(tm)))
  <2>1. thread' = [thread EXCEPT ![t].pc = AfterTime, ![t].text = msg]
    BY <1>3 DEF StrFTime
  <2> HIDE DEF msg
  <2>2. thread'[t] = [thread[t] EXCEPT !.pc = AfterTime, !.text = msg]
    BY <1>1, <2>1
  <2> QED BY <1>1, <2>2 DEF Working
<1>4. CASE FileInsert(t)
  <2>1. thread' = [thread EXCEPT ![t].pc = "bump", ![t].at = pptr]
    BY <1>4 DEF FileInsert
  <2>2. thread'[t] = [thread[t] EXCEPT !.pc = "bump", !.at = pptr]
    BY <1>1, <2>1
  <2> QED BY <1>1, <2>2 DEF Working
<1>5. \/ \E pc \in Steps \cup {"idle"} : GoOn(t, pc)
      \/ StrFTime(t) /\ AfterTime /= "idle"
      \/ FileInsert(t)
  BY AftersAre DEF LogStep, LocalTime, StrFTime, Syslog, FileInsert, FileBump, FileNewline,
         FileFlush, FileReset, Clog, Steps, BeforeSyslog, PastSyslog, InFile, OnConsole
<1> QED BY <1>2, <1>3, <1>4, <1>5

LEMMA AloneInit == Init => AloneIsRight
<1> SUFFICES ASSUME Init PROVE AloneIsRight
  OBVIOUS
<1>1. pptr = 0 /\ \A t \in Threads : thread[t] = Idle
  BY DEF Init, LoggingInit
<1> QED BY <1>1 DEF AloneIsRight, StreamEmpty, Busy

\* The steps of the program that leave the threads as they are.
LEMMA AloneStays ==
    ASSUME AloneIsRight, thread' = thread,
           (UNCHANGED <<logging, tm, buffered, pptr, output>>) \/ (\A t \in Threads : ~Busy(t))
    PROVE  \A t \in Threads : Busy(t)' /\ thread'[t].alone => Alone(t)'
<1> SUFFICES ASSUME NEW t \in Threads, Busy(t)', thread'[t].alone
             PROVE  Alone(t)'
  OBVIOUS
<1>1. Busy(t) /\ thread[t].alone
  BY DEF Busy
<1> QED BY <1>1, AloneSame DEF AloneIsRight

LEMMA AloneNext ==
    ASSUME LogTyped, Quiet, ToTheLog, AloneIsRight
    PROVE  AloneIsRight'
<1>1. StreamEmpty'
  BY StreamEmptyNext DEF AloneIsRight
<1>2. \A t \in Threads : Busy(t)' /\ thread'[t].alone => Alone(t)'
  <2>1. CASE UNCHANGED loggingVars \/ Tick
    BY <2>1, AloneStays DEF loggingVars, Tick
  <2>2. CASE \/ /\ phase = "parsing"
                /\ UNCHANGED <<clock, tm, thread, buffered, pptr, output, history>>
             \/ /\ phase = "announcing" /\ ~Busy(Main)
                /\ UNCHANGED <<logging, clock, tm, thread, buffered, pptr, file, syslog,
                               console, history>>
    <3>1. \A t \in Threads : ~Busy(t)
      BY <2>2 DEF Quiet
    <3>2. thread' = thread
      BY <2>2
    <3> QED BY <3>1, <3>2, AloneStays
  <2>3. CASE \E t \in Threads : \E message : MessageOK(message) /\ Log(t, message)
    BY <2>3, AloneBegins
  <2>4. ASSUME NEW t \in Threads, LogStep(t), NEW u \in Threads, Busy(u)', thread'[u].alone
        PROVE  Alone(u)'
    <3>1. Busy(t) /\ \A v \in Threads \ {t} : thread'[v] = thread[v]
      BY <2>4, LogStepIs
    <3>2. CASE u = t
      <4>1. thread[t].alone
        BY <2>4, <3>2, StepKeeps, BusyNext
      <4>2. Alone(t)
        BY <3>1, <4>1 DEF AloneIsRight
      <4> QED BY <2>4, <3>2, <4>2, AloneGoesOn, BusyNext DEF AloneIsRight
    <3>3. CASE u /= t
      <4>1. Busy(u) /\ thread[u].alone
        BY <2>4, <3>1, <3>3, BusyNext DEF Busy
      <4>2. ~Busy(t)
        BY <3>3, <4>1 DEF AloneIsRight, Alone
      <4> QED BY <3>1, <4>2
    <3> QED BY <3>2, <3>3
  <2> QED BY <2>1, <2>2, <2>3, <2>4 DEF ToTheLog
<1> QED BY <1>1, <1>2 DEF AloneIsRight

LEMMA LoneStep ==
    ASSUME LogTyped, Quiet, ToTheLog, AloneIsRight,
           NEW t \in Threads, Busy(t), thread[t].alone, thread'[t] = Idle
    PROVE  DoneRight(t)
<1>1. CASE UNCHANGED thread
  BY <1>1 DEF Busy
<1>2. ASSUME NEW u \in Threads, NEW message, MessageOK(message), Log(u, message)
      PROVE  FALSE
  <2>1. Begun(u, message) /\ ~Busy(u) /\ Working(thread[t])
    BY <1>2, LogIs, BusyIsWorking DEF Log, LogTyped
  <2>2. thread'[t] = thread[t] \/ thread'[t] = [thread[t] EXCEPT !.alone = FALSE]
    BY <2>1 DEF Begun
  <2>3. thread'[t].pc = thread[t].pc
    BY <2>1, <2>2 DEF Working
  <2> QED BY <2>1, <2>3
          DEF Working, Idle, Steps, BeforeSyslog, PastSyslog, InFile, OnConsole
<1>3. ASSUME NEW u \in Threads, LogStep(u) PROVE DoneRight(t)
  <2>1. Busy(u) /\ Alone(t)
    BY <1>3, LogStepIs DEF AloneIsRight
  <2>2. u = t
    BY <2>1 DEF Alone
  <2> QED BY <1>3, <2>1, <2>2, AloneGoesOn DEF AloneIsRight
<1> QED BY <1>1, <1>2, <1>3 DEF ToTheLog, loggingVars, Tick

\* An entry that no other thread logs at the same time is right, with the time of
\* its message, a line of its own, all that is added to the file and the last on
\* the terminal (LoneEntryIsRight; logging.cc:81-104).
THEOREM LoneEntriesAreRight == Spec => LoneEntryIsRight
<1> DEFINE Inv == OnTheWay /\ LogTyped /\ Quiet /\ AloneIsRight
<1>1. Init => Inv
  BY OnTheWayInit, LogInit, AloneInit
<1>2. Inv /\ [Next]_vars => Inv'
  BY OnTheWayNext, StepToTheLog, QuietNext, AloneNext
<1>3. Inv /\ [Next]_vars =>
        [\A t \in Threads :
            Busy(t) /\ thread[t].alone /\ thread'[t] = Idle =>
                LET entry == Entry(t, thread[t].message, Broken(thread[t].now))
                IN  /\ logging.to_file =>
                        Len(file') = thread[t].begun + 2 /\ EndsWithLine(file', entry)
                    /\ logging.to_stderr /\ attached => EndsWithLine(console', entry)
                    /\ logging.to_syslog => Last(syslog') = entry
        ]_loggingVars
  <2> SUFFICES ASSUME Inv, [Next]_vars,
                      NEW t \in Threads, Busy(t), thread[t].alone, thread'[t] = Idle
               PROVE  DoneRight(t)
    BY DEF DoneRight, EntryOf
  <2> QED BY StepToTheLog, LoneStep
<1> QED BY <1>1, <1>2, <1>3, PTL DEF Spec, LoneEntryIsRight

----
(* What the sinks have of a thread *)

By(t, s) == {i \in DOMAIN s : s[i].by = t}
UpToLevel(s, max) == {i \in DOMAIN s : s[i].level <= max}

LEMMA ListGrows ==
    ASSUME NEW sequence, NEW list, IsSeq(list), NEW places, places \subseteq 1..Len(list),
           InOrder(sequence, list, places), NEW e
    PROVE  /\ InOrder(sequence, Append(list, e), places)
           /\ InOrder(Append(sequence, e), Append(list, e), places \cup {Len(list) + 1})
<1> DEFINE longer == Append(list, e)
           n == Len(list) + 1
<1>1. /\ IsSeq(longer) /\ Len(longer) = n /\ longer[n] = e
      /\ \A i \in 1..Len(list) : longer[i] = list[i]
      /\ Len(list) \in Nat
  BY AppendIs, SeqIs
<1>2. /\ IsFiniteSet(places) /\ places \subseteq Nat
      /\ sequence \in Seq(ToSet(list)) /\ Len(sequence) = Cardinality(places)
      /\ \A p \in places : sequence[Rank(p, places)] = list[p]
      /\ \A i \in 1..Cardinality(places) : \E p \in places : Rank(p, places) = i
  BY DEF InOrder
<1>3. ToSet(list) \subseteq ToSet(longer)
  <2>1. DOMAIN list = 1..Len(list) /\ DOMAIN longer = 1..n
    BY <1>1, SeqIs
  <2> HIDE DEF longer
  <2>2. \A i \in DOMAIN list : i \in DOMAIN longer /\ longer[i] = list[i]
    BY <1>1, <2>1
  <2> QED BY <2>2 DEF ToSet
<1> HIDE DEF longer
<1>4. sequence \in Seq(ToSet(longer))
  BY <1>2, <1>3, SeqGrows
<1>5. \A p \in places : sequence[Rank(p, places)] = longer[p]
  BY <1>1, <1>2
<1>6. InOrder(sequence, longer, places)
  BY <1>2, <1>4, <1>5 DEF InOrder
<1>7. n \in Nat /\ n \in DOMAIN longer /\ \A p \in places : p < n
  BY <1>1, SeqIs
<1>8. InOrder(Append(sequence, longer[n]), longer, places \cup {n})
  BY <1>6, <1>7, KeepNext
<1> QED BY <1>1, <1>6, <1>8 DEF longer, n

LEMMA ByGrows ==
    ASSUME NEW t, NEW list, IsSeq(list), NEW sequence, InOrder(sequence, list, By(t, list)),
           NEW e
    PROVE  InOrder(IF e.by = t THEN Append(sequence, e) ELSE sequence,
                   Append(list, e), By(t, Append(list, e)))
<1> DEFINE longer == Append(list, e)
           n == Len(list) + 1
<1>1. /\ IsSeq(longer) /\ Len(longer) = n /\ longer[n] = e
      /\ \A i \in 1..Len(list) : longer[i] = list[i]
      /\ Len(list) \in Nat /\ DOMAIN list = 1..Len(list) /\ DOMAIN longer = 1..n
  BY AppendIs, SeqIs
<1>2. By(t, list) \subseteq 1..Len(list)
  BY <1>1 DEF By
<1>3. /\ InOrder(sequence, longer, By(t, list))
      /\ InOrder(Append(sequence, e), longer, By(t, list) \cup {n})
  BY <1>2, ListGrows
<1> HIDE DEF longer
<1>4. By(t, longer) = IF e.by = t THEN By(t, list) \cup {n} ELSE By(t, list)
  <2>1. 1..n = (1..Len(list)) \cup {n} /\ n \notin 1..Len(list)
    BY <1>1
  <2> HIDE DEF n
  <2> QED BY <1>1, <2>1 DEF By
<1>5. InOrder(IF e.by = t THEN Append(sequence, e) ELSE sequence, longer, By(t, longer))
  BY <1>3, <1>4
<1> QED BY <1>5 DEF longer

LEMMA LevelGrows ==
    ASSUME NEW max, NEW list, IsSeq(list), NEW sequence,
           InOrder(sequence, list, UpToLevel(list, max)), NEW e
    PROVE  InOrder(IF e.level <= max THEN Append(sequence, e) ELSE sequence,
                   Append(list, e), UpToLevel(Append(list, e), max))
<1> DEFINE longer == Append(list, e)
           n == Len(list) + 1
<1>1. /\ IsSeq(longer) /\ Len(longer) = n /\ longer[n] = e
      /\ \A i \in 1..Len(list) : longer[i] = list[i]
      /\ Len(list) \in Nat /\ DOMAIN list = 1..Len(list) /\ DOMAIN longer = 1..n
  BY AppendIs, SeqIs
<1>2. UpToLevel(list, max) \subseteq 1..Len(list)
  BY <1>1 DEF UpToLevel
<1>3. /\ InOrder(sequence, longer, UpToLevel(list, max))
      /\ InOrder(Append(sequence, e), longer, UpToLevel(list, max) \cup {n})
  BY <1>2, ListGrows
<1> HIDE DEF longer
<1>4. UpToLevel(longer, max) =
        IF e.level <= max THEN UpToLevel(list, max) \cup {n} ELSE UpToLevel(list, max)
  <2>1. 1..n = (1..Len(list)) \cup {n} /\ n \notin 1..Len(list)
    BY <1>1
  <2> HIDE DEF n
  <2> QED BY <1>1, <2>1 DEF UpToLevel
<1>5. InOrder(IF e.level <= max THEN Append(sequence, e) ELSE sequence, longer,
              UpToLevel(longer, max))
  BY <1>3, <1>4
<1> QED BY <1>5 DEF longer

LEMMA NothingInOrder == InOrder(<<>>, <<>>, {})
<1>1. IsFiniteSet({}) /\ Cardinality({}) = 0
  BY FS_EmptySet
<1> QED BY <1>1 DEF InOrder

LEMMA MaxLevelIs ==
    ASSUME OnTheWay, phase \in {"checking", "announcing", "serving"}
    PROVE  logging.max_level \in 0..3
<1>1. logging = LogOf(params)
  BY DEF OnTheWay, Started
<1>2. ToSet(kLevelNameMap) = {"ERROR", "INFO", "DEBUG"}
  BY DEF ToSet, kLevelNameMap
<1>3. logging.max_level = string_to_level(params.log_maxlevel)
  BY <1>1 DEF LogOf
<1> DEFINE level == params.log_maxlevel
<1> HIDE DEF level
<1>4. string_to_level(level) \in 0..3
  BY <1>2 DEF string_to_level, Level
<1> QED BY <1>3, <1>4 DEF level

----
(* The syslog *)

EntryIn(format, t, message, fields) ==
    Text(t, message, Substituted(format, Substitutes(t, message, Formatted(fields))))

Faithful(format, t, message, entry) ==
    \E fields \in AnyFields : entry = EntryIn(format, t, message, fields)

\* These entries are the ones of these messages.
Answers(format, t, entries, messages) ==
    /\ IsSeq(entries) /\ IsSeq(messages) /\ Len(entries) = Len(messages)
    /\ \A i \in 1..Len(entries) : Faithful(format, t, messages[i], entries[i])

LEMMA AnswersGrow ==
    ASSUME NEW format, NEW t, NEW entries, NEW messages, Answers(format, t, entries, messages),
           NEW message, NEW entry, Faithful(format, t, message, entry)
    PROVE  Answers(format, t, Append(entries, entry), Append(messages, message))
<1> DEFINE more == Append(entries, entry)
           said == Append(messages, message)
           n == Len(entries)
<1>1. /\ IsSeq(more) /\ Len(more) = n + 1 /\ more[n + 1] = entry /\ n \in Nat
      /\ \A i \in 1..n : more[i] = entries[i]
  BY AppendIs, SeqIs DEF Answers
<1>2. /\ IsSeq(said) /\ Len(said) = n + 1 /\ said[n + 1] = message
      /\ \A i \in 1..n : said[i] = messages[i]
  BY AppendIs DEF Answers
<1>3. \A i \in 1..n : Faithful(format, t, messages[i], entries[i])
  BY DEF Answers
<1> HIDE DEF more, said, n
<1>4. ASSUME NEW i \in 1..(n + 1) PROVE Faithful(format, t, said[i], more[i])
  <2>1. i = n + 1 \/ i \in 1..n
    BY <1>1
  <2> QED BY <1>1, <1>2, <1>3, <2>1
<1>5. Answers(format, t, more, said)
  BY <1>1, <1>2, <1>4 DEF Answers
<1> QED BY <1>5 DEF more, said

\* The message that a thread has in hand has its entry.
HasEntry(t) == Busy(t) /\ thread[t].pc \in PastSyslog
Said(t, messages) ==
    IF HasEntry(t) THEN Append(messages, thread[t].message) ELSE messages

InHand(t) ==
    /\ Busy(t) => thread[t].message.level <= logging.max_level
    /\ Busy(t) /\ At(t, "syslog") =>
        Faithful(logging.log_format, t, thread[t].message, MyText(t))

\* How far a thread is with the syslog: its entries are the ones of the messages
\* that it has logged and of the one in hand, if that one has its entry.
InSyslog(t, entries, messages) ==
    /\ InOrder(entries, syslog, By(t, syslog))
    /\ InOrder(messages, history[t], UpToLevel(history[t], logging.max_level))
    /\ Answers(logging.log_format, t, entries, Said(t, messages))

SyslogOf(t) == InHand(t) /\ \E entries, messages : InSyslog(t, entries, messages)

SyslogRight == logging.to_syslog => \A t \in Threads : SyslogOf(t)

LEMMA SyslogOfIs ==
    ASSUME NEW t, InHand(t)', NEW entries, NEW messages, InSyslog(t, entries, messages)'
    PROVE  SyslogOf(t)'
BY DEF SyslogOf

\* Another thread may have added an entry of its own.
LEMMA SyslogOfOther ==
    ASSUME NEW t, SyslogOf(t), logging' = logging, history'[t] = history[t], IsSeq(syslog),
           Busy(t)' <=> Busy(t),
           Busy(t) => /\ thread'[t].pc = thread[t].pc
                      /\ thread'[t].message = thread[t].message
                      /\ thread'[t].text = thread[t].text,
           \/ syslog' = syslog
           \/ \E entry : entry.by /= t /\ syslog' = Append(syslog, entry)
    PROVE  SyslogOf(t)'
<1>1. PICK entries, messages : InSyslog(t, entries, messages)
  BY DEF SyslogOf
<1>2. InOrder(entries, syslog', By(t, syslog'))
  BY <1>1, ByGrows DEF InSyslog
<1>3. InHand(t)'
  BY DEF SyslogOf, InHand, At, MyText
<1>4. Said(t, messages)' = Said(t, messages)
  BY DEF Said, HasEntry
<1>5. InSyslog(t, entries, messages)'
  BY <1>1, <1>2, <1>4 DEF InSyslog, By
<1> QED BY <1>3, <1>5, SyslogOfIs

\* A thread goes on and adds no entry.
LEMMA SyslogOfMoved ==
    ASSUME NEW t, SyslogOf(t), logging' = logging, history'[t] = history[t], syslog' = syslog,
           Busy(t), Busy(t)', thread'[t].message = thread[t].message,
           thread[t].pc \in PastSyslog <=> thread'[t].pc \in PastSyslog,
           (Busy(t) /\ At(t, "syslog") =>
                Faithful(logging.log_format, t, thread[t].message, MyText(t)))'
    PROVE  SyslogOf(t)'
<1>1. PICK entries, messages : InSyslog(t, entries, messages)
  BY DEF SyslogOf
<1>2. InHand(t)'
  BY DEF SyslogOf, InHand
<1>3. Said(t, messages)' = Said(t, messages)
  BY DEF Said, HasEntry
<1>4. InSyslog(t, entries, messages)'
  BY <1>1, <1>3 DEF InSyslog, By
<1> QED BY <1>2, <1>4, SyslogOfIs

\* A thread is done with its message, which has its entry.
LEMMA SyslogOfDone ==
    ASSUME NEW t, SyslogOf(t), logging' = logging, syslog' = syslog, IsSeq(history[t]),
           HasEntry(t), ~Busy(t)', history'[t] = Append(history[t], thread[t].message)
    PROVE  SyslogOf(t)'
<1>1. PICK entries, messages : InSyslog(t, entries, messages)
  BY DEF SyslogOf
<1>0. PICK said : said = Append(messages, thread[t].message)
  OBVIOUS
<1>2. thread[t].message.level <= logging.max_level
  BY DEF SyslogOf, InHand, HasEntry
<1>3. InOrder(said, history'[t], UpToLevel(history'[t], logging.max_level))
  <2>1. InOrder(messages, history[t], UpToLevel(history[t], logging.max_level))
    BY <1>1 DEF InSyslog
  <2> DEFINE h == history[t]
             message == thread[t].message
             max == logging.max_level
  <2> HIDE DEF h, message, max
  <2>2. InOrder(Append(messages, message), Append(h, message),
                UpToLevel(Append(h, message), max))
    BY <1>2, <2>1, LevelGrows DEF h, message, max
  <2> QED BY <1>0, <2>2 DEF h, message, max
<1>4. Said(t, messages) = said /\ Said(t, said)' = said
  BY <1>0 DEF Said, HasEntry
<1>5. InSyslog(t, entries, said)'
  BY <1>1, <1>3, <1>4 DEF InSyslog, By
<1>6. InHand(t)'
  BY DEF InHand
<1> QED BY <1>5, <1>6, SyslogOfIs

\* A thread has put its entry in the syslog, and is done with it or not.
LEMMA SyslogOfEntered ==
    ASSUME LogTyped, NEW t \in Threads, SyslogOf(t), Syslog(t), LogStep(t)
    PROVE  SyslogOf(t)'
<1>0. /\ Busy(t) /\ At(t, "syslog") /\ syslog' = Append(syslog, MyText(t))
      /\ GoOn(t, AfterSyslog) /\ logging' = logging /\ ThreadsTyped /\ IsSeq(syslog)
      /\ IsSeq(history[t])
  BY DEF Syslog, LogTyped, ThreadsTyped
<1>1. PICK entries, messages : InSyslog(t, entries, messages)
  BY DEF SyslogOf
<1>2. PICK more, said : more = Append(entries, MyText(t))
                        /\ said = Append(messages, thread[t].message)
  OBVIOUS
<1>3. Faithful(logging.log_format, t, thread[t].message, MyText(t))
      /\ thread[t].message.level <= logging.max_level
  BY <1>0 DEF SyslogOf, InHand
<1>4. Answers(logging.log_format, t, entries, messages)
  BY <1>0, <1>1
     DEF InSyslog, Said, HasEntry, At, PastSyslog, InFile, OnConsole
<1>5. Answers(logging.log_format, t, more, said)
  BY <1>2, <1>3, <1>4, AnswersGrow
<1>6. InOrder(more, syslog', By(t, syslog'))
  <2>1. MyText(t).by = t
    BY DEF MyText, Text
  <2>2. InOrder(entries, syslog, By(t, syslog))
    BY <1>1 DEF InSyslog
  <2> DEFINE e == MyText(t)
  <2> HIDE DEF e
  <2>3. InOrder(Append(entries, e), Append(syslog, e), By(t, Append(syslog, e)))
    BY <1>0, <2>1, <2>2, ByGrows DEF e
  <2> QED BY <1>0, <1>2, <2>3 DEF e
<1>7. CASE AfterSyslog = "idle"
  <2>1. thread'[t] = Idle /\ history'[t] = Append(history[t], thread[t].message)
    BY <1>0, <1>7, GoOnIs DEF GoneOn
  <2>2. ~Busy(t)'
    BY <2>1, BusyNext
  <2>3. InOrder(said, history'[t], UpToLevel(history'[t], logging.max_level))
    <3> DEFINE h == history[t]
               message == thread[t].message
               max == logging.max_level
    <3>1. InOrder(messages, h, UpToLevel(h, max)) /\ IsSeq(h) /\ message.level <= max
      BY <1>0, <1>1, <1>3 DEF InSyslog
    <3> HIDE DEF h, message, max
    <3>2. InOrder(Append(messages, message), Append(h, message),
                  UpToLevel(Append(h, message), max))
      BY <3>1, LevelGrows
    <3> QED BY <1>2, <2>1, <3>2 DEF h, message, max
  <2>4. Said(t, said)' = said /\ InHand(t)'
    BY <2>2 DEF Said, HasEntry, InHand
  <2>5. InSyslog(t, more, said)'
    BY <1>0, <1>5, <1>6, <2>3, <2>4 DEF InSyslog, By
  <2> QED BY <2>4, <2>5, SyslogOfIs
<1>8. CASE AfterSyslog /= "idle"
  <2>1. AfterSyslog \in PastSyslog /\ AfterSyslog \in Steps
    BY <1>8, AftersAre DEF Steps, PastSyslog, OnConsole
  <2>2. thread'[t].pc = AfterSyslog /\ thread'[t].message = thread[t].message
        /\ history'[t] = history[t] /\ thread'[t] /= Idle
    <3>1. thread'[t].pc = AfterSyslog /\ thread'[t].message = thread[t].message
      BY <1>0, <2>1, GoOnKeeps DEF SameEntry
    <3>2. history' = history
      BY <1>0, <1>8 DEF GoOn
    <3>3. thread'[t] /= Idle
      BY <1>8, <3>1 DEF Idle
    <3> QED BY <3>1, <3>2, <3>3
  <2>3. Busy(t)' /\ HasEntry(t)'
    BY <2>1, <2>2, BusyNext DEF HasEntry
  <2>4. Said(t, messages)' = said
    BY <1>2, <2>2, <2>3 DEF Said
  <2>5. InSyslog(t, more, messages)'
    BY <1>0, <1>1, <1>5, <1>6, <2>2, <2>4 DEF InSyslog, By, UpToLevel
  <2>6. InHand(t)'
    <3>1. ~(At(t, "syslog")')
      BY <2>1, <2>2 DEF At, PastSyslog, InFile, OnConsole
    <3> QED BY <1>0, <1>3, <2>2, <3>1 DEF InHand
  <2> QED BY <2>5, <2>6, SyslogOfIs
<1> QED BY <1>7, <1>8

LEMMA SyslogStep ==
    ASSUME LogTyped, SyslogRight, logging.to_syslog, NEW t \in Threads, LogStep(t)
    PROVE  SyslogRight'
<1>1. /\ Busy(t) /\ Working(thread[t]) /\ logging' = logging /\ DOMAIN thread = Threads
      /\ \A u \in Threads \ {t} : thread'[u] = thread[u] /\ history'[u] = history[u]
      /\ \/ thread'[t] /= Idle /\ history' = history
         \/ thread'[t] = Idle /\ history'[t] = Append(history[t], thread[t].message)
      /\ SyslogOf(t) /\ IsSeq(syslog) /\ IsSeq(history[t]) /\ ThreadsTyped
  BY LogStepIs DEF LogTyped, ThreadsTyped, SyslogRight
<1>2. ASSUME NEW u \in Threads, u /= t PROVE SyslogOf(u)'
  <2>1. SyslogOf(u) /\ (Busy(u)' <=> Busy(u))
    BY <1>1, <1>2 DEF SyslogRight, Busy
  <2>2. syslog' = syslog \/ syslog' = Append(syslog, MyText(t))
    BY DEF LogStep, LocalTime, StrFTime, Syslog, FileInsert, FileBump, FileNewline, FileFlush,
           FileReset, Clog, output
  <2>3. MyText(t).by /= u
    BY <1>2 DEF MyText, Text
  <2> QED BY <1>1, <1>2, <2>1, <2>2, <2>3, SyslogOfOther
<1>3. ASSUME syslog' = syslog, thread'[t] /= Idle,
             thread[t].pc \in PastSyslog <=> thread'[t].pc \in PastSyslog,
             thread'[t].pc /= "syslog"
      PROVE  SyslogOf(t)'
  <2>1. thread'[t].message = thread[t].message /\ Busy(t)'
    BY <1>3, StepKeeps, BusyNext
  <2>2. ~(At(t, "syslog")')
    BY <1>3 DEF At
  <2> QED BY <1>1, <1>3, <2>1, <2>2, SyslogOfMoved
<1>4. ASSUME NEW pc \in PastSyslog, GoOn(t, pc), thread[t].pc \in PastSyslog, syslog' = syslog
      PROVE  SyslogOf(t)'
  <2>1. thread'[t].pc = pc
    BY <1>1, <1>4, GoOnKeeps DEF Steps
  <2>2. thread'[t] /= Idle /\ thread'[t].pc /= "syslog"
    BY <2>1 DEF Idle, PastSyslog, InFile, OnConsole
  <2> QED BY <1>3, <1>4, <2>1, <2>2
<1>5. ASSUME GoOn(t, "idle"), thread[t].pc \in PastSyslog, syslog' = syslog
      PROVE  SyslogOf(t)'
  <2>1. thread'[t] = Idle
    BY <1>1, <1>5, GoOnIs DEF GoneOn
  <2>2. ~Busy(t)' /\ HasEntry(t)
    BY <1>1, <1>5, <2>1, BusyNext DEF HasEntry
  <2> QED BY <1>1, <1>5, <2>1, <2>2, SyslogOfDone
<1>6. ASSUME LocalTime(t) PROVE SyslogOf(t)'
  <2>1. PICK pc \in {"localtime2", "strftime"} : GoOn(t, pc)
    BY <1>6 DEF LocalTime
  <2>2. thread'[t].pc = pc
    BY <1>1, <2>1, GoOnKeeps DEF Steps, BeforeSyslog
  <2>3. /\ syslog' = syslog /\ thread'[t].pc /= "syslog" /\ thread'[t] /= Idle
        /\ thread'[t].pc \notin PastSyslog
    BY <1>6, <2>2 DEF LocalTime, output, PastSyslog, InFile, OnConsole, Idle
  <2>4. thread[t].pc \notin PastSyslog
    BY <1>6 DEF LocalTime, At, PastSyslog, InFile, OnConsole
  <2> QED BY <1>3, <2>3, <2>4
<1>7. ASSUME StrFTime(t) PROVE SyslogOf(t)'
  <2> DEFINE msg == multi_substitute(logging.log_format,
                        Substitutes(t, thread[t].message, Formatted(tm)))
  <2>1. Faithful(logging.log_format, t, thread[t].message,
                 Text(t, thread[t].message, msg))
    <3>1. msg = Substituted(logging.log_format,
                            Substitutes(t, thread[t].message, Formatted(tm)))
      BY <1>1, MsgIs DEF LogTyped, Working
    <3> HIDE DEF msg
    <3>2. tm \in AnyFields
      BY DEF LogTyped
    <3> QED BY <3>1, <3>2 DEF Faithful, EntryIn
  <2>2. AfterTime = "syslog"
    BY DEF AfterTime
  <2>3. thread' = [thread EXCEPT ![t].pc = AfterTime, ![t].text = msg] /\ syslog' = syslog
    BY <1>7, <2>2 DEF StrFTime, output
  <2> HIDE DEF msg
  <2>4. thread'[t] = [thread[t] EXCEPT !.pc = "syslog", !.text = msg]
    BY <1>1, <2>2, <2>3
  <2>5. /\ thread'[t].pc = "syslog" /\ thread'[t].text = msg
        /\ thread'[t].message = thread[t].message
    BY <1>1, <2>4 DEF Working
  <2>6. /\ thread'[t] /= Idle /\ thread'[t].pc \notin PastSyslog
        /\ thread[t].pc \notin PastSyslog
    BY <1>7, <2>5 DEF Idle, StrFTime, At, PastSyslog, InFile, OnConsole
  <2>7. (Busy(t) /\ At(t, "syslog") =>
            Faithful(logging.log_format, t, thread[t].message, MyText(t)))'
    BY <1>1, <2>1, <2>5 DEF MyText
  <2>8. Busy(t)' /\ history'[t] = history[t]
    BY <1>1, <2>6, BusyNext
  <2> QED BY <1>1, <2>3, <2>5, <2>6, <2>7, <2>8, SyslogOfMoved
<1>8. ASSUME Syslog(t) PROVE SyslogOf(t)'
  BY <1>1, <1>8, SyslogOfEntered
<1>9. ASSUME FileInsert(t) PROVE SyslogOf(t)'
  <2>1. thread' = [thread EXCEPT ![t].pc = "bump", ![t].at = pptr] /\ syslog' = syslog
    BY <1>9 DEF FileInsert, output
  <2>2. thread'[t].pc = "bump"
    BY <1>1, <2>1 DEF Working
  <2>3. thread[t].pc \in PastSyslog /\ thread'[t].pc \in PastSyslog
    BY <1>9, <2>2 DEF FileInsert, At, PastSyslog, InFile
  <2>4. thread'[t] /= Idle /\ thread'[t].pc /= "syslog"
    BY <2>2 DEF Idle
  <2> QED BY <1>3, <2>1, <2>3, <2>4
<1>10. ASSUME FileBump(t) \/ FileNewline(t) \/ FileFlush(t) PROVE SyslogOf(t)'
  <2>1. /\ \E pc \in PastSyslog : GoOn(t, pc)
        /\ thread[t].pc \in PastSyslog /\ syslog' = syslog
    BY <1>10 DEF FileBump, FileNewline, FileFlush, At, PastSyslog, InFile, output
  <2> QED BY <1>4, <2>1
<1>11. ASSUME FileReset(t) \/ Clog(t) PROVE SyslogOf(t)'
  <2>1. /\ (\E pc \in PastSyslog : GoOn(t, pc)) \/ GoOn(t, "idle")
        /\ thread[t].pc \in PastSyslog /\ syslog' = syslog
    BY <1>11, AftersAre DEF FileReset, Clog, At, PastSyslog, InFile, OnConsole, output
  <2> QED BY <1>4, <1>5, <2>1
<1>12. SyslogOf(t)'
  BY <1>6, <1>7, <1>8, <1>9, <1>10, <1>11 DEF LogStep
<1> QED BY <1>2, <1>12 DEF SyslogRight

LEMMA SyslogLog ==
    ASSUME LogTyped, SyslogRight, logging.to_syslog, logging.max_level \in 0..3,
           NEW t \in Threads, NEW message, MessageOK(message), Log(t, message)
    PROVE  SyslogRight'
<1>1. /\ Begun(t, message) /\ ~Busy(t) /\ logging' = logging /\ syslog' = syslog
      /\ SyslogOf(t) /\ IsSeq(history[t]) /\ IsSeq(syslog)
  BY LogIs DEF Log, output, LogTyped, ThreadsTyped, SyslogRight
<1>2. ASSUME NEW u \in Threads, u /= t PROVE SyslogOf(u)'
  <2>1. SyslogOf(u) /\ history'[u] = history[u]
    BY <1>1, <1>2 DEF SyslogRight, Begun
  <2>2. CASE message.level > logging.max_level
    <3>1. thread' = thread
      BY <1>1, <2>2 DEF Begun
    <3> QED BY <1>1, <1>2, <2>1, <3>1, SyslogOfOther DEF Busy
  <2>3. CASE ~(message.level > logging.max_level)
    <3>1. CASE Busy(u)
      <4>1. Working(thread[u]) /\ thread'[u] = [thread[u] EXCEPT !.alone = FALSE]
        BY <1>1, <1>2, <2>3, <3>1, BusyIsWorking DEF Begun, LogTyped
      <4>2. /\ thread'[u].pc = thread[u].pc /\ thread'[u].message = thread[u].message
            /\ thread'[u].text = thread[u].text
        BY <4>1 DEF Working
      <4>3. Busy(u)'
        BY <4>1, <4>2, BusyNext
           DEF Working, Idle, Steps, BeforeSyslog, PastSyslog, InFile, OnConsole
      <4> QED BY <1>1, <2>1, <3>1, <4>2, <4>3, SyslogOfOther
    <3>2. CASE ~Busy(u)
      <4>1. ~Busy(u)'
        BY <1>1, <1>2, <2>3, <3>2, BusyNext DEF Begun
      <4> QED BY <1>1, <2>1, <3>2, <4>1, SyslogOfOther
    <3> QED BY <3>1, <3>2
  <2> QED BY <2>2, <2>3
<1>3. PICK entries, messages : InSyslog(t, entries, messages)
  BY <1>1 DEF SyslogOf
<1>4. Said(t, messages) = messages
  BY <1>1 DEF Said, HasEntry
<1>5. message.level \in 1..3
  BY LevelsAre DEF MessageOK
<1>6. CASE message.level > logging.max_level
  <2>1. thread' = thread /\ history'[t] = Append(history[t], message)
    BY <1>1, <1>6 DEF Begun
  <2>2. ~Busy(t)'
    BY <1>1, <2>1 DEF Busy
  <2>3. InOrder(messages, history'[t], UpToLevel(history'[t], logging.max_level))
    <3> DEFINE h == history[t]
               max == logging.max_level
               level == message.level
    <3>0. ~(level <= max)
      <4>1. level \in Int /\ max \in Int /\ level > max
        BY <1>5, <1>6
      <4> HIDE DEF level, max
      <4> QED BY <4>1
    <3>1. InOrder(messages, h, UpToLevel(h, max)) /\ IsSeq(h)
      BY <1>1, <1>3 DEF InSyslog
    <3> HIDE DEF h, max
    <3>2. InOrder(messages, Append(h, message), UpToLevel(Append(h, message), max))
      BY <3>0, <3>1, LevelGrows
    <3> QED BY <2>1, <3>2 DEF h, max
  <2>4. Said(t, messages)' = messages /\ InHand(t)'
    BY <2>2 DEF Said, HasEntry, InHand
  <2>5. InSyslog(t, entries, messages)'
    BY <1>1, <1>3, <1>4, <2>3, <2>4 DEF InSyslog, By
  <2>6. SyslogOf(t)'
    BY <2>4, <2>5, SyslogOfIs
  <2> QED BY <1>2, <2>6 DEF SyslogRight
<1>7. CASE ~(message.level > logging.max_level)
  <2>1. /\ history' = history /\ thread'[t].pc = "localtime"
        /\ thread'[t].message = message
    BY <1>1, <1>7 DEF Begun
  <2>2. ~HasEntry(t)' /\ ~(At(t, "syslog")')
    BY <2>1 DEF HasEntry, At, PastSyslog, InFile, OnConsole
  <2>3. message.level <= logging.max_level
    <3> DEFINE max == logging.max_level
               level == message.level
    <3>1. level \in Int /\ max \in Int /\ ~(level > max)
      BY <1>5, <1>7
    <3> HIDE DEF level, max
    <3>2. level <= max
      BY <3>1
    <3> QED BY <3>2 DEF level, max
  <2>4. Said(t, messages)' = messages /\ InHand(t)'
    BY <1>1, <2>1, <2>2, <2>3 DEF Said, InHand
  <2>5. InSyslog(t, entries, messages)'
    BY <1>1, <1>3, <1>4, <2>1, <2>4 DEF InSyslog, By, UpToLevel
  <2>6. SyslogOf(t)'
    BY <2>4, <2>5, SyslogOfIs
  <2> QED BY <1>2, <2>6 DEF SyslogRight
<1> QED BY <1>6, <1>7

LEMMA SyslogNext ==
    ASSUME OnTheWay, LogTyped, Quiet, ToTheLog, SyslogRight
    PROVE  SyslogRight'
<1> SUFFICES ASSUME logging'.to_syslog PROVE SyslogRight'
  BY DEF SyslogRight
<1>1. CASE /\ phase = "parsing"
           /\ UNCHANGED <<clock, tm, thread, buffered, pptr, output, history>>
  <2> SUFFICES ASSUME NEW u \in Threads PROVE SyslogOf(u)'
    BY DEF SyslogRight
  <2>1. history'[u] = <<>> /\ syslog' = <<>> /\ ~Busy(u)'
    BY <1>1 DEF Quiet, output, Busy
  <2>2. By(u, <<>>) = {} /\ \A max : UpToLevel(<<>>, max) = {}
    BY DEF By, UpToLevel
  <2>3. Said(u, <<>>)' = <<>> /\ InHand(u)'
    BY <2>1 DEF Said, HasEntry, InHand
  <2>4. Answers(logging'.log_format, u, <<>>, <<>>)
    BY DEF Answers, IsSeq
  <2>5. InSyslog(u, <<>>, <<>>)'
    <3>1. InOrder(<<>>, syslog', By(u, syslog'))
      BY <2>1, <2>2, NothingInOrder
    <3>2. InOrder(<<>>, history'[u], UpToLevel(history'[u], logging'.max_level))
      BY <2>1, <2>2, NothingInOrder
    <3> QED BY <2>3, <2>4, <3>1, <3>2 DEF InSyslog, By
  <2> QED BY <2>3, <2>5, SyslogOfIs
<1>2. CASE UNCHANGED <<logging, thread, syslog, history>>
  <2> SUFFICES ASSUME NEW u \in Threads PROVE SyslogOf(u)'
    BY DEF SyslogRight
  <2>1. SyslogOf(u) /\ IsSeq(syslog) /\ (Busy(u)' <=> Busy(u))
    BY <1>2 DEF SyslogRight, LogTyped, Busy
  <2> QED BY <1>2, <2>1, SyslogOfOther
<1>3. ASSUME NEW t \in Threads, NEW message, MessageOK(message), Log(t, message),
             phase \in {"announcing", "serving"}
      PROVE  SyslogRight'
  <2>1. logging.max_level \in 0..3 /\ logging.to_syslog
    BY <1>3, MaxLevelIs DEF Log
  <2> QED BY <1>3, <2>1, SyslogLog
<1>4. ASSUME NEW t \in Threads, LogStep(t) PROVE SyslogRight'
  <2>1. logging.to_syslog
    BY <1>4, LogStepIs
  <2> QED BY <1>4, <2>1, SyslogStep
<1> QED BY <1>1, <1>2, <1>3, <1>4 DEF ToTheLog, loggingVars, output, Tick

LEMMA SyslogInTheWords == SyslogRight => SyslogIsFaithful
<1> SUFFICES ASSUME SyslogRight, logging.to_syslog, NEW t \in Threads, ~Busy(t)
             PROVE  LET got == Of(t, syslog)
                    IN  /\ Len(got) = Len(Wanted(t))
                        /\ \A i \in 1..Len(got) :
                            \E fields \in AnyFields : got[i] = Entry(t, Wanted(t)[i], fields)
  BY DEF SyslogIsFaithful
<1>1. PICK entries, messages : InSyslog(t, entries, messages)
  BY DEF SyslogRight, SyslogOf
<1>2. Answers(logging.log_format, t, entries, messages)
  BY <1>1 DEF InSyslog, Said, HasEntry
<1>3. Of(t, syslog) = entries
  <2>1. entries = Chosen(syslog, By(t, syslog))
    BY <1>1, InOrderIs DEF InSyslog
  <2> QED BY <2>1 DEF Of, By
<1>4. Wanted(t) = messages
  <2>1. messages = Chosen(history[t], UpToLevel(history[t], logging.max_level))
    BY <1>1, InOrderIs DEF InSyslog
  <2> QED BY <2>1 DEF Wanted, UpToLevel
<1>5. ASSUME NEW i \in 1..Len(entries)
      PROVE  \E fields \in AnyFields : entries[i] = Entry(t, messages[i], fields)
  BY <1>2 DEF Answers, Faithful, EntryIn, Entry
<1>6. Len(entries) = Len(messages)
  BY <1>2 DEF Answers
<1> QED BY <1>3, <1>4, <1>5, <1>6

\* The syslog has the messages of every thread, in order and in the form that the
\* format asks for, whatever other threads log (SyslogIsFaithful; logging.cc:39-58,
\* 76-98).
THEOREM TheSyslogIsFaithful == Spec => []SyslogIsFaithful
<1> DEFINE Inv == OnTheWay /\ LogTyped /\ Quiet /\ SyslogRight
<1>1. Init => Inv
  <2>1. Init => SyslogRight
    BY DEF Init, LoggingInit, NoLogging, SyslogRight
  <2> QED BY <2>1, OnTheWayInit, LogInit
<1>2. Inv /\ [Next]_vars => Inv'
  BY OnTheWayNext, StepToTheLog, QuietNext, SyslogNext
<1>3. Inv => SyslogIsFaithful
  BY SyslogInTheWords
<1> QED BY <1>1, <1>2, <1>3, PTL DEF Spec

----
(* The terminal in debug mode *)

\* debug opens the log for everything, and keeps the terminal.
LEMMA DebugOpens ==
    ASSUME OnTheWay, Debugging, phase \in {"checking", "announcing", "serving"}
    PROVE  logging.max_level = 3 /\ logging.to_stderr = TRUE
<1>1. CommandLine /\ Started
  BY DEF OnTheWay
<1>2. /\ args \in ArgLists /\ taken = Len(args) /\ logging = LogOf(params)
  BY <1>1 DEF CommandLine, Started
<1>3. PICK p : ParsedTo(p, args, taken) /\ params = WithDebug(p)
  BY <1>1 DEF Started
<1>4. DOMAIN p = Options \cup {"basepath"}
      /\ p["debug"] = IF Upto(args, taken, {"debug"}) = {} THEN 0 ELSE 1
  BY <1>3 DEF ParsedTo
<1>5. Upto(args, taken, {"debug"}) = Places({"debug"})
  BY <1>2, ArgListType DEF Upto, Places
<1>6. p.debug /= 0
  BY <1>4, <1>5 DEF Debugging
<1>7. params = [p EXCEPT !.log_stderr = 1, !.log_maxlevel = "DEBUG"]
  BY <1>3, <1>6, Zenon DEF WithDebug
<1>8. params.log_stderr = 1 /\ params.log_maxlevel = "DEBUG"
  <2>1. "log_stderr" \in DOMAIN p /\ "log_maxlevel" \in DOMAIN p
    BY <1>4 DEF Options
  <2> QED BY <1>7, <2>1
<1>9. logging.max_level = string_to_level("DEBUG") /\ logging.to_stderr = (1 /= 0)
  BY <1>2, <1>8 DEF LogOf
<1>10. string_to_level("DEBUG") = 3
  <2>1. "DEBUG" \in ToSet(kLevelNameMap)
    <3>1. ToSet(kLevelNameMap) = {"ERROR", "INFO", "DEBUG"}
      BY DEF ToSet, kLevelNameMap
    <3> QED BY <3>1
  <2> QED BY <2>1 DEF string_to_level, Level
<1>11. (1 /= 0) = TRUE
  OBVIOUS
<1> QED BY <1>9, <1>10, <1>11

LEMMA DebugStays ==
    ASSUME OnTheWay, Debugging, phase = "announcing", fuse_main, phase' = "serving"
    PROVE  attached' = TRUE
<1>1. /\ args \in ArgLists /\ taken = Len(args)
      /\ InOrder(outargs, args, ForFuse(args, taken))
  BY DEF OnTheWay, CommandLine, Started
<1>2. PICK i \in DOMAIN args : args[i].opt = "debug"
  BY DEF Debugging, Places
<1>3. i \in ForFuse(args, taken)
  BY <1>1, <1>2, ArgListType DEF ForFuse, Upto
<1> DEFINE r == Rank(i, ForFuse(args, taken))
           opts == {outargs[j].opt : j \in DOMAIN outargs}
<1>4. outargs[r] = args[i] /\ r \in 1..Cardinality(ForFuse(args, taken))
      /\ Len(outargs) = Cardinality(ForFuse(args, taken))
      /\ outargs \in Seq(ToSet(args))
  BY <1>1, <1>3, RankType DEF InOrder
<1> HIDE DEF r
<1>5. r \in DOMAIN outargs /\ outargs[r].opt = "debug"
  BY <1>2, <1>4
<1>6. "debug" \in opts
  BY <1>5
<1>7. phase' /= "exited"
  OBVIOUS
<1>8. attached' = ("debug" \in opts \/ "-f" \in {outargs[j].value : j \in DOMAIN outargs})
  BY <1>7 DEF fuse_main, Exit
<1> QED BY <1>6, <1>8

\* The lines of these messages: each is a text and an end of line.
Lines(t, strings, messages) ==
    /\ IsSeq(strings) /\ IsSeq(messages) /\ Len(strings) = 2 * Len(messages)
    /\ \A i \in 1..Len(messages) :
        /\ strings[2 * i - 1].message = messages[i]
        /\ strings[2 * i] = EndOfLine(t, messages[i])

LEMMA LinesGrow ==
    ASSUME NEW t, NEW strings, NEW messages, Lines(t, strings, messages),
           NEW message, NEW first, first.message = message
    PROVE  Lines(t, Append(Append(strings, first), EndOfLine(t, message)),
                 Append(messages, message))
<1> DEFINE half == Append(strings, first)
           end == EndOfLine(t, message)
           more == Append(half, end)
           said == Append(messages, message)
           n == Len(messages)
<1>1. IsSeq(strings) /\ IsSeq(messages) /\ Len(strings) = 2 * n /\ n \in Nat
  BY SeqIs DEF Lines
<1> HIDE DEF end
<1>2. /\ IsSeq(half) /\ Len(half) = 2 * n + 1 /\ half[2 * n + 1] = first
      /\ \A i \in 1..(2 * n) : half[i] = strings[i]
  BY <1>1, AppendIs
<1> HIDE DEF half
<1>3. /\ IsSeq(more) /\ Len(more) = (2 * n + 1) + 1 /\ more[(2 * n + 1) + 1] = end
      /\ \A i \in 1..(2 * n + 1) : more[i] = half[i]
  BY <1>2, AppendIs
<1>4. /\ IsSeq(said) /\ Len(said) = n + 1 /\ said[n + 1] = message
      /\ \A i \in 1..n : said[i] = messages[i]
  BY <1>1, AppendIs
<1> HIDE DEF more, said
<1>5. \A i \in 1..n : /\ strings[2 * i - 1].message = messages[i]
                      /\ strings[2 * i] = EndOfLine(t, messages[i])
  BY DEF Lines
<1> HIDE DEF n
<1>6. Len(more) = 2 * Len(said) /\ (2 * n + 1) + 1 = 2 * (n + 1)
      /\ 2 * (n + 1) - 1 = 2 * n + 1
  BY <1>1, <1>3, <1>4
<1>7. ASSUME NEW i \in 1..(n + 1)
      PROVE  more[2 * i - 1].message = said[i] /\ more[2 * i] = EndOfLine(t, said[i])
  <2>1. CASE i = n + 1
    <3>1. 2 * n + 1 \in 1..(2 * n + 1)
      BY <1>1
    <3>2. more[2 * n + 1] = first
      BY <1>2, <1>3, <3>1
    <3> QED BY <1>3, <1>4, <1>6, <2>1, <3>2 DEF end
  <2>2. CASE i \in 1..n
    <3>1. /\ 2 * i - 1 \in 1..(2 * n) /\ 2 * i \in 1..(2 * n)
          /\ 2 * i - 1 \in 1..(2 * n + 1) /\ 2 * i \in 1..(2 * n + 1)
      BY <1>1, <2>2
    <3>2. more[2 * i - 1] = strings[2 * i - 1] /\ more[2 * i] = strings[2 * i]
      BY <1>2, <1>3, <3>1
    <3> QED BY <1>4, <1>5, <2>2, <3>2
  <2> QED BY <1>1, <2>1, <2>2
<1>8. Lines(t, more, said)
  BY <1>3, <1>4, <1>6, <1>7 DEF Lines
<1> QED BY <1>8 DEF more, half, said, end

\* A thread whose message is on the terminal, without its end of line.
Halfway(t) == Busy(t) /\ At(t, "endl")

\* How far a thread is with the terminal.
OnTerminal(t, strings, first) ==
    /\ InOrder(IF Halfway(t) THEN Append(strings, first) ELSE strings,
               console, By(t, console))
    /\ Halfway(t) => first.message = thread[t].message
    /\ Lines(t, strings, history[t])

ConsoleOf(t) == \E strings, first : OnTerminal(t, strings, first)

ConsoleRight ==
    Debugging => /\ phase = "serving" => attached = TRUE
                 /\ \A t \in Threads : ConsoleOf(t)

LEMMA ConsoleOfIs ==
    ASSUME NEW t, NEW strings, NEW first, OnTerminal(t, strings, first)'
    PROVE  ConsoleOf(t)'
BY DEF ConsoleOf

LEMMA ConsoleOfOther ==
    ASSUME NEW t, ConsoleOf(t), history'[t] = history[t], IsSeq(console),
           Halfway(t)' <=> Halfway(t),
           Halfway(t) => thread'[t].message = thread[t].message,
           \/ console' = console
           \/ \E string : string.by /= t /\ console' = Append(console, string)
    PROVE  ConsoleOf(t)'
<1>1. PICK strings, first : OnTerminal(t, strings, first)
  BY DEF ConsoleOf
<1> DEFINE all == IF Halfway(t) THEN Append(strings, first) ELSE strings
<1>2. InOrder(all, console, By(t, console))
  BY <1>1 DEF OnTerminal
<1> HIDE DEF all
<1>3. InOrder(all, console', By(t, console'))
  BY <1>2, ByGrows
<1>4. OnTerminal(t, strings, first)'
  BY <1>1, <1>3 DEF OnTerminal, By, all
<1> QED BY <1>4, ConsoleOfIs

LEMMA DebuggingStays == [Next]_vars => (Debugging' <=> Debugging)
<1> SUFFICES ASSUME [Next]_vars PROVE Debugging' <=> Debugging
  OBVIOUS
<1>1. args' = args
  BY DEF Next, vars, startVars, SetOption, TakeDebug, TakePlain, TakeOther, TakeMalformed,
         TakeHelp, TakeVersion, Parse, StartLogging, CheckOptions, Announce, fuse_main,
         HandlerLogs, LogOn, TimePasses
<1> QED BY <1>1 DEF Debugging, Places

LEMMA AttachedNext ==
    ASSUME OnTheWay, [Next]_vars, Debugging, phase = "serving" => attached = TRUE
    PROVE  phase' = "serving" => attached' = TRUE
<1>3. CASE fuse_main
  <2>1. phase = "announcing"
    BY <1>3 DEF fuse_main
  <2> QED BY <1>3, <2>1, DebugStays
<1>4. CASE \/ SetOption \/ TakeDebug \/ TakePlain \/ TakeOther
           \/ TakeMalformed \/ TakeHelp \/ TakeVersion
  <2>1. phase = "parsing" /\ (phase' = phase \/ phase' = "exited")
    BY <1>4 DEF SetOption, TakeDebug, TakePlain, TakeOther, TakeMalformed, TakeHelp,
                TakeVersion, Parse, Drop, Keep, Exit
  <2> QED BY <2>1
<1>5. CASE StartLogging \/ CheckOptions
  BY <1>5 DEF StartLogging, CheckOptions, Exit
<1>6. CASE Announce \/ HandlerLogs \/ LogOn \/ TimePasses \/ UNCHANGED vars
  <2>1. phase' = phase
    BY <1>6 DEF Announce, HandlerLogs, LogOn, TimePasses, vars, startVars
  <2>2. attached' = attached
    BY <1>6 DEF Announce, HandlerLogs, LogOn, TimePasses, vars, loggingVars, Log, LogStep,
                LocalTime, StrFTime, Syslog, FileInsert, FileBump, FileNewline, FileFlush,
                FileReset, Clog, Tick, output
  <2> QED BY <2>1, <2>2
<1> QED BY <1>3, <1>4, <1>5, <1>6 DEF Next

\* What a thread puts on the terminal.
LEMMA ConsoleOfClog ==
    ASSUME LogTyped, NEW t \in Threads, ConsoleOf(t), Clog(t), LogStep(t), attached = TRUE
    PROVE  ConsoleOf(t)'
<1>1. /\ Busy(t) /\ ThreadsTyped /\ IsSeq(console) /\ IsSeq(history[t])
  BY DEF Clog, LogTyped, ThreadsTyped
<1>2. PICK strings, first : OnTerminal(t, strings, first)
  BY DEF ConsoleOf
<1>3. CASE At(t, "clog") /\ console' = Shown(MyText(t)) /\ GoOn(t, "endl")
  <2>1. /\ thread'[t].pc = "endl" /\ thread'[t].message = thread[t].message
        /\ history' = history
    <3>1. "endl" \in Steps
      BY DEF Steps, PastSyslog, OnConsole
    <3>2. thread'[t].pc = "endl" /\ thread'[t].message = thread[t].message
      BY <1>1, <1>3, <3>1, GoOnKeeps DEF SameEntry
    <3> QED BY <1>3, <3>2 DEF GoOn
  <2>2. Halfway(t)' /\ ~Halfway(t)
    BY <1>3, <2>1, BusyNext DEF Halfway, At, Idle
  <2>3. PICK string : string = MyText(t)
    OBVIOUS
  <2>4. string.by = t /\ string.message = thread[t].message
    BY <2>3 DEF MyText, Text
  <2>5. console' = Append(console, string)
    BY <1>3, <2>3 DEF Shown
  <2>6. InOrder(strings, console, By(t, console)) /\ Lines(t, strings, history[t])
    BY <1>2, <2>2 DEF OnTerminal
  <2>7. InOrder(Append(strings, string), console', By(t, console'))
    BY <1>1, <2>4, <2>5, <2>6, ByGrows
  <2>8. OnTerminal(t, strings, string)'
    BY <2>1, <2>2, <2>4, <2>6, <2>7 DEF OnTerminal, By
  <2> QED BY <2>8, ConsoleOfIs
<1>4. CASE At(t, "endl") /\ console' = Shown(MyEndOfLine(t)) /\ GoOn(t, "idle")
  <2>1. thread'[t] = Idle /\ history'[t] = Append(history[t], thread[t].message)
    BY <1>1, <1>4, GoOnIs DEF GoneOn
  <2>2. ~Halfway(t)' /\ Halfway(t)
    BY <1>1, <1>4, <2>1, BusyNext DEF Halfway
  <2>3. PICK end, message : end = MyEndOfLine(t) /\ message = thread[t].message
    OBVIOUS
  <2>4. end.by = t /\ end = EndOfLine(t, message) /\ first.message = message
    BY <1>2, <2>2, <2>3 DEF MyEndOfLine, EndOfLine, Text, OnTerminal
  <2>5. console' = Append(console, end)
    BY <1>4, <2>3 DEF Shown
  <2>6. /\ InOrder(Append(strings, first), console, By(t, console))
        /\ Lines(t, strings, history[t])
    BY <1>2, <2>2 DEF OnTerminal
  <2>7. PICK all : all = Append(Append(strings, first), end)
    OBVIOUS
  <2>8. InOrder(all, console', By(t, console'))
    <3> DEFINE half == Append(strings, first)
    <3>1. InOrder(half, console, By(t, console)) /\ all = Append(half, end)
      BY <2>6, <2>7
    <3> HIDE DEF half
    <3> QED BY <1>1, <2>4, <2>5, <3>1, ByGrows
  <2>9. Lines(t, all, history'[t])
    <3>1. Lines(t, Append(Append(strings, first), EndOfLine(t, message)),
                Append(history[t], message))
      BY <2>4, <2>6, LinesGrow
    <3> QED BY <2>1, <2>3, <2>4, <2>7, <3>1
  <2>10. OnTerminal(t, all, first)'
    BY <2>2, <2>8, <2>9 DEF OnTerminal, By
  <2> QED BY <2>10, ConsoleOfIs
<1> QED BY <1>3, <1>4 DEF Clog

\* Where debug has the log, no message is dropped, and every thread comes to the
\* terminal.
LEMMA ConsoleStep ==
    ASSUME LogTyped, \A u \in Threads : ConsoleOf(u), logging.to_stderr = TRUE,
           attached = TRUE, NEW t \in Threads, LogStep(t)
    PROVE  \A u \in Threads : ConsoleOf(u)'
<1>1. /\ Busy(t) /\ Working(thread[t]) /\ logging' = logging /\ DOMAIN thread = Threads
      /\ \A u \in Threads \ {t} : thread'[u] = thread[u] /\ history'[u] = history[u]
      /\ \/ thread'[t] /= Idle /\ history' = history
         \/ thread'[t] = Idle /\ history'[t] = Append(history[t], thread[t].message)
      /\ ConsoleOf(t) /\ IsSeq(console) /\ ThreadsTyped
  BY LogStepIs DEF LogTyped, ThreadsTyped
<1>2. ASSUME NEW u \in Threads, u /= t PROVE ConsoleOf(u)'
  <2>1. ConsoleOf(u) /\ (Halfway(u)' <=> Halfway(u))
    BY <1>1, <1>2 DEF Halfway, Busy, At
  <2>2. \/ console' = console
        \/ console' = Append(console, MyText(t))
        \/ console' = Append(console, MyEndOfLine(t))
    BY DEF LogStep, LocalTime, StrFTime, Syslog, FileInsert, FileBump, FileNewline, FileFlush,
           FileReset, Clog, Shown, output
  <2>3. MyText(t).by /= u /\ MyEndOfLine(t).by /= u
    BY <1>2 DEF MyText, MyEndOfLine, EndOfLine, Text
  <2> QED BY <1>1, <1>2, <2>1, <2>2, <2>3, ConsoleOfOther
<1>3. ASSUME ~Clog(t) PROVE ConsoleOf(t)'
  <2>1. AfterFile = "clog" /\ AfterSyslog \in {"insert", "clog"}
        /\ AfterTime \in {"syslog", "insert", "clog"}
    BY DEF AfterFile, AfterSyslog, AfterTime
  <2>2. console' = console /\ ~Halfway(t)
    BY <1>3 DEF LogStep, LocalTime, StrFTime, Syslog, FileInsert, FileBump, FileNewline,
                FileFlush, FileReset, output, Halfway, At
  <2>3. thread'[t].pc \notin {"idle", "endl"}
    <3>1. ASSUME NEW pc \in Steps \ {"endl"}, GoOn(t, pc) PROVE thread'[t].pc \notin {"idle", "endl"}
      <4>1. thread'[t].pc = pc
        BY <1>1, <3>1, GoOnKeeps
      <4> QED BY <4>1 DEF Steps, BeforeSyslog, PastSyslog, InFile, OnConsole
    <3>2. CASE StrFTime(t)
      <4> DEFINE msg == multi_substitute(logging.log_format,
                            Substitutes(t, thread[t].message, Formatted(tm)))
      <4>1. thread' = [thread EXCEPT ![t].pc = AfterTime, ![t].text = msg]
        BY <2>1, <3>2 DEF StrFTime
      <4> HIDE DEF msg
      <4>2. thread'[t] = [thread[t] EXCEPT !.pc = AfterTime, !.text = msg]
        BY <1>1, <4>1
      <4>3. thread'[t].pc = AfterTime
        BY <1>1, <4>2 DEF Working
      <4> QED BY <2>1, <4>3
    <3>3. CASE FileInsert(t)
      <4>1. thread' = [thread EXCEPT ![t].pc = "bump", ![t].at = pptr]
        BY <3>3 DEF FileInsert
      <4>2. thread'[t].pc = "bump"
        BY <1>1, <4>1 DEF Working
      <4> QED BY <4>2
    <3>4. (\E pc \in Steps \ {"endl"} : GoOn(t, pc)) \/ StrFTime(t) \/ FileInsert(t)
      BY <1>3, <2>1 DEF LogStep, LocalTime, Syslog, FileBump, FileNewline, FileFlush,
         FileReset, Steps, BeforeSyslog, PastSyslog, InFile, OnConsole
    <3> QED BY <3>1, <3>2, <3>3, <3>4
  <2>4. ~Halfway(t)' /\ thread'[t] /= Idle
    BY <2>3 DEF Halfway, At, Idle
  <2> QED BY <1>1, <2>2, <2>4, ConsoleOfOther
<1>4. CASE Clog(t)
  BY <1>1, <1>2, <1>4, ConsoleOfClog
<1> QED BY <1>2, <1>3, <1>4

LEMMA ConsoleLog ==
    ASSUME LogTyped, \A u \in Threads : ConsoleOf(u), logging.max_level = 3,
           NEW t \in Threads, NEW message, MessageOK(message), Log(t, message)
    PROVE  \A u \in Threads : ConsoleOf(u)'
<1>1. Begun(t, message) /\ ~Busy(t) /\ console' = console /\ IsSeq(console)
  BY LogIs DEF Log, output, LogTyped
<1>2. ~(message.level > logging.max_level)
  <2>1. message.level \in 1..3
    BY LevelsAre DEF MessageOK
  <2> DEFINE level == message.level
  <2> HIDE DEF level
  <2>2. level \in 1..3 => ~(level > 3)
    OBVIOUS
  <2> QED BY <2>1, <2>2 DEF level
<1>3. history' = history /\ thread'[t].pc = "localtime"
  BY <1>1, <1>2 DEF Begun
<1> SUFFICES ASSUME NEW u \in Threads PROVE ConsoleOf(u)'
  OBVIOUS
<1>4. (Halfway(u)' <=> Halfway(u)) /\ (Halfway(u) => thread'[u].message = thread[u].message)
  <2>1. CASE u = t
    BY <1>1, <1>3, <2>1 DEF Halfway, At
  <2>2. CASE u /= t /\ Busy(u)
    <3>1. Working(thread[u]) /\ thread'[u] = [thread[u] EXCEPT !.alone = FALSE]
      BY <1>1, <1>2, <2>2, BusyIsWorking DEF Begun, LogTyped
    <3>2. thread'[u].pc = thread[u].pc /\ thread'[u].message = thread[u].message
      BY <3>1 DEF Working
    <3>3. Busy(u)'
      BY <3>1, <3>2, BusyNext
         DEF Working, Idle, Steps, BeforeSyslog, PastSyslog, InFile, OnConsole
    <3> QED BY <2>2, <3>2, <3>3 DEF Halfway, At
  <2>3. CASE u /= t /\ ~Busy(u)
    BY <1>1, <1>2, <2>3, BusyNext DEF Begun, Halfway
  <2> QED BY <2>1, <2>2, <2>3
<1> QED BY <1>1, <1>3, <1>4, ConsoleOfOther

LEMMA ConsoleNext ==
    ASSUME OnTheWay, LogTyped, Quiet, [Next]_vars, ConsoleRight
    PROVE  ConsoleRight'
<1> SUFFICES ASSUME Debugging PROVE ConsoleRight'
  BY DebuggingStays DEF ConsoleRight
<1>1. /\ phase = "serving" => attached = TRUE
      /\ \A u \in Threads : ConsoleOf(u)
  BY DEF ConsoleRight
<1>2. phase' = "serving" => attached' = TRUE
  BY <1>1, AttachedNext
<1>3. \A u \in Threads : ConsoleOf(u)'
  <2>1. CASE UNCHANGED <<thread, console, history>>
    <3> SUFFICES ASSUME NEW u \in Threads PROVE ConsoleOf(u)'
      OBVIOUS
    <3>1. ConsoleOf(u) /\ IsSeq(console) /\ (Halfway(u)' <=> Halfway(u))
      BY <1>1, <2>1 DEF LogTyped, Halfway, Busy, At
    <3> QED BY <2>1, <3>1, ConsoleOfOther
  <2>2. ASSUME NEW t \in Threads, NEW message, MessageOK(message), Log(t, message),
               phase \in {"announcing", "serving"}
        PROVE  \A u \in Threads : ConsoleOf(u)'
    <3>1. logging.max_level = 3
      BY <2>2, DebugOpens
    <3> QED BY <1>1, <2>2, <3>1, ConsoleLog
  <2>3. ASSUME NEW t \in Threads, LogStep(t) PROVE \A u \in Threads : ConsoleOf(u)'
    <3>1. Busy(t)
      BY <2>3, LogStepIs
    <3>2. phase \in {"announcing", "serving"}
      BY <3>1 DEF Quiet
    <3>3. attached = TRUE
      BY <1>1, <3>2 DEF Quiet
    <3>4. logging.to_stderr = TRUE
      BY <3>2, DebugOpens
    <3> QED BY <1>1, <2>3, <3>3, <3>4, ConsoleStep
  <2>4. ToTheLog
    BY StepToTheLog
  <2> QED BY <2>1, <2>2, <2>3, <2>4 DEF ToTheLog, loggingVars, output, Tick
<1> QED BY <1>2, <1>3 DEF ConsoleRight

LEMMA ConsoleInit == Init => ConsoleRight
<1> SUFFICES ASSUME Init, NEW t \in Threads PROVE ConsoleOf(t)
  BY DEF Init, ConsoleRight
<1>1. console = <<>> /\ history[t] = <<>> /\ thread[t] = Idle
  BY DEF Init, LoggingInit
<1>2. By(t, <<>>) = {} /\ ~Halfway(t)
  BY <1>1 DEF By, Halfway, Busy
<1>3. Lines(t, <<>>, <<>>)
  BY DEF Lines, IsSeq
<1>4. OnTerminal(t, <<>>, Garbage)
  BY <1>1, <1>2, <1>3, NothingInOrder DEF OnTerminal
<1> QED BY <1>4 DEF ConsoleOf

LEMMA DebugInTheWords == LogTyped /\ ConsoleRight => DebugShowsEverything
<1> SUFFICES ASSUME LogTyped, ConsoleRight, Debugging, NEW t \in Threads, ~Busy(t)
             PROVE  LET strings == Of(t, console)
                    IN  /\ Len(strings) = 2 * Len(history[t])
                        /\ \A i \in DOMAIN history[t] :
                            /\ strings[2 * i - 1].message = history[t][i]
                            /\ strings[2 * i] = EndOfLine(t, history[t][i])
  BY DEF DebugShowsEverything
<1>1. PICK strings, first : OnTerminal(t, strings, first)
  BY DEF ConsoleRight, ConsoleOf
<1>2. InOrder(strings, console, By(t, console)) /\ Lines(t, strings, history[t])
  BY <1>1 DEF OnTerminal, Halfway
<1>3. Of(t, console) = strings
  <2>1. strings = Chosen(console, By(t, console))
    BY <1>2, InOrderIs
  <2> QED BY <2>1 DEF Of, By
<1>4. DOMAIN history[t] = 1..Len(history[t])
  BY SeqIs DEF LogTyped, ThreadsTyped
<1> QED BY <1>2, <1>3, <1>4 DEF Lines

\* In debug mode everything is on the terminal, whatever the other options say
\* (DebugShowsEverything; mp3fs.cc:69-70, 98-99, 237-240).
THEOREM DebugShowsItAll == Spec => []DebugShowsEverything
<1> DEFINE Inv == OnTheWay /\ LogTyped /\ Quiet /\ ConsoleRight
<1>1. Init => Inv
  BY OnTheWayInit, LogInit, ConsoleInit
<1>2. Inv /\ [Next]_vars => Inv'
  BY OnTheWayNext, StepToTheLog, QuietNext, ConsoleNext
<1>3. Inv => DebugShowsEverything
  BY DebugInTheWords
<1> QED BY <1>1, <1>2, <1>3, PTL DEF Spec
====
