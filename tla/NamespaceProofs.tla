---- MODULE NamespaceProofs ----
(***************************************************************************)
(* Theorems about the steps of Namespace, for any names, any directory     *)
(* entries and any requests: a name of the mount leads to the right entry  *)
(* whatever others do to the directory during the call.                    *)
(***************************************************************************)
EXTENDS Namespace, SequenceTheorems, WellFoundedInduction, TLAPS

\* Elements before the new one stay where they are, the others move up.
LEMMA InsertAtProperties ==
    ASSUME NEW S, NEW s \in Seq(S), NEW i \in 1..Len(s) + 1, NEW e \in S
    PROVE  /\ InsertAt(s, i, e) \in Seq(S)
           /\ Len(InsertAt(s, i, e)) = Len(s) + 1
           /\ \A j \in 1..Len(s) + 1 :
                InsertAt(s, i, e)[j] = IF j < i THEN s[j]
                                       ELSE IF j = i THEN e ELSE s[j - 1]
<1> DEFINE before == SubSeq(s, 1, i - 1)
           after == SubSeq(s, i, Len(s))
<1>1. before \in Seq(S) /\ Len(before) = i - 1
      /\ \A j \in 1..i - 1 : before[j] = s[j]
  OBVIOUS
<1>2. after \in Seq(S) /\ Len(after) = Len(s) + 1 - i
      /\ \A j \in 1..Len(s) + 1 - i : after[j] = s[i + j - 1]
  OBVIOUS
<1>3. InsertAt(s, i, e) = before \o <<e>> \o after
  BY DEF InsertAt
<1> HIDE DEF before, after
<1>4. <<e>> \in Seq(S) /\ Len(<<e>>) = 1 /\ <<e>>[1] = e
  OBVIOUS
<1> DEFINE middle == before \o <<e>>
<1>5. /\ middle \in Seq(S) /\ Len(middle) = i
      /\ \A j \in 1..i : middle[j] = IF j < i THEN s[j] ELSE e
  BY <1>1, <1>4
<1> HIDE DEF middle
<1>6. /\ middle \o after \in Seq(S) /\ Len(middle \o after) = Len(s) + 1
      /\ \A j \in 1..Len(s) + 1 :
            (middle \o after)[j] = IF j <= i THEN middle[j] ELSE after[j - i]
  <2>1. /\ middle \o after \in Seq(S)
        /\ Len(middle \o after) = Len(middle) + Len(after)
        /\ \A j \in 1..Len(middle) + Len(after) :
            (middle \o after)[j] = IF j <= Len(middle) THEN middle[j]
                                   ELSE after[j - Len(middle)]
    BY <1>2, <1>5, ConcatProperties
  <2> QED BY <1>2, <1>5, <2>1
<1>7. \A j \in 1..Len(s) + 1 : j > i => after[j - i] = s[j - 1]
  BY <1>2
<1> QED BY <1>3, <1>5, <1>6, <1>7 DEF middle

\* Elements after the removed one move down.
LEMMA RemoveAtProperties ==
    ASSUME NEW S, NEW s \in Seq(S), NEW i \in 1..Len(s)
    PROVE  /\ RemoveAt(s, i) \in Seq(S)
           /\ Len(RemoveAt(s, i)) = Len(s) - 1
           /\ \A j \in 1..Len(s) - 1 :
                RemoveAt(s, i)[j] = IF j < i THEN s[j] ELSE s[j + 1]
<1> DEFINE before == SubSeq(s, 1, i - 1)
           after == SubSeq(s, i + 1, Len(s))
<1>1. before \in Seq(S) /\ Len(before) = i - 1
      /\ \A j \in 1..i - 1 : before[j] = s[j]
  OBVIOUS
<1>2. after \in Seq(S) /\ Len(after) = Len(s) - i
      /\ \A j \in 1..Len(s) - i : after[j] = s[i + j]
  OBVIOUS
<1>3. RemoveAt(s, i) = before \o after
  BY DEF RemoveAt
<1> HIDE DEF before, after
<1>4. /\ before \o after \in Seq(S) /\ Len(before \o after) = Len(s) - 1
      /\ \A j \in 1..Len(s) - 1 :
            (before \o after)[j] = IF j < i THEN before[j] ELSE after[j - i + 1]
  <2>1. /\ before \o after \in Seq(S)
        /\ Len(before \o after) = Len(before) + Len(after)
        /\ \A j \in 1..Len(before) + Len(after) :
            (before \o after)[j] = IF j <= Len(before) THEN before[j]
                                   ELSE after[j - Len(before)]
    BY <1>1, <1>2, ConcatProperties
  <2> DEFINE both == before \o after
             m == Len(before)
             n == Len(after)
  <2>2. m = i - 1 /\ n = Len(s) - i /\ Len(s) \in Nat
    BY <1>1, <1>2
  <2>3. /\ both \in Seq(S) /\ Len(both) = m + n
        /\ \A j \in 1..m + n : both[j] = IF j <= m THEN before[j] ELSE after[j - m]
    BY <2>1
  <2> HIDE DEF both, m, n
  <2>4. Len(both) = Len(s) - 1
    BY <2>2, <2>3
  <2>5. ASSUME NEW j \in 1..Len(s) - 1
        PROVE  both[j] = IF j < i THEN before[j] ELSE after[j - i + 1]
    <3>1. j \in 1..m + n /\ (j <= m <=> j < i) /\ j - m = j - i + 1
      BY <2>2
    <3> QED BY <2>3, <3>1
  <2> QED BY <2>3, <2>4, <2>5 DEF both
<1>5. \A j \in 1..Len(s) - 1 : ~(j < i) => after[j - i + 1] = s[j + 1]
  BY <1>2
<1> QED BY <1>1, <1>3, <1>4, <1>5

\* A set of numbers that is not empty has a first one.
LEMMA FirstExists ==
    ASSUME NEW T \in SUBSET Nat, T /= {}
    PROVE  \E i \in T : \A j \in T : i <= j
<1> DEFINE R == OpToRel(<, Nat)
<1>1. PICK i \in T : \A j \in T : ~(<<j, i>> \in R)
  BY NatLessThanWellFounded, WFMin
<1>2. \A j \in T : ~(j < i)
  BY <1>1 DEF OpToRel
<1> QED BY <1>2

----
\* What the system keeps of a directory: no two entries have one name.
DirectoryOK(dir) ==
    /\ dir \in Seq(Entries)
    /\ \A i, j \in DOMAIN dir : dir[i].name = dir[j].name => i = j

LEMMA SequenceDomain ==
    ASSUME NEW S, NEW s \in Seq(S)
    PROVE  DOMAIN s = 1..Len(s) /\ Len(s) \in Nat /\ \A i \in 1..Len(s) : s[i] \in S
OBVIOUS

LEMMA InsertedDirectory ==
    ASSUME NEW dir, DirectoryOK(dir), NEW i \in 1..Len(dir) + 1, NEW e \in Entries,
           LStat(dir, e.name) = {}
    PROVE  DirectoryOK(InsertAt(dir, i, e))
<1> DEFINE new == InsertAt(dir, i, e)
<1>1. dir \in Seq(Entries)
  BY DEF DirectoryOK
<1>2. /\ new \in Seq(Entries) /\ Len(new) = Len(dir) + 1
      /\ \A j \in 1..Len(dir) + 1 :
            new[j] = IF j < i THEN dir[j] ELSE IF j = i THEN e ELSE dir[j - 1]
  <2>1. i \in 1..Len(dir) + 1 /\ e \in Entries
    OBVIOUS
  <2>2. /\ InsertAt(dir, i, e) \in Seq(Entries)
        /\ Len(InsertAt(dir, i, e)) = Len(dir) + 1
        /\ \A j \in 1..Len(dir) + 1 :
            InsertAt(dir, i, e)[j] = IF j < i THEN dir[j]
                                     ELSE IF j = i THEN e ELSE dir[j - 1]
    BY <1>1, <2>1, InsertAtProperties
  <2> QED BY <2>2
<1> HIDE DEF new
<1>3. \A j \in 1..Len(dir) : dir[j].name /= e.name
  BY <1>1 DEF LStat, ToSet
<1>4. \A j, k \in 1..Len(dir) : dir[j].name = dir[k].name => j = k
  BY <1>1 DEF DirectoryOK
<1>5. ASSUME NEW j \in 1..Len(new), NEW k \in 1..Len(new), new[j].name = new[k].name
      PROVE  j = k
  <2> DEFINE Old(m) == IF m < i THEN m ELSE m - 1
  <2>1. \A m \in 1..Len(new) :
            m /= i => Old(m) \in 1..Len(dir) /\ new[m].name = dir[Old(m)].name
    BY <1>1, <1>2
  <2>2. new[i].name = e.name /\ i \in 1..Len(new)
    BY <1>1, <1>2
  <2>3. CASE j = i \/ k = i
    BY <1>3, <1>5, <2>1, <2>2, <2>3
  <2>4. CASE j /= i /\ k /= i
    <3>1. Old(j) = Old(k)
      BY <1>4, <1>5, <2>1, <2>4
    <3> QED BY <1>1, <2>4, <3>1
  <2> QED BY <2>3, <2>4
<1> QED BY <1>2, <1>5 DEF DirectoryOK, new

\* What is removed is gone, and takes nothing with it.
LEMMA RemovedDirectory ==
    ASSUME NEW dir, DirectoryOK(dir), NEW i \in DOMAIN dir
    PROVE  /\ DirectoryOK(RemoveAt(dir, i))
           /\ LStat(RemoveAt(dir, i), dir[i].name) = {}
           /\ ToSet(RemoveAt(dir, i)) \subseteq ToSet(dir)
<1> DEFINE rest == RemoveAt(dir, i)
<1>1. dir \in Seq(Entries) /\ i \in 1..Len(dir)
  BY DEF DirectoryOK
<1>2. /\ rest \in Seq(Entries) /\ Len(rest) = Len(dir) - 1
      /\ \A j \in 1..Len(dir) - 1 : rest[j] = IF j < i THEN dir[j] ELSE dir[j + 1]
  BY <1>1, RemoveAtProperties
<1> HIDE DEF rest
<1>3. \A j, k \in 1..Len(dir) : dir[j].name = dir[k].name => j = k
  BY <1>1 DEF DirectoryOK
<1>4. ASSUME NEW j \in 1..Len(rest), NEW k \in 1..Len(rest),
             rest[j].name = rest[k].name
      PROVE  j = k
  <2> DEFINE x == IF j < i THEN j ELSE j + 1
             y == IF k < i THEN k ELSE k + 1
  <2>1. /\ x \in 1..Len(dir) /\ y \in 1..Len(dir)
        /\ j \in 1..Len(dir) - 1 /\ k \in 1..Len(dir) - 1
        /\ (x = y => j = k)
    BY <1>1, <1>2
  <2>2. rest[j] = dir[x] /\ rest[k] = dir[y]
    BY <1>2, <2>1
  <2> HIDE DEF x, y
  <2> QED BY <1>3, <1>4, <2>1, <2>2
<1>5. \A j \in 1..Len(rest) : rest[j].name /= dir[i].name
  BY <1>1, <1>2, <1>3
<1>6. ASSUME NEW j \in 1..Len(rest) PROVE rest[j] \in ToSet(dir)
  <2>1. rest[j] = IF j < i THEN dir[j] ELSE dir[j + 1]
    BY <1>2
  <2>2. j \in 1..Len(dir) /\ j + 1 \in 1..Len(dir)
    BY <1>1, <1>2
  <2>3. \A k \in 1..Len(dir) : dir[k] \in ToSet(dir)
    BY <1>1 DEF ToSet
  <2> QED BY <2>1, <2>2, <2>3
<1>7. DirectoryOK(rest)
  BY <1>2, <1>4 DEF DirectoryOK
<1>8. LStat(rest, dir[i].name) = {}
  BY <1>2, <1>5 DEF LStat, ToSet
<1>9. ToSet(rest) \subseteq ToSet(dir)
  BY <1>2, <1>6 DEF ToSet
<1> QED BY <1>7, <1>8, <1>9 DEF rest

----
LEMMA EntryFields ==
    ASSUME NEW e \in Entries
    PROVE  e.name \in Name /\ e.kind \in {"file", "dir", "link"} /\ e.target \in Name
BY NamespaceAssumption DEF EntryType

LEMMA EntriesOf ==
    ASSUME NEW dir \in Seq(Entries)
    PROVE  /\ ToSet(dir) \subseteq Entries
           /\ \A e \in ToSet(dir) : \E i \in 1..Len(dir) : dir[i] = e
BY DEF ToSet

\* Names made by the program are names.
LEMMA ConvertedName ==
    ASSUME NEW n \in Name
    PROVE  convert_extension(n) \in Name
<1>1. n \in Seq(Part) /\ n /= <<>> /\ desttype \in Part
  BY NamespaceAssumption DEF Name
<1>2. Front(n) \in Seq(Part)
  BY <1>1 DEF Front
<1>3. Append(Front(n), desttype) \in Seq(Part) /\ Append(Front(n), desttype) /= <<>>
  BY <1>1, <1>2
<1> QED BY <1>1, <1>3 DEF convert_extension, Name

LEMMA ShownName ==
    ASSUME NEW e \in Entries
    PROVE  Shown(e) \in Name
BY EntryFields, ConvertedName DEF Shown

\* What transcode_source returns is the name it was given or that of an entry.
LEMMA SourceName ==
    ASSUME NEW dir \in Seq(Entries), NEW n \in Name
    PROVE  transcode_source(dir, n) \in Name
<1> DEFINE hits == {i \in DOMAIN dir : IsSourceOf(dir[i], n)}
<1>1. CASE hits = {}
  BY <1>1 DEF transcode_source
<1>2. CASE hits /= {}
  <2>1. hits \in SUBSET Nat /\ hits \subseteq 1..Len(dir)
    OBVIOUS
  <2> HIDE DEF hits
  <2>2. \E i \in hits : \A j \in hits : i <= j
    BY <1>2, <2>1, FirstExists
  <2> DEFINE first == CHOOSE i \in hits : \A j \in hits : i <= j
  <2>3. first \in hits
    BY <2>2
  <2>4. transcode_source(dir, n) = dir[first].name
    BY <1>2 DEF transcode_source, hits
  <2> HIDE DEF first
  <2>5. dir[first] \in Entries
    BY <2>1, <2>3
  <2> QED BY <2>4, <2>5, EntryFields
<1> QED BY <1>1, <1>2

\* A name does not end in a decoder's extension and in that of the destination.
LEMMA NotBothExtensions ==
    ASSUME NEW n
    PROVE  ~(HasDecoder(n) /\ IsDestination(n))
BY NamespaceAssumption DEF HasDecoder, IsDestination

LEMMA NotItsOwnSource ==
    ASSUME NEW e
    PROVE  ~IsSourceOf(e, e.name)
BY NotBothExtensions DEF IsSourceOf

\* A converted name has the destination's extension, and is another one.
LEMMA ConvertedIsAnother ==
    ASSUME NEW n \in Name, HasDecoder(n)
    PROVE  IsDestination(convert_extension(n)) /\ convert_extension(n) /= n
<1> DEFINE f == Front(n)
           m == Append(f, desttype)
<1>1. n \in Seq(Part) /\ desttype \in Part /\ Len(n) > 1 /\ convert_extension(n) = m
  BY NamespaceAssumption DEF Name, HasDecoder, convert_extension
<1>2. f \in Seq(Part) /\ Len(f) = Len(n) - 1
  BY <1>1 DEF Front
<1> HIDE DEF f
<1>3. m \in Seq(Part) /\ Len(m) = Len(n) /\ m[Len(n)] = desttype
  BY <1>1, <1>2
<1> HIDE DEF m
<1>4. IsDestination(m)
  BY <1>1, <1>3 DEF IsDestination, Last
<1> QED BY <1>1, <1>4, NotBothExtensions

\* An entry with a decoder is a source for the name under which it is listed.
LEMMA SourceOfShown ==
    ASSUME NEW e \in Entries, Shown(e) /= e.name
    PROVE  /\ HasDecoder(e.name) /\ e.kind /= "dir"
           /\ IsDestination(Shown(e))
           /\ IsSourceOf(e, Shown(e))
<1> DEFINE n == e.name
           m == Append(Front(n), desttype)
<1>1. HasDecoder(n) /\ e.kind /= "dir" /\ Shown(e) = m
  BY DEF Shown, convert_extension
<1>2. n \in Seq(Part) /\ desttype \in Part /\ Len(n) > 1
  BY <1>1, EntryFields, NamespaceAssumption DEF Name, HasDecoder
<1> HIDE DEF n
<1> DEFINE f == Front(n)
<1>3. f \in Seq(Part) /\ Len(f) = Len(n) - 1 /\ \A i \in 1..Len(f) : f[i] = n[i]
  BY <1>2 DEF Front
<1> HIDE DEF f
<1>4. /\ m \in Seq(Part) /\ Len(m) = Len(n) /\ m[Len(n)] = desttype
      /\ \A i \in 1..Len(f) : m[i] = f[i]
  <2>1. m = Append(f, desttype)
    BY DEF f
  <2> QED BY <1>2, <1>3, <2>1
<1> HIDE DEF m
<1>5. IsDestination(m)
  BY <1>2, <1>4 DEF IsDestination, Last
<1>6. Front(m) = f
  BY <1>2, <1>3, <1>4 DEF Front
<1>7. IsStrictPrefix(f, n)
  <2>1. f /= n /\ Len(f) <= Len(n)
    BY <1>2, <1>3
  <2>2. SubSeq(f, 1, Len(f)) = SubSeq(n, 1, Len(f))
    BY <1>2, <1>3
  <2> QED BY <2>1, <2>2 DEF IsStrictPrefix, IsPrefix
<1> QED BY <1>1, <1>5, <1>6, <1>7 DEF IsSourceOf, n

\* The name under which an unambiguous entry is listed leads back to it.
LEMMA SourceOfListed ==
    ASSUME NEW dir, DirectoryOK(dir), NEW e \in ToSet(dir), Unambiguous(dir, e)
    PROVE  transcode_source(dir, Shown(e)) = e.name
<1> DEFINE n == Shown(e)
           hits == {i \in DOMAIN dir : IsSourceOf(dir[i], n)}
<1>0. dir \in Seq(Entries) /\ e \in Entries
  BY EntriesOf DEF DirectoryOK
<1>1. \A i \in DOMAIN dir : dir[i] /= e => ~IsSourceOf(dir[i], n)
  BY DEF Unambiguous, ToSet
<1>2. CASE Shown(e) = e.name
  <2>1. ~IsSourceOf(e, n)
    BY <1>2, NotItsOwnSource
  <2>2. hits = {}
    BY <1>1, <2>1
  <2> QED BY <1>2, <2>2 DEF transcode_source
<1>3. CASE Shown(e) /= e.name
  <2>1. IsSourceOf(e, n)
    BY <1>0, <1>3, SourceOfShown
  <2>2. PICK k \in 1..Len(dir) : dir[k] = e
    BY <1>0, EntriesOf
  <2>3. \A i \in 1..Len(dir) : dir[i] = e => i = k
    BY <1>0, <2>2 DEF DirectoryOK
  <2>4. hits = {k}
    BY <1>0, <1>1, <2>1, <2>2, <2>3
  <2> HIDE DEF hits
  <2>5. (CHOOSE i \in hits : \A j \in hits : i <= j) = k
    BY <2>4
  <2>6. transcode_source(dir, n) = dir[CHOOSE i \in hits : \A j \in hits : i <= j].name
    BY <2>4 DEF transcode_source, hits
  <2> QED BY <2>2, <2>5, <2>6
<1> QED BY <1>2, <1>3

\* lstat and open find an entry that is there, and it alone.
LEMMA FindsOwnName ==
    ASSUME NEW dir, DirectoryOK(dir), NEW e \in ToSet(dir)
    PROVE  /\ LStat(dir, e.name) = {e}
           /\ e.kind /= "link" => Followed(dir, e.name) = {e}
<1>0. dir \in Seq(Entries)
  BY DEF DirectoryOK
<1>1. \A d \in ToSet(dir) : d.name = e.name => d = e
  BY <1>0 DEF DirectoryOK, ToSet
<1>2. LStat(dir, e.name) = {e}
  BY <1>1 DEF LStat
<1> QED BY <1>1, <1>2 DEF Followed

\* Where no entry has the name there is nothing to find or to follow.
LEMMA FindsNothing ==
    ASSUME NEW dir, NEW n, \A e \in ToSet(dir) : e.name /= n
    PROVE  LStat(dir, n) = {} /\ Followed(dir, n) = {}
BY DEF LStat, Followed

LEMMA NoSourceFound ==
    ASSUME NEW dir, NEW n, NothingFor(dir, n)
    PROVE  /\ transcode_source(dir, n) = n
           /\ LStat(dir, n) = {} /\ Followed(dir, n) = {}
BY FindsNothing DEF NothingFor, transcode_source, ToSet

\* The name under which an unambiguous entry is listed is its own, or nobody's.
LEMMA ListedNameIsFree ==
    ASSUME NEW dir, DirectoryOK(dir), NEW e \in ToSet(dir), Unambiguous(dir, e),
           Shown(e) /= e.name
    PROVE  LStat(dir, Shown(e)) = {} /\ Followed(dir, Shown(e)) = {}
BY FindsNothing DEF Unambiguous
----
\* Where the steps of an operation lead, and what it has by then.
StepsOK ==
    /\ pc = "normal" => op \in {"getattr", "open", "statfs"}
    /\ pc \in {"opendir", "list"} <=> op = "readdir" /\ pc /= "idle"
    /\ pc \in {"rescan", "transcode"} => op = "getattr" /\ answer \in AttributesType
    /\ pc = "list" => answer \in ListingType

\* The history variables say something of the directory as it is now.
HistoryOK ==
    /\ \A e \in distinct : Unambiguous(directory, e)
    /\ absent => NothingFor(directory, name)

\* An operation that tries the path as it is goes no further when it is there.
NoScanForOwnName ==
    pc \in {"scan", "found", "rescan", "transcode"} =>
        \A e \in present : name = e.name =>
            op /= "getattr" /\ (op \in {"open", "statfs"} => e.kind = "link")

\* What transcode_source finds for the listed name of an entry is that entry,
\* and where there is nothing it finds nothing.
FoundOK ==
    /\ pc \in {"found", "transcode"} =>
        \A e \in distinct : name = Shown(e) => found = e.name
    /\ absent => /\ pc = "found" => found = name
                 /\ pc \notin {"rescan", "transcode"}

\* The attributes that wait for the size are those of the entry.
AttributesOK ==
    pc \in {"rescan", "transcode"} =>
        \A e \in distinct : name = Shown(e) =>
            answer = Attributes(e, e.name) /\ e.kind = "file"

\* What readdir has not come to, it has listed.
ListedSoFar ==
    pc = "list" => \A e \in present :
        e \in ToSet(listing) \/ [name |-> Shown(e), kind |-> e.kind] \in answer.names

StepInv ==
    /\ TypeOK
    /\ StepsOK
    /\ HistoryOK
    /\ NoScanForOwnName
    /\ FoundOK
    /\ AttributesOK
    /\ ListedSoFar

\* What Namespace promises of the operations.
Lookups ==
    /\ ListedNameLeadsToItsEntry
    /\ LinksLeadToListedNames
    /\ PassThroughWins
    /\ NothingComesOfNothing
    /\ ListingIsComplete

NamespaceInv == StepInv /\ Lookups

\* The answers that the operations make have their type.
LEMMA AnswersTyped ==
    /\ \A error \in {"none", "pending", "ENOENT", "EINVAL", "EIO", "crash"} :
        Failed(error) \in AnswerType
    /\ \A e \in Entries, n \in Name :
        /\ Attributes(e, n) \in AttributesType
        /\ Attributes(e, n) \in AnswerType
    /\ \A reader \in {"file", "transcoder"}, n \in Name :
        Opened(reader, n) \in AnswerType
    /\ \A n \in Name : FileSystemOf(n) \in AnswerType /\ LinkText(n) \in AnswerType
    /\ AttributesType \subseteq AnswerType /\ ListingType \subseteq AnswerType
<1>1. \A e \in Entries, n \in Name : Attributes(e, n) \in AttributesType
  BY EntryFields DEF Attributes, AttributesType
<1>2. \A reader \in {"file", "transcoder"}, n \in Name :
        Opened(reader, n) \in [status : {"ok"}, reader : {"file", "transcoder"}, of : Name]
  BY DEF Opened
<1>3. \A n \in Name : /\ FileSystemOf(n) \in [status : {"ok"}, filesystemOf : Name]
                      /\ LinkText(n) \in [status : {"ok"}, text : Name]
  BY DEF FileSystemOf, LinkText
<1> QED BY <1>1, <1>2, <1>3 DEF AnswerType

\* What a listing grows by.
LEMMA ListingGrows ==
    ASSUME NEW names, Listing(names) \in ListingType, NEW e \in Entries
    PROVE  Listing(names \cup {[name |-> Shown(e), kind |-> e.kind]}) \in ListingType
BY ShownName, EntryFields DEF Listing, ListingType

LEMMA ListingFields ==
    ASSUME NEW a \in ListingType
    PROVE  a = Listing(a.names) /\ a.status = "ok"
BY DEF Listing, ListingType

Typed == TypeOK /\ StepsOK

LEMMA InitTyped == Init => Typed
<1> SUFFICES ASSUME Init PROVE Typed
  OBVIOUS
<1>1. directory \in Seq(Entries) /\ listing \in Seq(Entries) /\ DOMAIN directory = {}
  BY DEF Init
<1>2. found \in Name /\ answer \in AnswerType
  BY NamespaceAssumption, AnswersTyped DEF Init
<1> QED BY <1>1, <1>2 DEF Init, Typed, TypeOK, StepsOK

LEMMA ChangeTyped ==
    ASSUME Typed, NEW dir, DirectoryOK(dir), dir /= <<>> => exists, Change(dir)
    PROVE  Typed'
<1>1. /\ directory' = dir
      /\ UNCHANGED <<exists, pc, op, name, found, listing, answer>>
      /\ present' \subseteq ToSet(dir)
      /\ distinct' \subseteq distinct \cap ToSet(dir)
      /\ present' = present \cap ToSet(dir)
  BY DEF Change
<1>2. TypeOK'
  BY <1>1 DEF Typed, TypeOK, DirectoryOK
<1>3. StepsOK'
  BY <1>1 DEF Typed, StepsOK
<1> QED BY <1>2, <1>3 DEF Typed

\* What others do to the directory is a change to a proper one.
LEMMA DirectoryChanges ==
    ASSUME Typed, Create \/ Delete \/ Rename
    PROVE  \E dir : DirectoryOK(dir) /\ (dir /= <<>> => exists) /\ Change(dir)
<1>0. DirectoryOK(directory) /\ directory \in Seq(Entries)
  BY DEF Typed, TypeOK, DirectoryOK
<1>1. CASE Create
  BY <1>0, <1>1, InsertedDirectory DEF Create
<1>2. ASSUME NEW i \in DOMAIN directory PROVE exists
  BY <1>0 DEF Typed, TypeOK
<1>3. CASE Delete
  BY <1>0, <1>2, <1>3, RemovedDirectory DEF Delete
<1>4. CASE Rename
  <2>1. PICK i \in DOMAIN directory, new \in Entries :
            LET rest == RemoveAt(directory, i)
                Enter(dir) == \E k \in 1..Len(dir) + 1 : Change(InsertAt(dir, k, new))
            IN  \/ LStat(rest, new.name) = {} /\ Enter(rest)
                \/ \E j \in DOMAIN rest :
                    rest[j].name = new.name /\ Enter(RemoveAt(rest, j))
    BY <1>4 DEF Rename
  <2> DEFINE rest == RemoveAt(directory, i)
  <2>2. DirectoryOK(rest)
    BY <1>0, RemovedDirectory
  <2> HIDE DEF rest
  <2>3. \E dir : /\ DirectoryOK(dir) /\ LStat(dir, new.name) = {}
                 /\ \E k \in 1..Len(dir) + 1 : Change(InsertAt(dir, k, new))
    <3>1. CASE LStat(rest, new.name) = {}
               /\ \E k \in 1..Len(rest) + 1 : Change(InsertAt(rest, k, new))
      BY <2>2, <3>1
    <3>2. ASSUME NEW j \in DOMAIN rest, rest[j].name = new.name,
                 \E k \in 1..Len(RemoveAt(rest, j)) + 1 :
                    Change(InsertAt(RemoveAt(rest, j), k, new))
          PROVE  \E dir : /\ DirectoryOK(dir) /\ LStat(dir, new.name) = {}
                          /\ \E k \in 1..Len(dir) + 1 : Change(InsertAt(dir, k, new))
      BY <2>2, <3>2, RemovedDirectory
    <3> QED BY <2>1, <3>1, <3>2 DEF rest
  <2>4. exists
    BY <1>2
  <2> QED BY <2>3, <2>4, InsertedDirectory
<1> QED BY <1>1, <1>3, <1>4

LEMMA BeginTyped ==
    ASSUME Typed, NEW o \in {"getattr", "open", "readlink", "statfs", "readdir"},
           NEW n \in Requests, Begin(o, n)
    PROVE  Typed'
<1>1. /\ UNCHANGED <<exists, directory, listing>>
      /\ op' = o /\ name' = n /\ found' = n /\ answer' = Failed("pending")
      /\ present' = ToSet(directory) /\ distinct' \subseteq ToSet(directory)
  BY DEF Begin
<1>2. pc' = IF o = "readdir" THEN "opendir" ELSE IF o = "readlink" THEN "scan"
            ELSE "normal"
  BY DEF Begin
<1>3. answer' \in AnswerType /\ found' \in Name
  BY <1>1, AnswersTyped, NamespaceAssumption
<1>4. TypeOK'
  BY <1>1, <1>2, <1>3 DEF Typed, TypeOK
<1>5. StepsOK'
  BY <1>1, <1>2 DEF StepsOK
<1> QED BY <1>4, <1>5 DEF Typed

\* The entries that lstat and open find are entries.
LEMMA FoundEntries ==
    ASSUME Typed, NEW n
    PROVE  LStat(directory, n) \subseteq Entries /\ Followed(directory, n) \subseteq Entries
BY EntriesOf DEF Typed, TypeOK, LStat, Followed

\* The variables that a system call leaves alone.
Undisturbed == UNCHANGED <<exists, directory, op, name, present, distinct, absent>>

\* A step that changes none of the others keeps their types.
LEMMA StepTyped ==
    ASSUME Typed, Undisturbed, found' \in Name, listing' \in Seq(Entries),
           answer' \in AnswerType,
           pc' \in {"idle", "normal", "scan", "found", "rescan", "transcode", "opendir",
                   "list", "crashed"}
    PROVE  TypeOK'
BY DEF Typed, TypeOK, Undisturbed

LEMMA TryNormalTyped ==
    ASSUME Typed, LStatNormal \/ OpenNormal \/ StatNormal
    PROVE  Typed'
<1>1. /\ Undisturbed /\ UNCHANGED <<found, listing>>
      /\ pc = "normal" /\ op \in {"getattr", "open", "statfs"}
      /\ pc' \in {"scan", "idle"}
  BY DEF LStatNormal, OpenNormal, StatNormal, Undisturbed, At, GoTo, Return
<1>2. answer' \in AnswerType
  <2>1. \A e \in LStat(directory, name) : e \in Entries /\ e.name \in Name
    BY FoundEntries, EntryFields
  <2>2. \A e \in Followed(directory, name) : e \in Entries /\ e.name \in Name
    BY FoundEntries, EntryFields
  <2>3. answer \in AnswerType /\ name \in Name
    BY NamespaceAssumption DEF Typed, TypeOK
  <2>4. CASE LStatNormal
    BY <2>1, <2>3, <2>4, AnswersTyped DEF LStatNormal, GoTo, Return
  <2>5. CASE OpenNormal
    BY <2>2, <2>3, <2>5, AnswersTyped DEF OpenNormal, GoTo, Return
  <2>6. CASE StatNormal
    BY <2>3, <2>6, AnswersTyped DEF StatNormal, GoTo, Return
  <2> QED BY <2>4, <2>5, <2>6
<1>3. TypeOK'
  BY <1>1, <1>2, StepTyped DEF Typed, TypeOK
<1>4. StepsOK'
  BY <1>1 DEF StepsOK, Typed, Undisturbed
<1> QED BY <1>3, <1>4 DEF Typed

LEMMA ScanTyped ==
    ASSUME Typed, Scan \/ ScanCrashes
    PROVE  Typed'
<1>1. /\ Undisturbed /\ UNCHANGED listing
      /\ pc \in {"scan", "rescan"}
      /\ \/ pc' = "crashed" /\ answer' = Failed("crash") /\ found' = found
         \/ /\ found' = transcode_source(directory, name) /\ answer' = answer
            /\ pc' = IF pc = "scan" THEN "found" ELSE "transcode"
  BY DEF Scan, ScanCrashes, Undisturbed, GoTo
<1>2. found' \in Name /\ answer' \in AnswerType
  BY <1>1, SourceName, AnswersTyped, NamespaceAssumption DEF Typed, TypeOK
<1>3. TypeOK'
  BY <1>1, <1>2, StepTyped DEF Typed, TypeOK
<1>4. StepsOK'
  BY <1>1 DEF StepsOK, Typed, Undisturbed
<1> QED BY <1>3, <1>4 DEF Typed

LEMMA UseFoundTyped ==
    ASSUME Typed,
           ReadlinkFound \/ LStatFound \/ GetTranscodedSize \/ OpenTranscoder \/ StatFound
    PROVE  Typed'
<1>0. found \in Name
  BY DEF Typed, TypeOK
<1>1. \A e \in LStat(directory, found) :
        e \in Entries /\ e.name \in Name /\ convert_extension(e.target) \in Name
  BY FoundEntries, EntryFields, ConvertedName
<1>2. /\ Undisturbed /\ UNCHANGED <<found, listing>>
      /\ pc \in {"found", "transcode"} /\ op /= "readdir"
  BY DEF ReadlinkFound, LStatFound, GetTranscodedSize, OpenTranscoder, StatFound,
         Undisturbed, At
<1>3. /\ pc' = "idle" \/ (pc' = "rescan" /\ op = "getattr" /\ answer' \in AttributesType)
      /\ answer' \in AnswerType
  <2>1. CASE ReadlinkFound
    BY <1>1, <2>1, AnswersTyped DEF ReadlinkFound, Return
  <2>2. CASE LStatFound
    <3>1. CASE LStat(directory, found) = {}
      BY <2>2, <3>1, AnswersTyped DEF LStatFound, Return
    <3>2. CASE LStat(directory, found) /= {}
      BY <1>1, <2>2, <3>2, AnswersTyped DEF LStatFound, At
    <3> QED BY <3>1, <3>2
  <2>3. CASE GetTranscodedSize
    <3>1. answer \in AttributesType
      BY <2>3 DEF GetTranscodedSize, At, Typed, StepsOK
    <3>2. [answer EXCEPT !.size = found] \in AttributesType
      BY <1>0, <3>1 DEF AttributesType
    <3> QED BY <2>3, <3>2, AnswersTyped DEF GetTranscodedSize, Return
  <2>4. CASE OpenTranscoder
    BY <1>0, <2>4, AnswersTyped DEF OpenTranscoder, Return
  <2>5. CASE StatFound
    BY <1>0, <2>5, AnswersTyped DEF StatFound, Return
  <2> QED BY <2>1, <2>2, <2>3, <2>4, <2>5
<1>4. TypeOK'
  BY <1>0, <1>2, <1>3, StepTyped DEF Typed, TypeOK
<1>5. StepsOK'
  BY <1>2, <1>3 DEF StepsOK, Typed, Undisturbed
<1> QED BY <1>4, <1>5 DEF Typed

LEMMA ListTyped ==
    ASSUME Typed, OpenDir \/ ListNext \/ ListEnd
    PROVE  Typed'
<1>1. /\ Undisturbed /\ UNCHANGED found
      /\ pc \in {"opendir", "list"} /\ op = "readdir"
      /\ directory \in Seq(Entries) /\ listing \in Seq(Entries)
  BY DEF OpenDir, ListNext, ListEnd, Undisturbed, Typed, TypeOK, StepsOK
<1>2. /\ listing' \in Seq(Entries)
      /\ \/ pc' = "idle" /\ answer' \in AnswerType
         \/ pc' = "list" /\ answer' \in ListingType
  <2>1. CASE OpenDir
    <3>1. Listing({}) \in ListingType
      BY DEF Listing, ListingType
    <3>2. <<>> \in Seq(Entries)
      OBVIOUS
    <3> QED BY <1>1, <2>1, <3>1, <3>2, AnswersTyped DEF OpenDir, Return
  <2>2. CASE ListNext
    <3>1. answer \in ListingType /\ answer = Listing(answer.names)
      BY <2>2, ListingFields DEF ListNext, Typed, StepsOK
    <3>2. Tail(listing) \in Seq(Entries) /\ <<>> \in Seq(Entries)
      BY <1>1, <2>2 DEF ListNext
    <3>3. CASE LStat(directory, Head(listing).name) = {}
      BY <2>2, <3>2, <3>3, AnswersTyped DEF ListNext, Return
    <3>4. CASE LStat(directory, Head(listing).name) /= {}
      <4>1. PICK e \in LStat(directory, Head(listing).name) :
                /\ listing' = Tail(listing)
                /\ answer' = Listing(answer.names
                                \cup {[name |-> Shown(e), kind |-> e.kind]})
                /\ pc' = pc
        BY <2>2, <3>4 DEF ListNext
      <4>2. e \in Entries
        BY FoundEntries
      <4> QED BY <2>2, <3>1, <3>2, <4>1, <4>2, ListingGrows DEF ListNext
    <3> QED BY <3>3, <3>4
  <2>3. CASE ListEnd
    BY <1>1, <2>3 DEF ListEnd, Return, Typed, TypeOK
  <2> QED BY <2>1, <2>2, <2>3
<1>3. answer' \in AnswerType
  BY <1>2, AnswersTyped
<1>4. TypeOK'
  BY <1>1, <1>2, <1>3, StepTyped DEF Typed, TypeOK
<1>5. StepsOK'
  BY <1>1, <1>2 DEF StepsOK, Typed, Undisturbed
<1> QED BY <1>4, <1>5 DEF Typed

LEMMA RemoveDirectoryTyped ==
    ASSUME Typed, RemoveDirectory
    PROVE  Typed'
BY DEF RemoveDirectory, Typed, TypeOK, StepsOK

LEMMA NextTyped == Typed /\ [Next]_vars => Typed'
<1> SUFFICES ASSUME Typed, [Next]_vars PROVE Typed'
  OBVIOUS
<1>1. CASE UNCHANGED vars
  BY <1>1 DEF vars, Typed, TypeOK, StepsOK
<1>2. CASE Create \/ Delete \/ Rename
  BY <1>2, DirectoryChanges, ChangeTyped
<1>3. CASE RemoveDirectory
  BY <1>3, RemoveDirectoryTyped
<1>4. CASE \/ \E o \in {"getattr", "open", "readlink", "statfs"}, n \in Requests :
                Begin(o, n)
           \/ Begin("readdir", name)
  <2>1. name \in Requests
    BY DEF Typed, TypeOK
  <2> QED BY <1>4, <2>1, BeginTyped
<1>5. CASE LStatNormal \/ OpenNormal \/ StatNormal
  BY <1>5, TryNormalTyped
<1>6. CASE Scan \/ ScanCrashes
  BY <1>6, ScanTyped
<1>7. CASE ReadlinkFound \/ LStatFound \/ GetTranscodedSize \/ OpenTranscoder
           \/ StatFound
  BY <1>7, UseFoundTyped
<1>8. CASE OpenDir \/ ListNext \/ ListEnd
  BY <1>8, ListTyped
<1> QED BY <1>1, <1>2, <1>3, <1>4, <1>5, <1>6, <1>7, <1>8 DEF Next

\* Every variable has its type, no two entries have one name, and the history
\* variables hold entries of the directory.
THEOREM SpecTypeOK == Spec => []TypeOK
<1>1. Init => Typed
  BY InitTyped
<1>2. Typed /\ [Next]_vars => Typed'
  BY NextTyped
<1>3. Typed => TypeOK
  BY DEF Typed
<1> QED BY <1>1, <1>2, <1>3, PTL DEF Spec

----
\* Entries of the history variables are entries of the directory.
LEMMA HistoryEntries ==
    ASSUME Typed
    PROVE  /\ DirectoryOK(directory)
           /\ \A e \in present : e \in ToSet(directory) /\ e \in Entries
           /\ \A e \in distinct : e \in present
BY EntriesOf DEF Typed, TypeOK, DirectoryOK

LEMMA InitInv == Init => NamespaceInv
<1> SUFFICES ASSUME Init PROVE NamespaceInv
  OBVIOUS
<1>1. Typed
  BY InitTyped
<1>2. HistoryOK
  BY DEF Init, HistoryOK, NothingFor, ToSet
<1>3. NoScanForOwnName /\ FoundOK /\ AttributesOK /\ ListedSoFar
  BY DEF Init, NoScanForOwnName, FoundOK, AttributesOK, ListedSoFar
<1>4. Lookups
  BY DEF Init, Lookups, ListedNameLeadsToItsEntry, LinksLeadToListedNames,
         PassThroughWins, NothingComesOfNothing, ListingIsComplete
<1> QED BY <1>1, <1>2, <1>3, <1>4 DEF NamespaceInv, StepInv, Typed

\* What has been promised stays promised while the history shrinks.
LEMMA LessHistory ==
    ASSUME NamespaceInv, UNCHANGED <<pc, op, name, found, listing, answer>>,
           present' \subseteq present, distinct' \subseteq distinct, absent' => absent
    PROVE  NoScanForOwnName' /\ FoundOK' /\ AttributesOK' /\ ListedSoFar' /\ Lookups'
<1> USE DEF NamespaceInv, StepInv
<1>1. NoScanForOwnName' /\ FoundOK' /\ AttributesOK' /\ ListedSoFar'
  BY DEF NoScanForOwnName, FoundOK, AttributesOK, ListedSoFar
<1>2. ListedNameLeadsToItsEntry' /\ LinksLeadToListedNames' /\ PassThroughWins'
  BY DEF Lookups, ListedNameLeadsToItsEntry, LinksLeadToListedNames, PassThroughWins
<1>3. NothingComesOfNothing' /\ ListingIsComplete'
  BY DEF Lookups, NothingComesOfNothing, ListingIsComplete
<1> QED BY <1>1, <1>2, <1>3 DEF Lookups

LEMMA ChangeInv ==
    ASSUME NamespaceInv, Typed', NEW dir, Change(dir)
    PROVE  NamespaceInv'
<1>1. /\ directory' = dir
      /\ UNCHANGED <<pc, op, name, found, listing, answer>>
      /\ present' \subseteq present /\ distinct' \subseteq distinct
      /\ absent' => absent /\ NothingFor(dir, name)
      /\ \A e \in distinct' : Unambiguous(dir, e)
  BY DEF Change
<1>2. HistoryOK'
  BY <1>1 DEF HistoryOK
<1> QED BY <1>1, <1>2, LessHistory DEF NamespaceInv, StepInv, Typed

\* While an operation is under way nothing is promised of its answer, and a crash
\* is one in the scan for a name of the destination type.
LEMMA NoLookupsYet ==
    ASSUME pc' /= "idle", pc' = "crashed" => IsDestination(name')
    PROVE  Lookups'
BY DEF Lookups, ListedNameLeadsToItsEntry, LinksLeadToListedNames, PassThroughWins,
       NothingComesOfNothing, ListingIsComplete

LEMMA BeginInv ==
    ASSUME Typed, Typed', NEW o, o \in {"getattr", "open", "readlink", "statfs", "readdir"},
           NEW n \in Requests, Begin(o, n)
    PROVE  NamespaceInv'
<1>1. /\ op' = o /\ name' = n /\ directory' = directory
      /\ distinct' = {e \in ToSet(directory) : Unambiguous(directory, e)}
      /\ absent' = NothingFor(directory, n)
  BY DEF Begin
<1>2. pc' = IF o = "readdir" THEN "opendir" ELSE IF o = "readlink" THEN "scan"
            ELSE "normal"
  BY DEF Begin
<1>3. HistoryOK'
  BY <1>1 DEF HistoryOK
<1>4. NoScanForOwnName' /\ FoundOK' /\ AttributesOK' /\ ListedSoFar'
  BY <1>1, <1>2 DEF NoScanForOwnName, FoundOK, AttributesOK, ListedSoFar
<1> QED BY <1>2, <1>3, <1>4, NoLookupsYet DEF NamespaceInv, StepInv, Typed

LEMMA HistoryKept ==
    ASSUME HistoryOK, Undisturbed
    PROVE  HistoryOK'
BY DEF HistoryOK, Undisturbed

\* An operation that returns owes nothing more than its answer.
LEMMA ReturnsInv ==
    ASSUME NamespaceInv, Typed', Undisturbed, pc' = "idle", Lookups'
    PROVE  NamespaceInv'
<1>1. NoScanForOwnName' /\ FoundOK' /\ AttributesOK' /\ ListedSoFar'
  BY DEF NoScanForOwnName, FoundOK, AttributesOK, ListedSoFar
<1> QED BY <1>1, HistoryKept DEF NamespaceInv, StepInv, Typed

\* Trying the path as it is finds an entry with that name, and finds nothing
\* where a listed name is a translated one, or where there is nothing.
LEMMA TryingFinds ==
    ASSUME NamespaceInv
    PROVE  /\ \A e \in present : name = e.name =>
                /\ LStat(directory, name) = {e}
                /\ e.kind /= "link" => Followed(directory, name) = {e}
           /\ \A e \in distinct : name = Shown(e) /\ name /= e.name =>
                LStat(directory, name) = {} /\ Followed(directory, name) = {}
           /\ absent => LStat(directory, name) = {} /\ Followed(directory, name) = {}
<1>1. Typed /\ HistoryOK
  BY DEF NamespaceInv, StepInv, Typed
<1>2. ASSUME NEW e \in present, name = e.name
      PROVE  /\ LStat(directory, name) = {e}
             /\ e.kind /= "link" => Followed(directory, name) = {e}
  BY <1>1, <1>2, HistoryEntries, FindsOwnName
<1>3. ASSUME NEW e \in distinct, name = Shown(e), name /= e.name
      PROVE  LStat(directory, name) = {} /\ Followed(directory, name) = {}
  BY <1>1, <1>3, HistoryEntries, ListedNameIsFree DEF HistoryOK
<1>4. absent => LStat(directory, name) = {} /\ Followed(directory, name) = {}
  BY <1>1, NoSourceFound DEF HistoryOK
<1> QED BY <1>2, <1>3, <1>4

\* For a name that is not its own, an entry has a decoder; else it has none.
LEMMA ListedWithDecoder ==
    ASSUME NEW e \in Entries, e.kind /= "dir"
    PROVE  HasDecoder(e.name) <=> Shown(e) /= e.name
BY EntryFields, ConvertedIsAnother DEF Shown, convert_extension

LEMMA TryNormalInv ==
    ASSUME NamespaceInv, Typed', LStatNormal \/ OpenNormal \/ StatNormal
    PROVE  NamespaceInv'
<1>1. /\ Undisturbed /\ UNCHANGED <<found, listing>> /\ Typed
      /\ op \in {"getattr", "open", "statfs"}
  BY DEF LStatNormal, OpenNormal, StatNormal, Undisturbed, At, NamespaceInv, StepInv, Typed
<1>2. ASSUME pc' = "scan",
             \A e \in present : name = e.name =>
                op /= "getattr" /\ (op \in {"open", "statfs"} => e.kind = "link")
      PROVE  NamespaceInv'
  <2>1. NoScanForOwnName' /\ FoundOK' /\ AttributesOK' /\ ListedSoFar'
    BY <1>1, <1>2 DEF NoScanForOwnName, FoundOK, AttributesOK, ListedSoFar, Undisturbed
  <2> QED BY <1>1, <1>2, <2>1, NoLookupsYet, HistoryKept DEF NamespaceInv, StepInv, Typed
<1>3. ASSUME pc' = "idle",
             \A e \in distinct : name = Shown(e) =>
                /\ op = "getattr" => answer' = Attributes(e, e.name)
                /\ op = "open" /\ e.kind = "file" =>
                    answer' = Opened(IF HasDecoder(e.name) THEN "transcoder" ELSE "file",
                                    e.name)
                /\ op = "statfs" /\ e.kind /= "link" => answer' = FileSystemOf(e.name),
             \A e \in present : name = e.name =>
                /\ op = "getattr" => answer' = Attributes(e, e.name)
                /\ op = "open" /\ e.kind = "file" => answer' = Opened("file", e.name)
                /\ op = "statfs" /\ e.kind /= "link" => answer' = FileSystemOf(e.name),
             ~absent
      PROVE  NamespaceInv'
  <2>1. Lookups'
    BY <1>1, <1>3 DEF Lookups, ListedNameLeadsToItsEntry, LinksLeadToListedNames,
       PassThroughWins, NothingComesOfNothing, ListingIsComplete, Undisturbed
  <2> QED BY <1>1, <1>3, <2>1, ReturnsInv
<1>4. CASE LStatNormal
  <2>1. op = "getattr"
    BY <1>4 DEF LStatNormal, At
  <2>2. CASE LStat(directory, name) = {}
    BY <1>2, <1>4, <2>2, TryingFinds DEF LStatNormal, GoTo
  <2>3. CASE LStat(directory, name) /= {}
    <3>1. PICK e \in LStat(directory, name) :
            pc' = "idle" /\ answer' = Attributes(e, e.name)
      BY <1>4, <2>3 DEF LStatNormal, Return
    <3>2. \A d \in present : name = d.name => e = d
      BY TryingFinds
    <3>3. \A d \in distinct : name = Shown(d) => d \in present /\ name = d.name
      BY <1>1, <2>3, TryingFinds, HistoryEntries
    <3>4. ~absent
      BY <2>3, TryingFinds
    <3> QED BY <1>3, <2>1, <3>1, <3>2, <3>3, <3>4
  <2> QED BY <2>2, <2>3
<1>5. CASE OpenNormal
  <2>1. op = "open"
    BY <1>5 DEF OpenNormal, At
  <2>2. CASE Followed(directory, name) = {}
    <3>1. \A e \in present : name = e.name => e.kind = "link"
      BY <2>2, TryingFinds
    <3>2. pc' = "scan"
      BY <1>5, <2>2 DEF OpenNormal, GoTo
    <3> QED BY <1>2, <2>1, <3>1, <3>2
  <2>3. CASE Followed(directory, name) /= {}
    <3>1. PICK e \in Followed(directory, name) :
            pc' = "idle" /\ answer' = Opened("file", e.name)
      BY <1>5, <2>3 DEF OpenNormal, Return
    <3>2. \A d \in present : name = d.name /\ d.kind = "file" => e = d
      BY TryingFinds
    <3>3. \A d \in distinct : name = Shown(d) => d \in present /\ name = d.name
      BY <1>1, <2>3, TryingFinds, HistoryEntries
    <3>4. \A d \in distinct : name = Shown(d) /\ d.kind = "file" => ~HasDecoder(d.name)
      BY <1>1, <3>3, HistoryEntries, ListedWithDecoder
    <3>5. ~absent
      BY <2>3, TryingFinds
    <3> QED BY <1>3, <2>1, <3>1, <3>2, <3>3, <3>4, <3>5
  <2> QED BY <2>2, <2>3
<1>6. CASE StatNormal
  <2>1. op = "statfs"
    BY <1>6 DEF StatNormal, At
  <2>2. CASE Followed(directory, name) = {}
    <3>1. \A e \in present : name = e.name => e.kind = "link"
      BY <2>2, TryingFinds
    <3>2. pc' = "scan"
      BY <1>6, <2>2 DEF StatNormal, GoTo
    <3> QED BY <1>2, <2>1, <3>1, <3>2
  <2>3. CASE Followed(directory, name) /= {}
    <3>1. pc' = "idle" /\ answer' = FileSystemOf(name)
      BY <1>6, <2>3 DEF StatNormal, Return
    <3>2. \A d \in distinct : name = Shown(d) => name = d.name
      BY <2>3, TryingFinds
    <3>3. ~absent
      BY <2>3, TryingFinds
    <3> QED BY <1>3, <2>1, <3>1, <3>2, <3>3
  <2> QED BY <2>2, <2>3
<1> QED BY <1>4, <1>5, <1>6

LEMMA ScanInv ==
    ASSUME NamespaceInv, Typed', Scan \/ ScanCrashes
    PROVE  NamespaceInv'
<1>0. Typed /\ HistoryOK /\ Undisturbed /\ pc \in {"scan", "rescan"}
  BY DEF Scan, ScanCrashes, Undisturbed, NamespaceInv, StepInv, Typed
<1>1. CASE Scan
  <2>1. /\ found' = transcode_source(directory, name) /\ answer' = answer
        /\ pc' = IF pc = "scan" THEN "found" ELSE "transcode"
    BY <1>1 DEF Scan, GoTo
  <2>2. NoScanForOwnName' /\ AttributesOK' /\ ListedSoFar'
    BY <1>0, <2>1 DEF NamespaceInv, StepInv, NoScanForOwnName, AttributesOK, ListedSoFar,
       Undisturbed
  <2>3. ASSUME NEW e \in distinct, name = Shown(e)
        PROVE  found' = e.name
    BY <1>0, <2>1, <2>3, HistoryEntries, SourceOfListed DEF HistoryOK
  <2>4. absent => found' = name /\ pc = "scan"
    BY <1>0, <2>1, NoSourceFound DEF HistoryOK, NamespaceInv, StepInv, FoundOK
  <2>5. FoundOK'
    BY <1>0, <2>1, <2>3, <2>4 DEF FoundOK, Undisturbed
  <2> QED BY <1>0, <2>1, <2>2, <2>5, NoLookupsYet, HistoryKept
          DEF NamespaceInv, StepInv, Typed
<1>2. CASE ScanCrashes
  <2>1. pc' = "crashed" /\ IsDestination(name')
    BY <1>2 DEF ScanCrashes
  <2>2. NoScanForOwnName' /\ FoundOK' /\ AttributesOK' /\ ListedSoFar'
    BY <2>1 DEF NoScanForOwnName, FoundOK, AttributesOK, ListedSoFar
  <2> QED BY <1>0, <2>1, <2>2, NoLookupsYet, HistoryKept DEF NamespaceInv, StepInv, Typed
<1> QED BY <1>1, <1>2

\* What the operations find under the name that transcode_source returned.
LEMMA FoundFinds ==
    ASSUME NamespaceInv, pc \in {"found", "transcode"}
    PROVE  /\ \A e \in distinct : name = Shown(e) =>
                /\ found = e.name /\ LStat(directory, found) = {e}
                /\ e.kind /= "link" => Followed(directory, found) = {e}
           /\ absent => /\ LStat(directory, found) = {} /\ Followed(directory, found) = {}
                        /\ pc = "found"
<1>1. Typed /\ HistoryOK /\ FoundOK
  BY DEF NamespaceInv, StepInv, Typed
<1>2. ASSUME NEW e \in distinct, name = Shown(e)
      PROVE  /\ found = e.name /\ LStat(directory, found) = {e}
             /\ e.kind /= "link" => Followed(directory, found) = {e}
  BY <1>1, <1>2, HistoryEntries, FindsOwnName DEF FoundOK
<1>3. ASSUME absent
      PROVE  LStat(directory, found) = {} /\ Followed(directory, found) = {} /\ pc = "found"
  BY <1>1, <1>3, NoSourceFound DEF FoundOK, HistoryOK
<1> QED BY <1>2, <1>3

LEMMA ReadlinkInv ==
    ASSUME NamespaceInv, Typed', ReadlinkFound
    PROVE  NamespaceInv'
<1>1. Undisturbed /\ op = "readlink" /\ pc = "found" /\ pc' = "idle" /\ Typed
  BY DEF ReadlinkFound, Undisturbed, At, Return, NamespaceInv, StepInv, Typed
<1>2. ASSUME NEW link \in distinct, NEW e \in present, name = Shown(link),
             link.kind = "link", e.kind = "file", e.name = link.target
      PROVE  answer' = LinkText(Shown(e))
  <2>1. LStat(directory, found) = {link}
    BY <1>1, <1>2, FoundFinds
  <2>2. answer' = LinkText(convert_extension(link.target))
    BY <1>2, <2>1 DEF ReadlinkFound, Return
  <2> QED BY <1>2, <2>2 DEF Shown
<1>3. absent => answer' = Failed("ENOENT")
  BY <1>1, FoundFinds DEF ReadlinkFound, Return
<1>4. Lookups'
  BY <1>1, <1>2, <1>3 DEF Lookups, ListedNameLeadsToItsEntry, LinksLeadToListedNames,
     PassThroughWins, NothingComesOfNothing, ListingIsComplete, Undisturbed
<1> QED BY <1>1, <1>4, ReturnsInv

LEMMA LStatFoundInv ==
    ASSUME NamespaceInv, Typed', LStatFound
    PROVE  NamespaceInv'
<1>1. Undisturbed /\ op = "getattr" /\ pc = "found" /\ found' = found /\ Typed
  BY DEF LStatFound, Undisturbed, At, NamespaceInv, StepInv, Typed
<1>2. \A e \in present : name /= e.name
  BY <1>1 DEF NamespaceInv, StepInv, NoScanForOwnName
<1>3. CASE LStat(directory, found) = {}
  <2>1. pc' = "idle" /\ answer' = Failed("ENOENT")
    BY <1>3 DEF LStatFound, Return
  <2>2. \A e \in distinct : name /= Shown(e)
    BY <1>1, <1>3, FoundFinds
  <2>3. Lookups'
    BY <1>1, <1>2, <2>1, <2>2 DEF Lookups, ListedNameLeadsToItsEntry,
       LinksLeadToListedNames, PassThroughWins, NothingComesOfNothing, ListingIsComplete,
       Undisturbed
  <2> QED BY <1>1, <2>1, <2>3, ReturnsInv
<1>4. CASE LStat(directory, found) /= {}
  <2>1. PICK e \in LStat(directory, found) :
            /\ answer' = Attributes(e, e.name)
            /\ pc' = IF e.kind = "file" THEN "rescan" ELSE "idle"
    BY <1>4 DEF LStatFound
  <2>2. \A d \in distinct : name = Shown(d) => e = d
    BY <1>1, FoundFinds
  <2>3. ~absent
    BY <1>1, <1>4, FoundFinds
  <2>4. CASE pc' = "idle"
    <3>1. Lookups'
      BY <1>1, <1>2, <2>1, <2>2, <2>3, <2>4 DEF Lookups, ListedNameLeadsToItsEntry,
         LinksLeadToListedNames, PassThroughWins, NothingComesOfNothing,
         ListingIsComplete, Undisturbed
    <3> QED BY <1>1, <2>4, <3>1, ReturnsInv
  <2>5. CASE pc' /= "idle"
    <3>1. pc' = "rescan" /\ e.kind = "file"
      BY <2>1, <2>5
    <3>2. NoScanForOwnName' /\ FoundOK' /\ AttributesOK' /\ ListedSoFar'
      BY <1>1, <1>2, <2>1, <2>2, <2>3, <3>1 DEF NoScanForOwnName, FoundOK, AttributesOK,
         ListedSoFar, Undisturbed
    <3> QED BY <1>1, <3>1, <3>2, NoLookupsYet, HistoryKept
            DEF NamespaceInv, StepInv, Typed
  <2> QED BY <2>4, <2>5
<1> QED BY <1>3, <1>4

\* A file that is reached under a listed name that is not its own has a decoder.
LEMMA TranslatedHasDecoder ==
    ASSUME NamespaceInv, pc \in {"found", "transcode"}, op \in {"getattr", "open"},
           NEW e \in distinct, name = Shown(e), e.kind = "file"
    PROVE  HasDecoder(e.name) /\ Transcodable(found)
<1>1. Typed /\ NoScanForOwnName
  BY DEF NamespaceInv, StepInv, Typed
<1>2. e \in present /\ e \in Entries
  BY <1>1, HistoryEntries
<1>3. name /= e.name
  BY <1>1, <1>2 DEF NoScanForOwnName
<1>4. HasDecoder(e.name)
  BY <1>2, <1>3, ListedWithDecoder
<1>5. found = e.name /\ Followed(directory, found) = {e}
  BY FoundFinds
<1> QED BY <1>4, <1>5 DEF Transcodable

LEMMA GetTranscodedSizeInv ==
    ASSUME NamespaceInv, Typed', GetTranscodedSize
    PROVE  NamespaceInv'
<1>1. Undisturbed /\ op = "getattr" /\ pc = "transcode" /\ pc' = "idle" /\ Typed
  BY DEF GetTranscodedSize, Undisturbed, At, Return, NamespaceInv, StepInv, Typed
<1>2. \A e \in present : name /= e.name
  BY <1>1 DEF NamespaceInv, StepInv, NoScanForOwnName
<1>3. ASSUME NEW e \in distinct, name = Shown(e)
      PROVE  answer' = Attributes(e, e.name)
  <2>1. answer = Attributes(e, e.name) /\ e.kind = "file"
    BY <1>1, <1>3 DEF NamespaceInv, StepInv, AttributesOK
  <2>2. Transcodable(found) /\ found = e.name
    BY <1>1, <1>3, <2>1, TranslatedHasDecoder, FoundFinds
  <2>3. answer' = [answer EXCEPT !.size = found]
    BY <2>2 DEF GetTranscodedSize, Return
  <2> QED BY <2>1, <2>2, <2>3 DEF Attributes
<1>4. ~absent
  BY <1>1, FoundFinds
<1>5. Lookups'
  BY <1>1, <1>2, <1>3, <1>4 DEF Lookups, ListedNameLeadsToItsEntry,
     LinksLeadToListedNames, PassThroughWins, NothingComesOfNothing, ListingIsComplete,
     Undisturbed
<1> QED BY <1>1, <1>5, ReturnsInv

LEMMA OpenTranscoderInv ==
    ASSUME NamespaceInv, Typed', OpenTranscoder
    PROVE  NamespaceInv'
<1>1. Undisturbed /\ op = "open" /\ pc = "found" /\ pc' = "idle" /\ Typed
  BY DEF OpenTranscoder, Undisturbed, At, Return, NamespaceInv, StepInv, Typed
<1>2. \A e \in present : name = e.name => e.kind = "link"
  BY <1>1 DEF NamespaceInv, StepInv, NoScanForOwnName
<1>3. answer' = IF Transcodable(found) THEN Opened("transcoder", found) ELSE Failed("EIO")
  BY DEF OpenTranscoder, Return
<1>4. ASSUME NEW e \in distinct, name = Shown(e), e.kind = "file"
      PROVE  HasDecoder(e.name) /\ answer' = Opened("transcoder", e.name)
  BY <1>1, <1>3, <1>4, TranslatedHasDecoder, FoundFinds
<1>5. absent => answer' = Failed("EIO")
  BY <1>1, <1>3, FoundFinds DEF Transcodable
<1>6. Lookups'
  BY <1>1, <1>2, <1>4, <1>5 DEF Lookups, ListedNameLeadsToItsEntry,
     LinksLeadToListedNames, PassThroughWins, NothingComesOfNothing, ListingIsComplete,
     Undisturbed
<1> QED BY <1>1, <1>6, ReturnsInv

LEMMA StatFoundInv ==
    ASSUME NamespaceInv, Typed', StatFound
    PROVE  NamespaceInv'
<1>1. Undisturbed /\ op = "statfs" /\ pc = "found" /\ pc' = "idle" /\ Typed
  BY DEF StatFound, Undisturbed, At, Return, NamespaceInv, StepInv, Typed
<1>2. \A e \in present : name = e.name => e.kind = "link"
  BY <1>1 DEF NamespaceInv, StepInv, NoScanForOwnName
<1>3. answer' = IF Followed(directory, found) = {} THEN Failed("ENOENT")
                ELSE FileSystemOf(found)
  BY DEF StatFound, Return
<1>4. ASSUME NEW e \in distinct, name = Shown(e), e.kind /= "link"
      PROVE  answer' = FileSystemOf(e.name)
  BY <1>1, <1>3, <1>4, FoundFinds
<1>5. absent => answer' = Failed("ENOENT")
  BY <1>1, <1>3, FoundFinds
<1>6. Lookups'
  BY <1>1, <1>2, <1>4, <1>5 DEF Lookups, ListedNameLeadsToItsEntry,
     LinksLeadToListedNames, PassThroughWins, NothingComesOfNothing, ListingIsComplete,
     Undisturbed
<1> QED BY <1>1, <1>6, ReturnsInv

\* Where a listing ends, it is complete.
LEMMA ListReturns ==
    ASSUME NamespaceInv, Typed', Undisturbed, op = "readdir", pc' = "idle",
           answer'.status = "ok" =>
                \A e \in present : [name |-> Shown(e), kind |-> e.kind] \in answer'.names
    PROVE  NamespaceInv'
<1>1. Lookups'
  BY DEF Lookups, ListedNameLeadsToItsEntry, LinksLeadToListedNames, PassThroughWins,
     NothingComesOfNothing, ListingIsComplete, Undisturbed
<1> QED BY <1>1, ReturnsInv

LEMMA ListGoesOn ==
    ASSUME NamespaceInv, Typed', Undisturbed, pc' = "list", ListedSoFar'
    PROVE  NamespaceInv'
<1>1. NoScanForOwnName' /\ FoundOK' /\ AttributesOK'
  BY DEF NoScanForOwnName, FoundOK, AttributesOK
<1> QED BY <1>1, NoLookupsYet, HistoryKept DEF NamespaceInv, StepInv, Typed

LEMMA ListInv ==
    ASSUME NamespaceInv, Typed', OpenDir \/ ListNext \/ ListEnd
    PROVE  NamespaceInv'
<1>1. Undisturbed /\ op = "readdir" /\ Typed /\ Listing({}).status = "ok"
  BY DEF OpenDir, ListNext, ListEnd, Undisturbed, NamespaceInv, StepInv, Typed, StepsOK,
     Listing
<1>2. \A error : Failed(error).status = error
  BY DEF Failed
<1>3. CASE OpenDir
  <2>1. CASE exists
    <3>1. pc' = "list" /\ listing' = directory
      BY <1>3, <2>1 DEF OpenDir
    <3>2. ListedSoFar'
      BY <1>1, <3>1, HistoryEntries DEF ListedSoFar, Undisturbed
    <3> QED BY <1>1, <3>1, <3>2, ListGoesOn
  <2>2. CASE ~exists
    BY <1>1, <1>2, <1>3, <2>2, ListReturns DEF OpenDir, Return
  <2> QED BY <2>1, <2>2
<1>4. CASE ListNext
  <2>1. pc = "list" /\ listing \in Seq(Entries) /\ listing /= <<>> /\ ListedSoFar
    BY <1>4 DEF ListNext, NamespaceInv, StepInv, TypeOK
  <2>2. CASE LStat(directory, Head(listing).name) = {}
    BY <1>1, <1>2, <1>4, <2>2, ListReturns DEF ListNext, Return
  <2>3. CASE LStat(directory, Head(listing).name) /= {}
    <3>1. PICK e \in LStat(directory, Head(listing).name) :
            /\ listing' = Tail(listing)
            /\ answer' = Listing(answer.names
                            \cup {[name |-> Shown(e), kind |-> e.kind]})
            /\ pc' = pc
      BY <1>4, <2>3 DEF ListNext
    <3>2. \A d \in ToSet(listing) : d = Head(listing) \/ d \in ToSet(Tail(listing))
      <4>1. ASSUME NEW i \in 1..Len(listing), i /= 1
            PROVE  listing[i] \in ToSet(Tail(listing))
        <5>1. i - 1 \in 1..Len(Tail(listing)) /\ Tail(listing)[i - 1] = listing[i]
          BY <2>1, <4>1
        <5>2. DOMAIN Tail(listing) = 1..Len(Tail(listing))
          BY <2>1
        <5> QED BY <5>1, <5>2 DEF ToSet
      <4>2. Head(listing) = listing[1]
        BY <2>1
      <4> QED BY <2>1, <4>1, <4>2, EntriesOf
    <3>3. \A d \in present : d = Head(listing) => e = d
      BY <1>1, HistoryEntries, FindsOwnName
    <3>4. answer'.names = answer.names \cup {[name |-> Shown(e), kind |-> e.kind]}
      BY <3>1 DEF Listing
    <3>5. ListedSoFar'
      BY <1>1, <2>1, <3>1, <3>2, <3>3, <3>4 DEF ListedSoFar, Undisturbed
    <3> QED BY <1>1, <2>1, <3>1, <3>5, ListGoesOn
  <2> QED BY <2>2, <2>3
<1>5. CASE ListEnd
  <2>1. pc' = "idle" /\ answer' = answer /\ pc = "list" /\ ToSet(listing) = {}
    BY <1>5 DEF ListEnd, Return, ToSet
  <2>2. \A e \in present : [name |-> Shown(e), kind |-> e.kind] \in answer.names
    BY <2>1 DEF NamespaceInv, StepInv, ListedSoFar
  <2> QED BY <1>1, <2>1, <2>2, ListReturns
<1> QED BY <1>3, <1>4, <1>5

LEMMA NextInv == NamespaceInv /\ [Next]_vars => NamespaceInv'
<1> SUFFICES ASSUME NamespaceInv, [Next]_vars PROVE NamespaceInv'
  OBVIOUS
<1>0. Typed /\ Typed'
  BY NextTyped DEF NamespaceInv, StepInv, Typed
<1>1. CASE UNCHANGED vars \/ RemoveDirectory
  <2>1. /\ UNCHANGED <<directory, pc, op, name, found, listing, answer, present, distinct,
                      absent>>
    BY <1>1 DEF vars, RemoveDirectory
  <2>2. HistoryOK'
    BY <2>1 DEF NamespaceInv, StepInv, HistoryOK
  <2> QED BY <1>0, <2>1, <2>2, LessHistory DEF NamespaceInv, StepInv, Typed
<1>2. CASE Create \/ Delete \/ Rename
  BY <1>0, <1>2, DirectoryChanges, ChangeInv
<1>3. CASE \/ \E o \in {"getattr", "open", "readlink", "statfs"}, n \in Requests :
                Begin(o, n)
           \/ Begin("readdir", name)
  <2>1. name \in Requests
    BY <1>0 DEF Typed, TypeOK
  <2> QED BY <1>0, <1>3, <2>1, BeginInv
<1>4. CASE LStatNormal \/ OpenNormal \/ StatNormal
  BY <1>0, <1>4, TryNormalInv
<1>5. CASE Scan \/ ScanCrashes
  BY <1>0, <1>5, ScanInv
<1>6. CASE ReadlinkFound \/ LStatFound \/ GetTranscodedSize \/ OpenTranscoder
           \/ StatFound
  BY <1>0, <1>6, ReadlinkInv, LStatFoundInv, GetTranscodedSizeInv, OpenTranscoderInv,
     StatFoundInv
<1>7. CASE OpenDir \/ ListNext \/ ListEnd
  BY <1>0, <1>7, ListInv
<1> QED BY <1>1, <1>2, <1>3, <1>4, <1>5, <1>6, <1>7 DEF Next

LEMMA SpecInv == Spec => []NamespaceInv
<1>1. Init => NamespaceInv
  BY InitInv
<1>2. NamespaceInv /\ [Next]_vars => NamespaceInv'
  BY NextInv
<1> QED BY <1>1, <1>2, PTL DEF Spec

\* A name under which an entry is listed leads to that entry, for every entry that
\* is there and unambiguous all through the call, whatever else changes.
THEOREM SpecListedName == Spec => []ListedNameLeadsToItsEntry
<1>1. NamespaceInv => ListedNameLeadsToItsEntry
  BY DEF NamespaceInv, Lookups
<1> QED BY <1>1, SpecInv, PTL

\* The text of a link to a file is the name under which that file is listed.
THEOREM SpecLinks == Spec => []LinksLeadToListedNames
<1>1. NamespaceInv => LinksLeadToListedNames
  BY DEF NamespaceInv, Lookups
<1> QED BY <1>1, SpecInv, PTL

\* An entry that is there all through the call is reached under its own name.
THEOREM SpecPassThrough == Spec => []PassThroughWins
<1>1. NamespaceInv => PassThroughWins
  BY DEF NamespaceInv, Lookups
<1> QED BY <1>1, SpecInv, PTL

\* Where there is nothing all through a call, one that returns says so, and one that
\* does not return was for a name of the destination type.
THEOREM SpecNothing == Spec => []NothingComesOfNothing
<1>1. NamespaceInv => NothingComesOfNothing
  BY DEF NamespaceInv, Lookups
<1> QED BY <1>1, SpecInv, PTL

\* A listing that succeeds has every entry that was there all the time.
THEOREM SpecListing == Spec => []ListingIsComplete
<1>1. NamespaceInv => ListingIsComplete
  BY DEF NamespaceInv, Lookups
<1> QED BY <1>1, SpecInv, PTL
====
