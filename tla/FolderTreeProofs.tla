-------------------------- MODULE FolderTreeProofs --------------------------
(***************************************************************************)
(* Theorems about FolderTree, for any alphabet and any list of files.      *)
(*                                                                         *)
(* First what rsplit and PathOf compute: each undoes the other, below the  *)
(* torrent's folder.  Then the invariant: the files of the tree are those  *)
(* of the list added so far, each where the names of its path lead.        *)
(***************************************************************************)
EXTENDS FolderTree, Induction, SequenceTheorems

Text == Seq(Characters \cup {Separator})

-----------------------------------------------------------------------------
\* What rfind_char finds: the last separator before a position, or nothing.
LEMMA RfindChar ==
  ASSUME NEW path \in Text, NEW end \in 1 .. Len(path) + 1
  PROVE  LET found == rfind_char(path, end, Separator)
         IN  /\ found \in 0 .. end - 1
             /\ found > 0 => path[found] = Separator
             /\ \A j \in found + 1 .. end - 1 : path[j] # Separator
<1> DEFINE T == {i \in 1 .. end - 1 : path[i] = Separator}
<1>1. Len(path) \in Nat
  BY DEF Text
<1>2. CASE T = {}
  BY <1>1, <1>2 DEF rfind_char
<1>3. CASE T # {}
  <2>1. T \subseteq 0 .. end - 1 /\ end - 1 \in Nat
    BY <1>1
  <2>2. \E n \in T : \A m \in T : m <= n
    <3> HIDE DEF T
    <3>1. QED
      BY <1>3, <2>1, GreatestOf
  <2>3. rfind_char(path, end, Separator) = CHOOSE i \in T : \A j \in T : j <= i
    BY <1>3 DEF rfind_char
  <2>4. /\ rfind_char(path, end, Separator) \in T
        /\ \A j \in T : j <= rfind_char(path, end, Separator)
    <3> HIDE DEF T
    <3>1. QED
      BY <2>2, <2>3
  <2>5. QED
    BY <1>1, <2>4
<1>4. QED
  BY <1>2, <1>3

\* rsplit's recursion: the names before each position.
Splits(path) ==
  LET From[end \in 1 .. Len(path) + 1] ==
        LET separator == rfind_char(path, end, Separator)
        IN  IF separator > 1
            THEN <<SubSeq(path, separator + 1, end - 1)>> \o From[separator]
            ELSE <<>>
  IN  From

Before(path, from, end) ==
  IF rfind_char(path, end, Separator) > 1
  THEN <<SubSeq(path, rfind_char(path, end, Separator) + 1, end - 1)>>
         \o from[rfind_char(path, end, Separator)]
  ELSE <<>>

\* It is well defined, since a separator found is before the position.
LEMMA SplitsDef ==
  ASSUME NEW path \in Text
  PROVE  /\ Splits(path) = [end \in 1 .. Len(path) + 1 |-> Before(path, Splits(path), end)]
         /\ rsplit(path) = Splits(path)[Len(path) + 1]
<1> DEFINE Defines(f, k) == f = [end \in 1 .. k |-> Before(path, f, end)]
           S == {k \in Nat : k > Len(path) + 1 \/ \E f : Defines(f, k)}
<1>1. Len(path) \in Nat
  BY DEF Text
<1>2. 0 \in S
  <2>1. Defines([end \in 1 .. 0 |-> <<>>], 0)
    OBVIOUS
  <2> HIDE DEF Defines
  <2>2. QED
    BY <2>1
<1>3. ASSUME NEW k \in Nat, k \in S PROVE k + 1 \in S
  <2>1. CASE k + 1 > Len(path) + 1
    BY <2>1
  <2>2. CASE k + 1 <= Len(path) + 1
    <3>1. PICK f : Defines(f, k)
      BY <1>3, <2>2
    <3> DEFINE g == [end \in 1 .. k + 1 |-> Before(path, f, end)]
    <3>2. \A end \in 1 .. k : g[end] = f[end]
      BY <3>1
    <3>3. \A end \in 1 .. k + 1 : Before(path, f, end) = Before(path, g, end)
      <4>1. TAKE end \in 1 .. k + 1
      <4>2. end \in 1 .. Len(path) + 1
        BY <1>1, <2>2
      <4>3. rfind_char(path, end, Separator) \in 0 .. end - 1
        BY <4>2, RfindChar
      <4>4. rfind_char(path, end, Separator) > 1 => rfind_char(path, end, Separator) \in 1 .. k
        BY <1>1, <4>3
      <4> HIDE DEF g
      <4>5. QED
        BY <3>2, <4>4 DEF Before
    <3>4. Defines(g, k + 1)
      BY <3>3
    <3> HIDE DEF g, Defines
    <3>5. QED
      BY <3>4
  <2>3. QED
    BY <1>1, <2>1, <2>2
<1>4. Len(path) + 1 \in S
  <2> HIDE DEF S
  <2>1. QED
    BY <1>1, <1>2, <1>3, Induct
<1>5. \E f : Defines(f, Len(path) + 1)
  BY <1>1, <1>4
<1>6. Splits(path) = CHOOSE f : Defines(f, Len(path) + 1)
  BY Zenon DEF Splits, Before
<1>7. rsplit(path) = Splits(path)[Len(path) + 1]
  BY Zenon DEF rsplit, Splits
<1>8. Defines(Splits(path), Len(path) + 1)
  <2> HIDE DEF Defines
  <2>1. QED
    BY <1>5, <1>6
<1>9. QED
  BY <1>7, <1>8

\* The two equations of the recursion.
LEMMA SplitsAt ==
  ASSUME NEW path \in Text, NEW end \in 1 .. Len(path) + 1,
         NEW s, s = rfind_char(path, end, Separator)
  PROVE  /\ s <= 1 => Splits(path)[end] = <<>>
         /\ s > 1 => Splits(path)[end] = <<SubSeq(path, s + 1, end - 1)>> \o Splits(path)[s]
<1>1. s \in 0 .. end - 1 /\ Len(path) \in Nat
  BY RfindChar DEF Text
<1>2. Splits(path)[end] = Before(path, Splits(path), end)
  BY SplitsDef, Zenon
<1>3. QED
  BY <1>1, <1>2 DEF Before

\* A part of a path without a separator is a name.
LEMMA PartIsName ==
  ASSUME NEW path \in Text, NEW from \in 1 .. Len(path) + 1, NEW to \in 0 .. Len(path),
         \A j \in from .. to : path[j] # Separator
  PROVE  SubSeq(path, from, to) \in Names
<1>1. Len(path) \in Nat /\ \A j \in 1 .. Len(path) : path[j] \in Characters \cup {Separator}
  BY DEF Text
<1>2. \A j \in from .. to : path[j] \in Characters
  BY <1>1
<1>3. from \in Int /\ to \in Int
  OBVIOUS
<1>4. QED
  BY <1>2, <1>3, SubSeqProperties DEF Names

\* rsplit returns names, and none only if the path has no separator that counts.
LEMMA SplitsType ==
  ASSUME NEW path \in Text
  PROVE  \A end \in 1 .. Len(path) + 1 :
           /\ Splits(path)[end] \in Seq(Names)
           /\ Splits(path)[end] = <<>> <=> \A i \in 2 .. end - 1 : path[i] # Separator
<1> DEFINE Good(end) ==
             /\ Splits(path)[end] \in Seq(Names)
             /\ Splits(path)[end] = <<>> <=> \A i \in 2 .. end - 1 : path[i] # Separator
           S == {n \in Nat : n \in 1 .. Len(path) + 1 => Good(n)}
<1>1. Len(path) \in Nat
  BY DEF Text
<1>2. ASSUME NEW n \in Nat, \A m \in 0 .. n - 1 : m \in S, n \in 1 .. Len(path) + 1
      PROVE  Good(n)
  <2> DEFINE s == rfind_char(path, n, Separator)
  <2>1. /\ s \in 0 .. n - 1
        /\ s > 0 => path[s] = Separator
        /\ \A j \in s + 1 .. n - 1 : path[j] # Separator
    BY <1>2, RfindChar
  <2>2. /\ s <= 1 => Splits(path)[n] = <<>>
        /\ s > 1 => Splits(path)[n] = <<SubSeq(path, s + 1, n - 1)>> \o Splits(path)[s]
    BY <1>2, SplitsAt
  <2> HIDE DEF s
  <2>3. CASE s <= 1
    <3>1. \A i \in 2 .. n - 1 : path[i] # Separator
      BY <1>1, <1>2, <2>1, <2>3
    <3>2. Splits(path)[n] = <<>> /\ <<>> \in Seq(Names)
      BY <2>2, <2>3, EmptySeq
    <3>3. QED
      BY <3>1, <3>2
  <2>4. CASE s > 1
    <3>1. s \in S /\ s \in 1 .. Len(path) + 1
      BY <1>1, <1>2, <2>1, <2>4
    <3>2. Splits(path)[s] \in Seq(Names)
      BY <3>1
    <3>3. SubSeq(path, s + 1, n - 1) \in Names
      <4>1. s + 1 \in 1 .. Len(path) + 1 /\ n - 1 \in 0 .. Len(path)
        BY <1>1, <1>2, <2>1, <2>4
      <4>2. QED
        BY <2>1, <4>1, PartIsName
    <3>4. /\ <<SubSeq(path, s + 1, n - 1)>> \in Seq(Names)
          /\ Len(<<SubSeq(path, s + 1, n - 1)>>) = 1
      BY <3>3
    <3> DEFINE r == <<SubSeq(path, s + 1, n - 1)>> \o Splits(path)[s]
    <3>5. r \in Seq(Names) /\ Len(r) = 1 + Len(Splits(path)[s]) /\ Len(Splits(path)[s]) \in Nat
      BY <3>2, <3>4, ConcatProperties, LenProperties
    <3>6. r # <<>>
      BY <3>5
    <3>7. s \in 2 .. n - 1 /\ path[s] = Separator
      BY <1>2, <2>1, <2>4
    <3>8. Splits(path)[n] = r
      BY <2>2, <2>4
    <3> HIDE DEF r
    <3>9. QED
      BY <3>5, <3>6, <3>7, <3>8
  <2>5. QED
    BY <1>2, <2>1, <2>3, <2>4
<1>3. \A n \in Nat : n \in S
  <2>1. \A n \in Nat : (\A m \in 0 .. n - 1 : m \in S) => n \in S
    BY <1>2
  <2> HIDE DEF S
  <2>2. QED
    BY <2>1, StrongInduct
<1>4. QED
  BY <1>1, <1>3

LEMMA RsplitType ==
  ASSUME NEW path \in Text
  PROVE  /\ rsplit(path) \in Seq(Names)
         /\ rsplit(path) = <<>> <=> Inner(path) = {}
<1>1. Len(path) \in Nat /\ Len(path) + 1 \in 1 .. Len(path) + 1 /\ Len(path) + 1 - 1 = Len(path)
  BY DEF Text
<1>2. rsplit(path) = Splits(path)[Len(path) + 1]
  BY SplitsDef
<1>3. /\ rsplit(path) \in Seq(Names)
      /\ rsplit(path) = <<>> <=> \A i \in 2 .. Len(path) : path[i] # Separator
  BY <1>1, <1>2, SplitsType
<1>4. QED
  BY <1>3 DEF Inner

-----------------------------------------------------------------------------
\* The folder a file of these names is in, and its path as PathOf makes it.
FolderOf(split) == [k \in 1 .. Len(split) - 1 |-> split[Len(split) + 1 - k]]

Joined(folder) ==
  LET From[i \in 0 .. Len(folder)] ==
        IF i = 0 THEN <<>> ELSE From[i - 1] \o folder[i] \o <<Separator>>
  IN  From

FolderPath(folder) == Joined(folder)[Len(folder)]

\* A name is a text, and so is what is put together from names.
LEMMA NamesAreTexts ==
  /\ Names \subseteq Text
  /\ <<Separator>> \in Text
  /\ <<>> \in Text
<1>1. \A name \in Names : name \in Text
  <2>1. TAKE name \in Names
  <2>2. QED
    BY SeqMonotonic DEF Names, Text
<1>2. QED
  BY <1>1, EmptySeq DEF Text

\* PathOf's recursion is well defined.
LEMMA JoinedDef ==
  ASSUME NEW folder \in Seq(Names)
  PROVE  /\ Joined(folder) \in [0 .. Len(folder) -> Text]
         /\ Joined(folder)[0] = <<>>
         /\ \A i \in 1 .. Len(folder) :
              Joined(folder)[i] = Joined(folder)[i - 1] \o folder[i] \o <<Separator>>
<1> DEFINE n == Len(folder)
           step == [i \in 1 .. n |-> [v \in Text |-> v \o folder[i] \o <<Separator>>]]
           Body(f) == [i \in 0 .. n |->
                         IF i = 0 THEN <<>> ELSE f[i - 1] \o folder[i] \o <<Separator>>]
<1>1. n \in Nat /\ \A i \in 1 .. n : folder[i] \in Text
  <2>1. n \in Nat /\ \A i \in 1 .. n : folder[i] \in Names
    BY LenProperties, ElementOfSeq
  <2>2. QED
    BY <2>1, NamesAreTexts
<1>2. \A v, w \in Text : v \o w \in Text
  BY ConcatProperties DEF Text
<1>3. \A i \in 1 .. n, v \in Text : v \o folder[i] \o <<Separator>> \in Text
  BY <1>1, <1>2, NamesAreTexts
<1>4. step \in [1 .. n -> [Text -> Text]]
  BY <1>3
<1>5. PICK f \in [0 .. n -> Text] : f[0] = <<>> /\ \A i \in 1 .. n : f[i] = step[i][f[i - 1]]
  <2> DEFINE none == <<>>
  <2>1. none \in Text
    BY NamesAreTexts
  <2>2. n \in Nat
    BY <1>1
  <2> HIDE DEF step, n, none
  <2>3. \E f \in [0 .. n -> Text] : f[0] = none /\ \A i \in 1 .. n : f[i] = step[i][f[i - 1]]
    BY <1>4, <2>1, <2>2, Recursion
  <2>4. QED
    BY <2>3, Zenon DEF none
<1>6. \A i \in 1 .. n : f[i - 1] \in Text /\ f[i] = f[i - 1] \o folder[i] \o <<Separator>>
  <2>1. TAKE i \in 1 .. n
  <2>2. f[i - 1] \in Text
    BY <1>1
  <2>3. QED
    BY <1>5, <2>2
<1>7. f = Body(f)
  <2>1. \A i \in 0 .. n : i = 0 \/ i \in 1 .. n
    BY <1>1
  <2> HIDE DEF step, n
  <2>2. QED
    BY <1>5, <1>6, <2>1
<1>8. Joined(folder) = CHOOSE g : g = Body(g)
  BY Zenon DEF Joined
<1>9. Joined(folder) = Body(Joined(folder))
  <2> HIDE DEF Body
  <2>1. QED
    BY <1>7, <1>8
<1>10. /\ Joined(folder)[0] = <<>>
       /\ \A i \in 1 .. n :
            Joined(folder)[i] = Joined(folder)[i - 1] \o folder[i] \o <<Separator>>
  <2> DEFINE J == Joined(folder)
  <2>1. J = [i \in 0 .. n |-> IF i = 0 THEN <<>> ELSE J[i - 1] \o folder[i] \o <<Separator>>]
    BY <1>9
  <2> HIDE DEF J, n
  <2>2. J[0] = <<>> /\ \A i \in 1 .. n : J[i] = J[i - 1] \o folder[i] \o <<Separator>>
    BY <1>1, <2>1
  <2>3. QED
    BY <2>2 DEF J, n
<1>11. Joined(folder) \in [0 .. n -> Text]
  <2> DEFINE J == Joined(folder)
             S == {i \in Nat : i \in 0 .. n => J[i] \in Text}
  <2>1. 0 \in S
    BY <1>10, NamesAreTexts
  <2>2. ASSUME NEW i \in Nat, i \in S PROVE i + 1 \in S
    <3>1. CASE i + 1 > n
      BY <1>1, <3>1
    <3>2. CASE i + 1 <= n
      <4>1. J[i] \in Text /\ i + 1 \in 1 .. n /\ i + 1 - 1 = i
        BY <1>1, <2>2, <3>2
      <4>2. J[i + 1] = J[i] \o folder[i + 1] \o <<Separator>>
        BY <1>10, <4>1
      <4> HIDE DEF J, n
      <4>3. J[i + 1] \in Text
        BY <1>3, <4>1, <4>2
      <4>4. QED
        BY <4>3
    <3>3. QED
      BY <1>1, <3>1, <3>2
  <2>3. \A i \in Nat : i \in S
    <3> HIDE DEF S
    <3>1. QED
      BY <2>1, <2>2, Induct
  <2>4. \A i \in 0 .. n : J[i] \in Text
    BY <2>3
  <2>5. J = [i \in 0 .. n |-> IF i = 0 THEN <<>> ELSE J[i - 1] \o folder[i] \o <<Separator>>]
    BY <1>9
  <2> HIDE DEF J, n
  <2>6. J \in [0 .. n -> Text]
    BY <2>4, <2>5
  <2>7. QED
    BY <2>6 DEF J
<1>12. QED
  BY <1>10, <1>11

\* The path of a folder in another one ends with its name.
LEMMA FolderPathAppend ==
  ASSUME NEW folder \in Seq(Names), NEW name \in Names
  PROVE  /\ FolderPath(<<>>) = <<>>
         /\ FolderPath(folder) \in Text
         /\ FolderPath(Append(folder, name)) = FolderPath(folder) \o name \o <<Separator>>
<1> DEFINE n == Len(folder)
           f == Joined(folder)
           longer == Append(folder, name)
           g == Joined(longer)
           S == {i \in Nat : i \in 0 .. n => g[i] = f[i]}
<1>1. /\ n \in Nat /\ longer \in Seq(Names) /\ Len(longer) = n + 1
      /\ \A i \in 1 .. n : longer[i] = folder[i]
      /\ longer[n + 1] = name
  BY AppendProperties, LenProperties
<1>2. /\ f \in [0 .. n -> Text] /\ f[0] = <<>>
      /\ \A i \in 1 .. n : f[i] = f[i - 1] \o folder[i] \o <<Separator>>
  BY JoinedDef
<1>3. /\ g[0] = <<>>
      /\ \A i \in 1 .. n + 1 : g[i] = g[i - 1] \o longer[i] \o <<Separator>>
  <2>1. /\ g[0] = <<>>
        /\ \A i \in 1 .. Len(longer) : g[i] = g[i - 1] \o longer[i] \o <<Separator>>
    <3> HIDE DEF longer
    <3>1. QED
      BY <1>1, JoinedDef
  <2> HIDE DEF longer, g, n
  <2>2. QED
    BY <1>1, <2>1
<1>4. FolderPath(folder) = f[n] /\ FolderPath(longer) = g[n + 1]
  <2>1. FolderPath(longer) = g[Len(longer)]
    BY DEF FolderPath
  <2> HIDE DEF longer, g, f
  <2>2. QED
    BY <1>1, <2>1 DEF FolderPath, f
<1> HIDE DEF f, g, longer, n
<1>5. 0 \in S
  BY <1>2, <1>3
<1>6. ASSUME NEW i \in Nat, i \in S PROVE i + 1 \in S
  <2>1. CASE i + 1 > n
    BY <1>1, <2>1
  <2>2. CASE i + 1 <= n
    <3> DEFINE j == i + 1
    <3>1. j \in 1 .. n /\ j \in 1 .. n + 1 /\ g[j - 1] = f[j - 1]
      BY <1>1, <1>6, <2>2
    <3> HIDE DEF j
    <3>2. g[j] = f[j]
      BY <1>1, <1>2, <1>3, <3>1
    <3>3. QED
      BY <3>2 DEF j
  <2>3. QED
    BY <1>1, <2>1, <2>2
<1>7. g[n] = f[n] /\ f[n] \in Text
  <2>1. n \in S
    <3> HIDE DEF S
    <3>1. QED
      BY <1>1, <1>5, <1>6, Induct
  <2>2. QED
    BY <1>1, <1>2, <2>1
<1>8. g[n + 1] = g[n] \o longer[n + 1] \o <<Separator>>
  <2> DEFINE j == n + 1
  <2>1. j \in 1 .. n + 1 /\ j - 1 = n
    BY <1>1
  <2> HIDE DEF j
  <2>2. g[j] = g[j - 1] \o longer[j] \o <<Separator>>
    BY <1>3, <2>1
  <2>3. g[j] = g[n] \o longer[j] \o <<Separator>>
    BY <2>1, <2>2
  <2>4. QED
    BY <2>3 DEF j
<1>9. FolderPath(<<>>) = <<>>
  <2>1. <<>> \in Seq(Names) /\ Len(<<>>) = 0
    BY EmptySeq
  <2>2. Joined(<<>>)[0] = <<>>
    BY <2>1, JoinedDef, Zenon
  <2>3. QED
    BY <2>1, <2>2, Zenon DEF FolderPath
<1>10. QED
  BY <1>1, <1>4, <1>7, <1>8, <1>9 DEF longer

\* PathOf in these terms.
LEMMA PathOfDef ==
  ASSUME NEW e
  PROVE  PathOf(e) = FolderPath(e.folder) \o e.name
BY Zenon DEF PathOf, FolderPath, Joined

\* The folder of names to which one more is added.
LEMMA FolderOfMore ==
  ASSUME NEW name \in Names, NEW split \in Seq(Names)
  PROVE  /\ <<name>> \o split \in Seq(Names)
         /\ (<<name>> \o split)[1] = name
         /\ Len(<<name>> \o split) = Len(split) + 1
         /\ FolderOf(<<name>> \o split) \in Seq(Names)
         /\ split = <<>> => FolderOf(<<name>> \o split) = <<>>
         /\ split # <<>> =>
              /\ FolderOf(split) \in Seq(Names)
              /\ split[1] \in Names
              /\ FolderOf(<<name>> \o split) = Append(FolderOf(split), split[1])
<1> DEFINE n == Len(split)
           more == <<name>> \o split
<1>1. <<name>> \in Seq(Names) /\ Len(<<name>>) = 1 /\ <<name>>[1] = name
  OBVIOUS
<1>2. n \in Nat /\ \A i \in 1 .. n : split[i] \in Names
  BY LenProperties, ElementOfSeq
<1>3. /\ more \in Seq(Names) /\ Len(more) = n + 1
      /\ \A i \in 1 .. n + 1 : more[i] = IF i <= 1 THEN name ELSE split[i - 1]
  <2>1. /\ more \in Seq(Names) /\ Len(more) = 1 + n
        /\ \A i \in 1 .. 1 + n : more[i] = IF i <= 1 THEN <<name>>[i] ELSE split[i - 1]
    BY <1>1, ConcatProperties
  <2> HIDE DEF more, n
  <2>2. QED
    BY <1>1, <1>2, <2>1
<1> HIDE DEF more
<1>4. FolderOf(more) = [k \in 1 .. n |-> more[n + 2 - k]]
  <2> DEFINE m == Len(more)
  <2>1. FolderOf(more) = [k \in 1 .. m - 1 |-> more[m + 1 - k]]
    BY Zenon DEF FolderOf
  <2>2. m = n + 1 /\ m - 1 = n /\ \A k \in 1 .. n : m + 1 - k = n + 2 - k
    BY <1>2, <1>3
  <2> HIDE DEF n, m
  <2>3. QED
    BY <2>1, <2>2
<1>5. \A k \in 1 .. n : more[n + 2 - k] = split[n + 1 - k] /\ split[n + 1 - k] \in Names
  <2> HIDE DEF n
  <2>1. \A k \in 1 .. n : n + 2 - k \in 2 .. n + 1 /\ n + 1 - k \in 1 .. n /\ n + 2 - k - 1 = n + 1 - k
    BY <1>2
  <2>2. QED
    BY <1>2, <1>3, <2>1
<1>6. FolderOf(more) \in Seq(Names)
  <2> HIDE DEF n
  <2>1. FolderOf(more) \in [1 .. n -> Names]
    BY <1>4, <1>5
  <2>2. QED
    BY <1>2, <2>1, SeqDef
<1>7. split = <<>> => FolderOf(more) = <<>>
  BY <1>4
<1>8. ASSUME split # <<>>
      PROVE  /\ FolderOf(split) \in Seq(Names)
             /\ split[1] \in Names
             /\ FolderOf(more) = Append(FolderOf(split), split[1])
  <2>1. n >= 1
    BY <1>2, <1>8, EmptySeq
  <2>2. FolderOf(split) = [k \in 1 .. n - 1 |-> split[n + 1 - k]]
    BY DEF FolderOf
  <2> HIDE DEF n
  <2>3. FolderOf(split) \in [1 .. n - 1 -> Names] /\ n - 1 \in Nat
    BY <1>2, <1>5, <2>1, <2>2
  <2>4. FolderOf(split) \in Seq(Names)
    BY <2>3, SeqDef
  <2>5. Len(FolderOf(split)) = n - 1
    BY <2>3, <2>4, LenProperties
  <2>6. split[1] \in Names
    BY <1>2, <2>1
  <2> DEFINE a == Append(FolderOf(split), split[1])
  <2>7. /\ a \in Seq(Names) /\ Len(a) = n
        /\ \A i \in 1 .. n - 1 : a[i] = FolderOf(split)[i]
        /\ a[n] = split[1]
    <3> DEFINE m == n - 1
               o == FolderOf(split)
               x == split[1]
    <3>1. n = m + 1 /\ m \in Nat /\ o \in Seq(Names) /\ Len(o) = m /\ x \in Names
      BY <2>3, <2>4, <2>5, <2>6, <2>1, <1>2
    <3> HIDE DEF m, o, x
    <3>2. /\ Append(o, x) \in Seq(Names) /\ Len(Append(o, x)) = m + 1
          /\ \A i \in 1 .. m : Append(o, x)[i] = o[i]
          /\ Append(o, x)[m + 1] = x
      BY <3>1, AppendProperties
    <3>3. a = Append(o, x)
      BY Zenon DEF o, x
    <3> HIDE DEF a
    <3>4. QED
      BY <3>1, <3>2, <3>3 DEF m, o, x
  <2>8. Len(FolderOf(more)) = n
    BY <1>2, <1>4, <1>6, LenProperties
  <2> HIDE DEF a
  <2>9. \A i \in 1 .. n : FolderOf(more)[i] = a[i]
    <3>1. ASSUME NEW i \in 1 .. n - 1 PROVE FolderOf(more)[i] = a[i]
      BY <1>2, <1>4, <1>5, <2>2, <2>7
    <3>2. FolderOf(more)[n] = a[n]
      <4>1. n \in 1 .. n /\ n + 1 - n = 1
        BY <1>2, <2>1
      <4>2. QED
        BY <1>4, <1>5, <2>7, <4>1
    <3>3. \A i \in 1 .. n : i \in 1 .. n - 1 \/ i = n
      BY <1>2
    <3>4. QED
      BY <3>1, <3>2, <3>3
  <2>10. FolderOf(more) = a
    BY <1>6, <2>7, <2>8, <2>9, SeqEqual
  <2>11. QED
    BY <2>4, <2>6, <2>10 DEF a
<1>9. more[1] = name
  BY <1>2, <1>3
<1>10. QED
  BY <1>3, <1>6, <1>7, <1>8, <1>9 DEF more

-----------------------------------------------------------------------------
\* The end of the torrent's own folder in a path.
First(path) == CHOOSE i \in Inner(path) : \A j \in Inner(path) : i <= j

LEMMA FirstIsLeast ==
  ASSUME NEW path \in Text, Inner(path) # {}
  PROVE  /\ First(path) \in 2 .. Len(path)
         /\ path[First(path)] = Separator
         /\ \A i \in 2 .. First(path) - 1 : path[i] # Separator
         /\ BelowRoot(path) = SubSeq(path, First(path) + 1, Len(path))
<1>1. Len(path) \in Nat
  BY DEF Text
<1>2. Inner(path) \subseteq Nat
  BY <1>1 DEF Inner
<1>3. \E i \in Inner(path) : \A j \in Inner(path) : i <= j
  BY <1>2, LeastOf
<1>4. First(path) \in Inner(path) /\ \A j \in Inner(path) : First(path) <= j
  BY <1>3 DEF First
<1>5. BelowRoot(path) = SubSeq(path, First(path) + 1, Len(path))
  BY Zenon DEF BelowRoot, First
<1>6. QED
  BY <1>1, <1>4, <1>5 DEF Inner

\* Past the torrent's folder, rsplit's separator is that folder's end or after it,
\* and the names go on if it is after.
LEMMA SplitsPast ==
  ASSUME NEW path \in Text, Inner(path) # {}, NEW end \in First(path) + 1 .. Len(path) + 1,
         NEW s, s = rfind_char(path, end, Separator)
  PROVE  /\ s \in First(path) .. end - 1
         /\ path[s] = Separator
         /\ \A j \in s + 1 .. end - 1 : path[j] # Separator
         /\ SubSeq(path, s + 1, end - 1) \in Names
         /\ Splits(path)[s] \in Seq(Names)
         /\ Splits(path)[s] = <<>> <=> s = First(path)
         /\ Splits(path)[end] = <<SubSeq(path, s + 1, end - 1)>> \o Splits(path)[s]
<1>1. /\ Len(path) \in Nat
      /\ First(path) \in 2 .. Len(path)
      /\ path[First(path)] = Separator
      /\ \A i \in 2 .. First(path) - 1 : path[i] # Separator
      /\ end \in 1 .. Len(path) + 1
  BY FirstIsLeast DEF Text
<1>2. /\ s \in 0 .. end - 1
      /\ s > 0 => path[s] = Separator
      /\ \A j \in s + 1 .. end - 1 : path[j] # Separator
  BY <1>1, RfindChar
<1>3. s >= First(path)
  BY <1>1, <1>2
<1>4. s \in 1 .. Len(path) + 1 /\ s + 1 \in 1 .. Len(path) + 1 /\ end - 1 \in 0 .. Len(path) /\ s > 1
  BY <1>1, <1>2, <1>3
<1>5. SubSeq(path, s + 1, end - 1) \in Names
  BY <1>2, <1>4, PartIsName
<1>6. /\ Splits(path)[s] \in Seq(Names)
      /\ Splits(path)[s] = <<>> <=> \A i \in 2 .. s - 1 : path[i] # Separator
  BY <1>4, SplitsType
<1>7. Splits(path)[end] = <<SubSeq(path, s + 1, end - 1)>> \o Splits(path)[s]
  BY <1>1, <1>4, SplitsAt
<1>8. (\A i \in 2 .. s - 1 : path[i] # Separator) <=> s = First(path)
  BY <1>1, <1>3, <1>4
<1>9. QED
  BY <1>2, <1>3, <1>4, <1>5, <1>6, <1>7, <1>8

\* The names of a path, put together again.
PathFrom(split) == FolderPath(FolderOf(split)) \o split[1]

LEMMA SplitsJoined ==
  ASSUME NEW path \in Text, Inner(path) # {}
  PROVE  \A end \in First(path) + 1 .. Len(path) + 1 :
           /\ FolderOf(Splits(path)[end]) \in Seq(Names)
           /\ PathFrom(Splits(path)[end]) = SubSeq(path, First(path) + 1, end - 1)
<1> DEFINE m == First(path)
           Good(end) ==
             /\ FolderOf(Splits(path)[end]) \in Seq(Names)
             /\ PathFrom(Splits(path)[end]) = SubSeq(path, m + 1, end - 1)
           S == {end \in Nat : end \in m + 1 .. Len(path) + 1 => Good(end)}
<1>1. Len(path) \in Nat /\ m \in 2 .. Len(path)
  BY FirstIsLeast DEF Text
<1>2. ASSUME NEW end \in Nat, \A k \in 0 .. end - 1 : k \in S, end \in m + 1 .. Len(path) + 1
      PROVE  Good(end)
  <2> DEFINE s == rfind_char(path, end, Separator)
             x == SubSeq(path, s + 1, end - 1)
             rest == Splits(path)[s]
  <2>1. /\ s \in m .. end - 1
        /\ path[s] = Separator
        /\ x \in Names
        /\ rest \in Seq(Names)
        /\ rest = <<>> <=> s = m
        /\ Splits(path)[end] = <<x>> \o rest
    <3>1. s = rfind_char(path, end, Separator) /\ end \in First(path) + 1 .. Len(path) + 1
      BY <1>2
    <3> HIDE DEF s
    <3>2. QED
      BY <3>1, SplitsPast
  <2> HIDE DEF s, m, x, rest
  <2>2. /\ (<<x>> \o rest)[1] = x
        /\ FolderOf(<<x>> \o rest) \in Seq(Names)
        /\ rest = <<>> => FolderOf(<<x>> \o rest) = <<>>
        /\ rest # <<>> =>
             /\ FolderOf(rest) \in Seq(Names)
             /\ rest[1] \in Names
             /\ FolderOf(<<x>> \o rest) = Append(FolderOf(rest), rest[1])
    BY <2>1, FolderOfMore
  <2>3. PathFrom(Splits(path)[end]) = FolderPath(FolderOf(<<x>> \o rest)) \o x
    BY <2>1, <2>2, Zenon DEF PathFrom
  <2>4. x \in Text
    BY <2>1, NamesAreTexts
  <2>5. CASE s = m
    <3>1. FolderPath(FolderOf(<<x>> \o rest)) = <<>>
      <4>1. FolderOf(<<x>> \o rest) = <<>>
        BY <2>1, <2>2, <2>5
      <4>2. FolderPath(<<>>) = <<>>
        BY <2>1, EmptySeq, FolderPathAppend
      <4>3. QED
        BY <4>1, <4>2, Zenon
    <3>2. <<>> \o x = x
      BY <2>4, ConcatEmptySeq DEF Text
    <3>3. x = SubSeq(path, m + 1, end - 1)
      BY <2>5 DEF x
    <3>4. PathFrom(Splits(path)[end]) = SubSeq(path, m + 1, end - 1)
      BY <2>3, <3>1, <3>2, <3>3, Zenon
    <3>5. QED
      BY <2>1, <2>2, <3>4, Zenon
  <2>6. CASE s # m
    <3>1. s \in m + 1 .. Len(path) + 1 /\ s \in 0 .. end - 1 /\ s \in Nat /\ s >= 1
      BY <1>1, <1>2, <2>1, <2>6
    <3>2. Good(s)
      BY <1>2, <3>1
    <3>3. rest # <<>>
      BY <2>1, <2>6
    <3>4. FolderPath(FolderOf(<<x>> \o rest)) = FolderPath(FolderOf(rest)) \o rest[1] \o <<Separator>>
      BY <2>2, <3>3, FolderPathAppend
    <3>5. FolderPath(FolderOf(rest)) \o rest[1] = SubSeq(path, m + 1, s - 1)
      BY <3>2, Zenon DEF PathFrom, rest
    <3>6. SubSeq(path, m + 1, s) = SubSeq(path, m + 1, s - 1) \o <<path[s]>>
      <4>1. m + 1 \in 1 .. Len(path) /\ s \in m + 1 .. Len(path)
        BY <1>1, <1>2, <2>1, <3>1
      <4>2. QED
        BY <4>1, SubSeqRecursiveSecond DEF Text
    <3>7. SubSeq(path, m + 1, s) \o SubSeq(path, s + 1, end - 1) = SubSeq(path, m + 1, end - 1)
      <4> DEFINE a == m + 1
                 b == end - 1
      <4>1. a \in 1 .. Len(path) + 1 /\ s \in a - 1 .. Len(path) /\ b \in s .. Len(path)
        BY <1>1, <1>2, <2>1, <3>1
      <4> HIDE DEF a, b
      <4>2. SubSeq(path, a, s) \o SubSeq(path, s + 1, b) = SubSeq(path, a, b)
        BY <4>1, ConcatAdjacentSubSeq DEF Text
      <4>3. QED
        BY <4>2 DEF a, b
    <3>8. PathFrom(Splits(path)[end]) = SubSeq(path, m + 1, end - 1)
      BY <2>1, <2>3, <3>4, <3>5, <3>6, <3>7, Zenon DEF x
    <3>9. QED
      BY <2>1, <2>2, <3>8, Zenon
  <2>7. QED
    BY <2>5, <2>6
<1>3. \A end \in Nat : end \in S
  <2>1. \A end \in Nat : (\A k \in 0 .. end - 1 : k \in S) => end \in S
    BY <1>2
  <2> HIDE DEF S
  <2>2. QED
    BY <2>1, StrongInduct
<1>4. QED
  BY <1>1, <1>3

\* A file added under the names of its path has that path in the tree.
THEOREM RsplitJoined ==
  ASSUME NEW path \in Text, Inner(path) # {}
  PROVE  /\ FolderOf(rsplit(path)) \in Seq(Names)
         /\ rsplit(path)[1] \in Names
         /\ PathFrom(rsplit(path)) = BelowRoot(path)
<1>1. /\ Len(path) \in Nat
      /\ First(path) \in 2 .. Len(path)
      /\ BelowRoot(path) = SubSeq(path, First(path) + 1, Len(path))
  BY FirstIsLeast DEF Text
<1>2. Len(path) + 1 \in First(path) + 1 .. Len(path) + 1 /\ Len(path) + 1 - 1 = Len(path)
  BY <1>1
<1>3. rsplit(path) = Splits(path)[Len(path) + 1]
  BY SplitsDef
<1>4. /\ FolderOf(rsplit(path)) \in Seq(Names)
      /\ PathFrom(rsplit(path)) = SubSeq(path, First(path) + 1, Len(path))
  <2>1. \A end \in First(path) + 1 .. Len(path) + 1 :
           /\ FolderOf(Splits(path)[end]) \in Seq(Names)
           /\ PathFrom(Splits(path)[end]) = SubSeq(path, First(path) + 1, end - 1)
    BY SplitsJoined
  <2>2. QED
    BY <1>2, <1>3, <2>1
<1>5. rsplit(path)[1] \in Names
  <2>1. rsplit(path) \in Seq(Names) /\ rsplit(path) # <<>>
    BY RsplitType
  <2>2. 1 \in 1 .. Len(rsplit(path))
    BY <2>1, LenProperties, EmptySeq
  <2>3. QED
    BY <2>1, <2>2, ElementOfSeq
<1>6. QED
  BY <1>1, <1>4, <1>5

Part(path, after, length) == SubSeq(path, after + 1, after + length)

\* Parts of two paths with the same characters are the same.
LEMMA PartsEqual ==
  ASSUME NEW p, NEW q, NEW a \in Int, NEW b \in Int, NEW n \in Int, n >= 0,
         \A i \in 1 .. n : p[a + i] = q[b + i]
  PROVE  Part(p, a, n) = Part(q, b, n)
<1> DEFINE s == Part(p, a, n)
           t == Part(q, b, n)
           Any == {p[i] : i \in a + 1 .. a + n} \cup {q[i] : i \in b + 1 .. b + n}
<1>1. s \in Seq(Any) /\ Len(s) = n /\ \A i \in 1 .. n : s[i] = p[a + i]
  <2>1. \A i \in a + 1 .. a + n : p[i] \in Any
    OBVIOUS
  <2> HIDE DEF Any
  <2> DEFINE u == a + 1
             v == a + n
  <2>2. u \in Int /\ v \in Int /\ v - u + 1 = n /\ \A i \in 1 .. n : u + i - 1 = a + i
    OBVIOUS
  <2>3. s = SubSeq(p, u, v)
    BY DEF Part
  <2> HIDE DEF u, v, s
  <2>4. /\ s \in Seq(Any) /\ Len(s) = (IF u <= v THEN v - u + 1 ELSE 0)
        /\ \A i \in 1 .. v - u + 1 : s[i] = p[u + i - 1]
    BY <2>1, <2>2, <2>3, SubSeqProperties DEF u, v
  <2>5. Len(s) = n
    BY <2>2, <2>4
  <2>6. QED
    BY <2>2, <2>4, <2>5
<1>2. t \in Seq(Any) /\ Len(t) = n /\ \A i \in 1 .. n : t[i] = q[b + i]
  <2>1. \A i \in b + 1 .. b + n : q[i] \in Any
    OBVIOUS
  <2> HIDE DEF Any
  <2> DEFINE u == b + 1
             v == b + n
  <2>2. u \in Int /\ v \in Int /\ v - u + 1 = n /\ \A i \in 1 .. n : u + i - 1 = b + i
    OBVIOUS
  <2>3. t = SubSeq(q, u, v)
    BY DEF Part
  <2> HIDE DEF u, v, t
  <2>4. /\ t \in Seq(Any) /\ Len(t) = (IF u <= v THEN v - u + 1 ELSE 0)
        /\ \A i \in 1 .. v - u + 1 : t[i] = q[u + i - 1]
    BY <2>1, <2>2, <2>3, SubSeqProperties DEF u, v
  <2>5. Len(t) = n
    BY <2>2, <2>4
  <2>6. QED
    BY <2>2, <2>4, <2>5
<1> HIDE DEF s, t, Any
<1>3. s = t
  BY <1>1, <1>2, SeqEqual
<1>4. QED
  BY <1>3 DEF s, t

\* The separator rsplit finds is as far from the end in either path.
LEMMA SameSeparator ==
  ASSUME NEW p, NEW q, NEW m \in Nat, NEW l \in Nat, NEW n \in Nat, NEW d \in 0 .. n,
         \A i \in 1 .. n : p[m + i] = q[l + i],
         NEW s \in m .. m + d, NEW t \in l .. l + d,
         q[t] = Separator,
         \A j \in s + 1 .. m + d : p[j] # Separator
  PROVE  t - l <= s - m
<1>1. SUFFICES ASSUME t - l > s - m PROVE FALSE
  OBVIOUS
<1> DEFINE k == t - l
<1>2. k \in 1 .. n /\ l + k = t /\ m + k \in s + 1 .. m + d
  BY <1>1
<1> HIDE DEF k
<1>3. p[m + k] = q[l + k]
  BY <1>2
<1>4. QED
  BY <1>2, <1>3

LEMMA BelowRootAt ==
  ASSUME NEW path \in Text, Inner(path) # {}
  PROVE  /\ Len(BelowRoot(path)) = Len(path) - First(path)
         /\ \A i \in 1 .. Len(path) - First(path) : BelowRoot(path)[i] = path[First(path) + i]
<1> DEFINE m == First(path)
           a == m + 1
           n == Len(path)
           C == Characters \cup {Separator}
           s == SubSeq(path, a, n)
<1>1. n \in Nat /\ m \in 2 .. n /\ BelowRoot(path) = s
  BY FirstIsLeast DEF Text
<1>2. a \in 3 .. n + 1 /\ n - a + 1 = n - m
  BY <1>1
<1>3. \A i \in a .. n : path[i] \in C
  BY <1>2 DEF Text
<1>4. /\ Len(s) = (IF a <= n THEN n - a + 1 ELSE 0)
      /\ \A i \in 1 .. n - a + 1 : s[i] = path[a + i - 1]
  <2>1. a \in Int /\ n \in Int
    BY <1>1, <1>2
  <2> HIDE DEF a, n, C
  <2>2. QED
    BY <1>3, <2>1, SubSeqProperties
<1> HIDE DEF s, n
<1>5. \A i \in 1 .. n - m : a + i - 1 = m + i /\ i \in 1 .. n - a + 1
  BY <1>1, <1>2
<1>6. Len(s) = n - m
  <2> HIDE DEF m
  <2>1. QED
    BY <1>1, <1>4
<1> HIDE DEF m, a
<1>7. \A i \in 1 .. n - m : s[i] = path[m + i]
  BY <1>4, <1>5
<1>8. QED
  BY <1>1, <1>6, <1>7 DEF m, n

\* Paths that are the same below the torrent's folder have the same names.
THEOREM SameNames ==
  ASSUME NEW p \in Text, NEW q \in Text, Inner(p) # {}, Inner(q) # {},
         BelowRoot(p) = BelowRoot(q)
  PROVE  rsplit(p) = rsplit(q)
<1> DEFINE m == First(p)
           l == First(q)
           n == Len(p) - m
           S == {d \in Nat : d \in 0 .. n => Splits(p)[m + 1 + d] = Splits(q)[l + 1 + d]}
<1>1. /\ Len(p) \in Nat /\ m \in 2 .. Len(p) /\ BelowRoot(p) = SubSeq(p, m + 1, Len(p))
      /\ Len(q) \in Nat /\ l \in 2 .. Len(q) /\ BelowRoot(q) = SubSeq(q, l + 1, Len(q))
  BY FirstIsLeast DEF Text
<1>2. n \in Nat /\ n = Len(q) - l /\ \A i \in 1 .. n : p[m + i] = q[l + i]
  <2>1. Len(BelowRoot(p)) = n /\ \A i \in 1 .. n : BelowRoot(p)[i] = p[m + i]
    BY BelowRootAt
  <2>2. Len(BelowRoot(q)) = Len(q) - l /\ \A i \in 1 .. Len(q) - l : BelowRoot(q)[i] = q[l + i]
    BY BelowRootAt
  <2>3. n \in Nat
    BY <1>1
  <2> HIDE DEF m, l, n
  <2>4. QED
    BY <2>1, <2>2, <2>3
<1>3. ASSUME NEW d \in Nat, \A k \in 0 .. d - 1 : k \in S, d \in 0 .. n
      PROVE  Splits(p)[m + 1 + d] = Splits(q)[l + 1 + d]
  <2> DEFINE a == m + 1 + d
             b == l + 1 + d
             s == rfind_char(p, a, Separator)
             t == rfind_char(q, b, Separator)
  <2>1. a \in First(p) + 1 .. Len(p) + 1 /\ b \in First(q) + 1 .. Len(q) + 1
    BY <1>1, <1>2, <1>3
  <2>2. /\ s \in m .. a - 1
        /\ p[s] = Separator
        /\ \A j \in s + 1 .. a - 1 : p[j] # Separator
        /\ SubSeq(p, s + 1, a - 1) \in Names
        /\ Splits(p)[s] \in Seq(Names)
        /\ Splits(p)[s] = <<>> <=> s = m
        /\ Splits(p)[a] = <<SubSeq(p, s + 1, a - 1)>> \o Splits(p)[s]
    <3> HIDE DEF a, s
    <3>1. QED
      BY <2>1, SplitsPast DEF s
  <2>3. /\ t \in l .. b - 1
        /\ q[t] = Separator
        /\ \A j \in t + 1 .. b - 1 : q[j] # Separator
        /\ SubSeq(q, t + 1, b - 1) \in Names
        /\ Splits(q)[t] \in Seq(Names)
        /\ Splits(q)[t] = <<>> <=> t = l
        /\ Splits(q)[b] = <<SubSeq(q, t + 1, b - 1)>> \o Splits(q)[t]
    <3> HIDE DEF b, t
    <3>1. QED
      BY <2>1, SplitsPast DEF t
  <2>4. a - 1 = m + d /\ b - 1 = l + d /\ m \in Nat /\ l \in Nat
    BY <1>1
  <2> HIDE DEF m, l, n, s, t, a, b
  <2>5. t - l = s - m
    <3>1. /\ s \in m .. m + d /\ \A j \in s + 1 .. m + d : p[j] # Separator
          /\ t \in l .. l + d /\ \A j \in t + 1 .. l + d : q[j] # Separator
      BY <2>2, <2>3, <2>4
    <3>2. t - l <= s - m
      BY <1>2, <1>3, <2>3, <2>4, <3>1, SameSeparator
    <3>3. s - m <= t - l
      <4>1. \A i \in 1 .. n : q[l + i] = p[m + i]
        BY <1>2
      <4>2. QED
        BY <1>2, <1>3, <2>2, <2>4, <3>1, <4>1, SameSeparator
    <3>4. QED
      BY <2>4, <3>1, <3>2, <3>3
  <2>6. SubSeq(p, s + 1, a - 1) = SubSeq(q, t + 1, b - 1)
    <3> DEFINE k == s - m
               r == d - k
    <3>1. k \in 0 .. d /\ r \in Nat /\ s = m + k /\ t = l + k /\ s \in Nat /\ t \in Nat
      <4>1. s \in m .. m + d /\ t \in l .. l + d /\ d \in Nat
        BY <1>3, <2>2, <2>3, <2>4
      <4>2. QED
        BY <2>4, <2>5, <4>1
    <3>2. a - 1 = s + r /\ b - 1 = t + r
      BY <1>3, <2>4, <3>1
    <3> HIDE DEF k, r
    <3>3. r = d - k
      BY DEF r
    <3>4. \A i \in 1 .. r : p[s + i] = q[t + i]
      <4>1. TAKE i \in 1 .. r
      <4> DEFINE j == k + i
      <4>2. j \in 1 .. n /\ s + i = m + j /\ t + i = l + j
        BY <1>2, <1>3, <2>4, <3>1, <3>3
      <4> HIDE DEF j
      <4>3. p[m + j] = q[l + j]
        BY <1>2, <4>2
      <4>4. QED
        BY <4>2, <4>3
    <3>5. Part(p, s, r) = Part(q, t, r)
      <4>1. s \in Int /\ t \in Int /\ r \in Int /\ r >= 0
        BY <3>1
      <4>2. QED
        BY <3>4, <4>1, PartsEqual
    <3>6. QED
      BY <3>2, <3>5, Zenon DEF Part
  <2>7. Splits(p)[s] = Splits(q)[t]
    <3>1. CASE s = m
      <4>1. t = l
        BY <2>2, <2>3, <2>4, <2>5, <3>1
      <4>2. QED
        BY <2>2, <2>3, <3>1, <4>1
    <3>2. CASE s # m
      <4> DEFINE k == s - m - 1
      <4>1. k \in 0 .. d - 1 /\ k \in 0 .. n /\ m + 1 + k = s /\ l + 1 + k = t
        BY <1>2, <1>3, <2>2, <2>3, <2>4, <2>5, <3>2
      <4> HIDE DEF k
      <4>2. k \in S
        BY <1>3, <4>1
      <4>3. Splits(p)[m + 1 + k] = Splits(q)[l + 1 + k]
        BY <4>1, <4>2
      <4>4. QED
        BY <4>1, <4>3
    <3>3. QED
      BY <3>1, <3>2
  <2>8. Splits(p)[a] = Splits(q)[b]
    BY <2>2, <2>3, <2>6, <2>7, Zenon
  <2>9. QED
    BY <2>8 DEF a, b
<1>4. n \in S
  <2>1. \A d \in Nat : (\A k \in 0 .. d - 1 : k \in S) => d \in S
    BY <1>3
  <2> HIDE DEF S, n
  <2>2. QED
    BY <1>2, <2>1, StrongInduct
<1>5. Splits(p)[m + 1 + n] = Splits(q)[l + 1 + n]
  <2> HIDE DEF m, l, n
  <2>1. QED
    BY <1>2, <1>4
<1>6. m + 1 + n = Len(p) + 1 /\ l + 1 + n = Len(q) + 1
  <2>1. m \in Nat /\ l \in Nat /\ n = Len(p) - m /\ n = Len(q) - l
    BY <1>1, <1>2
  <2> HIDE DEF m, l, n
  <2>2. QED
    BY <1>1, <2>1
<1> HIDE DEF m, l, n
<1>7. QED
  BY <1>5, <1>6, SplitsDef

-----------------------------------------------------------------------------
(***************************************************************************)
(* The invariant.  The files added are the first ones of the list, each    *)
(* with its path's names and its index; no two have the same names.  The   *)
(* node is as far down the path being added as its loop has come.          *)
(***************************************************************************)
Listed(i) == rsplit(files[i + 1])

EntryOf(i) == [folder |-> FolderOf(Listed(i)), name |-> Listed(i)[1], id |-> i]

EntriesAreListed ==
  /\ entries = {EntryOf(i) : i \in 0 .. it - 1}
  /\ \A i \in 0 .. it - 1 : Listed(i) # <<>>
  /\ \A i, j \in 0 .. it - 1 :
       FolderOf(Listed(i)) = FolderOf(Listed(j)) /\ Listed(i)[1] = Listed(j)[1] => i = j

NodeIsOnThePath ==
  /\ it <= stats
  /\ status = "done" => it = Len(files)
  /\ status = "next" => node = <<>> \/ \E e \in entries : node = e.folder
  /\ status = "adding" =>
       /\ it < stats
       /\ names = Listed(it)
       /\ IF names = <<>>
          THEN level = 0
          ELSE /\ Len(node) + level + 1 = Len(names)
               /\ \A k \in 1 .. Len(node) : node[k] = names[Len(names) + 1 - k]

IInv == TypeOK /\ EntriesAreListed /\ NodeIsOnThePath /\ FoldersAreOnTheWay /\ EndsWellUnless

-----------------------------------------------------------------------------
\* The folders on the way to some.
Way(open) == {<<>>} \cup UNION {{SubSeq(f, 1, n) : n \in 0 .. Len(f)} : f \in open}

LEMMA WayHas ==
  ASSUME NEW open, NEW g
  PROVE  g \in Way(open) <=> g = <<>> \/ \E f \in open : \E n \in 0 .. Len(f) : g = SubSeq(f, 1, n)
BY DEF Way

\* The root folder is on every way.
LEMMA WayOfRoot ==
  ASSUME NEW open
  PROVE  Way(open \cup {<<>>}) = Way(open)
<1>1. \A n \in 0 .. Len(<<>>) : SubSeq(<<>>, 1, n) = <<>>
  <2>1. Len(<<>>) = 0
    BY EmptySeq
  <2>2. SubSeq(<<>>, 1, 0) = <<>>
    BY SubSeqEmpty
  <2>3. \A n \in 0 .. Len(<<>>) : n = 0
    BY <2>1
  <2>4. QED
    BY <2>2, <2>3
<1>2. \A g : g \in Way(open \cup {<<>>}) <=> g \in Way(open)
  <2>1. TAKE g
  <2> DEFINE root == <<>>
             On(f) == \E n \in 0 .. Len(f) : g = SubSeq(f, 1, n)
  <2>2. On(root) => g = root
    BY <1>1, Zenon
  <2>3. \A o : g \in Way(o) <=> g = root \/ \E f \in o : On(f)
    BY WayHas
  <2> HIDE DEF root, On
  <2>4. g \in Way(open \cup {root}) <=> g \in Way(open)
    <3>1. g \in Way(open) <=> g = root \/ \E f \in open : On(f)
      BY <2>3
    <3>2. g \in Way(open \cup {root}) <=> g = root \/ \E f \in open \cup {root} : On(f)
      BY <2>3
    <3>3. QED
      BY <2>2, <3>1, <3>2
  <2>5. QED
    BY <2>4 DEF root
<1>3. QED
  BY <1>2

\* The beginnings of a folder in another one.
LEMMA BeginningsOfAppend ==
  ASSUME NEW folder \in Seq(Names), NEW name \in Names, NEW g
  PROVE  (\E n \in 0 .. Len(Append(folder, name)) : g = SubSeq(Append(folder, name), 1, n))
           <=> g = Append(folder, name) \/ \E n \in 0 .. Len(folder) : g = SubSeq(folder, 1, n)
<1> DEFINE a == Append(folder, name)
           m == Len(folder)
<1>1. /\ a \in Seq(Names) /\ Len(a) = m + 1 /\ m \in Nat
      /\ \A i \in 1 .. m : a[i] = folder[i] /\ a[i] \in Names
  BY AppendProperties, LenProperties
<1> HIDE DEF a
<1>2. SubSeq(a, 1, m + 1) = a
  BY <1>1, SubSeqFull
<1>3. ASSUME NEW n \in 0 .. m PROVE SubSeq(a, 1, n) = SubSeq(folder, 1, n)
  <2> HIDE DEF m
  <2>1. \A i \in 1 .. n : a[0 + i] = folder[0 + i]
    BY <1>1
  <2>2. n \in Int /\ n >= 0 /\ 0 + 1 = 1 /\ 0 + n = n
    BY <1>1
  <2>3. Part(a, 0, n) = Part(folder, 0, n)
    BY <2>1, <2>2, PartsEqual
  <2>4. QED
    BY <2>2, <2>3 DEF Part
<1>4. \A n : n \in 0 .. m + 1 <=> n \in 0 .. m \/ n = m + 1
  BY <1>1
<1> HIDE DEF m
<1>5. (\E n \in 0 .. m + 1 : g = SubSeq(a, 1, n)) <=> g = a \/ \E n \in 0 .. m : g = SubSeq(folder, 1, n)
  BY <1>2, <1>3, <1>4
<1>6. (\E n \in 0 .. Len(a) : g = SubSeq(a, 1, n)) <=> g = a \/ \E n \in 0 .. m : g = SubSeq(folder, 1, n)
  BY <1>1, <1>5
<1>7. QED
  BY <1>6 DEF a, m

LEMMA WayOfAppend ==
  ASSUME NEW open, NEW folder \in Seq(Names), NEW name \in Names,
         NEW a, a = Append(folder, name)
  PROVE  \A g : g \in Way(open \cup {a}) <=> g \in Way(open \cup {folder}) \/ g = a
<1> DEFINE On(f, g) == \E n \in 0 .. Len(f) : g = SubSeq(f, 1, n)
<1>1. \A g : On(a, g) <=> g = a \/ On(folder, g)
  BY BeginningsOfAppend
<1>2. \A o, g : g \in Way(o) <=> g = <<>> \/ \E f \in o : On(f, g)
  BY WayHas
<1> HIDE DEF On
<1>3. TAKE g
<1> DEFINE root == <<>>
           A == open \cup {a}
           F == open \cup {folder}
<1>4. g \in Way(A) <=> g = root \/ \E f \in A : On(f, g)
  BY <1>2, Zenon
<1>5. g \in Way(F) <=> g = root \/ \E f \in F : On(f, g)
  BY <1>2, Zenon
<1> HIDE DEF root
<1>6. QED
  BY <1>1, <1>4, <1>5

-----------------------------------------------------------------------------
LEMMA FilesAreTexts ==
  ASSUME TypeOK
  PROVE  /\ Len(files) \in Nat
         /\ \A i \in 1 .. Len(files) : files[i] \in Text
<1>1. files \in Seq(Paths) /\ Len(files) \in Nat
  BY DEF TypeOK
<1>2. \A i \in 1 .. Len(files) : files[i] \in Paths
  BY <1>1, ElementOfSeq
<1>3. QED
  BY <1>1, <1>2, FolderTreeAssumption DEF Text

\* What a file of the list becomes in the tree.
LEMMA ListedIs ==
  ASSUME TypeOK, NEW i \in 0 .. Len(files) - 1
  PROVE  /\ files[i + 1] \in Text
         /\ Listed(i) \in Seq(Names)
         /\ Listed(i) = <<>> <=> Inner(files[i + 1]) = {}
         /\ Listed(i) # <<>> =>
              /\ FolderOf(Listed(i)) \in Seq(Names)
              /\ Listed(i)[1] \in Names
              /\ PathFrom(Listed(i)) = BelowRoot(files[i + 1])
<1>1. Len(files) \in Nat /\ i + 1 \in 1 .. Len(files)
  BY FilesAreTexts
<1>2. files[i + 1] \in Text
  BY <1>1, FilesAreTexts
<1>3. QED
  BY <1>2, RsplitType, RsplitJoined DEF Listed

\* The fields of a file of the tree, and its path.
LEMMA EntryIs ==
  ASSUME NEW i
  PROVE  /\ EntryOf(i).folder = FolderOf(Listed(i))
         /\ EntryOf(i).name = Listed(i)[1]
         /\ EntryOf(i).id = i
         /\ PathOf(EntryOf(i)) = PathFrom(Listed(i))
<1>1. /\ EntryOf(i).folder = FolderOf(Listed(i))
      /\ EntryOf(i).name = Listed(i)[1]
      /\ EntryOf(i).id = i
  BY DEF EntryOf
<1>2. QED
  BY <1>1, PathOfDef, Zenon DEF PathFrom

\* Once addPath's loop has ended, the node is the folder of the names.
LEMMA NodeAtTheEnd ==
  ASSUME TypeOK, NodeIsOnThePath, status = "adding", level = 0, names # <<>>
  PROVE  node = FolderOf(names)
<1>1. /\ names \in Seq(Names) /\ Len(names) \in Nat
      /\ node \in Seq(Names) /\ Len(node) \in Nat
      /\ Len(node) + 1 = Len(names)
      /\ \A k \in 1 .. Len(node) : node[k] = names[Len(names) + 1 - k]
  BY DEF TypeOK, NodeIsOnThePath
<1> DEFINE n == Len(names)
<1>2. FolderOf(names) = [k \in 1 .. n - 1 |-> names[n + 1 - k]]
  BY Zenon DEF FolderOf
<1>3. node = [k \in 1 .. Len(node) |-> node[k]]
  BY <1>1
<1> HIDE DEF n
<1>4. Len(node) = n - 1 /\ \A k \in 1 .. n - 1 : node[k] = names[n + 1 - k]
  BY <1>1 DEF n
<1>5. QED
  BY <1>2, <1>3, <1>4

-----------------------------------------------------------------------------
\* The folders that hold a file of the tree, or are on the way to the file being added.
OpenFolders == {e.folder : e \in entries} \cup (IF status = "next" THEN {} ELSE {node})

LEMMA FoldersAre == FoldersAreOnTheWay <=> folders = Way(OpenFolders)
BY Zenon DEF FoldersAreOnTheWay, Way, OpenFolders

LEMMA FoldersAreNext == FoldersAreOnTheWay' <=> folders' = Way(OpenFolders')
BY Zenon DEF FoldersAreOnTheWay, Way, OpenFolders

LEMMA InitHolds == ASSUME Init PROVE IInv
<1>1. /\ it = 0 /\ names = <<>> /\ level = 0 /\ node = <<>>
      /\ folders = {<<>>} /\ entries = {} /\ status = "next"
  BY DEF Init
<1>2. PICK n \in 0 .. MaxFiles : files \in [1 .. n -> Paths] /\ stats \in {n, n - 1} \cap Nat
  BY DEF Init
<1>3. n \in Nat /\ n <= MaxFiles
  BY FolderTreeAssumption
<1>4. files \in Seq(Paths) /\ Len(files) = n
  BY <1>2, <1>3, SeqDef, LenProperties
<1>5. TypeOK
  <2>1. <<>> \in Seq(Names)
    BY EmptySeq
  <2>2. stats \in 0 .. n
    BY <1>2, <1>3
  <2>3. QED
    BY <1>1, <1>3, <1>4, <2>1, <2>2 DEF TypeOK
<1>6. EntriesAreListed
  BY <1>1 DEF EntriesAreListed
<1>7. NodeIsOnThePath
  BY <1>1, <1>5 DEF NodeIsOnThePath, TypeOK
<1>8. FoldersAreOnTheWay
  <2>1. OpenFolders = {}
    BY <1>1 DEF OpenFolders
  <2>2. Way({}) = {<<>>}
    BY DEF Way
  <2>3. QED
    BY <1>1, <2>1, <2>2, FoldersAre
<1>9. EndsWellUnless
  BY <1>1 DEF EndsWellUnless
<1>10. QED
  BY <1>5, <1>6, <1>7, <1>8, <1>9 DEF IInv

\* The four actions keep the invariant.
LEMMA BeginPathHolds == ASSUME IInv, BeginPath PROVE IInv'
<1>1. /\ TypeOK /\ EntriesAreListed /\ NodeIsOnThePath /\ FoldersAreOnTheWay
      /\ status = "next" /\ it < Len(files) /\ it \in Nat /\ it \in 0 .. Len(files) - 1
      /\ files' = files /\ stats' = stats /\ it' = it /\ folders' = folders /\ entries' = entries
  BY DEF IInv, BeginPath, TypeOK
<1>2. CASE it < stats
  <2>1. status' = "adding" /\ names' = Listed(it) /\ node' = <<>>
        /\ level' = IF names' = <<>> THEN 0 ELSE Len(names') - 1
    BY <1>2 DEF BeginPath, Listed
  <2>2. Listed(it) \in Seq(Names)
    BY <1>1, ListedIs
  <2>3. /\ names' \in Seq(Names) /\ level' \in Nat
        /\ names' = <<>> => level' = 0
        /\ names' # <<>> => Len(names') = level' + 1
        /\ level' = 0 \/ level' < Len(names')
    <3>1. names' \in Seq(Names) /\ Len(names') \in Nat /\ (names' # <<>> => Len(names') > 0)
      BY <2>1, <2>2, LenProperties, EmptySeq
    <3>2. QED
      BY <2>1, <3>1
  <2>4. node' \in Seq(Names) /\ Len(node') = 0
    BY <2>1, EmptySeq
  <2>5. TypeOK'
    BY <1>1, <2>1, <2>3, <2>4 DEF TypeOK
  <2>6. EntriesAreListed'
    BY <1>1 DEF EntriesAreListed, Listed, EntryOf
  <2>7. NodeIsOnThePath'
    <3>1. Listed(it)' = Listed(it)
      BY <1>1 DEF Listed
    <3>2. it' <= stats' /\ it' < stats'
      BY <1>1, <1>2 DEF TypeOK
    <3>3. names' # <<>> => Len(node') + level' + 1 = Len(names')
      <4>1. 0 + level' + 1 = level' + 1
        BY <2>3
      <4>2. QED
        BY <2>3, <2>4, <4>1, Zenon
    <3>4. \A k \in 1 .. Len(node') : node'[k] = names'[Len(names') + 1 - k]
      BY <2>4
    <3>5. QED
      BY <2>1, <2>3, <3>1, <3>2, <3>3, <3>4 DEF NodeIsOnThePath
  <2>8. FoldersAreOnTheWay'
    <3>1. OpenFolders' = OpenFolders \cup {<<>>}
      BY <1>1, <2>1 DEF OpenFolders
    <3>2. Way(OpenFolders') = Way(OpenFolders)
      BY <3>1, WayOfRoot, Zenon
    <3>3. QED
      BY <1>1, <3>2, FoldersAre, FoldersAreNext, Zenon
  <2>9. EndsWellUnless'
    BY <2>1 DEF EndsWellUnless
  <2>10. QED
    BY <2>5, <2>6, <2>7, <2>8, <2>9 DEF IInv
<1>3. CASE ~ (it < stats)
  <2>1. status' = "threw" /\ names' = names /\ level' = level /\ node' = node
    BY <1>3 DEF BeginPath
  <2>2. TypeOK'
    BY <1>1, <2>1 DEF TypeOK
  <2>3. EntriesAreListed'
    BY <1>1 DEF EntriesAreListed, Listed, EntryOf
  <2>4. NodeIsOnThePath'
    BY <1>1, <2>1 DEF NodeIsOnThePath
  <2>5. FoldersAreOnTheWay'
    <3>1. OpenFolders' = OpenFolders \cup {node}
      BY <1>1, <2>1 DEF OpenFolders
    <3>2. node = <<>> \/ node \in OpenFolders
      BY <1>1 DEF NodeIsOnThePath, OpenFolders
    <3>3. Way(OpenFolders') = Way(OpenFolders)
      <4>1. CASE node = <<>>
        BY <3>1, <4>1, WayOfRoot, Zenon
      <4>2. CASE node \in OpenFolders
        <5>1. OpenFolders' = OpenFolders
          BY <3>1, <4>2
        <5>2. QED
          BY <5>1, Zenon
      <4>3. QED
        BY <3>2, <4>1, <4>2
    <3>4. QED
      BY <1>1, <3>3, FoldersAre, FoldersAreNext, Zenon
  <2>6. EndsWellUnless'
    BY <1>1, <1>3, <2>1 DEF EndsWellUnless, TypeOK
  <2>7. QED
    BY <2>2, <2>3, <2>4, <2>5, <2>6 DEF IInv
<1>4. QED
  BY <1>2, <1>3

LEMMA EndContentHolds == ASSUME IInv, EndContent PROVE IInv'
<1>1. /\ TypeOK /\ EntriesAreListed /\ NodeIsOnThePath /\ FoldersAreOnTheWay
      /\ status = "next" /\ status' = "done" /\ it = Len(files) /\ it \in Nat
      /\ files' = files /\ stats' = stats /\ it' = it /\ folders' = folders /\ entries' = entries
      /\ names' = names /\ level' = level /\ node' = node
  BY DEF IInv, EndContent, TypeOK
<1>2. TypeOK'
  BY <1>1 DEF TypeOK
<1>3. EntriesAreListed'
  BY <1>1 DEF EntriesAreListed, Listed, EntryOf
<1>4. NodeIsOnThePath'
  BY <1>1 DEF NodeIsOnThePath
<1>5. FoldersAreOnTheWay'
  <2>1. OpenFolders' = OpenFolders \cup {node}
    BY <1>1 DEF OpenFolders
  <2>2. node = <<>> \/ node \in OpenFolders
    BY <1>1 DEF NodeIsOnThePath, OpenFolders
  <2>3. Way(OpenFolders') = Way(OpenFolders)
    <3>1. CASE node = <<>>
      BY <2>1, <3>1, WayOfRoot, Zenon
    <3>2. CASE node \in OpenFolders
      <4>1. OpenFolders' = OpenFolders
        BY <2>1, <3>2
      <4>2. QED
        BY <4>1, Zenon
    <3>3. QED
      BY <2>2, <3>1, <3>2
  <2>4. QED
    BY <1>1, <2>3, FoldersAre, FoldersAreNext, Zenon
<1>6. EndsWellUnless'
  <2>1. \A i \in 1 .. Len(files) : files[i] \in Text /\ Inner(files[i]) # {}
    <3>1. TAKE i \in 1 .. Len(files)
    <3> DEFINE k == i - 1
    <3>2. k \in 0 .. it - 1 /\ k \in 0 .. Len(files) - 1 /\ k + 1 = i
      BY <1>1
    <3> HIDE DEF k
    <3>3. Listed(k) # <<>>
      BY <1>1, <3>2 DEF EntriesAreListed
    <3>4. files[k + 1] \in Text /\ Inner(files[k + 1]) # {}
      BY <1>1, <3>2, <3>3, ListedIs
    <3>5. QED
      BY <3>2, <3>4
  <2>2. \A i, j \in 1 .. Len(files) : BelowRoot(files[i]) = BelowRoot(files[j]) => i = j
    <3>1. SUFFICES ASSUME NEW i \in 1 .. Len(files), NEW j \in 1 .. Len(files),
                          BelowRoot(files[i]) = BelowRoot(files[j])
                   PROVE  i = j
      OBVIOUS
    <3>2. rsplit(files[i]) = rsplit(files[j])
      BY <2>1, <3>1, SameNames
    <3> DEFINE k == i - 1
               l == j - 1
    <3>3. /\ k \in 0 .. it - 1 /\ k + 1 = i
          /\ l \in 0 .. it - 1 /\ l + 1 = j
      BY <1>1
    <3> HIDE DEF k, l
    <3>4. Listed(k) = Listed(l)
      BY <3>2, <3>3, Zenon DEF Listed
    <3>5. k = l
      BY <1>1, <3>3, <3>4 DEF EntriesAreListed
    <3>6. QED
      BY <3>3, <3>5
  <2>3. QED
    BY <1>1, <2>1, <2>2 DEF EndsWellUnless
<1>7. QED
  BY <1>2, <1>3, <1>4, <1>5, <1>6 DEF IInv

LEMMA DescendHolds == ASSUME IInv, Descend PROVE IInv'
<1>1. /\ TypeOK /\ EntriesAreListed /\ NodeIsOnThePath /\ FoldersAreOnTheWay
      /\ status = "adding" /\ status' = "adding" /\ it \in 0 .. Len(files)
      /\ files' = files /\ stats' = stats /\ it' = it /\ entries' = entries /\ names' = names
  BY DEF IInv, Descend, TypeOK
<1> DEFINE x == names[level + 1]
<1>2. /\ level >= 1 /\ level' = level - 1
      /\ node' = Append(node, x) /\ folders' = folders \cup {Append(node, x)}
  BY DEF Descend
<1>3. /\ names \in Seq(Names) /\ Len(names) \in Nat /\ level \in Nat /\ level < Len(names)
      /\ node \in Seq(Names) /\ Len(node) \in Nat
      /\ level + 1 \in 1 .. Len(names)
  BY <1>1, <1>2, LenProperties DEF TypeOK
<1>4. /\ names # <<>>
      /\ Len(node) + level + 1 = Len(names)
      /\ \A k \in 1 .. Len(node) : node[k] = names[Len(names) + 1 - k]
      /\ it < stats /\ it <= stats /\ names = Listed(it)
  BY <1>1, <1>2 DEF NodeIsOnThePath
<1>5. x \in Names
  BY <1>3, ElementOfSeq
<1>6. /\ node' \in Seq(Names) /\ Len(node') = Len(node) + 1
      /\ \A k \in 1 .. Len(node) : node'[k] = node[k]
      /\ node'[Len(node) + 1] = x
  <2> HIDE DEF x
  <2>1. QED
    BY <1>2, <1>3, <1>5, AppendProperties
<1>7. TypeOK'
  <2>1. folders' \subseteq Seq(Names)
    BY <1>1, <1>2, <1>6 DEF TypeOK
  <2>2. level' \in Nat /\ level' < Len(names')
    BY <1>1, <1>2, <1>3
  <2>3. QED
    BY <1>1, <1>6, <2>1, <2>2 DEF TypeOK
<1>8. EntriesAreListed'
  BY <1>1 DEF EntriesAreListed, Listed, EntryOf
<1>9. NodeIsOnThePath'
  <2>1. Listed(it)' = Listed(it)
    BY <1>1 DEF Listed
  <2>2. Len(node') + level' + 1 = Len(names)
    BY <1>2, <1>3, <1>4, <1>6
  <2>3. \A k \in 1 .. Len(node') : node'[k] = names[Len(names) + 1 - k]
    <3>1. node'[Len(node) + 1] = names[Len(names) + 1 - (Len(node) + 1)]
      <4>1. Len(names) + 1 - (Len(node) + 1) = level + 1
        BY <1>3, <1>4
      <4>2. QED
        BY <1>6, <4>1
    <3> DEFINE n == Len(node)
               m == Len(names)
               last == n + 1
    <3>2. /\ last = n + 1 /\ n \in Nat /\ Len(node') = last
          /\ node'[last] = names[m + 1 - last]
          /\ \A k \in 1 .. n : node'[k] = names[m + 1 - k]
      BY <1>3, <1>4, <1>6, <3>1
    <3> HIDE DEF n, m, last
    <3>3. \A k \in 1 .. last : node'[k] = names[m + 1 - k]
      <4>1. \A k \in 1 .. last : k \in 1 .. n \/ k = last
        BY <3>2
      <4>2. QED
        BY <3>2, <4>1
    <3>4. QED
      BY <3>2, <3>3 DEF m
  <2>4. it' <= stats' /\ it' < stats' /\ names' # <<>> /\ names' = Listed(it)
    BY <1>1, <1>4
  <2>5. QED
    BY <1>1, <2>1, <2>2, <2>3, <2>4 DEF NodeIsOnThePath
<1>10. FoldersAreOnTheWay'
  <2> DEFINE E == {e.folder : e \in entries}
  <2>1. OpenFolders = E \cup {node} /\ OpenFolders' = E \cup {node'}
    BY <1>1 DEF OpenFolders
  <2> HIDE DEF E, x
  <2>2. \A g : g \in Way(E \cup {node'}) <=> g \in Way(E \cup {node}) \/ g = node'
    BY <1>2, <1>3, <1>5, WayOfAppend
  <2>3. folders = Way(E \cup {node})
    BY <1>1, <2>1, FoldersAre, Zenon
  <2>4. folders' = Way(OpenFolders')
    <3>1. \A g : g \in folders' <=> g \in Way(OpenFolders')
      BY <1>2, <2>1, <2>2, <2>3
    <3>2. QED
      BY <3>1
  <2>5. QED
    BY <2>4, FoldersAreNext, Zenon
<1>11. EndsWellUnless'
  BY <1>1 DEF EndsWellUnless
<1>12. QED
  BY <1>7, <1>8, <1>9, <1>10, <1>11 DEF IInv

LEMMA InsertFileHolds == ASSUME IInv, InsertFile PROVE IInv'
<1>1. /\ TypeOK /\ EntriesAreListed /\ NodeIsOnThePath /\ FoldersAreOnTheWay
      /\ status = "adding" /\ level = 0 /\ names = Listed(it)
      /\ files' = files /\ stats' = stats /\ names' = names /\ level' = level /\ node' = node
      /\ folders' = folders
  BY DEF IInv, InsertFile, NodeIsOnThePath
<1>2. /\ Len(files) \in Nat /\ it \in Nat /\ stats \in 0 .. Len(files)
      /\ it < stats /\ it \in 0 .. Len(files) - 1
  BY <1>1, FilesAreTexts DEF TypeOK, NodeIsOnThePath
<1>3. \A i \in 0 .. it - 1 : i \in 0 .. Len(files) - 1 /\ i + 1 \in 1 .. it
  BY <1>2
<1>4. CASE names = <<>>
  <2>1. status' = "threw" /\ entries' = entries /\ it' = it
    BY <1>4 DEF InsertFile
  <2>2. TypeOK'
    BY <1>1, <2>1 DEF TypeOK
  <2>3. EntriesAreListed'
    BY <1>1, <2>1 DEF EntriesAreListed, Listed, EntryOf
  <2>4. NodeIsOnThePath'
    BY <1>1, <2>1 DEF NodeIsOnThePath
  <2>5. FoldersAreOnTheWay'
    <3>1. OpenFolders' = OpenFolders
      BY <1>1, <2>1 DEF OpenFolders
    <3>2. QED
      BY <1>1, <3>1, FoldersAre, FoldersAreNext, Zenon
  <2>6. EndsWellUnless'
    <3>1. Inner(files[it + 1]) = {}
      BY <1>1, <1>2, <1>4, ListedIs
    <3>2. QED
      BY <1>1, <2>1, <3>1 DEF EndsWellUnless, Inner
  <2>7. QED
    BY <2>2, <2>3, <2>4, <2>5, <2>6 DEF IInv
<1>5. CASE names # <<>>
  <2>1. /\ node = FolderOf(Listed(it))
        /\ Listed(it) # <<>>
        /\ node \in Seq(Names) /\ Listed(it)[1] \in Names
        /\ PathFrom(Listed(it)) = BelowRoot(files[it + 1])
    <3>1. node = FolderOf(names)
      BY <1>1, <1>5, NodeAtTheEnd
    <3>2. QED
      BY <1>1, <1>2, <1>5, <3>1, ListedIs
  <2>2. CASE HasFile(node, names[1])
    <3>1. status' = "crashed" /\ entries' = entries /\ it' = it
      BY <1>5, <2>2 DEF InsertFile
    <3>2. TypeOK'
      BY <1>1, <3>1 DEF TypeOK
    <3>3. EntriesAreListed'
      BY <1>1, <3>1 DEF EntriesAreListed, Listed, EntryOf
    <3>4. NodeIsOnThePath'
      BY <1>1, <3>1 DEF NodeIsOnThePath
    <3>5. FoldersAreOnTheWay'
      <4>1. OpenFolders' = OpenFolders
        BY <1>1, <3>1 DEF OpenFolders
      <4>2. QED
        BY <1>1, <4>1, FoldersAre, FoldersAreNext, Zenon
    <3>6. EndsWellUnless'
      <4>1. PICK i \in 0 .. it - 1 : EntryOf(i).folder = node /\ EntryOf(i).name = names[1]
        BY <1>1, <2>2 DEF HasFile, EntriesAreListed
      <4>2. FolderOf(Listed(i)) = FolderOf(Listed(it)) /\ Listed(i)[1] = Listed(it)[1]
        BY <1>1, <2>1, <4>1, EntryIs
      <4>3. PathFrom(Listed(i)) = PathFrom(Listed(it))
        BY <4>2, Zenon DEF PathFrom
      <4>4. Listed(i) # <<>> /\ i \in 0 .. Len(files) - 1 /\ i + 1 \in 1 .. it
        BY <1>1, <1>3 DEF EntriesAreListed
      <4>5. PathFrom(Listed(i)) = BelowRoot(files[i + 1]) /\ Inner(files[i + 1]) # {}
        BY <1>1, <4>4, ListedIs
      <4> DEFINE k == i + 1
      <4>6. k \in 1 .. it /\ Inner(files[k]) # {} /\ BelowRoot(files[k]) = BelowRoot(files[it + 1])
        BY <2>1, <4>3, <4>4, <4>5
      <4> HIDE DEF k
      <4>7. \E j \in 1 .. it : Inner(files[j]) # {} /\ BelowRoot(files[j]) = BelowRoot(files[it + 1])
        BY <4>6
      <4>8. QED
        BY <1>1, <3>1, <4>7, Zenon DEF EndsWellUnless, Inner, BelowRoot
    <3>7. QED
      BY <3>2, <3>3, <3>4, <3>5, <3>6 DEF IInv
  <2>3. CASE ~ HasFile(node, names[1])
    <3>1. /\ status' = "next" /\ it' = it + 1
          /\ entries' = entries \cup {EntryOf(it)}
      <4>1. EntryOf(it) = [folder |-> node, name |-> names[1], id |-> it]
        BY <1>1, <2>1 DEF EntryOf
      <4>2. QED
        BY <1>5, <2>3, <4>1 DEF InsertFile
    <3>2. TypeOK'
      <4>1. /\ EntryOf(it).folder \in Seq(Names) /\ EntryOf(it).name \in Names
            /\ EntryOf(it).id \in 0 .. Len(files) - 1
        BY <1>2, <2>1, EntryIs
      <4>2. it' \in 0 .. Len(files)
        BY <1>2, <3>1
      <4>3. \A e \in entries' : e.folder \in Seq(Names) /\ e.name \in Names
                                /\ e.id \in 0 .. Len(files') - 1
        BY <1>1, <3>1, <4>1 DEF TypeOK
      <4>4. QED
        BY <1>1, <3>1, <4>2, <4>3 DEF TypeOK
    <3>3. EntriesAreListed'
      <4>1. \A i : Listed(i)' = Listed(i) /\ EntryOf(i)' = EntryOf(i)
        BY <1>1 DEF Listed, EntryOf
      <4>2. \A i : i \in 0 .. it' - 1 <=> i \in 0 .. it - 1 \/ i = it
        BY <1>2, <3>1
      <4>3. entries' = {EntryOf(i) : i \in 0 .. it' - 1}
        BY <1>1, <3>1, <4>2 DEF EntriesAreListed
      <4>4. \A i \in 0 .. it' - 1 : Listed(i) # <<>>
        BY <1>1, <2>1, <4>2 DEF EntriesAreListed
      <4>5. \A i \in 0 .. it - 1 :
              ~ (FolderOf(Listed(i)) = FolderOf(Listed(it)) /\ Listed(i)[1] = Listed(it)[1])
        <5>1. TAKE i \in 0 .. it - 1
        <5>2. EntryOf(i) \in entries
          BY <1>1 DEF EntriesAreListed
        <5>3. ~ (EntryOf(i).folder = node /\ EntryOf(i).name = names[1])
          BY <2>3, <5>2 DEF HasFile
        <5>4. QED
          BY <1>1, <2>1, <5>3, EntryIs
      <4>6. \A i, j \in 0 .. it' - 1 :
              FolderOf(Listed(i)) = FolderOf(Listed(j)) /\ Listed(i)[1] = Listed(j)[1] => i = j
        BY <1>1, <4>2, <4>5 DEF EntriesAreListed
      <4>7. entries' = {EntryOf(i)' : i \in 0 .. it' - 1}
        BY <4>1, <4>3
      <4>8. QED
        BY <4>1, <4>4, <4>6, <4>7 DEF EntriesAreListed
    <3>4. NodeIsOnThePath'
      <4>1. it' <= stats'
        BY <1>1, <1>2, <3>1
      <4>2. EntryOf(it) \in entries' /\ node' = EntryOf(it).folder
        BY <1>1, <2>1, <3>1, EntryIs
      <4>3. QED
        BY <3>1, <4>1, <4>2 DEF NodeIsOnThePath
    <3>5. FoldersAreOnTheWay'
      <4>1. OpenFolders' = OpenFolders
        <5>1. OpenFolders' = {e.folder : e \in entries \cup {EntryOf(it)}}
          BY <3>1 DEF OpenFolders
        <5>2. OpenFolders = {e.folder : e \in entries} \cup {node}
          BY <1>1 DEF OpenFolders
        <5>3. EntryOf(it).folder = node
          BY <2>1, EntryIs
        <5>4. QED
          BY <5>1, <5>2, <5>3
      <4>2. QED
        BY <1>1, <4>1, FoldersAre, FoldersAreNext, Zenon
    <3>6. EndsWellUnless'
      BY <3>1 DEF EndsWellUnless
    <3>7. QED
      BY <3>2, <3>3, <3>4, <3>5, <3>6 DEF IInv
  <2>4. QED
    BY <2>2, <2>3
<1>6. QED
  BY <1>4, <1>5

-----------------------------------------------------------------------------
\* The files of the list added so far are in the tree, each where its path says, the
\* tree has the folders on the way to them, and content has not ended without cause.
THEOREM Invariant == Spec => []IInv
<1>1. Init => IInv
  BY InitHolds
<1>2. IInv /\ [Next]_vars => IInv'
  <2>1. SUFFICES ASSUME IInv, [Next]_vars PROVE IInv'
    OBVIOUS
  <2>2. CASE BeginPath
    BY <2>1, <2>2, BeginPathHolds
  <2>3. CASE EndContent
    BY <2>1, <2>3, EndContentHolds
  <2>4. CASE Descend
    BY <2>1, <2>4, DescendHolds
  <2>5. CASE InsertFile
    BY <2>1, <2>5, InsertFileHolds
  <2>6. CASE UNCHANGED vars
    <3>1. /\ files' = files /\ stats' = stats /\ it' = it /\ names' = names /\ level' = level
          /\ node' = node /\ folders' = folders /\ entries' = entries /\ status' = status
      BY <2>6 DEF vars
    <3>2. TypeOK'
      BY <2>1, <3>1 DEF IInv, TypeOK
    <3>3. EntriesAreListed'
      BY <2>1, <3>1 DEF IInv, EntriesAreListed, Listed, EntryOf
    <3>4. NodeIsOnThePath'
      BY <2>1, <3>1 DEF IInv, NodeIsOnThePath, Listed
    <3>5. FoldersAreOnTheWay'
      <4>1. OpenFolders' = OpenFolders
        BY <3>1 DEF OpenFolders
      <4>2. QED
        BY <2>1, <3>1, <4>1, FoldersAre, FoldersAreNext, Zenon DEF IInv
    <3>6. EndsWellUnless'
      <4>1. EndsWellUnless
        BY <2>1 DEF IInv
      <4>2. QED
        BY <3>1, <4>1 DEF EndsWellUnless
    <3>7. QED
      BY <3>2, <3>3, <3>4, <3>5, <3>6 DEF IInv
  <2>7. QED
    BY <2>1, <2>2, <2>3, <2>4, <2>5, <2>6 DEF Next
<1>3. QED
  BY <1>1, <1>2, PTL DEF Spec

\* The types of FolderTree's variables.
THEOREM TypeCorrect == Spec => []TypeOK
<1>1. IInv => TypeOK
  BY DEF IInv
<1>2. QED
  BY <1>1, Invariant, PTL

\* Every file added so far is in the tree at its path below the torrent, under its index
\* in the server's list, and no other is.
THEOREM FilesAdded == Spec => []FilesAreWhereListed
<1>1. IInv => FilesAreWhereListed
  <2>1. SUFFICES ASSUME IInv PROVE FilesAreWhereListed
    OBVIOUS
  <2>2. /\ TypeOK /\ it \in 0 .. Len(files) /\ Len(files) \in Nat
        /\ entries = {EntryOf(i) : i \in 0 .. it - 1}
        /\ \A i \in 0 .. it - 1 : Listed(i) # <<>>
    BY <2>1, FilesAreTexts DEF IInv, TypeOK, EntriesAreListed
  <2>3. \A i : EntryOf(i).id = i
    BY EntryIs
  <2>4. {e.id : e \in entries} = 0 .. it - 1
    BY <2>2, <2>3
  <2>5. \A e, f \in entries : e.id = f.id => e = f
    BY <2>2, <2>3
  <2>6. ASSUME NEW i \in 0 .. it - 1
        PROVE  /\ Inner(files[EntryOf(i).id + 1]) # {}
               /\ PathOf(EntryOf(i)) = BelowRoot(files[EntryOf(i).id + 1])
    <3>1. i \in 0 .. Len(files) - 1 /\ Listed(i) # <<>>
      BY <2>2
    <3>2. Inner(files[i + 1]) # {} /\ PathFrom(Listed(i)) = BelowRoot(files[i + 1])
      BY <2>2, <3>1, ListedIs
    <3>3. EntryOf(i).id = i /\ PathOf(EntryOf(i)) = PathFrom(Listed(i))
      BY EntryIs
    <3>4. QED
      BY <3>2, <3>3, Zenon
  <2>7. \A e \in entries : Inner(files[e.id + 1]) # {} /\ PathOf(e) = BelowRoot(files[e.id + 1])
    BY <2>2, <2>6, Zenon
  <2>8. QED
    BY <2>4, <2>5, <2>7 DEF FilesAreWhereListed
<1>2. QED
  BY <1>1, Invariant, PTL

\* The tree has the folders on the way to its files, and no other.
THEOREM FoldersAdded == Spec => []FoldersAreOnTheWay
<1>1. IInv => FoldersAreOnTheWay
  BY DEF IInv
<1>2. QED
  BY <1>1, Invariant, PTL

\* content throws only for a file in no folder or without fileStats, crashes only for a
\* second file of the same path, and is done only when there is neither.
THEOREM EndsForCause == Spec => []EndsWellUnless
<1>1. IInv => EndsWellUnless
  BY DEF IInv
<1>2. QED
  BY <1>1, Invariant, PTL

-----------------------------------------------------------------------------
(***************************************************************************)
(* The loops end: what the fairness of ContentEnds rests on.               *)
(***************************************************************************)
FilesLeft == Len(files) - it

\* ... of this file: to take its path apart, to go down to its folder, to insert it.
StepsLeft ==
  CASE status = "next" /\ it < Len(files)   -> Len(Listed(it)) + 2
    [] status = "next" /\ it >= Len(files)  -> 1
    [] status = "adding"                    -> level + 1
    [] status \in {"done", "threw", "crashed"} -> 0

StepsAreLeft ==
  /\ FilesLeft \in Nat /\ StepsLeft \in Nat
  /\ StepsLeft = 0 <=> status \in {"done", "threw", "crashed"}

\* Files first, then the steps of one.
StepsCountDown ==
  \/ FilesLeft' < FilesLeft
  \/ FilesLeft' = FilesLeft /\ StepsLeft' < StepsLeft

LEMMA NamesOfNext ==
  ASSUME TypeOK, it < Len(files)
  PROVE  Len(Listed(it)) \in Nat
<1>1. files \in Seq(Paths) /\ it \in 0 .. Len(files) /\ Len(files) \in Nat
  BY LenProperties DEF TypeOK
<1>2. files[it + 1] \in Text
  <2>1. it + 1 \in 1 .. Len(files)
    BY <1>1
  <2>2. files[it + 1] \in Paths
    BY <1>1, <2>1, ElementOfSeq
  <2>3. QED
    BY <2>2, FolderTreeAssumption DEF Text
<1>3. rsplit(files[it + 1]) \in Seq(Names)
  BY <1>2, RsplitType
<1>4. QED
  BY <1>3, LenProperties DEF Listed

LEMMA StepsAreCounted ==
  ASSUME TypeOK
  PROVE  StepsAreLeft
<1>1. /\ it \in 0 .. Len(files) /\ Len(files) \in Nat /\ level \in Nat
      /\ status \in {"next", "adding", "done", "threw", "crashed"}
  BY LenProperties DEF TypeOK
<1>2. FilesLeft \in Nat
  BY <1>1 DEF FilesLeft
<1>3. CASE status = "next" /\ it < Len(files)
  BY <1>2, <1>3, NamesOfNext DEF StepsAreLeft, StepsLeft
<1>4. CASE status = "next" /\ it >= Len(files)
  <2>1. ~ (it < Len(files))
    BY <1>1, <1>4
  <2>2. StepsLeft = 1
    BY <1>4, <2>1 DEF StepsLeft
  <2>3. QED
    BY <1>2, <1>4, <2>2 DEF StepsAreLeft
<1>5. CASE status = "adding"
  BY <1>1, <1>2, <1>5 DEF StepsAreLeft, StepsLeft
<1>6. CASE status \in {"done", "threw", "crashed"}
  BY <1>2, <1>6 DEF StepsAreLeft, StepsLeft
<1>7. QED
  BY <1>1, <1>3, <1>4, <1>5, <1>6

\* Every step of content, of addPath's loop that counts down on an unsigned index too,
\* leaves fewer files, or as many and less to do for this one; nothing is left to do
\* just when content has ended.  Both are numbers, so that it ends if it goes on.
THEOREM ContentCountsDown == Spec => []StepsAreLeft /\ [][StepsCountDown]_vars
<1>1. TypeOK => StepsAreLeft
  BY StepsAreCounted
<1>2. TypeOK /\ TypeOK' /\ [Next]_vars => [StepsCountDown]_vars
  <2>1. SUFFICES ASSUME TypeOK, TypeOK', Next PROVE StepsCountDown
    OBVIOUS
  <2>2. it \in 0 .. Len(files) /\ Len(files) \in Nat /\ level \in Nat
    BY <2>1, LenProperties DEF TypeOK
  <2>3. CASE BeginPath
    <3>1. /\ status = "next" /\ it < Len(files) /\ files' = files /\ it' = it
          /\ \/ /\ status' = "adding" /\ names' = Listed(it)
                /\ level' = IF names' = <<>> THEN 0 ELSE Len(names') - 1
             \/ status' = "threw"
      BY <2>3 DEF BeginPath, Listed
    <3>2. Len(Listed(it)) \in Nat
      BY <2>1, <3>1, NamesOfNext
    <3>3. StepsLeft = Len(Listed(it)) + 2 /\ FilesLeft' = FilesLeft
      <4>1. FilesLeft' = FilesLeft
        BY <3>1 DEF FilesLeft
      <4>2. StepsLeft = Len(Listed(it)) + 2
        <5>1. ~ (it >= Len(files))
          BY <2>2, <3>1
        <5>2. QED
          BY <3>1, <5>1, Zenon DEF StepsLeft
      <4>3. QED
        BY <4>1, <4>2
    <3>4. CASE status' = "threw"
      <4>1. StepsLeft' = 0
        BY <3>4 DEF StepsLeft
      <4>2. QED
        BY <3>2, <3>3, <4>1 DEF StepsCountDown
    <3>5. CASE status' = "adding"
      <4>1. StepsLeft' = level' + 1
        BY <3>5 DEF StepsLeft
      <4>2. level' = 0 \/ level' = Len(Listed(it)) - 1
        BY <3>1, <3>5
      <4>3. QED
        BY <3>2, <3>3, <4>1, <4>2 DEF StepsCountDown
    <3>6. QED
      BY <3>1, <3>4, <3>5
  <2>4. CASE EndContent
    <3>1. /\ status = "next" /\ status' = "done" /\ ~ (it < Len(files)) /\ it >= Len(files)
          /\ files' = files /\ it' = it
      BY <2>2, <2>4 DEF EndContent
    <3>2. FilesLeft' = FilesLeft
      BY <3>1 DEF FilesLeft
    <3>3. StepsLeft = 1 /\ StepsLeft' = 0
      BY <3>1 DEF StepsLeft
    <3>4. QED
      BY <3>2, <3>3 DEF StepsCountDown
  <2>5. CASE Descend
    <3>1. /\ status = "adding" /\ status' = "adding" /\ level' = level - 1
          /\ files' = files /\ it' = it
      BY <2>5 DEF Descend
    <3>2. FilesLeft' = FilesLeft
      BY <3>1 DEF FilesLeft
    <3>3. StepsLeft = level + 1 /\ StepsLeft' = level' + 1
      BY <3>1 DEF StepsLeft
    <3>4. QED
      BY <2>2, <3>1, <3>2, <3>3 DEF StepsCountDown
  <2>6. CASE InsertFile
    <3>1. /\ status = "adding" /\ level = 0 /\ files' = files
          /\ \/ status' \in {"threw", "crashed"} /\ it' = it
             \/ it' = it + 1
      BY <2>6 DEF InsertFile
    <3>2. StepsLeft = 1
      BY <3>1 DEF StepsLeft
    <3>3. CASE status' \in {"threw", "crashed"} /\ it' = it
      <4>1. StepsLeft' = 0 /\ FilesLeft' = FilesLeft
        BY <3>1, <3>3 DEF StepsLeft, FilesLeft
      <4>2. QED
        BY <3>2, <4>1 DEF StepsCountDown
    <3>4. CASE it' = it + 1
      BY <2>2, <3>1, <3>4 DEF StepsCountDown, FilesLeft
    <3>5. QED
      BY <3>1, <3>3, <3>4
  <2>7. QED
    BY <2>1, <2>3, <2>4, <2>5, <2>6 DEF Next
<1>3. QED
  BY <1>1, <1>2, TypeCorrect, PTL DEF Spec
=============================================================================
