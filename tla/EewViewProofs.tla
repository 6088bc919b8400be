--------------------------- MODULE EewViewProofs ---------------------------
(***************************************************************************)
(* Theorems about the archive viewer, for every set of telegrams whose     *)
(* eqIDs begin with a date, and for any queries.  What they decode to is   *)
(* what DecoderProofs proves of any body.                                  *)
(***************************************************************************)
EXTENDS EewView, DecoderProofs, FiniteSetTheorems, SequenceTheorems, TLAPS

ReportNames == [id : Quakes, num : 0..99]

-----------------------------------------------------------------------------
(* The inductive invariant                                                 *)

\* Directories are dates, or the beginnings of some.
DirsInv == \A dir \in dirs : \E d \in Date, k \in 1..3 : dir = SubSeq(d, 1, k)

\* A file is where FinalPath puts what it holds, and its directories are there.
FileInv(f) ==
    /\ files[f] \in Body
    /\ f = FinalPath(Decode(files[f]))
    /\ \A k \in DOMAIN f.dir : SubSeq(f.dir, 1, k) \in dirs

ArchiveInv ==
    /\ DirsInv
    /\ IsFiniteSet(DOMAIN files)
    /\ \A f \in DOMAIN files : FileInv(f)
    /\ storing \in Body \union {None}

RowSet == {[name |-> n, shows |-> Summary(Decode(b))] : n \in ReportNames, b \in Body}

RowNames == {page.rows[i].name : i \in DOMAIN page.rows}

\* The rows so far are in order, and each is about a file of the day.
RowsInv ==
    /\ page \in [kind : {"day"}, rows : Seq(RowSet)]
    /\ \A i, j \in DOMAIN page.rows :
          i < j => Less(page.rows[i].name, page.rows[j].name)
    /\ \A i \in DOMAIN page.rows :
          /\ IsTrue(page.rows[i])
          /\ page.rows[i].name \in Names(seen)

\* The files still to be read are in order, and come after the rows.
PendingInv ==
    /\ pending \in Seq(ReportNames)
    /\ \A j \in DOMAIN pending : pending[j] \in Names(seen)
    /\ \A i, j \in DOMAIN pending : i < j => Less(pending[i], pending[j])
    /\ \A i \in DOMAIN page.rows, j \in DOMAIN pending :
          Less(page.rows[i].name, pending[j])

\* At each step, where the reports are that the day had when it was asked for:
\* in the archive, then among the rows, the files to read and the unreadable.
ListInv ==
    /\ handler \in {"idle", "stat", "subdirs", "readDir"} => page = NoPage
    /\ handler \in {"stat", "readDir"} => before \subseteq Names(seen)
    /\ handler = "readFiles" =>
          /\ page.kind = "day" /\ PendingInv
          /\ before \ unread \subseteq RowNames \union {pending[j] : j \in DOMAIN pending}
    /\ page.kind = "day" => RowsInv
    /\ handler = "reply" /\ page.kind = "day" => before \ unread \subseteq RowNames

IInv == ArchiveInv /\ ListInv

-----------------------------------------------------------------------------
(* The order of a day's list                                               *)

LEMMA DateNumbers ==
    ASSUME NEW d \in Date
    PROVE  /\ d[1] \in 2000..3000 /\ d[2] \in 1..12 /\ d[3] \in 1..31
           /\ d = <<d[1], d[2], d[3]>>
BY DEF Date

LEMMA DateIsItsParts ==
    ASSUME NEW d \in Date, NEW e \in Date, d[1] = e[1], d[2] = e[2], d[3] = e[3]
    PROVE  d = e
BY DEF Date

LEMMA DateThenRest ==
    ASSUME NEW d \in Date, NEW r \in Nat
    PROVE  LET x == Append(d, r)
           IN  x[1] = d[1] /\ x[2] = d[2] /\ x[3] = d[3] /\ x[4] = r
<1>1. PICK d1 \in Int, d2 \in Int, d3 \in Int : d = <<d1, d2, d3>>
  <2> d[1] \in Int /\ d[2] \in Int /\ d[3] \in Int
    BY DateNumbers
  <2> WITNESS d[1] \in Int, d[2] \in Int, d[3] \in Int
  <2> QED BY DateNumbers
<1> QED BY <1>1

\* What IDLess compares, one number after the other.
LEMMA IDLessByParts ==
    ASSUME NEW a \in Quakes, NEW b \in Quakes
    PROVE  IDLess(a, b) <=>
               \/ a.date[1] < b.date[1]
               \/ a.date[1] = b.date[1] /\ a.date[2] < b.date[2]
               \/ /\ a.date[1] = b.date[1] /\ a.date[2] = b.date[2]
                  /\ a.date[3] < b.date[3]
               \/ a.date = b.date /\ a.rest < b.rest
<1>1. /\ a.date \in Date /\ a.rest \in Nat
      /\ b.date \in Date /\ b.rest \in Nat
  BY DEF Quakes
<1> DEFINE x == Append(a.date, a.rest)
           y == Append(b.date, b.rest)
<1>2. /\ x[1] = a.date[1] /\ x[2] = a.date[2] /\ x[3] = a.date[3] /\ x[4] = a.rest
      /\ y[1] = b.date[1] /\ y[2] = b.date[2] /\ y[3] = b.date[3] /\ y[4] = b.rest
  BY <1>1, DateThenRest
<1>3. IDLess(a, b) <=> \E k \in 1..4 : x[k] < y[k] /\ \A j \in 1..(k - 1) : x[j] = y[j]
  BY DEF IDLess
<1> HIDE DEF x, y
<1>4. (\E k \in 1..4 : x[k] < y[k] /\ \A j \in 1..(k - 1) : x[j] = y[j])
        <=> \/ x[1] < y[1]
            \/ x[1] = y[1] /\ x[2] < y[2]
            \/ x[1] = y[1] /\ x[2] = y[2] /\ x[3] < y[3]
            \/ x[1] = y[1] /\ x[2] = y[2] /\ x[3] = y[3] /\ x[4] < y[4]
  <2>1. 1..4 = {1, 2, 3, 4} /\ 1..(1 - 1) = {} /\ 1..(2 - 1) = {1}
        /\ 1..(3 - 1) = {1, 2} /\ 1..(4 - 1) = {1, 2, 3}
    OBVIOUS
  <2> QED BY <2>1
<1>5. a.date = b.date <=>
          a.date[1] = b.date[1] /\ a.date[2] = b.date[2] /\ a.date[3] = b.date[3]
  BY <1>1, DateIsItsParts
<1> QED BY <1>2, <1>3, <1>4, <1>5

LEMMA QuakeIsItsParts ==
    ASSUME NEW a \in Quakes, NEW b \in Quakes, a.date = b.date, a.rest = b.rest
    PROVE  a = b
BY DEF Quakes

\* eqIDs are strictly ordered, and any two are.
LEMMA QuakesOrdered ==
    ASSUME NEW a \in Quakes, NEW b \in Quakes, NEW c \in Quakes
    PROVE  /\ ~IDLess(a, a)
           /\ IDLess(a, b) /\ IDLess(b, c) => IDLess(a, c)
           /\ a # b => IDLess(a, b) \/ IDLess(b, a)
<1>1. a.date \in Date /\ b.date \in Date /\ c.date \in Date
      /\ a.rest \in Nat /\ b.rest \in Nat /\ c.rest \in Nat
  BY DEF Quakes
<1>2. /\ a.date[1] \in Int /\ a.date[2] \in Int /\ a.date[3] \in Int
      /\ b.date[1] \in Int /\ b.date[2] \in Int /\ b.date[3] \in Int
      /\ c.date[1] \in Int /\ c.date[2] \in Int /\ c.date[3] \in Int
  <2>1. \A d \in Date : d[1] \in Int /\ d[2] \in Int /\ d[3] \in Int
    BY DateNumbers
  <2> QED BY <1>1, <2>1
<1>3. ~IDLess(a, a)
  BY <1>1, <1>2, IDLessByParts
<1>4. IDLess(a, b) /\ IDLess(b, c) => IDLess(a, c)
  <2> SUFFICES ASSUME IDLess(a, b), IDLess(b, c) PROVE IDLess(a, c)
    OBVIOUS
  <2>1. CASE a.date = b.date
    BY <1>1, <1>2, <2>1, IDLessByParts
  <2>2. CASE b.date = c.date
    BY <1>1, <1>2, <2>2, IDLessByParts
  <2>3. CASE a.date # b.date /\ b.date # c.date
    BY <1>1, <1>2, <2>3, IDLessByParts
  <2> QED BY <2>1, <2>2, <2>3
<1>5. a # b => IDLess(a, b) \/ IDLess(b, a)
  <2>1. CASE a.date = b.date
    BY <1>1, <2>1, IDLessByParts, QuakeIsItsParts
  <2>2. CASE a.date # b.date
    BY <1>1, <1>2, <2>2, IDLessByParts, DateIsItsParts
  <2> QED BY <2>1, <2>2
<1> QED BY <1>3, <1>4, <1>5

\* So are the names of reports, by lessEEWFile.
LEMMA NamesOrdered ==
    ASSUME NEW a \in ReportNames, NEW b \in ReportNames, NEW c \in ReportNames
    PROVE  /\ ~Less(a, a)
           /\ Less(a, b) /\ Less(b, c) => Less(a, c)
           /\ a # b => Less(a, b) \/ Less(b, a)
<1>1. a.id \in Quakes /\ b.id \in Quakes /\ c.id \in Quakes
      /\ a.num \in Int /\ b.num \in Int /\ c.num \in Int
  BY DEF ReportNames
<1>2. a.id = b.id /\ a.num = b.num => a = b
  BY DEF ReportNames
<1> QED BY <1>1, <1>2, QuakesOrdered DEF Less

\* A set of names has exactly one place for each in the order: the number of
\* those that are not after it.
LEMMA SortedSorts ==
    ASSUME NEW S \in SUBSET ReportNames, IsFiniteSet(S)
    PROVE  /\ Sorted(S) \in Seq(S)
           /\ \A i, j \in DOMAIN Sorted(S) : i < j => Less(Sorted(S)[i], Sorted(S)[j])
           /\ \A x \in S : \E i \in DOMAIN Sorted(S) : Sorted(S)[i] = x
<1> DEFINE n == Cardinality(S)
           UpTo(x) == {y \in S : ~Less(x, y)}
           rank == [x \in S |-> Cardinality(UpTo(x))]
           In(s) == \A i, j \in DOMAIN s : i < j => Less(s[i], s[j])
<1>1. n \in Nat /\ IsFiniteSet(1..n) /\ Cardinality(1..n) = n
  BY FS_CardinalityType, FS_Interval
<1>2. \A x \in S : IsFiniteSet(UpTo(x)) /\ rank[x] \in 1..n
  <2> TAKE x \in S
  <2>1. UpTo(x) \in SUBSET S /\ x \in UpTo(x)
    BY NamesOrdered
  <2>2. IsFiniteSet(UpTo(x)) /\ Cardinality(UpTo(x)) <= n
    BY <2>1, FS_Subset
  <2>3. Cardinality(UpTo(x)) \in Nat /\ Cardinality(UpTo(x)) # 0
    BY <2>1, <2>2, FS_CardinalityType, FS_EmptySet
  <2> HIDE DEF UpTo, n
  <2> QED BY <1>1, <2>2, <2>3
<1>3. \A x, y \in S : Less(x, y) => rank[x] < rank[y]
  <2> SUFFICES ASSUME NEW x \in S, NEW y \in S, Less(x, y)
               PROVE  rank[x] < rank[y]
    OBVIOUS
  <2>1. UpTo(x) \in SUBSET UpTo(y) /\ y \in UpTo(y) /\ y \notin UpTo(x)
    BY NamesOrdered
  <2>2. IsFiniteSet(UpTo(x)) /\ IsFiniteSet(UpTo(y))
    BY <1>2
  <2> HIDE DEF UpTo
  <2>3. Cardinality(UpTo(x)) <= Cardinality(UpTo(y))
        /\ Cardinality(UpTo(x)) # Cardinality(UpTo(y))
    BY <2>1, <2>2, FS_Subset
  <2>4. Cardinality(UpTo(x)) \in Nat /\ Cardinality(UpTo(y)) \in Nat
    BY <2>2, FS_CardinalityType
  <2> QED BY <2>3, <2>4
<1>4. rank \in Surjection(S, 1..n)
  <2>1. rank \in [S -> 1..n]
    BY <1>2
  <2>2. \A x, y \in S : rank[x] = rank[y] => x = y
    <3> HIDE DEF rank, n
    <3>1. \A x, y \in S : Less(x, y) => rank[x] # rank[y]
      <4> SUFFICES ASSUME NEW x \in S, NEW y \in S, Less(x, y) PROVE rank[x] # rank[y]
        OBVIOUS
      <4>1. n \in Int /\ rank[x] \in 1..n /\ rank[y] \in 1..n /\ rank[x] < rank[y]
        <5>1. rank[x] < rank[y]
          BY <1>3
        <5>2. rank[x] \in 1..n /\ rank[y] \in 1..n
          BY <1>2
        <5> QED BY <1>1, <5>1, <5>2
      <4> QED BY <4>1
    <3> QED BY <3>1, NamesOrdered
  <2>3. rank \in Injection(S, 1..n)
    BY <2>1, <2>2 DEF Injection, IsInjective
  <2> HIDE DEF rank
  <2> QED BY <1>1, <2>3, FS_Injection
<1> DEFINE s == [i \in 1..n |-> CHOOSE x \in S : rank[x] = i]
<1>5. \A i \in 1..n : s[i] \in S /\ rank[s[i]] = i
  <2>1. \A i \in 1..n : \E x \in S : rank[x] = i
    BY <1>4 DEF Surjection
  <2> HIDE DEF rank, n
  <2> QED BY <2>1
<1>6. s \in SetToSeqs(S) /\ In(s)
  <2>1. s \in [1..n -> S]
    BY <1>5
  <2>2. \A i, j \in 1..n : i # j => s[i] # s[j]
    <3> HIDE DEF s, rank
    <3> QED BY <1>5
  <2>3. DOMAIN s = 1..n
    OBVIOUS
  <2>4. \A i, j \in 1..n : i < j => Less(s[i], s[j])
    <3> HIDE DEF s, rank, n
    <3> QED BY <1>1, <1>3, <1>5, <2>2, NamesOrdered
  <2> HIDE DEF rank, s
  <2> QED BY <2>1, <2>2, <2>3, <2>4 DEF SetToSeqs
<1>7. Sorted(S) \in SetToSeqs(S) /\ In(Sorted(S))
  BY <1>6 DEF Sorted
<1>8. Sorted(S) \in [1..n -> S] /\ \A i, j \in 1..n : i # j => Sorted(S)[i] # Sorted(S)[j]
  BY <1>7 DEF SetToSeqs
<1>9. Sorted(S) \in Seq(S) /\ DOMAIN Sorted(S) = 1..n
  BY <1>1, <1>8
<1>10. \A x \in S : \E i \in 1..n : Sorted(S)[i] = x
  <2>1. Sorted(S) \in Injection(1..n, S)
    BY <1>8 DEF Injection, IsInjective
  <2>2. Sorted(S) \in Surjection(1..n, S)
    BY <1>1, <2>1, FS_Injection
  <2> QED BY <2>2 DEF Surjection
<1> QED BY <1>7, <1>9, <1>10
-----------------------------------------------------------------------------
(* The archive                                                             *)

\* The beginnings of a path of three numbers.
LEMMA PathPrefixes ==
    ASSUME NEW d \in Seq(Int), Len(d) = 3
    PROVE  /\ SubSeq(d, 1, 0) = <<>>
           /\ SubSeq(d, 1, 1) = <<d[1]>>
           /\ SubSeq(d, 1, 2) = <<d[1], d[2]>>
           /\ SubSeq(d, 1, 3) = d
           /\ \A k \in 1..3 :
                 /\ Append(SubSeq(d, 1, k - 1), d[k]) = SubSeq(d, 1, k)
                 /\ k \in DOMAIN SubSeq(d, 1, k) /\ SubSeq(d, 1, k)[k] = d[k]
                 /\ Len(SubSeq(d, 1, k)) = k
<1>1. \A i \in 1..3 : d[i] \in Int
  BY ElementOfSeq
<1>2. ASSUME NEW k \in 0..3
      PROVE  /\ SubSeq(d, 1, k) \in Seq(Int) /\ Len(SubSeq(d, 1, k)) = k
             /\ \A i \in 1..k : SubSeq(d, 1, k)[i] = d[i]
  <2>1. k \in Int /\ \A i \in 1..k : d[i] \in Int
    BY <1>1
  <2>2. /\ SubSeq(d, 1, k) \in Seq(Int)
        /\ Len(SubSeq(d, 1, k)) = IF 1 <= k THEN k - 1 + 1 ELSE 0
        /\ \A i \in 1..(k - 1 + 1) : SubSeq(d, 1, k)[i] = d[1 + i - 1]
    BY <2>1, SubSeqProperties
  <2> QED BY <2>2
<1>3. \A k \in 0..3, s \in Seq(Int) :
          Len(s) = k /\ (\A i \in 1..k : s[i] = d[i]) => SubSeq(d, 1, k) = s
  BY <1>2, SeqEqual
<1>4. SubSeq(d, 1, 0) = <<>>
  BY <1>3
<1>5. SubSeq(d, 1, 1) = <<d[1]>>
  <2> DEFINE s == <<d[1]>>
  <2>1. s \in Seq(Int) /\ Len(s) = 1 /\ \A i \in 1..1 : s[i] = d[i]
    BY <1>1
  <2> HIDE DEF s
  <2>2. SubSeq(d, 1, 1) = s
    BY <1>3, <2>1
  <2> QED BY <2>2 DEF s
<1>6. SubSeq(d, 1, 2) = <<d[1], d[2]>>
  <2> DEFINE s == <<d[1], d[2]>>
  <2>1. s \in Seq(Int) /\ Len(s) = 2 /\ \A i \in 1..2 : s[i] = d[i]
    BY <1>1
  <2> HIDE DEF s
  <2>2. SubSeq(d, 1, 2) = s
    BY <1>3, <2>1
  <2> QED BY <2>2 DEF s
<1>7. SubSeq(d, 1, 3) = d
  BY <1>3
<1>8. ASSUME NEW k \in 1..3
      PROVE  /\ Append(SubSeq(d, 1, k - 1), d[k]) = SubSeq(d, 1, k)
             /\ k \in DOMAIN SubSeq(d, 1, k) /\ SubSeq(d, 1, k)[k] = d[k]
             /\ Len(SubSeq(d, 1, k)) = k
  <2> DEFINE s == SubSeq(d, 1, k - 1)
  <2>1. /\ s \in Seq(Int) /\ Len(s) = k - 1 /\ d[k] \in Int
        /\ \A i \in 1..(k - 1) : s[i] = d[i]
    BY <1>2
  <2> HIDE DEF s
  <2>2. /\ Append(s, d[k]) \in Seq(Int) /\ Len(Append(s, d[k])) = k
        /\ \A i \in 1..k : Append(s, d[k])[i] = d[i]
    BY <2>1, AppendProperties
  <2>3. Append(s, d[k]) = SubSeq(d, 1, k)
    BY <1>3, <2>2
  <2>4. SubSeq(d, 1, k) \in Seq(Int) /\ Len(SubSeq(d, 1, k)) = k
        /\ SubSeq(d, 1, k)[k] = d[k]
    BY <1>2
  <2>5. k \in DOMAIN SubSeq(d, 1, k)
    BY <2>4
  <2> QED BY <2>3, <2>4, <2>5 DEF s
<1> QED BY <1>4, <1>5, <1>6, <1>7, <1>8

\* A date is a path of three numbers.
LEMMA DateIsPath ==
    ASSUME NEW d \in Date
    PROVE  d \in Seq(Int) /\ Len(d) = 3 /\ DOMAIN d = 1..3 /\ d # <<>>
<1>1. PICK x \in Int, y \in Int, z \in Int : d = <<x, y, z>>
  <2> d[1] \in Int /\ d[2] \in Int /\ d[3] \in Int
    BY DateNumbers
  <2> WITNESS d[1] \in Int, d[2] \in Int, d[3] \in Int
  <2> QED BY DateNumbers
<1> QED BY <1>1

\* What FinalPath makes of a body that may come.
LEMMA PathOfBody ==
    ASSUME NEW body \in Body
    PROVE  LET f == FinalPath(Decode(body)) IN
           /\ f = [dir |-> f.dir, name |-> f.name]
           /\ f.name.num = Decode(body).num
           /\ f.name.id = Decode(body).eqID
           /\ f.name.id # NoQuake =>
                 /\ f.name \in ReportNames
                 /\ f.dir = f.name.id.date
                 /\ f.dir \in Date
           /\ f.name.id = NoQuake => f.dir = <<>>
<1>1. Decode(body).num \in 0..99
      /\ (Decode(body).eqID # NoQuake => Decode(body).eqID \in Quakes)
  <2>1. body \in Seq(Line)
    BY BodyAssumption
  <2> QED BY <2>1, DecodedName, BodyAssumption
<1>2. \A q \in Quakes : q.date \in Date
  BY DEF Quakes
<1> QED BY <1>1, <1>2 DEF FinalPath, Name, ReportNames

\* A file that has a name the viewer knows, or is in a directory.
LEMMA FileOfDay ==
    ASSUME ArchiveInv, NEW f \in DOMAIN files
    PROVE  /\ f = [dir |-> f.dir, name |-> f.name]
           /\ files[f] \in Body
           /\ f.name = Name(Decode(files[f]))
           /\ Decode(files[f]).num = f.name.num
           /\ Decode(files[f]).eqID = f.name.id
           /\ f.name.id # NoQuake \/ f.dir # <<>> =>
                 /\ f.name.id # NoQuake
                 /\ f.name \in ReportNames
                 /\ f.dir = f.name.id.date
                 /\ f.dir \in Date
<1>1. FileInv(f)
  BY DEF ArchiveInv
<1>2. f.name = Name(Decode(files[f]))
  BY <1>1 DEF FileInv, FinalPath
<1> QED BY <1>1, <1>2, PathOfBody DEF FileInv

\* The names of a day are finitely many, and each is that of a telegram there.
LEMMA NamesOfDay ==
    ASSUME ArchiveInv, NEW dir
    PROVE  /\ Names(dir) \subseteq ReportNames
           /\ IsFiniteSet(Names(dir))
           /\ \A n \in Names(dir) :
                 LET f == [dir |-> dir, name |-> n] IN
                 f \in DOMAIN files /\ files[f] \in Body /\ n = Name(Decode(files[f]))
<1>1. \A n \in Names(dir) :
          LET f == [dir |-> dir, name |-> n] IN
          /\ n \in ReportNames /\ f \in DOMAIN files
          /\ files[f] \in Body /\ n = Name(Decode(files[f]))
  BY FileOfDay DEF Names
<1> DEFINE path == [n \in Names(dir) |-> [dir |-> dir, name |-> n]]
<1>2. path \in Injection(Names(dir), DOMAIN files)
  <2>1. path \in [Names(dir) -> DOMAIN files]
    BY <1>1
  <2>2. \A m, n \in Names(dir) : path[m] = path[n] => m = n
    OBVIOUS
  <2> QED BY <2>1, <2>2 DEF Injection, IsInjective
<1>3. IsFiniteSet(Names(dir))
  <2> HIDE DEF path
  <2> QED BY <1>2, FS_Injection DEF ArchiveInv
<1> QED BY <1>1, <1>3

\* Finalize goes to a date or to the top.
LEMMA TargetPath ==
    ASSUME storing \in Body
    PROVE  /\ Target = FinalPath(Decode(storing))
           /\ Target.dir \in Date \union {<<>>}
           /\ Missing \subseteq 1..3
<1>1. Target.dir \in Date \union {<<>>}
  BY PathOfBody DEF Target
<1>2. DOMAIN Target.dir \subseteq 1..3
  BY <1>1, DateIsPath
<1> QED BY <1>1, <1>2 DEF Target, Missing
\* What the notifier has made stays.
Grows == dirs \subseteq dirs' /\ DOMAIN files \subseteq DOMAIN files'

LEMMA MakeDirKeeps ==
    ASSUME ArchiveInv, MakeDir
    PROVE  ArchiveInv' /\ Grows
<1>1. storing \in Body /\ storing # None /\ Missing # {}
      /\ UNCHANGED <<files, storing>>
  BY DEF ArchiveInv, MakeDir
<1>2. Min(Missing) \in Missing
  <2>1. \E k \in Missing : \A j \in Missing : k <= j
    <3>1. CASE 1 \in Missing
      BY <1>1, <3>1, TargetPath
    <3>2. CASE 1 \notin Missing /\ 2 \in Missing
      BY <1>1, <3>2, TargetPath
    <3>3. CASE 1 \notin Missing /\ 2 \notin Missing
      <4>1. Missing = {3}
        BY <1>1, <3>3, TargetPath
      <4> QED BY <4>1
    <3> QED BY <3>1, <3>2, <3>3
  <2> QED BY <2>1 DEF Min
<1> DEFINE dir == SubSeq(Target.dir, 1, Min(Missing))
<1>3. \E d \in Date, k \in 1..3 : dir = SubSeq(d, 1, k)
  <2>1. Target.dir # <<>>
    BY <1>2 DEF Missing
  <2> QED BY <1>1, <1>2, <2>1, TargetPath
<1>4. dirs' = dirs \union {dir}
  BY DEF MakeDir
<1> HIDE DEF dir
<1>5. DirsInv'
  BY <1>3, <1>4 DEF ArchiveInv, DirsInv
<1>6. (\A f \in DOMAIN files : FileInv(f))'
  BY <1>1, <1>4 DEF ArchiveInv, FileInv
<1> QED BY <1>1, <1>4, <1>5, <1>6 DEF ArchiveInv, Grows

LEMMA RenameKeeps ==
    ASSUME ArchiveInv, Rename
    PROVE  ArchiveInv' /\ Grows
<1>1. /\ storing \in Body /\ Missing = {} /\ storing' = None /\ dirs' = dirs
      /\ files' = [f \in DOMAIN files \union {Target} |->
                      IF f = Target THEN storing ELSE files[f]]
  BY DEF ArchiveInv, Rename
<1>2. DOMAIN files' = DOMAIN files \union {Target}
  BY <1>1
<1>3. IsFiniteSet(DOMAIN files')
  BY <1>2, FS_AddElement DEF ArchiveInv
<1>4. Target = FinalPath(Decode(storing))
      /\ \A k \in DOMAIN Target.dir : SubSeq(Target.dir, 1, k) \in dirs
  BY <1>1 DEF Target, Missing
<1>5. ASSUME NEW f \in DOMAIN files'
      PROVE  FileInv(f)'
  <2>1. CASE f = Target
    <3>1. files'[f] = storing
      BY <1>1, <1>2, <2>1
    <3> QED BY <1>1, <1>4, <2>1, <3>1 DEF FileInv
  <2>2. CASE f # Target
    <3>1. f \in DOMAIN files /\ files'[f] = files[f]
      BY <1>1, <1>2, <2>2
    <3> QED BY <1>1, <3>1 DEF ArchiveInv, FileInv
  <2> QED BY <2>1, <2>2
<1>6. DirsInv'
  BY <1>1 DEF ArchiveInv, DirsInv
<1> QED BY <1>1, <1>2, <1>3, <1>5, <1>6 DEF ArchiveInv, Grows

\* Steps that leave directories and files alone.
LEMMA SameArchive ==
    ASSUME ArchiveInv, UNCHANGED <<dirs, files>>, storing' \in Body \union {None}
    PROVE  ArchiveInv' /\ Grows
<1>1. DirsInv' /\ (\A f \in DOMAIN files : FileInv(f))'
  BY DEF ArchiveInv, DirsInv, FileInv
<1> QED BY <1>1 DEF ArchiveInv, Grows

\* The archive is growing while the handler looks at it: what the handler has
\* found out stays true.
LEMMA ListSurvives ==
    ASSUME ListInv, Grows, UNCHANGED viewVars
    PROVE  ListInv'
<1>1. Names(seen) \subseteq Names(seen)' /\ UNCHANGED viewVars
  BY DEF Grows, Names, viewVars
<1> QED BY <1>1 DEF ListInv, RowsInv, PendingInv, RowNames, viewVars

\* The steps of Finalize.
LEMMA NotifierKeeps ==
    ASSUME IInv, NotifierStep \/ \E body \in Body : Finalize(body)
    PROVE  IInv'
<1>1. UNCHANGED viewVars
  BY DEF NotifierStep, MakeDir, Rename, FinalizeFails, Finalize
<1>2. ArchiveInv' /\ Grows
  <2>1. CASE MakeDir
    BY <2>1, MakeDirKeeps DEF IInv
  <2>2. CASE Rename
    BY <2>2, RenameKeeps DEF IInv
  <2>3. CASE FinalizeFails \/ \E body \in Body : Finalize(body)
    BY <2>3, SameArchive DEF IInv, FinalizeFails, Finalize
  <2> QED BY <2>1, <2>2, <2>3 DEF NotifierStep
<1> QED BY <1>1, <1>2, ListSurvives DEF IInv

-----------------------------------------------------------------------------
(* The handlers                                                            *)

\* The steps that read no directory for the page, and those that end in links.
LEMMA ShortSteps ==
    ASSUME IInv, NEW q, Request(q) \/ Found \/ NotFound \/ ShowSubdirs
    PROVE  ListInv'
<1>1. CASE Request(q)
  BY <1>1 DEF IInv, ListInv, Request, NoPage, Names, archiveVars
<1>2. CASE Found
  BY <1>2 DEF IInv, ListInv, Found, NoPage, Names, archiveVars
<1>3. CASE NotFound
  BY <1>3 DEF IInv, ListInv, NotFound, NoPage
<1>4. CASE ShowSubdirs
  <2>1. handler' = "reply" /\ page'.kind = "links"
    BY <1>4 DEF ShowSubdirs
  <2> QED BY <2>1 DEF ListInv
<1> QED BY <1>1, <1>2, <1>3, <1>4

\* All names of the day are to be read, in their order.
LEMMA ReadDirKeeps ==
    ASSUME IInv, ReadDir
    PROVE  ListInv'
<1>1. /\ handler = "readDir" /\ handler' = "readFiles"
      /\ pending' = Sorted(Names(seen)) /\ page' = [kind |-> "day", rows |-> <<>>]
      /\ seen' = seen /\ before' = before /\ unread' = unread /\ files' = files
  BY DEF ReadDir, archiveVars
<1>2. Names(seen)' = Names(seen) /\ Names(seen) \subseteq ReportNames
      /\ before \subseteq Names(seen)
  BY <1>1, NamesOfDay DEF IInv, ListInv, Names
<1>3. /\ pending' \in Seq(Names(seen))
      /\ \A i, j \in DOMAIN pending' : i < j => Less(pending'[i], pending'[j])
      /\ \A n \in Names(seen) : \E i \in DOMAIN pending' : pending'[i] = n
  BY <1>1, NamesOfDay, SortedSorts DEF IInv
<1>4. pending' \in Seq(ReportNames) /\ \A j \in DOMAIN pending' : pending'[j] \in Names(seen)
  BY <1>2, <1>3
<1>5. page'.kind = "day" /\ page'.rows = <<>> /\ page'.rows \in Seq(RowSet)
      /\ DOMAIN page'.rows = {}
  BY <1>1
<1>6. RowsInv'
  BY <1>1, <1>5 DEF RowsInv
<1>7. PendingInv'
  BY <1>2, <1>3, <1>4, <1>5 DEF PendingInv
<1>8. (before \ unread \subseteq RowNames \union {pending[j] : j \in DOMAIN pending})'
  BY <1>1, <1>2, <1>3
<1> QED BY <1>1, <1>5, <1>6, <1>7, <1>8 DEF ListInv

LEMMA ReadDirFailsKeeps ==
    ASSUME IInv, ReadDirFails
    PROVE  ListInv'
<1>1. handler' = "reply" /\ page'.kind # "day"
  BY DEF ReadDirFails
<1> QED BY <1>1 DEF ListInv

\* What reading or failing to read the next file leaves to read.
LEMMA NextPending ==
    ASSUME PendingInv, pending # <<>>
    PROVE  /\ 1 \in DOMAIN pending
           /\ Tail(pending) \in Seq(ReportNames)
           /\ \A j \in DOMAIN Tail(pending) :
                 /\ j \in Nat /\ j + 1 \in DOMAIN pending /\ 1 < j + 1
                 /\ Tail(pending)[j] = pending[j + 1]
           /\ \A j \in DOMAIN pending :
                 j = 1 \/ \E i \in DOMAIN Tail(pending) : Tail(pending)[i] = pending[j]
<1>1. pending \in Seq(ReportNames)
  BY DEF PendingInv
<1>2. /\ Tail(pending) \in Seq(ReportNames) /\ Len(Tail(pending)) = Len(pending) - 1
      /\ \A i \in 1..Len(Tail(pending)) : Tail(pending)[i] = pending[i + 1]
      /\ Len(pending) \in Nat /\ Len(pending) # 0
      /\ DOMAIN pending = 1..Len(pending)
      /\ DOMAIN Tail(pending) = 1..Len(Tail(pending))
  BY <1>1, HeadTailProperties
<1>3. \A j \in DOMAIN pending :
        j = 1 \/ \E i \in DOMAIN Tail(pending) : Tail(pending)[i] = pending[j]
  <2> TAKE j \in DOMAIN pending
  <2>1. CASE j # 1
    <3>1. j - 1 \in DOMAIN Tail(pending) /\ Tail(pending)[j - 1] = pending[(j - 1) + 1]
      BY <1>2, <2>1
    <3> QED BY <1>2, <3>1
  <2> QED BY <2>1
<1> QED BY <1>2, <1>3

\* The name goes from the files to read to the unreadable.
LEMMA ReadFileFailsKeeps ==
    ASSUME IInv, ReadFileFails
    PROVE  ListInv'
<1>1. /\ handler = "readFiles" /\ pending # <<>> /\ pending' = Tail(pending)
      /\ unread' = unread \union {pending[1]}
      /\ UNCHANGED <<files, handler, seen, page, before>>
  BY DEF ReadFileFails, archiveVars
<1>2. page.kind = "day" /\ PendingInv /\ RowsInv
      /\ before \ unread \subseteq RowNames \union {pending[j] : j \in DOMAIN pending}
  BY <1>1 DEF IInv, ListInv
<1>3. Names(seen)' = Names(seen) /\ RowNames' = RowNames
  BY <1>1 DEF Names, RowNames
<1>4. PendingInv'
  BY <1>1, <1>2, <1>3, NextPending DEF PendingInv
<1>5. RowsInv'
  BY <1>1, <1>2, <1>3 DEF RowsInv
<1>6. (before \ unread \subseteq RowNames \union {pending[j] : j \in DOMAIN pending})'
  BY <1>1, <1>2, <1>3, NextPending
<1> QED BY <1>1, <1>2, <1>4, <1>5, <1>6 DEF ListInv
\* The name read goes from the files to read to the rows.
LEMMA ReadFileKeeps ==
    ASSUME IInv, ReadFile
    PROVE  ListInv'
<1> DEFINE body == files[[dir |-> seen, name |-> pending[1]]]
           row == [name |-> pending[1], shows |-> Summary(Decode(body))]
<1>1. /\ handler = "readFiles" /\ pending # <<>> /\ pending' = Tail(pending)
      /\ page' = [page EXCEPT !.rows = Append(@, row)]
      /\ UNCHANGED <<files, handler, seen, before, unread>>
  BY DEF ReadFile, archiveVars
<1>2. page.kind = "day" /\ PendingInv /\ RowsInv
      /\ before \ unread \subseteq RowNames \union {pending[j] : j \in DOMAIN pending}
  BY <1>1 DEF IInv, ListInv
<1>3. /\ 1 \in DOMAIN pending /\ pending[1] \in ReportNames
      /\ pending[1] \in Names(seen)
  BY <1>1, <1>2, NextPending DEF PendingInv
<1>4. body \in Body /\ pending[1] = Name(Decode(body))
  BY <1>3, NamesOfDay DEF IInv
<1>5. row \in RowSet /\ row.name = pending[1] /\ IsTrue(row)
  BY <1>3, <1>4 DEF RowSet, IsTrue
<1> HIDE DEF body, row
<1>6. /\ page \in [kind : {"day"}, rows : Seq(RowSet)]
      /\ page.rows \in Seq(RowSet) /\ Len(page.rows) \in Nat
      /\ DOMAIN page.rows = 1..Len(page.rows)
  BY <1>2 DEF RowsInv
<1> DEFINE n == Len(page.rows)
<1>7. /\ page' \in [kind : {"day"}, rows : Seq(RowSet)]
      /\ page'.kind = "day" /\ page'.rows = Append(page.rows, row)
  <2>1. page' = [kind |-> "day", rows |-> Append(page.rows, row)]
    BY <1>1, <1>6
  <2>2. Append(page.rows, row) \in Seq(RowSet)
    BY <1>5, <1>6, AppendProperties
  <2> QED BY <2>1, <2>2
<1>8. /\ DOMAIN page'.rows = 1..(n + 1)
      /\ \A i \in 1..n : page'.rows[i] = page.rows[i]
      /\ page'.rows[n + 1] = row
  BY <1>5, <1>6, <1>7, AppendProperties
<1>9. Names(seen)' = Names(seen)
  BY <1>1 DEF Names
<1>10. \A i \in DOMAIN page'.rows : i \in DOMAIN page.rows \/ i = n + 1
  BY <1>6, <1>8
<1>11. RowsInv'
  <2>1. ASSUME NEW i \in DOMAIN page'.rows, NEW j \in DOMAIN page'.rows, i < j
        PROVE  Less(page'.rows[i].name, page'.rows[j].name)
    <3>1. i \in 1..n /\ (j \in 1..n \/ j = n + 1)
      BY <1>6, <1>8, <2>1
    <3>2. CASE j \in 1..n
      BY <1>2, <1>6, <1>8, <2>1, <3>1, <3>2 DEF RowsInv
    <3>3. CASE j = n + 1
      BY <1>2, <1>3, <1>5, <1>6, <1>8, <3>1, <3>3 DEF PendingInv
    <3> QED BY <3>1, <3>2, <3>3
  <2>2. ASSUME NEW i \in DOMAIN page'.rows
        PROVE  /\ IsTrue(page'.rows[i])
               /\ page'.rows[i].name \in Names(seen)
    BY <1>2, <1>3, <1>5, <1>6, <1>8, <1>10 DEF RowsInv
  <2> QED BY <1>7, <1>9, <2>1, <2>2 DEF RowsInv
<1>12. PendingInv'
  <2>1. ASSUME NEW i \in DOMAIN page'.rows, NEW j \in DOMAIN Tail(pending)
        PROVE  Less(page'.rows[i].name, Tail(pending)[j])
    <3>1. /\ j + 1 \in DOMAIN pending /\ 1 < j + 1
          /\ Tail(pending)[j] = pending[j + 1]
      BY <1>1, <1>2, NextPending
    <3>2. CASE i \in DOMAIN page.rows
      BY <1>2, <1>6, <1>8, <3>1, <3>2 DEF PendingInv
    <3>3. CASE i = n + 1
      BY <1>2, <1>3, <1>5, <1>8, <3>1, <3>3 DEF PendingInv
    <3> QED BY <1>10, <3>2, <3>3
  <2>2. /\ Tail(pending) \in Seq(ReportNames)
        /\ \A j \in DOMAIN Tail(pending) : Tail(pending)[j] \in Names(seen)
        /\ \A i, j \in DOMAIN Tail(pending) :
              i < j => Less(Tail(pending)[i], Tail(pending)[j])
    BY <1>1, <1>2, NextPending DEF PendingInv
  <2> QED BY <1>1, <1>9, <2>1, <2>2 DEF PendingInv
<1>13. (before \ unread \subseteq RowNames \union {pending[j] : j \in DOMAIN pending})'
  <2> SUFFICES ASSUME NEW x \in before \ unread
               PROVE  \/ \E i \in DOMAIN page'.rows : x = page'.rows[i].name
                      \/ \E j \in DOMAIN Tail(pending) : x = Tail(pending)[j]
    BY <1>1 DEF RowNames
  <2>1. CASE \E i \in DOMAIN page.rows : x = page.rows[i].name
    BY <1>6, <1>8, <2>1
  <2>2. CASE \E j \in DOMAIN pending : x = pending[j]
    <3>1. PICK j \in DOMAIN pending : x = pending[j]
      BY <2>2
    <3>2. CASE j = 1
      BY <1>5, <1>6, <1>8, <3>1, <3>2
    <3>3. CASE j # 1
      BY <1>1, <1>2, <3>1, <3>3, NextPending
    <3> QED BY <3>2, <3>3
  <2> QED BY <1>2, <2>1, <2>2 DEF RowNames
<1> QED BY <1>1, <1>7, <1>11, <1>12, <1>13 DEF ListInv

LEMMA RenderListKeeps ==
    ASSUME IInv, RenderList
    PROVE  ListInv'
<1>1. /\ handler = "readFiles" /\ handler' = "reply" /\ pending = <<>>
      /\ UNCHANGED <<files, seen, page, before, unread>>
  BY DEF RenderList, archiveVars
<1>2. RowsInv /\ before \ unread \subseteq RowNames
  BY <1>1 DEF IInv, ListInv
<1>3. Names(seen)' = Names(seen) /\ RowNames' = RowNames
  BY <1>1 DEF Names, RowNames
<1>4. RowsInv'
  BY <1>1, <1>2, <1>3 DEF RowsInv
<1> QED BY <1>1, <1>2, <1>3, <1>4 DEF ListInv

LEMMA ReplyKeeps ==
    ASSUME Reply
    PROVE  ListInv'
BY DEF Reply, ListInv, NoPage

LEMMA ShowDetailKeeps ==
    ASSUME NEW name, ShowDetail(name)
    PROVE  ListInv'
<1>1. handler' = "reply" /\ page'.kind # "day"
  BY DEF ShowDetail, DetailPage
<1> QED BY <1>1 DEF ListInv

LEMMA ViewerKeeps ==
    ASSUME IInv, NEW q, NEW name, ShowDetail(name) \/ Request(q) \/ ListStep
    PROVE  IInv'
<1>1. UNCHANGED <<dirs, files, storing>>
  BY DEF ShowDetail, Request, ListStep, Found, NotFound, ShowSubdirs, ReadDir,
         ReadDirFails, ReadFile, ReadFileFails, RenderList, Reply, archiveVars
<1>2. ArchiveInv'
  BY <1>1, SameArchive DEF IInv, ArchiveInv
<1>3. ListInv'
  BY ShortSteps, ReadDirKeeps, ReadDirFailsKeeps, ReadFileKeeps,
     ReadFileFailsKeeps, RenderListKeeps, ReplyKeeps, ShowDetailKeeps
     DEF ListStep
<1> QED BY <1>2, <1>3 DEF IInv

-----------------------------------------------------------------------------
(* The theorems                                                            *)

LEMMA InitHolds == Init => IInv
<1> SUFFICES ASSUME Init PROVE IInv
  OBVIOUS
<1>1. DOMAIN files = {}
  BY DEF Init
<1>2. ArchiveInv
  BY <1>1, FS_EmptySet DEF Init, ArchiveInv, DirsInv
<1>3. ListInv
  BY DEF Init, ListInv, NoPage
<1> QED BY <1>2, <1>3 DEF IInv

LEMMA NextKeeps ==
    ASSUME IInv, [Next]_vars
    PROVE  IInv'
<1>1. CASE NotifierStep \/ \E body \in Body : Finalize(body)
  BY <1>1, NotifierKeeps
<1>2. CASE \/ \E body \in Body : ShowDetail(Name(Decode(body)))
           \/ \E q \in Query : Request(q)
           \/ ListStep
  BY <1>2, ViewerKeeps
<1>3. CASE UNCHANGED vars
  <2>1. UNCHANGED <<dirs, files, storing>> /\ UNCHANGED viewVars
    BY <1>3 DEF vars, archiveVars
  <2>2. ArchiveInv' /\ Grows
    BY <2>1, SameArchive DEF IInv, ArchiveInv
  <2> QED BY <2>1, <2>2, ListSurvives DEF IInv
<1> QED BY <1>1, <1>2, <1>3 DEF Next

\* list.go:99-182, detail.go:53-93, store.go:63-74: the invariant holds through
\* every step of the handlers and of the notifier.
THEOREM Invariance == Spec => []IInv
<1>1. IInv /\ [Next]_vars => IInv'
  BY NextKeeps
<1> QED BY InitHolds, <1>1, PTL DEF Spec
\* list.go:55-64, 153-180: whatever the notifier does meanwhile, a day's list is
\* complete as of the request, in order, and true of each report.
THEOREM ListAlwaysFaithful == Spec => []ListIsFaithful
<1>1. IInv => ListIsFaithful
  <2> SUFFICES ASSUME IInv PROVE ListIsFaithful
    OBVIOUS
  <2>1. CASE page.kind # "day"
    BY <2>1 DEF ListIsFaithful, Rows
  <2>2. CASE page.kind = "day"
    <3>1. Rows = page.rows /\ RowsInv
      BY <2>2 DEF IInv, ListInv, Rows
    <3>2. \A a, b : Less(a, b) => Earlier(a, b)
      BY DEF Less, Earlier
    <3>3. \A i \in DOMAIN Rows : [dir |-> seen, name |-> Rows[i].name] \in DOMAIN files
      BY <3>1, NamesOfDay DEF IInv, RowsInv
    <3>4. handler = "reply" => before \ unread \subseteq {Rows[i].name : i \in DOMAIN Rows}
      BY <2>2, <3>1 DEF IInv, ListInv, RowNames
    <3> QED BY <3>1, <3>2, <3>3, <3>4 DEF RowsInv, ListIsFaithful
  <2> QED BY <2>1, <2>2
<1> QED BY Invariance, <1>1, PTL

\* The clamps leave the numbers of a date as they are, and an absent parameter
\* becomes a number that no directory has.
LEMMA LinkIsKept ==
    ASSUME NEW d \in Date
    PROVE  /\ Saturated(LinkTo(<<d[1]>>)) = <<d[1], 0, 0>>
           /\ Saturated(LinkTo(<<d[1], d[2]>>)) = <<d[1], d[2], 0>>
           /\ Saturated(LinkTo(d)) = d
<1>1. d[1] \in 2000..3000 /\ d[2] \in 1..12 /\ d[3] \in 1..31 /\ Len(d) = 3
      /\ d = <<d[1], d[2], d[3]>>
  BY DateNumbers, DateIsPath
<1>2. /\ Saturate(d[1], 2000, 3000) = d[1]
      /\ Saturate(d[2], 1, 12) = d[2]
      /\ Saturate(d[3], 1, 31) = d[3]
  BY <1>1, ParameterAssumption DEF Saturate
<1>3. \A min, max : Saturate(Absent, min, max) = 0
  BY DEF Saturate
<1>4. LinkTo(<<d[1]>>) = [year |-> d[1], month |-> Absent, day |-> Absent]
  BY DEF LinkTo
<1>5. LinkTo(<<d[1], d[2]>>) = [year |-> d[1], month |-> d[2], day |-> Absent]
  BY DEF LinkTo
<1>6. LinkTo(d) = [year |-> d[1], month |-> d[2], day |-> d[3]]
  BY <1>1 DEF LinkTo
<1> QED BY <1>1, <1>2, <1>3, <1>4, <1>5, <1>6 DEF Saturated

\* No directory has the number 0.
LEMMA NoDirectoryZero ==
    ASSUME DirsInv, NEW y, NEW m
    PROVE  <<y, 0>> \notin dirs /\ <<y, m, 0>> \notin dirs
<1> SUFFICES ASSUME NEW dir \in dirs, dir = <<y, 0>> \/ dir = <<y, m, 0>>
             PROVE  FALSE
  OBVIOUS
<1>1. PICK d \in Date, k \in 1..3 : dir = SubSeq(d, 1, k)
  BY DEF DirsInv
<1>2. d[2] # 0 /\ d[3] # 0 /\ d = <<d[1], d[2], d[3]>>
  BY DateNumbers
<1>3. dir = <<d[1]>> \/ dir = <<d[1], d[2]>> \/ dir = <<d[1], d[2], d[3]>>
  <2>1. k = 1 \/ k = 2 \/ k = 3
    OBVIOUS
  <2> QED BY <1>1, <1>2, <2>1, DateIsPath, PathPrefixes
<1> QED BY <1>2, <1>3

\* How a link is followed, in terms of the path that the clamps make of it.
LEMMA LeadsBy ==
    ASSUME NEW dir, NEW path,
           Saturated(LinkTo(dir)) = path,
           SubSeq(path, 1, Len(dir)) = dir,
           Len(dir) < 3 => SubSeq(path, 1, Len(dir) + 1) \notin dirs
    PROVE  LeadsTo(LinkTo(dir), dir)
BY DEF LeadsTo

\* A link to a directory of a telegram leads there.
LEMMA LinksLead ==
    ASSUME DirsInv, NEW d \in Date, NEW k \in 1..3
    PROVE  LeadsTo(LinkTo(SubSeq(d, 1, k)), SubSeq(d, 1, k))
<1>1. d \in Seq(Int) /\ Len(d) = 3 /\ d[1] \in Int /\ d[2] \in Int
  BY DateIsPath, DateNumbers
<1>2. LeadsTo(LinkTo(SubSeq(d, 1, 1)), SubSeq(d, 1, 1))
  <2> DEFINE path == <<d[1], 0, 0>>
             dir == <<d[1]>>
  <2>1. path \in Seq(Int) /\ Len(path) = 3 /\ path[1] = d[1] /\ path[2] = 0
        /\ Len(dir) = 1 /\ dir = <<d[1]>>
    BY <1>1
  <2>2. Saturated(LinkTo(dir)) = path
    BY LinkIsKept
  <2>3. SubSeq(d, 1, 1) = dir
    BY <1>1, PathPrefixes
  <2> HIDE DEF path, dir
  <2>4. SubSeq(path, 1, 1) = dir /\ SubSeq(path, 1, 2) = <<d[1], 0>>
    BY <2>1, PathPrefixes
  <2>5. SubSeq(path, 1, 2) \notin dirs
    BY <2>4, NoDirectoryZero
  <2>6. SubSeq(path, 1, Len(dir)) = dir /\ SubSeq(path, 1, Len(dir) + 1) \notin dirs
    BY <2>1, <2>4, <2>5
  <2>7. LeadsTo(LinkTo(dir), dir)
    BY ONLY <2>2, <2>6, LeadsBy
  <2> QED BY <2>3, <2>7
<1>3. LeadsTo(LinkTo(SubSeq(d, 1, 2)), SubSeq(d, 1, 2))
  <2> DEFINE path == <<d[1], d[2], 0>>
             dir == <<d[1], d[2]>>
  <2>1. path \in Seq(Int) /\ Len(path) = 3 /\ path[1] = d[1] /\ path[2] = d[2]
        /\ Len(dir) = 2 /\ dir = <<d[1], d[2]>>
    BY <1>1
  <2>2. Saturated(LinkTo(dir)) = path
    BY LinkIsKept
  <2>3. SubSeq(d, 1, 2) = dir
    BY <1>1, PathPrefixes
  <2>4. path \notin dirs
    BY NoDirectoryZero
  <2> HIDE DEF path, dir
  <2>5. /\ SubSeq(path, 1, 2) = dir /\ SubSeq(path, 1, 3) \notin dirs
        /\ Len(dir) = 2 /\ Len(dir) + 1 = 3
    <3>1. SubSeq(path, 1, 2) = <<path[1], path[2]>> /\ SubSeq(path, 1, 3) = path
      BY <2>1, PathPrefixes
    <3>2. <<path[1], path[2]>> = dir
      BY <2>1
    <3>3. Len(dir) + 1 = 3
      BY <2>1
    <3> QED BY <2>1, <2>4, <3>1, <3>2, <3>3
  <2>6. SubSeq(path, 1, Len(dir)) = dir /\ SubSeq(path, 1, Len(dir) + 1) \notin dirs
    BY ONLY <2>5
  <2>7. LeadsTo(LinkTo(dir), dir)
    BY ONLY <2>2, <2>6, LeadsBy
  <2> QED BY <2>3, <2>7
<1>4. LeadsTo(LinkTo(SubSeq(d, 1, 3)), SubSeq(d, 1, 3))
  <2>1. SubSeq(d, 1, 3) = d
    BY <1>1, PathPrefixes
  <2>2. LeadsTo(LinkTo(d), d)
    <3>1. Saturated(LinkTo(d)) = d
      BY LinkIsKept
    <3>2. SubSeq(d, 1, Len(d)) = d /\ ~(Len(d) < 3)
      BY <1>1, <2>1
    <3> QED BY ONLY <3>1, <3>2, LeadsBy
  <2> QED BY <2>1, <2>2
<1>5. k = 1 \/ k = 2 \/ k = 3
  OBVIOUS
<1> QED BY <1>2, <1>3, <1>4, <1>5

\* The name of a report is one that the detail page takes.
LEMMA NamesOpen ==
    ASSUME NEW name \in ReportNames, name.id # NoQuake
    PROVE  DetailName(name)
<1> DEFINE num == name.num
<1>1. num \in 0..99
  BY DEF ReportNames
<1> HIDE DEF num
<1>2. num < 10000
  BY <1>1
<1> QED BY <1>2 DEF num, DetailName

\* Each directory of a telegram is listed in the one above.
LEMMA ListedAbove ==
    ASSUME NEW d \in Date, NEW k \in 1..3, SubSeq(d, 1, k) \in dirs
    PROVE  d[k] \in Subdirs(SubSeq(d, 1, k - 1))
<1>1. /\ Append(SubSeq(d, 1, k - 1), d[k]) = SubSeq(d, 1, k)
      /\ k \in DOMAIN SubSeq(d, 1, k) /\ SubSeq(d, 1, k)[k] = d[k]
  BY DateIsPath, PathPrefixes
<1>2. d[k] \in UNION {{dir[i] : i \in DOMAIN dir} : dir \in dirs}
  <2> DEFINE deep == SubSeq(d, 1, k)
  <2>1. deep \in dirs /\ d[k] \in {deep[i] : i \in DOMAIN deep}
    BY <1>1
  <2> HIDE DEF deep
  <2> QED BY <2>1
<1> QED BY <1>1, <1>2 DEF Subdirs

\* eewlog/store.go:49-52, list.go:99-182, detail.go:88-119: links lead from the
\* top to the day of every telegram with a date, its row opens it, and the link
\* back leads to its day.
THEOREM EveryReportIsReached == Spec => []EveryReportReached
<1>1. IInv => EveryReportReached
  <2> SUFFICES ASSUME IInv, NEW f \in DOMAIN files, f.dir # <<>>
               PROVE  /\ \A k \in 1..3 :
                           /\ f.dir[k] \in Subdirs(SubSeq(f.dir, 1, k - 1))
                           /\ LeadsTo(LinkTo(SubSeq(f.dir, 1, k)), SubSeq(f.dir, 1, k))
                      /\ LET opened == DetailPage(f.name) IN
                           /\ opened.kind = "detail"
                           /\ opened.shows.id = f.name.id
                           /\ opened.shows.summary.num = f.name.num
                           /\ LeadsTo(LinkTo(opened.back), f.dir)
    BY DEF EveryReportReached
  <2>1. /\ f = [dir |-> f.dir, name |-> f.name]
        /\ f.name.id # NoQuake /\ f.name \in ReportNames
        /\ f.dir = f.name.id.date /\ f.dir \in Date
        /\ Decode(files[f]).num = f.name.num /\ Decode(files[f]).eqID = f.name.id
    BY FileOfDay DEF IInv
  <2>2. \A k \in 1..3 : SubSeq(f.dir, 1, k) \in dirs
    <3>1. DOMAIN f.dir = 1..3
      BY <2>1, DateIsPath
    <3> QED BY <3>1 DEF IInv, ArchiveInv, FileInv
  <2>3. ASSUME NEW k \in 1..3
        PROVE  /\ f.dir[k] \in Subdirs(SubSeq(f.dir, 1, k - 1))
               /\ LeadsTo(LinkTo(SubSeq(f.dir, 1, k)), SubSeq(f.dir, 1, k))
    BY <2>1, <2>2, ListedAbove, LinksLead DEF IInv, ArchiveInv
  <2>4. DetailPage(f.name) = [kind |-> "detail", back |-> f.dir,
                              shows |-> Detail(Decode(files[f]))]
    <3>1. TelegramPath(f.name) = f
      BY <2>1 DEF TelegramPath
    <3>2. DetailName(f.name)
      BY <2>1, NamesOpen
    <3> QED BY <2>1, <3>1, <3>2 DEF DetailPage
  <2>5. Detail(Decode(files[f])).id = f.name.id
        /\ Detail(Decode(files[f])).summary.num = f.name.num
    BY <2>1 DEF Detail, Summary
  <2>6. LeadsTo(LinkTo(f.dir), f.dir)
    <3>1. SubSeq(f.dir, 1, 3) = f.dir
      BY <2>1, DateIsPath, PathPrefixes
    <3>2. LeadsTo(LinkTo(SubSeq(f.dir, 1, 3)), SubSeq(f.dir, 1, 3))
      BY <2>3
    <3> QED BY <3>1, <3>2
  <2> QED BY <2>3, <2>4, <2>5, <2>6
<1> QED BY Invariance, <1>1, PTL

-----------------------------------------------------------------------------
\* decoder.go:79-94: nothing that the archive holds, and no short body, is
\* decoded to something else than it says.
THEOREM DecodeAlwaysAgrees == Spec => []DecodeAgrees
<1>1. Misread = {}
  <2>1. ASSUME NEW n \in 0..MaxLines, NEW body \in [1..n -> Line]
        PROVE  Says(Decode(body), body)
    <3>1. body \in Seq(Line)
      BY MaxLinesAssumption
    <3> QED BY <3>1, DecodeSays
  <2> QED BY <2>1 DEF Misread
<1>2. IInv => DecodeAgrees
  <2> SUFFICES ASSUME ArchiveInv, NEW f \in DOMAIN files
               PROVE  Says(Decode(files[f]), files[f])
    BY <1>1 DEF IInv, DecodeAgrees
  <2>1. files[f] \in Seq(Line)
    BY BodyAssumption DEF ArchiveInv, FileInv
  <2> QED BY <2>1, DecodeSays
<1> QED BY <1>2, Invariance, PTL
=============================================================================
