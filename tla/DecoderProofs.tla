--------------------------- MODULE DecoderProofs ---------------------------
(***************************************************************************)
(* Decode says what the body says, for bodies of any length, and lines     *)
(* that tell different things may change places.                           *)
(*                                                                         *)
(* Induction is over sets of numbers, so that it takes no operator as a    *)
(* parameter: a set with 0 and with the successor of each of its numbers   *)
(* holds every number.                                                     *)
(***************************************************************************)
EXTENDS Decoder, FiniteSetTheorems, SequenceTheorems, TLAPS

-----------------------------------------------------------------------------
(* Induction                                                               *)

\* If n were missing, adding 1 would map what there is up to n into itself
\* without reaching 0, and a finite set has no such map.
LEMMA InductionOverNat ==
    ASSUME NEW S, 0 \in S, \A n \in Nat : n \in S => n + 1 \in S
    PROVE  Nat \subseteq S
<1> SUFFICES ASSUME NEW n \in Nat, n \notin S PROVE FALSE
  OBVIOUS
<1> DEFINE A == (0..n) \cap S
           next == [x \in A |-> x + 1]
<1>1. IsFiniteSet(A) /\ 0 \in A /\ \A x \in A : x \in Nat /\ x + 1 \in A \ {0}
  <2>1. IsFiniteSet(0..n)
    BY FS_Interval
  <2>2. IsFiniteSet(A)
    BY <2>1, FS_Subset
  <2>3. \A x \in A : x \in Nat /\ x + 1 \in A \ {0}
    OBVIOUS
  <2> QED BY <2>2, <2>3
<1> HIDE DEF A
<1>2. next \in [A -> A \ {0}] /\ \A x, y \in A : next[x] = next[y] => x = y
  BY <1>1
<1> HIDE DEF next
<1>3. IsFiniteSet(A \ {0}) /\ Cardinality(A \ {0}) < Cardinality(A)
  <2>1. IsFiniteSet(A \ {0}) /\ Cardinality(A \ {0}) = Cardinality(A) - 1
    BY <1>1, FS_RemoveElement
  <2>2. Cardinality(A) \in Nat
    BY <1>1, FS_CardinalityType
  <2> QED BY <2>1, <2>2
<1> QED BY <1>1, <1>2, <1>3, FS_PigeonHole

\* A set of places has a last one.
LEMMA LastPlace ==
    ASSUME NEW n \in Nat, NEW P \in SUBSET (1..n), P # {}
    PROVE  Max(P) \in P /\ \A i \in P : i <= Max(P)
<1> DEFINE S == {m \in Nat : \A Q \in SUBSET (1..m) :
                                Q # {} => \E x \in Q : \A i \in Q : x >= i}
<1>1. 0 \in S
  <2>1. \A Q \in SUBSET (1..0) : Q = {}
    OBVIOUS
  <2> QED BY <2>1
<1>2. ASSUME NEW m \in Nat, m \in S
      PROVE  m + 1 \in S
  <2> SUFFICES ASSUME NEW Q \in SUBSET (1..(m + 1)), Q # {}
               PROVE  \E x \in Q : \A i \in Q : x >= i
    OBVIOUS
  <2>1. CASE m + 1 \in Q
    BY <2>1
  <2>2. CASE m + 1 \notin Q
    <3>1. Q \in SUBSET (1..m)
      BY <2>2
    <3> QED BY <1>2, <3>1
  <2> QED BY <2>1, <2>2
<1> HIDE DEF S
<1>3. n \in S
  BY <1>1, <1>2, InductionOverNat
<1>4. \E x \in P : \A i \in P : x >= i
  BY <1>3 DEF S
<1>5. Max(P) \in P /\ \A i \in P : Max(P) >= i
  BY <1>4 DEF Max
<1> QED BY <1>5

\* The last of the places 1 to n + 1, and what is before it.
LEMMA MaxOfInterval ==
    ASSUME NEW n \in Nat
    PROVE  /\ 1..(n + 1) # {}
           /\ Max(1..(n + 1)) = n + 1
           /\ (1..(n + 1)) \ {n + 1} = 1..n
<1>1. n + 1 \in Nat /\ n + 1 \in 1..(n + 1)
  OBVIOUS
<1>2. Max(1..(n + 1)) \in 1..(n + 1) /\ n + 1 <= Max(1..(n + 1))
  BY <1>1, LastPlace
<1>3. (1..(n + 1)) \ {n + 1} = 1..n
  OBVIOUS
<1> QED BY <1>1, <1>2, <1>3

-----------------------------------------------------------------------------
(* The fold, line by line                                                  *)

\* What the fold makes of the lines at the places in P, the last one last.
Folded(body, fold, P) ==
    IF P = {} THEN Undecoded ELSE Read(fold[P \ {Max(P)}], body[Max(P)])

\* The recursive function of the fold exists ...
LEMMA FoldExists ==
    ASSUME NEW body, NEW n \in Nat
    PROVE  \E fold : fold = [P \in SUBSET (1..n) |-> Folded(body, fold, P)]
<1> DEFINE S == {m \in Nat :
                    \E fold : fold = [P \in SUBSET (1..m) |-> Folded(body, fold, P)]}
<1>1. 0 \in S
  <2> DEFINE fold == [P \in SUBSET (1..0) |-> Undecoded]
  <2>1. fold = [P \in SUBSET (1..0) |-> Folded(body, fold, P)]
    BY DEF Folded
  <2> QED BY <2>1
<1>2. ASSUME NEW m \in Nat, m \in S
      PROVE  m + 1 \in S
  <2>1. PICK fold : fold = [P \in SUBSET (1..m) |-> Folded(body, fold, P)]
    BY <1>2
  <2> DEFINE longer == [P \in SUBSET (1..(m + 1)) |-> Folded(body, fold, P)]
  <2>2. \A P \in SUBSET (1..m) : longer[P] = fold[P]
    BY <2>1
  <2>3. ASSUME NEW P \in SUBSET (1..(m + 1))
        PROVE  longer[P] = Folded(body, longer, P)
    <3>1. CASE P = {}
      BY <3>1 DEF Folded
    <3>2. CASE P # {}
      <4>1. Max(P) \in P /\ \A i \in P : i <= Max(P)
        <5>1. m + 1 \in Nat
          OBVIOUS
        <5> QED BY <3>2, <5>1, LastPlace
      <4>2. P \ {Max(P)} \in SUBSET (1..m)
        <5>1. ASSUME NEW i \in P, i # Max(P)
              PROVE  i \in 1..m
          <6>1. i \in 1..(m + 1) /\ Max(P) \in 1..(m + 1) /\ i <= Max(P)
            BY <4>1
          <6> QED BY <5>1, <6>1
        <5> QED BY <5>1
      <4>3. longer[P \ {Max(P)}] = fold[P \ {Max(P)}]
        BY <2>2, <4>2
      <4> HIDE DEF longer
      <4>4. Folded(body, longer, P) = Folded(body, fold, P)
        BY <4>3 DEF Folded
      <4> QED BY <4>4 DEF longer
    <3> QED BY <3>1, <3>2
  <2>4. longer = [P \in SUBSET (1..(m + 1)) |-> Folded(body, longer, P)]
    BY <2>3
  <2> HIDE DEF longer
  <2> QED BY <2>4
<1> HIDE DEF S
<1>3. n \in S
  BY <1>1, <1>2, InductionOverNat
<1> QED BY <1>3 DEF S

FoldOf(body) ==
    CHOOSE fold : fold = [P \in SUBSET DOMAIN body |-> Folded(body, fold, P)]

\* ... and is what Decode uses.
LEMMA DecodeFolds ==
    ASSUME NEW body
    PROVE  Decode(body) = FoldOf(body)[DOMAIN body]
BY DEF Decode, FoldLeft, MapThenFoldSet, FoldOf, Folded

LEMMA FoldOfBody ==
    ASSUME NEW n \in Nat, NEW body, DOMAIN body = 1..n, NEW P \in SUBSET (1..n)
    PROVE  FoldOf(body)[P] = Folded(body, FoldOf(body), P)
<1>1. FoldOf(body) = [Q \in SUBSET (1..n) |-> Folded(body, FoldOf(body), Q)]
  BY FoldExists DEF FoldOf
<1> QED BY <1>1

\* The fold over the first places, one more at a time.
LEMMA FoldStep ==
    ASSUME NEW n \in Nat, NEW body, DOMAIN body = 1..n, NEW m \in Nat, m + 1 <= n
    PROVE  FoldOf(body)[1..(m + 1)] = Read(FoldOf(body)[1..m], body[m + 1])
<1> DEFINE P == 1..(m + 1)
<1>1. P # {} /\ Max(P) = m + 1 /\ P \ {m + 1} = 1..m
  BY MaxOfInterval
<1>2. P \in SUBSET (1..n)
  OBVIOUS
<1> HIDE DEF P
<1>3. FoldOf(body)[P] = Folded(body, FoldOf(body), P)
  BY <1>2, FoldOfBody
<1>4. P \ {Max(P)} = 1..m
  BY <1>1
<1>5. Folded(body, FoldOf(body), P) = Read(FoldOf(body)[1..m], body[m + 1])
  BY <1>1, <1>4 DEF Folded
<1>6. FoldOf(body)[P] = Read(FoldOf(body)[1..m], body[m + 1])
  BY <1>3, <1>5
<1> QED BY <1>6 DEF P

\* The fold over the first n places sees no other lines.
LEMMA FoldOfPrefix ==
    ASSUME NEW n \in Nat, NEW body, NEW longer,
           DOMAIN body = 1..n, DOMAIN longer = 1..(n + 1),
           \A i \in 1..n : longer[i] = body[i]
    PROVE  FoldOf(longer)[1..n] = FoldOf(body)[1..n]
<1> DEFINE S == {m \in Nat : m <= n => FoldOf(longer)[1..m] = FoldOf(body)[1..m]}
<1>0. n + 1 \in Nat
  OBVIOUS
<1>1. 0 \in S
  <2>1. 1..0 = {} /\ {} \in SUBSET (1..n) /\ {} \in SUBSET (1..(n + 1))
    OBVIOUS
  <2>2. FoldOf(longer)[{}] = Undecoded /\ FoldOf(body)[{}] = Undecoded
    BY <1>0, <2>1, FoldOfBody DEF Folded
  <2> QED BY <2>1, <2>2
<1>2. ASSUME NEW m \in Nat, m \in S
      PROVE  m + 1 \in S
  <2> SUFFICES ASSUME m + 1 <= n
               PROVE  FoldOf(longer)[1..(m + 1)] = FoldOf(body)[1..(m + 1)]
    OBVIOUS
  <2>1. FoldOf(longer)[1..(m + 1)] = Read(FoldOf(longer)[1..m], longer[m + 1])
    <3>1. m + 1 <= n + 1
      OBVIOUS
    <3> QED BY <1>0, <3>1, FoldStep
  <2>2. FoldOf(body)[1..(m + 1)] = Read(FoldOf(body)[1..m], body[m + 1])
    BY FoldStep
  <2>3. longer[m + 1] = body[m + 1] /\ FoldOf(longer)[1..m] = FoldOf(body)[1..m]
    BY <1>2
  <2> QED BY <2>1, <2>2, <2>3
<1> HIDE DEF S
<1>3. n \in S
  BY <1>1, <1>2, InductionOverNat
<1> QED BY <1>3 DEF S

\* decoder.go:80: a body without lines leaves the telegram as it was made.
LEMMA DecodeNothing == Decode(<<>>) = Undecoded
<1>1. DOMAIN <<>> = 1..0 /\ 1..0 = {} /\ {} \in SUBSET (1..0)
  OBVIOUS
<1> QED BY <1>1, DecodeFolds, FoldOfBody DEF Folded

\* decoder.go:81-92: the last line is read into what the lines before it gave.
LEMMA DecodeAppend ==
    ASSUME NEW S, NEW body \in Seq(S), NEW line \in S
    PROVE  Decode(Append(body, line)) = Read(Decode(body), line)
<1> DEFINE n == Len(body)
           longer == Append(body, line)
<1>1. /\ n \in Nat /\ DOMAIN body = 1..n /\ DOMAIN longer = 1..(n + 1)
      /\ (\A i \in 1..n : longer[i] = body[i]) /\ longer[n + 1] = line
  BY AppendProperties
<1> HIDE DEF n, longer
<1>2. n + 1 \in Nat /\ n + 1 <= n + 1
  BY <1>1
<1>3. FoldOf(longer)[1..(n + 1)] = Read(FoldOf(longer)[1..n], line)
  BY <1>1, <1>2, FoldStep
<1>4. FoldOf(longer)[1..n] = FoldOf(body)[1..n]
  BY <1>1, FoldOfPrefix
<1>5. Decode(longer) = Read(Decode(body), line)
  BY <1>1, <1>3, <1>4, DecodeFolds
<1> QED BY <1>5 DEF longer

-----------------------------------------------------------------------------
(* Reading one more line                                                   *)

\* The fields of Undecoded, and no others.
IsTelegram(t) ==
    t = [cancelled |-> t.cancelled, warnTime |-> t.warnTime, eqTime |-> t.eqTime,
         eqID |-> t.eqID, ncn |-> t.ncn, num |-> t.num, center |-> t.center,
         ebi |-> t.ebi]

\* The pattern of a line's kind finds something in it.
LEMMA KindFinds ==
    ASSUME NEW line
    PROVE  /\ Kind(line) \in {"header", "eqTime", "nd", "center", "ebi", "text"}
           /\ Kind(line) # "text" => Finds(line, Kind(line))
<1> DEFINE found == {i \in DOMAIN Patterns : Finds(line, Patterns[i])}
<1>1. DOMAIN Patterns = 1..5 /\ \A i \in 1..5 :
          Patterns[i] \in {"header", "eqTime", "nd", "center", "ebi"}
  BY DEF Patterns
<1>2. CASE found = {}
  BY <1>2 DEF Kind
<1>3. CASE found # {}
  <2>1. found \in SUBSET (1..5)
    BY <1>1
  <2>2. \E i \in found : \A j \in found : i <= j
    <3>1. \A i \in found : i = 1 \/ i = 2 \/ i = 3 \/ i = 4 \/ i = 5
      BY <2>1
    <3> HIDE DEF found
    <3> QED BY <1>3, <3>1
  <2>3. Min(found) \in found
    BY <2>2 DEF Min
  <2>4. Kind(line) = Patterns[Min(found)] /\ Finds(line, Patterns[Min(found)])
    BY <1>3, <2>3 DEF Kind
  <2> QED BY <1>1, <2>1, <2>3, <2>4
<1> QED BY <1>2, <1>3

\* The places of the lines of one kind, with one line more.
LEMMA PlacesAppend ==
    ASSUME NEW S, NEW body \in Seq(S), NEW line \in S, NEW kind
    PROVE  Places(Append(body, line), kind) =
             IF Kind(line) = kind THEN Places(body, kind) \union {Len(body) + 1}
                                  ELSE Places(body, kind)
<1> DEFINE n == Len(body)
           longer == Append(body, line)
<1>1. /\ n \in Nat /\ DOMAIN body = 1..n /\ DOMAIN longer = 1..(n + 1)
      /\ (\A i \in 1..n : longer[i] = body[i]) /\ longer[n + 1] = line
  BY AppendProperties
<1>2. 1..(n + 1) = (1..n) \union {n + 1} /\ n + 1 \notin 1..n
  BY <1>1
<1> HIDE DEF n, longer
<1>3. Places(longer, kind) =
        IF Kind(line) = kind THEN Places(body, kind) \union {n + 1}
                             ELSE Places(body, kind)
  BY <1>1, <1>2 DEF Places
<1> QED BY <1>3 DEF n, longer

\* The last of some lines is the new one if that is among them.
LEMMA LastOfAppend ==
    ASSUME NEW S, NEW body \in Seq(S), NEW line \in S,
           NEW P \in SUBSET DOMAIN body
    PROVE  /\ LastOf(Append(body, line), P) = LastOf(body, P)
           /\ LastOf(Append(body, line), P \union {Len(body) + 1}) = line
<1> DEFINE n == Len(body)
           longer == Append(body, line)
<1>1. /\ n \in Nat /\ DOMAIN body = 1..n
      /\ (\A i \in 1..n : longer[i] = body[i]) /\ longer[n + 1] = line
  BY AppendProperties
<1> HIDE DEF n, longer
<1>2. LastOf(longer, P) = LastOf(body, P)
  <2>1. P # {} => Max(P) \in 1..n
    BY <1>1, LastPlace
  <2> QED BY <1>1, <2>1 DEF LastOf
<1>3. LastOf(longer, P \union {n + 1}) = line
  <2> DEFINE Q == P \union {n + 1}
  <2>1. n + 1 \in Nat /\ Q \in SUBSET (1..(n + 1)) /\ n + 1 \in Q
    BY <1>1
  <2>2. Max(Q) \in Q /\ n + 1 <= Max(Q)
    BY <2>1, LastPlace
  <2>3. Max(Q) = n + 1
    BY <1>1, <2>1, <2>2
  <2> HIDE DEF Q
  <2>4. LastOf(longer, Q) = line
    BY <1>1, <2>1, <2>3 DEF LastOf
  <2> QED BY <2>4 DEF Q
<1> QED BY <1>2, <1>3 DEF n, longer

\* The lines that Says looks at, with one line more: the last one of a kind, ...
LEMMA LastOfKind ==
    ASSUME NEW S, NEW body \in Seq(S), NEW line \in S, NEW kind
    PROVE  LastOf(Append(body, line), Places(Append(body, line), kind)) =
             IF Kind(line) = kind THEN line ELSE LastOf(body, Places(body, kind))
<1> DEFINE P == Places(body, kind)
           Q == Places(Append(body, line), kind)
<1>1. P \in SUBSET DOMAIN body
  BY DEF Places
<1>2. Q = IF Kind(line) = kind THEN P \union {Len(body) + 1} ELSE P
  BY PlacesAppend
<1>3. /\ LastOf(Append(body, line), P) = LastOf(body, P)
      /\ LastOf(Append(body, line), P \union {Len(body) + 1}) = line
  <2> HIDE DEF P
  <2>1. \A R \in SUBSET DOMAIN body :
          /\ LastOf(Append(body, line), R) = LastOf(body, R)
          /\ LastOf(Append(body, line), R \union {Len(body) + 1}) = line
    BY LastOfAppend
  <2> QED BY <1>1, <2>1
<1> HIDE DEF P, Q
<1>4. LastOf(Append(body, line), Q) = IF Kind(line) = kind THEN line ELSE LastOf(body, P)
  BY <1>2, <1>3
<1> QED BY <1>4 DEF P, Q

\* ... the last one with a report number, ...
LEMMA LastNumbered ==
    ASSUME NEW S, NEW body \in Seq(S), NEW line \in S
    PROVE  LastOf(Append(body, line), Numbered(Append(body, line))) =
             IF Kind(line) = "nd" /\ Len(line.nd.digits) > 1 THEN line
             ELSE LastOf(body, Numbered(body))
<1> DEFINE n == Len(body)
           longer == Append(body, line)
<1>1. /\ n \in Nat /\ DOMAIN body = 1..n /\ n + 1 \notin 1..n
      /\ (\A i \in 1..n : longer[i] = body[i]) /\ longer[n + 1] = line
  BY AppendProperties
<1>2. Places(longer, "nd") = IF Kind(line) = "nd" THEN Places(body, "nd") \union {n + 1}
                                                  ELSE Places(body, "nd")
  BY PlacesAppend
<1>3. Places(body, "nd") \subseteq 1..n /\ Numbered(body) \in SUBSET DOMAIN body
  BY <1>1 DEF Places, Numbered
<1>4. /\ LastOf(longer, Numbered(body)) = LastOf(body, Numbered(body))
      /\ LastOf(longer, Numbered(body) \union {n + 1}) = line
  BY <1>3, LastOfAppend
<1> HIDE DEF n, longer
<1>5. Numbered(longer) = IF Kind(line) = "nd" /\ Len(line.nd.digits) > 1
                         THEN Numbered(body) \union {n + 1} ELSE Numbered(body)
  BY <1>1, <1>2, <1>3 DEF Numbered
<1>6. LastOf(longer, Numbered(longer)) =
        IF Kind(line) = "nd" /\ Len(line.nd.digits) > 1 THEN line
        ELSE LastOf(body, Numbered(body))
  BY <1>4, <1>5
<1> QED BY <1>6 DEF longer

\* ... the last one that names an area, ...
LEMMA LastNaming ==
    ASSUME NEW S, NEW body \in Seq(S), NEW line \in S, NEW a
    PROVE  LastOf(Append(body, line), Naming(Append(body, line), a)) =
             IF Kind(line) = "ebi" /\ a \in DOMAIN line.ebi THEN line
             ELSE LastOf(body, Naming(body, a))
<1> DEFINE n == Len(body)
           longer == Append(body, line)
<1>1. /\ n \in Nat /\ DOMAIN body = 1..n /\ n + 1 \notin 1..n
      /\ (\A i \in 1..n : longer[i] = body[i]) /\ longer[n + 1] = line
  BY AppendProperties
<1>2. Places(longer, "ebi") = IF Kind(line) = "ebi" THEN Places(body, "ebi") \union {n + 1}
                                                    ELSE Places(body, "ebi")
  BY PlacesAppend
<1>3. Places(body, "ebi") \subseteq 1..n /\ Naming(body, a) \in SUBSET DOMAIN body
  BY <1>1 DEF Places, Naming
<1>4. /\ LastOf(longer, Naming(body, a)) = LastOf(body, Naming(body, a))
      /\ LastOf(longer, Naming(body, a) \union {n + 1}) = line
  BY <1>3, LastOfAppend
<1> HIDE DEF n, longer
<1>5. Naming(longer, a) = IF Kind(line) = "ebi" /\ a \in DOMAIN line.ebi
                          THEN Naming(body, a) \union {n + 1} ELSE Naming(body, a)
  BY <1>1, <1>2, <1>3 DEF Naming
<1>6. LastOf(longer, Naming(longer, a)) =
        IF Kind(line) = "ebi" /\ a \in DOMAIN line.ebi THEN line
        ELSE LastOf(body, Naming(body, a))
  BY <1>4, <1>5
<1> QED BY <1>6 DEF longer

\* ... and the areas named.
LEMMA AreasAppend ==
    ASSUME NEW S, NEW body \in Seq(S), NEW line \in S
    PROVE  Areas(Append(body, line)) =
             IF Kind(line) = "ebi" THEN Areas(body) \union DOMAIN line.ebi ELSE Areas(body)
<1> DEFINE n == Len(body)
           longer == Append(body, line)
<1>1. /\ n \in Nat /\ DOMAIN body = 1..n /\ n + 1 \notin 1..n
      /\ (\A i \in 1..n : longer[i] = body[i]) /\ longer[n + 1] = line
  BY AppendProperties
<1>2. Places(longer, "ebi") = IF Kind(line) = "ebi" THEN Places(body, "ebi") \union {n + 1}
                                                    ELSE Places(body, "ebi")
  BY PlacesAppend
<1>3. Places(body, "ebi") \subseteq 1..n
  BY <1>1 DEF Places
<1> HIDE DEF n, longer
<1>4. Areas(longer) = IF Kind(line) = "ebi" THEN Areas(body) \union DOMAIN line.ebi
                                            ELSE Areas(body)
  <2>1. {DOMAIN longer[i].ebi : i \in Places(body, "ebi")} =
            {DOMAIN body[i].ebi : i \in Places(body, "ebi")}
    BY <1>1, <1>3
  <2>2. CASE Kind(line) # "ebi"
    BY <1>2, <2>1, <2>2 DEF Areas
  <2>3. CASE Kind(line) = "ebi"
    <3>1. {DOMAIN longer[i].ebi : i \in Places(longer, "ebi")} =
            {DOMAIN body[i].ebi : i \in Places(body, "ebi")} \union {DOMAIN line.ebi}
      BY <1>1, <1>2, <2>1, <2>3
    <3> QED BY <2>3, <3>1 DEF Areas
  <2> QED BY <2>2, <2>3
<1> QED BY <1>4 DEF longer

\* decoder.go:81-92: one more line, of whatever kind, and the telegram says what
\* the longer body says.
LEMMA SaysAppend ==
    ASSUME NEW S, NEW body \in Seq(S), NEW line \in S, NEW t, IsTelegram(t), Says(t, body),
           line.nd # None => line.nd.digits \in Seq(0..9)
    PROVE  IsTelegram(Read(t, line)) /\ Says(Read(t, line), Append(body, line))
<1> DEFINE longer == Append(body, line)
           u == Read(t, line)
           last(kind) == IF Kind(line) = kind THEN line ELSE LastOf(body, Places(body, kind))
           number == IF Kind(line) = "nd" /\ Len(line.nd.digits) > 1 THEN line
                     ELSE LastOf(body, Numbered(body))
           naming(a) == IF Kind(line) = "ebi" /\ a \in DOMAIN line.ebi THEN line
                        ELSE LastOf(body, Naming(body, a))
           areas == IF Kind(line) = "ebi" THEN Areas(body) \union DOMAIN line.ebi
                                          ELSE Areas(body)
<1>1. /\ LastOf(longer, Places(longer, "header")) = last("header")
      /\ LastOf(longer, Places(longer, "eqTime")) = last("eqTime")
      /\ LastOf(longer, Places(longer, "center")) = last("center")
      /\ LastOf(longer, Places(longer, "nd")) = last("nd")
      /\ LastOf(longer, Numbered(longer)) = number
      /\ Areas(longer) = areas
      /\ \A a : LastOf(longer, Naming(longer, a)) = naming(a)
  BY LastOfKind, LastNumbered, LastNaming, AreasAppend
<1> HIDE DEF longer
<1>2. Says(u, longer) <=>
        LET header == last("header").header
            nd     == last("nd").nd
        IN  /\ u.cancelled = (header # None /\ header.msgType = 10)
            /\ u.warnTime = IF header = None THEN None ELSE header.warnTime
            /\ u.eqTime = last("eqTime").eqTime
            /\ u.center = last("center").center
            /\ u.eqID = IF nd = None THEN NoQuake ELSE nd.eqID
            /\ u.ncn = IF nd = None THEN 0 ELSE nd.digits[1]
            /\ u.num = IF number.nd = None THEN 0 ELSE WarnNum(number.nd.digits, 0)
            /\ DOMAIN u.ebi = areas
            /\ \A a \in areas : u.ebi[a] = naming(a).ebi[a]
  BY <1>1 DEF Says
<1>3. IsTelegram(u) /\ Says(u, longer)
  <2>1. Kind(line) \in {"header", "eqTime", "nd", "center", "ebi", "text"}
    BY KindFinds
  <2>2. CASE Kind(line) = "header"
    <3>1. line.header # None
      BY <2>2, KindFinds DEF Finds
    <3>2. u = [t EXCEPT !.cancelled = line.header.msgType = 10,
                        !.warnTime = line.header.warnTime]
      BY <2>2 DEF Read
    <3>3. IsTelegram(u)
      BY <3>2 DEF IsTelegram
    <3> QED BY <1>2, <2>2, <3>1, <3>2, <3>3 DEF Says, IsTelegram
  <2>3. CASE Kind(line) = "eqTime"
    <3>1. u = [t EXCEPT !.eqTime = line.eqTime]
      BY <2>3 DEF Read
    <3>2. IsTelegram(u)
      BY <3>1 DEF IsTelegram
    <3> QED BY <1>2, <2>3, <3>1, <3>2 DEF Says, IsTelegram
  <2>4. CASE Kind(line) = "center"
    <3>1. u = [t EXCEPT !.center = line.center]
      BY <2>4 DEF Read
    <3>2. IsTelegram(u)
      BY <3>1 DEF IsTelegram
    <3> QED BY <1>2, <2>4, <3>1, <3>2 DEF Says, IsTelegram
  <2>5. CASE Kind(line) = "nd"
    <3>1. line.nd # None /\ line.nd.digits \in Seq(0..9)
      BY <2>5, KindFinds DEF Finds
    <3>2. u = [t EXCEPT !.eqID = line.nd.eqID, !.ncn = line.nd.digits[1],
                        !.num = WarnNum(line.nd.digits, t.num)]
      BY <2>5 DEF Read, IsTelegram
    <3>3. WarnNum(line.nd.digits, t.num) =
            IF Len(line.nd.digits) > 1 THEN WarnNum(line.nd.digits, 0) ELSE t.num
      <4>1. Len(line.nd.digits) \in Nat
        BY <3>1
      <4>2. CASE Len(line.nd.digits) >= 3
        BY <4>1, <4>2 DEF WarnNum
      <4>3. CASE Len(line.nd.digits) = 2
        BY <4>3 DEF WarnNum
      <4>4. CASE Len(line.nd.digits) < 2
        BY <4>1, <4>4 DEF WarnNum
      <4>5. \/ Len(line.nd.digits) >= 3 \/ Len(line.nd.digits) = 2
            \/ Len(line.nd.digits) < 2
        <5>1. \A k \in Nat : k >= 3 \/ k = 2 \/ k < 2
          OBVIOUS
        <5> QED BY <4>1, <5>1
      <4> QED BY <4>2, <4>3, <4>4, <4>5
    <3>4. IsTelegram(u)
      BY <3>2 DEF IsTelegram
    <3> QED BY <1>2, <2>5, <3>1, <3>2, <3>3, <3>4 DEF Says, IsTelegram
  <2>6. CASE Kind(line) = "ebi"
    <3>1. u = [t EXCEPT !.ebi = MergedEBI(t, line)]
      BY <2>6 DEF Read
    <3>2. IsTelegram(u)
      BY <3>1 DEF IsTelegram
    <3>3. u.ebi = [a \in DOMAIN line.ebi \union DOMAIN t.ebi |->
                     IF a \in DOMAIN line.ebi THEN line.ebi[a] ELSE t.ebi[a]]
      BY <3>1 DEF MergedEBI, IsTelegram
    <3>4. /\ DOMAIN t.ebi = Areas(body)
          /\ \A a \in Areas(body) : t.ebi[a] = LastOf(body, Naming(body, a)).ebi[a]
      BY DEF Says
    <3>5. DOMAIN u.ebi = areas /\ \A a \in areas : u.ebi[a] = naming(a).ebi[a]
      BY <2>6, <3>3, <3>4
    <3> QED BY <1>2, <2>6, <3>1, <3>2, <3>5 DEF Says, IsTelegram
  <2>7. CASE Kind(line) = "text"
    <3>1. u = t
      BY <2>7 DEF Read
    <3> QED BY <1>2, <2>7, <3>1 DEF Says
  <2> QED BY <2>1, <2>2, <2>3, <2>4, <2>5, <2>6, <2>7
<1> QED BY <1>3 DEF longer

\* decoder.go:80: of a body without lines nothing is said.
LEMMA SaysNothing == IsTelegram(Undecoded) /\ Says(Undecoded, <<>>)
<1>1. DOMAIN <<>> = {}
  OBVIOUS
<1>2. \A kind : Places(<<>>, kind) = {}
  BY <1>1 DEF Places
<1>3. Numbered(<<>>) = {} /\ Areas(<<>>) = {}
  BY <1>2 DEF Numbered, Areas
<1>4. IsTelegram(Undecoded)
  BY DEF IsTelegram, Undecoded
<1>5. DOMAIN Undecoded.ebi = {}
  BY <1>1 DEF Undecoded
<1>6. LastOf(<<>>, {}) = Text
  BY DEF LastOf
<1>7. /\ Text.header = None /\ Text.eqTime = None /\ Text.nd = None /\ Text.center = None
      /\ Undecoded.cancelled = FALSE /\ Undecoded.warnTime = None
      /\ Undecoded.eqTime = None /\ Undecoded.center = None
      /\ Undecoded.eqID = NoQuake /\ Undecoded.ncn = 0 /\ Undecoded.num = 0
  BY DEF Text, Undecoded
<1>8. \A kind : LastOf(<<>>, Places(<<>>, kind)) = Text
  BY <1>2, <1>6
<1>9. LastOf(<<>>, Numbered(<<>>)) = Text
  BY <1>3, <1>6
<1>10. Says(Undecoded, <<>>)
  BY <1>3, <1>5, <1>7, <1>8, <1>9 DEF Says
<1> QED BY <1>4, <1>10

\* decoder.go:69-95: whatever its lines are and however many there are, Decode
\* makes of a body what it says: every field from the last line that tells it,
\* and of every area what the last line that names it forecasts.
THEOREM DecodeSays ==
    ASSUME NEW body \in Seq(Line)
    PROVE  IsTelegram(Decode(body)) /\ Says(Decode(body), body)
<1> DEFINE S == {n \in Nat : \A b \in Seq(Line) :
                    Len(b) = n => IsTelegram(Decode(b)) /\ Says(Decode(b), b)}
<1>1. 0 \in S
  <2>1. \A b \in Seq(Line) : Len(b) = 0 => b = <<>>
    BY EmptySeq
  <2> QED BY <2>1, SaysNothing, DecodeNothing
<1>2. ASSUME NEW n \in Nat, n \in S
      PROVE  n + 1 \in S
  <2> SUFFICES ASSUME NEW b \in Seq(Line), Len(b) = n + 1
               PROVE  IsTelegram(Decode(b)) /\ Says(Decode(b), b)
    OBVIOUS
  <2> DEFINE front == SubSeq(b, 1, n)
             line == b[n + 1]
  <2>1. front \in Seq(Line) /\ Len(front) = n /\ line \in Line
    OBVIOUS
  <2>2. b = Append(front, line)
    OBVIOUS
  <2>3. IsTelegram(Decode(front)) /\ Says(Decode(front), front)
    BY <1>2, <2>1
  <2>4. line.nd # None => line.nd.digits \in Seq(0..9)
    BY <2>1, LineAssumption
  <2> HIDE DEF front, line
  <2>5. Decode(b) = Read(Decode(front), line)
    BY <2>1, <2>2, DecodeAppend
  <2> QED BY <2>1, <2>2, <2>3, <2>4, <2>5, SaysAppend
<1> HIDE DEF S
<1>3. Len(body) \in S
  BY <1>1, <1>2, InductionOverNat
<1> QED BY <1>3 DEF S

\* A telegram's earthquake is one that a line of the body tells, and its number
\* has at most two digits.
LEMMA DecodedName ==
    ASSUME NEW body \in Seq(Line)
    PROVE  /\ Decode(body).num \in 0..99
           /\ \/ Decode(body).eqID = NoQuake
              \/ \E line \in Line : line.nd # None /\ Decode(body).eqID = line.nd.eqID
<1>1. DOMAIN body = 1..Len(body) /\ Len(body) \in Nat /\ \A i \in DOMAIN body : body[i] \in Line
  OBVIOUS
<1>2. \A P \in SUBSET Places(body, "nd") :
         \/ LastOf(body, P).nd = None
         \/ LastOf(body, P) \in Line /\ LastOf(body, P).nd # None
  <2> SUFFICES ASSUME NEW P \in SUBSET Places(body, "nd")
               PROVE  \/ LastOf(body, P).nd = None
                      \/ LastOf(body, P) \in Line /\ LastOf(body, P).nd # None
    OBVIOUS
  <2>1. CASE P = {}
    BY <2>1 DEF LastOf, Text
  <2>2. CASE P # {}
    <3>1. Max(P) \in P
      BY <1>1, <2>2, LastPlace DEF Places
    <3>2. Max(P) \in DOMAIN body /\ Kind(body[Max(P)]) = "nd"
      BY <3>1 DEF Places
    <3>3. body[Max(P)].nd # None
      BY <3>2, KindFinds DEF Finds
    <3> QED BY <1>1, <2>2, <3>2, <3>3 DEF LastOf
  <2> QED BY <2>1, <2>2
<1>3. Says(Decode(body), body)
  BY DecodeSays
<1>4. Decode(body).eqID = NoQuake \/ \E line \in Line :
         line.nd # None /\ Decode(body).eqID = line.nd.eqID
  <2> DEFINE last == LastOf(body, Places(body, "nd"))
  <2>1. Decode(body).eqID = IF last.nd = None THEN NoQuake ELSE last.nd.eqID
    BY <1>3 DEF Says
  <2>2. last.nd = None \/ (last \in Line /\ last.nd # None)
    BY <1>2
  <2> HIDE DEF last
  <2> QED BY <2>1, <2>2
<1>5. Decode(body).num \in 0..99
  <2> DEFINE last == LastOf(body, Numbered(body))
  <2>1. Decode(body).num = IF last.nd = None THEN 0 ELSE WarnNum(last.nd.digits, 0)
    BY <1>3 DEF Says
  <2>2. last.nd = None \/ (last \in Line /\ last.nd # None)
    <3>1. Numbered(body) \in SUBSET Places(body, "nd")
      BY DEF Numbered
    <3> QED BY <1>2, <3>1
  <2> HIDE DEF last
  <2>3. \A digits \in Seq(0..9) : WarnNum(digits, 0) \in 0..99
    <3> SUFFICES ASSUME NEW digits \in Seq(0..9) PROVE WarnNum(digits, 0) \in 0..99
      OBVIOUS
    <3>1. Len(digits) \in Nat /\ \A i \in 1..Len(digits) : digits[i] \in 0..9
      OBVIOUS
    <3>2. CASE Len(digits) >= 3
      <4>1. digits[2] \in 0..9 /\ digits[3] \in 0..9
        BY <3>1, <3>2
      <4>2. WarnNum(digits, 0) = 10 * digits[2] + digits[3]
        BY <3>2 DEF WarnNum
      <4>3. \A x, y \in 0..9 : 10 * x + y \in 0..99
        OBVIOUS
      <4> QED BY <4>1, <4>2, <4>3
    <3>3. CASE Len(digits) = 2
      <4>1. digits[2] \in 0..9
        BY <3>1, <3>3
      <4>2. WarnNum(digits, 0) = digits[2]
        BY <3>3 DEF WarnNum
      <4>3. 0..9 \subseteq 0..99
        OBVIOUS
      <4> QED BY <4>1, <4>2, <4>3
    <3>4. CASE ~(Len(digits) >= 3) /\ Len(digits) # 2
      <4>1. WarnNum(digits, 0) = 0
        BY <3>4 DEF WarnNum
      <4> QED BY <4>1
    <3> QED BY <3>2, <3>3, <3>4
  <2>4. CASE last.nd = None
    BY <2>1, <2>4
  <2>5. CASE last.nd # None
    <3>1. last.nd.digits \in Seq(0..9)
      BY <2>2, <2>5, LineAssumption
    <3>2. WarnNum(last.nd.digits, 0) \in 0..99
      BY <2>3, <3>1
    <3> QED BY <2>1, <2>5, <3>2
  <2> QED BY <2>4, <2>5
<1> QED BY <1>4, <1>5

-----------------------------------------------------------------------------
(* The order of the lines                                                  *)

\* What a line makes of each field.
Tells(u, t, line) ==
    LET kind == Kind(line) IN
    /\ u.cancelled = IF kind = "header" THEN line.header.msgType = 10 ELSE t.cancelled
    /\ u.warnTime = IF kind = "header" THEN line.header.warnTime ELSE t.warnTime
    /\ u.eqTime = IF kind = "eqTime" THEN line.eqTime ELSE t.eqTime
    /\ u.eqID = IF kind = "nd" THEN line.nd.eqID ELSE t.eqID
    /\ u.ncn = IF kind = "nd" THEN line.nd.digits[1] ELSE t.ncn
    /\ u.num = IF kind = "nd" THEN WarnNum(line.nd.digits, t.num) ELSE t.num
    /\ u.center = IF kind = "center" THEN line.center ELSE t.center
    /\ u.ebi = IF kind = "ebi" THEN MergedEBI(t, line) ELSE t.ebi

\* decoder.go:103-201, field by field.
LEMMA ReadByField ==
    ASSUME NEW t, IsTelegram(t), NEW line
    PROVE  IsTelegram(Read(t, line)) /\ Tells(Read(t, line), t, line)
<1> USE DEF Tells
<1>1. Kind(line) \in {"header", "eqTime", "nd", "center", "ebi", "text"}
  BY KindFinds
<1>2. CASE Kind(line) = "header"
  <2>1. Read(t, line) = [t EXCEPT !.cancelled = line.header.msgType = 10,
                                  !.warnTime = line.header.warnTime]
    BY <1>2 DEF Read
  <2> QED BY <1>2, <2>1 DEF IsTelegram
<1>3. CASE Kind(line) = "nd"
  <2>1. Read(t, line) = [t EXCEPT !.eqID = line.nd.eqID, !.ncn = line.nd.digits[1],
                                  !.num = WarnNum(line.nd.digits, t.num)]
    BY <1>3 DEF Read, IsTelegram
  <2> QED BY <1>3, <2>1 DEF IsTelegram
<1>4. CASE Kind(line) \in {"eqTime", "center", "ebi"}
  BY <1>4 DEF Read, IsTelegram
<1>5. CASE Kind(line) = "text"
  BY <1>5 DEF Read
<1> QED BY <1>1, <1>2, <1>3, <1>4, <1>5

\* decoder.go:81-92: no line undoes what a line of another kind, or an EBI line
\* about other areas, told: which of the two comes first makes no difference.
THEOREM LinesCommute ==
    ASSUME NEW body \in Seq(Line), NEW x \in Line, NEW y \in Line,
           Kind(x) = Kind(y) => Kind(x) = "ebi" /\ DOMAIN x.ebi \cap DOMAIN y.ebi = {}
    PROVE  Decode(Append(Append(body, x), y)) = Decode(Append(Append(body, y), x))
<1> DEFINE t == Decode(body)
           tx == Read(t, x)
           ty == Read(t, y)
           txy == Read(tx, y)
           tyx == Read(ty, x)
<1>1. /\ Decode(Append(Append(body, x), y)) = txy
      /\ Decode(Append(Append(body, y), x)) = tyx
  <2>1. Append(body, x) \in Seq(Line) /\ Append(body, y) \in Seq(Line)
    OBVIOUS
  <2> QED BY <2>1, DecodeAppend
<1>2. IsTelegram(t)
  BY DecodeSays
<1> HIDE DEF t
<1>3. IsTelegram(tx) /\ Tells(tx, t, x) /\ IsTelegram(ty) /\ Tells(ty, t, y)
  BY <1>2, ReadByField
<1> HIDE DEF tx, ty
<1>4. IsTelegram(txy) /\ Tells(txy, tx, y) /\ IsTelegram(tyx) /\ Tells(tyx, ty, x)
  BY <1>3, ReadByField
<1> HIDE DEF txy, tyx
<1>5. txy.cancelled = tyx.cancelled
  BY <1>3, <1>4 DEF Tells
<1>6. txy.warnTime = tyx.warnTime /\ txy.eqTime = tyx.eqTime /\ txy.center = tyx.center
  BY <1>3, <1>4 DEF Tells
<1>7. txy.eqID = tyx.eqID /\ txy.ncn = tyx.ncn /\ txy.num = tyx.num
  BY <1>3, <1>4 DEF Tells
<1>8. txy.ebi = tyx.ebi
  <2>1. \A u, v, line : u.ebi = v.ebi => MergedEBI(u, line) = MergedEBI(v, line)
    BY DEF MergedEBI
  <2>2. /\ tx.ebi = IF Kind(x) = "ebi" THEN MergedEBI(t, x) ELSE t.ebi
        /\ ty.ebi = IF Kind(y) = "ebi" THEN MergedEBI(t, y) ELSE t.ebi
        /\ txy.ebi = IF Kind(y) = "ebi" THEN MergedEBI(tx, y) ELSE tx.ebi
        /\ tyx.ebi = IF Kind(x) = "ebi" THEN MergedEBI(ty, x) ELSE ty.ebi
    BY <1>3, <1>4 DEF Tells
  <2>3. CASE Kind(x) # "ebi" \/ Kind(y) # "ebi"
    BY <2>1, <2>2, <2>3
  <2>4. CASE Kind(x) = "ebi" /\ Kind(y) = "ebi"
    <3>1. DOMAIN x.ebi \cap DOMAIN y.ebi = {}
      BY <2>4
    <3> QED BY <2>2, <2>4, <3>1 DEF MergedEBI
  <2> QED BY <2>3, <2>4
<1>9. txy = tyx
  BY <1>4, <1>5, <1>6, <1>7, <1>8 DEF IsTelegram
<1> QED BY <1>1, <1>9
=============================================================================
