--------------------------- MODULE LineFormatProofs ---------------------------
(***************************************************************************)
(* The validators of LineFormat accept exactly the texts of their formats, *)
(* whatever the characters and the length of a text.                       *)
(***************************************************************************)
EXTENDS LineFormat, FiniteSetTheorems, SequenceTheorems, WellFoundedInduction, TLAPS

(* A set of numbers that is not empty has a least one, *)
LEMMA LeastNumber ==
    ASSUME NEW S, S \subseteq Nat, S # {}
    PROVE  \E n \in S : \A m \in S : n <= m
<1> DEFINE R == OpToRel(<, Nat)
<1>1. PICK n \in S : \A m \in S : ~(<<m, n>> \in R)
  <2>1. IsWellFoundedOn(R, Nat)
    BY NatLessThanWellFounded
  <2> HIDE DEF R
  <2> QED
    BY <2>1, WFMin
<1>2. \A m \in S : ~(m < n)
  BY <1>1 DEF OpToRel
<1> QED
  BY <1>2

(* and induction over the numbers, for the set of those with a property. *)
LEMMA Induction ==
    ASSUME NEW S, 0 \in S, \A n \in Nat : n \in S => n + 1 \in S
    PROVE  Nat \subseteq S
<1> SUFFICES ASSUME Nat \ S # {} PROVE FALSE
  OBVIOUS
<1>1. PICK n \in Nat \ S : \A m \in Nat \ S : n <= m
  BY LeastNumber
<1>2. n - 1 \in Nat /\ n - 1 \in S
  BY <1>1
<1> QED
  BY <1>1, <1>2

-----------------------------------------------------------------------------
(* memchr finds the first of the characters it looks for. *)
LEMMA MemchrFirst ==
    ASSUME NEW A, NEW t \in Seq(A), NEW i \in Nat \ {0}, NEW c
    PROVE  /\ memchr(t, i, c) \in Nat
           /\ memchr(t, i, c) = 0 => \A j \in i..Len(t) : t[j] # c
           /\ memchr(t, i, c) # 0 =>
                /\ memchr(t, i, c) \in i..Len(t) /\ t[memchr(t, i, c)] = c
                /\ \A k \in i..(memchr(t, i, c) - 1) : t[k] # c
<1> DEFINE P == {j \in i..Len(t) : t[j] = c}
<1>1. CASE P = {}
  BY <1>1 DEF memchr
<1>2. CASE P # {}
  <2>1. PICK n \in P : \A m \in P : n <= m
    <3>1. P \subseteq Nat
      OBVIOUS
    <3> HIDE DEF P
    <3> QED
      BY <1>2, <3>1, LeastNumber
  <2>2. n \in i..Len(t) /\ t[n] = c /\ \A k \in i..(n - 1) : t[k] # c
    BY <2>1
  <2>3. memchr(t, i, c) = CHOOSE j \in i..Len(t) : t[j] = c /\ \A k \in i..(j - 1) : t[k] # c
    BY <2>2 DEF memchr
  <2> DEFINE m == CHOOSE j \in i..Len(t) : t[j] = c /\ \A k \in i..(j - 1) : t[k] # c
  <2>4. m \in i..Len(t) /\ t[m] = c /\ \A k \in i..(m - 1) : t[k] # c
    BY <2>2
  <2> HIDE DEF m
  <2>5. memchr(t, i, c) = m
    BY <2>3 DEF m
  <2>6. m \in Nat /\ m # 0
    BY <2>4
  <2> QED
    BY <2>4, <2>5, <2>6
<1> QED
  BY <1>1, <1>2

(* It is determined by that. *)
LEMMA MemchrIs ==
    ASSUME NEW A, NEW t \in Seq(A), NEW i \in Nat \ {0}, NEW c,
           NEW n \in i..Len(t), t[n] = c, \A k \in i..(n - 1) : t[k] # c
    PROVE  memchr(t, i, c) = n
<1> DEFINE m == memchr(t, i, c)
<1>1. /\ m \in Nat
      /\ m = 0 => \A j \in i..Len(t) : t[j] # c
      /\ m # 0 => m \in i..Len(t) /\ t[m] = c /\ \A k \in i..(m - 1) : t[k] # c
  BY MemchrFirst
<1> HIDE DEF m
<1>2. m \in i..Len(t) /\ t[m] = c /\ \A k \in i..(m - 1) : t[k] # c
  BY <1>1
<1>3. ~(m < n) /\ ~(n < m)
  BY <1>2
<1>4. m = n
  BY <1>2, <1>3
<1> QED
  BY <1>4 DEF m

LEMMA MemchrNone ==
    ASSUME NEW A, NEW t \in Seq(A), NEW i \in Nat \ {0}, NEW c,
           \A k \in i..Len(t) : t[k] # c
    PROVE  memchr(t, i, c) = 0
BY DEF memchr

-----------------------------------------------------------------------------
(* Two of a character, and no third. *)
LEMMA ExactlyTwo ==
    ASSUME NEW A, NEW t \in Seq(A), NEW sp
    PROVE  LET first  == memchr(t, 1, sp)
               second == memchr(t, first + 1, sp)
           IN  first # 0 /\ second # 0 /\ memchr(t, second + 1, sp) = 0
                 <=> Cardinality({i \in DOMAIN t : t[i] = sp}) = 2
<1> DEFINE S == {i \in DOMAIN t : t[i] = sp}
<1> DEFINE a == memchr(t, 1, sp)
<1> HIDE DEF a
<1> DEFINE b == memchr(t, a + 1, sp)
<1> HIDE DEF b
<1> DEFINE c == memchr(t, b + 1, sp)
<1> HIDE DEF c
<1>0. DOMAIN t = 1..Len(t) /\ Len(t) \in Nat
  OBVIOUS
<1>1. /\ a \in Nat /\ (a = 0 => \A j \in 1..Len(t) : t[j] # sp)
      /\ a # 0 => a \in 1..Len(t) /\ t[a] = sp /\ \A k \in 1..(a - 1) : t[k] # sp
  <2>1. 1 \in Nat \ {0}
    OBVIOUS
  <2> QED
    BY <2>1, MemchrFirst, Zenon DEF a
<1>2. /\ b \in Nat /\ (b = 0 => \A j \in (a + 1)..Len(t) : t[j] # sp)
      /\ b # 0 => b \in (a + 1)..Len(t) /\ t[b] = sp /\ \A k \in (a + 1)..(b - 1) : t[k] # sp
  <2>1. a + 1 \in Nat \ {0}
    BY <1>1
  <2> QED
    BY <2>1, MemchrFirst, Zenon DEF b
<1>3. /\ c \in Nat /\ (c = 0 => \A j \in (b + 1)..Len(t) : t[j] # sp)
      /\ c # 0 => c \in (b + 1)..Len(t) /\ t[c] = sp
  <2>1. b + 1 \in Nat \ {0}
    BY <1>2
  <2> QED
    BY <2>1, MemchrFirst, Zenon DEF c
<1> SUFFICES a # 0 /\ b # 0 /\ c = 0 <=> Cardinality(S) = 2
  BY DEF a, b, c
<1>4. IsFiniteSet(S)
  <2>1. IsFiniteSet(1..Len(t))
    BY <1>0, FS_Interval
  <2>2. S \in SUBSET (1..Len(t))
    BY <1>0
  <2> HIDE DEF S
  <2> QED
    BY <2>1, <2>2, FS_Subset
<1>5. CASE a = 0
  <2>1. S = {}
    BY <1>0, <1>1, <1>5
  <2>2. Cardinality(S) = 0
    BY <2>1, FS_EmptySet
  <2> QED
    BY <1>5, <2>2
<1>6. CASE a # 0 /\ b = 0
  <2>1. S = {a}
    BY <1>0, <1>1, <1>2, <1>6
  <2>2. Cardinality(S) = 1
    BY <2>1, FS_Singleton
  <2> QED
    BY <1>6, <2>2
<1>7. CASE a # 0 /\ b # 0
  <2>1. IsFiniteSet({a, b}) /\ Cardinality({a, b}) = 2
    <3>1. IsFiniteSet({a}) /\ Cardinality({a}) = 1
      BY FS_Singleton
    <3>2. b \notin {a} /\ {a} \cup {b} = {a, b}
      BY <1>1, <1>2, <1>7
    <3>3. IsFiniteSet({a} \cup {b}) /\ Cardinality({a} \cup {b}) = Cardinality({a}) + 1
      BY <3>1, <3>2, FS_AddElement, Zenon
    <3> QED
      BY <3>1, <3>2, <3>3
  <2>2. {a, b} \in SUBSET S
    BY <1>0, <1>1, <1>2, <1>7
  <2>3. S = {a, b} <=> c = 0
    BY <1>0, <1>1, <1>2, <1>3, <1>7
  <2>4. Cardinality(S) = 2 <=> S = {a, b}
    <3> HIDE DEF S
    <3> QED
      BY <1>4, <2>1, <2>2, FS_Subset
  <2> QED
    BY <1>7, <2>3, <2>4
<1> QED
  BY <1>5, <1>6, <1>7

LEMMA CarbonExact ==
    ASSUME NEW A, NEW t \in Seq(A)
    PROVE  validate_carbon(t) <=> IsCarbon(t)
BY ExactlyTwo, Zenon DEF validate_carbon, IsCarbon

-----------------------------------------------------------------------------
(***************************************************************************)
(* The number strtod reads, within the characters from i to n.  sp is the  *)
(* space.                                                                  *)
(***************************************************************************)
Sign(t, j) == IF t[j] = "-" THEN j + 1 ELSE j
Point(t, d, n) == IF d <= n /\ t[d] = "." THEN d + 1 ELSE d
NumberAt(t, i, n, sp, j) ==
    /\ \A k \in i..(j - 1) : t[k] = sp
    /\ Point(t, Sign(t, j), n) <= n /\ t[Point(t, Sign(t, j), n)] = "1"
NumberIn(t, i, n, sp) == \E j \in i..n : NumberAt(t, i, n, sp, j)
Space == " "

LEMMA StrtodIn ==
    ASSUME NEW t, NEW i
    PROVE  strtod(t, i) <=> NumberIn(t, i, Len(t), Space)
BY Zenon DEF strtod, NumberIn, NumberAt, Point, Sign, Space

LEMMA SpaceNoBar == Space # "|"
BY Zenon DEF Space

(* It ends before the next bar. *)
LEMMA NumberBeforeBar ==
    ASSUME NEW t, NEW i \in Nat, NEW n \in Nat, NEW sp, sp # "|",
           NumberIn(t, i, n, sp), NEW b \in i..n, t[b] = "|"
    PROVE  NumberIn(t, i, b - 1, sp)
<1>1. PICK j \in i..n : NumberAt(t, i, n, sp, j)
  BY DEF NumberIn
<1> DEFINE d == Sign(t, j)  e == Point(t, d, n)
<1>2. /\ \A k \in i..(j - 1) : t[k] = sp
      /\ e <= n /\ t[e] = "1"
  BY <1>1 DEF NumberAt
<1>3. ~(b < j)
  BY <1>2
<1>4. b # j \/ d = j
  BY DEF Sign
<1>5. /\ d \in Int /\ e \in Int /\ j <= d /\ d <= e /\ d <= j + 1 /\ e <= d + 1
      /\ d # j => t[j] = "-"
      /\ e # d => t[d] = "."
  BY DEF Sign, Point
<1>6. b # j /\ b # d /\ b # e
  BY <1>2, <1>5
<1>7. e < b
  BY <1>3, <1>5, <1>6
<1>8. Point(t, d, b - 1) = e
  BY <1>5, <1>7 DEF Point
<1>9. NumberAt(t, i, b - 1, sp, j)
  BY <1>2, <1>5, <1>7, <1>8 DEF NumberAt
<1>10. j \in i..(b - 1)
  BY <1>5, <1>7
<1> QED
  BY <1>9, <1>10 DEF NumberIn

(* More characters after it do not matter. *)
LEMMA NumberInMore ==
    ASSUME NEW t, NEW i \in Nat, NEW m \in Int, NEW n \in Int, m <= n, NEW sp, NumberIn(t, i, m, sp)
    PROVE  NumberIn(t, i, n, sp)
<1>1. PICK j \in i..m : NumberAt(t, i, m, sp, j)
  BY DEF NumberIn
<1> DEFINE d == Sign(t, j)
<1>2. Point(t, d, m) <= m /\ t[Point(t, d, m)] = "1"
  BY <1>1 DEF NumberAt
<1>3. d \in Int
  BY DEF Sign
<1>4. Point(t, d, n) = Point(t, d, m)
  BY <1>2, <1>3 DEF Point
<1>5. NumberAt(t, i, n, sp, j)
  BY <1>1, <1>2, <1>3, <1>4 DEF NumberAt, Point
<1> QED
  BY <1>5 DEF NumberIn

LEMMA SubSeqFacts ==
    ASSUME NEW A, NEW t \in Seq(A), NEW m \in Nat \ {0}, NEW n \in Nat, m <= n + 1, n <= Len(t)
    PROVE  /\ SubSeq(t, m, n) \in Seq(A) /\ Len(SubSeq(t, m, n)) = n - m + 1
           /\ \A k \in 1..(n - m + 1) : SubSeq(t, m, n)[k] = t[m + k - 1]
<1>1. \A i \in m..n : t[i] \in A
  OBVIOUS
<1>2. /\ SubSeq(t, m, n) \in Seq(A)
      /\ Len(SubSeq(t, m, n)) = IF m <= n THEN n - m + 1 ELSE 0
      /\ \A i \in 1..(n - m + 1) : SubSeq(t, m, n)[i] = t[m + i - 1]
  BY <1>1, SubSeqProperties
<1>3. (IF m <= n THEN n - m + 1 ELSE 0) = n - m + 1
  OBVIOUS
<1> QED
  BY <1>2, <1>3

(* A part of a text is a number when one is read within that part. *)
LEMMA NumberOfPart ==
    ASSUME NEW A, NEW t \in Seq(A), NEW m \in Nat \ {0}, NEW n \in Nat, m <= n + 1, n <= Len(t), NEW sp
    PROVE  NumberIn(SubSeq(t, m, n), 1, Len(SubSeq(t, m, n)), sp) <=> NumberIn(t, m, n, sp)
<1> DEFINE u == SubSeq(t, m, n)  o == m - 1  z == n - m + 1
<1>1. Len(u) = z /\ \A k \in 1..z : u[k] = t[o + k]
  BY SubSeqFacts
<1> HIDE DEF u
<1>2. ASSUME NEW j \in 1..z
      PROVE  /\ Sign(t, o + j) = o + Sign(u, j)
             /\ Sign(u, j) \in j..(j + 1)
  BY <1>1 DEF Sign
<1>3. ASSUME NEW d \in Nat \ {0}
      PROVE  /\ Point(t, o + d, n) = o + Point(u, d, z)
             /\ Point(u, d, z) \in Nat \ {0}
  <2>1. o + d <= n <=> d <= z
    OBVIOUS
  <2>2. CASE d <= z
    <3>1. u[d] = t[o + d]
      BY <1>1, <2>2
    <3> QED
      BY <2>1, <2>2, <3>1 DEF Point
  <2>3. CASE ~(d <= z)
    BY <2>1, <2>3 DEF Point
  <2> QED
    BY <2>2, <2>3
<1>4. ASSUME NEW j \in 1..z
      PROVE  NumberAt(u, 1, z, sp, j) <=> NumberAt(t, m, n, sp, o + j)
  <2> DEFINE e == Point(u, Sign(u, j), z)
  <2>1. Point(t, Sign(t, o + j), n) = o + e /\ e \in Nat \ {0}
    <3>1. Sign(u, j) \in Nat \ {0} /\ Sign(t, o + j) = o + Sign(u, j)
      BY <1>2
    <3> QED
      BY <1>3, <3>1
  <2> HIDE DEF e
  <2>2. e <= z <=> o + e <= n
    BY <2>1
  <2>3. e <= z => u[e] = t[o + e]
    BY <1>1, <2>1
  <2>4. (\A k \in 1..(j - 1) : u[k] = sp) <=> (\A k \in m..(o + j - 1) : t[k] = sp)
    <3>1. ASSUME \A k \in 1..(j - 1) : u[k] = sp, NEW k \in m..(o + j - 1)
          PROVE  t[k] = sp
      <4>1. k - o \in 1..(j - 1) /\ k - o \in 1..z /\ o + (k - o) = k
        OBVIOUS
      <4> QED
        BY <1>1, <3>1, <4>1
    <3>2. ASSUME \A k \in m..(o + j - 1) : t[k] = sp, NEW k \in 1..(j - 1)
          PROVE  u[k] = sp
      <4>1. o + k \in m..(o + j - 1) /\ k \in 1..z
        OBVIOUS
      <4> QED
        BY <1>1, <3>2, <4>1
    <3> QED
      BY <3>1, <3>2
  <2> QED
    BY <2>1, <2>2, <2>3, <2>4 DEF NumberAt, e
<1>5. ASSUME NumberIn(u, 1, z, sp) PROVE NumberIn(t, m, n, sp)
  <2>1. PICK j \in 1..z : NumberAt(u, 1, z, sp, j)
    BY <1>5 DEF NumberIn
  <2>2. o + j \in m..n
    OBVIOUS
  <2> QED
    BY <1>4, <2>1, <2>2 DEF NumberIn
<1>6. ASSUME NumberIn(t, m, n, sp) PROVE NumberIn(u, 1, z, sp)
  <2>1. PICK j \in m..n : NumberAt(t, m, n, sp, j)
    BY <1>6 DEF NumberIn
  <2>2. j - o \in 1..z /\ o + (j - o) = j
    OBVIOUS
  <2> QED
    BY <1>4, <2>1, <2>2 DEF NumberIn
<1> QED
  BY <1>1, <1>5, <1>6 DEF u

LEMMA NumericPart ==
    ASSUME NEW A, NEW t \in Seq(A), NEW m \in Nat \ {0}, NEW n \in Nat, m <= n + 1, n <= Len(t)
    PROVE  Numeric(SubSeq(t, m, n)) <=> NumberIn(t, m, n, Space)
<1>1. Numeric(SubSeq(t, m, n)) <=> NumberIn(SubSeq(t, m, n), 1, Len(SubSeq(t, m, n)), Space)
  BY StrtodIn DEF Numeric
<1> QED
  BY <1>1, NumberOfPart

(* The value up to the first bar is a number if strtod reads one there. *)
LEMMA ValueNumeric ==
    ASSUME NEW A, NEW t \in Seq(A), NEW i \in Nat \ {0}, NEW j \in i..Len(t), t[j] = "|"
    PROVE  Numeric(SubSeq(t, i, j - 1)) <=> strtod(t, i)
<1>1. j - 1 \in Nat /\ i <= (j - 1) + 1 /\ j - 1 <= Len(t) /\ Len(t) \in Nat /\ i \in Nat
  OBVIOUS
<1>2. Numeric(SubSeq(t, i, j - 1)) <=> NumberIn(t, i, j - 1, Space)
  BY <1>1, NumericPart
<1>3. strtod(t, i) <=> NumberIn(t, i, Len(t), Space)
  BY StrtodIn
<1>4. NumberIn(t, i, Len(t), Space) => NumberIn(t, i, j - 1, Space)
  BY <1>1, SpaceNoBar, NumberBeforeBar
<1>5. NumberIn(t, i, j - 1, Space) => NumberIn(t, i, Len(t), Space)
  BY <1>1, NumberInMore
<1> QED
  BY <1>2, <1>3, <1>4, <1>5

-----------------------------------------------------------------------------
Letter == {"c", "m", "s", "k", "v", "g", "h"}

LEMMA TypesHaveNoBar ==
    ASSUME NEW v \in valid_stat_types
    PROVE  v \in Seq(Letter) /\ Len(v) \in 1..2 /\ \A k \in 1..Len(v) : v[k] # "|"
<1>1. \/ v = <<"c">> \/ v = <<"m", "s">> \/ v = <<"k", "v">>
      \/ v = <<"g">> \/ v = <<"h">> \/ v = <<"s">>
  BY DEF valid_stat_types
<1>2. ASSUME NEW x \in Letter, v = <<x>>, x # "|"
      PROVE  v \in Seq(Letter) /\ Len(v) \in 1..2 /\ \A k \in 1..Len(v) : v[k] # "|"
  BY <1>2
<1>3. ASSUME NEW x \in Letter, NEW y \in Letter, v = <<x, y>>, x # "|", y # "|"
      PROVE  v \in Seq(Letter) /\ Len(v) \in 1..2 /\ \A k \in 1..Len(v) : v[k] # "|"
  BY <1>3
<1>4. /\ "c" # "|" /\ "m" # "|" /\ "s" # "|" /\ "k" # "|" /\ "v" # "|" /\ "g" # "|" /\ "h" # "|"
      /\ {"c", "g", "h", "s"} \subseteq Letter /\ {"m", "s", "k", "v"} \subseteq Letter
  BY Zenon DEF Letter
<1>5. \/ \E x \in {"c", "g", "h", "s"} : v = <<x>>
      \/ \E x, y \in {"m", "s", "k", "v"} : v = <<x, y>>
  BY <1>1
<1>6. CASE \E x \in {"c", "g", "h", "s"} : v = <<x>>
  <2>1. PICK x \in {"c", "g", "h", "s"} : v = <<x>>
    BY <1>6
  <2> QED
    BY <1>2, <1>4, <2>1, Zenon
<1>7. CASE \E x, y \in {"m", "s", "k", "v"} : v = <<x, y>>
  <2>1. PICK x \in {"m", "s", "k", "v"}, y \in {"m", "s", "k", "v"} : v = <<x, y>>
    BY <1>7
  <2> QED
    BY <1>3, <1>4, <2>1, Zenon
<1> QED
  BY <1>5, <1>6, <1>7, Zenon

(* What follows the first bar: the pointers of validate_statsd find the    *)
(* type and the rate exactly where the format has them.                    *)
Second(t, j) == memchr(t, j + 1, "|")
TypeFound(t, j) ==
    /\ StatType(t, j + 1, IF Second(t, j) = 0 THEN Len(t) + 1 ELSE Second(t, j))
    /\ Second(t, j) # 0 => SampleRate(t, Second(t, j))

LEMMA SecondBar ==
    ASSUME NEW A, NEW t \in Seq(A), NEW j \in 1..Len(t)
    PROVE  /\ Second(t, j) \in Nat
           /\ Second(t, j) = 0 => \A k \in (j + 1)..Len(t) : t[k] # "|"
           /\ Second(t, j) # 0 =>
                /\ Second(t, j) \in (j + 1)..Len(t) /\ t[Second(t, j)] = "|"
                /\ \A k \in (j + 1)..(Second(t, j) - 1) : t[k] # "|"
<1>1. j + 1 \in Nat \ {0}
  OBVIOUS
<1> QED
  BY <1>1, MemchrFirst, Zenon DEF Second

LEMMA RateNumeric ==
    ASSUME NEW A, NEW t \in Seq(A), NEW k \in 1..Len(t)
    PROVE  SampleRate(t, k) <=>
             /\ k + 1 < Len(t) /\ t[k + 1] = "@"
             /\ Numeric(SubSeq(t, k + 2, Len(t)))
<1>1. Len(t) \in Nat
  OBVIOUS
<1>2. CASE k + 1 < Len(t)
  <2>1. k + 2 \in Nat \ {0} /\ k + 2 <= Len(t) + 1 /\ Len(t) <= Len(t) /\ k + 2 <= Len(t) /\ k + 1 <= Len(t)
    BY <1>1, <1>2
  <2>2. Numeric(SubSeq(t, k + 2, Len(t))) <=> NumberIn(t, k + 2, Len(t), Space)
    BY <1>1, <2>1, NumericPart, Zenon
  <2>3. strtod(t, k + 2) <=> NumberIn(t, k + 2, Len(t), Space)
    BY StrtodIn, Zenon
  <2>4. SampleRate(t, k) <=> t[k + 1] = "@" /\ strtod(t, k + 2)
    BY <2>1, Zenon DEF SampleRate
  <2> QED
    BY <1>2, <2>2, <2>3, <2>4, Zenon
<1>3. CASE ~(k + 1 < Len(t))
  <2>1. ~(k + 2 <= Len(t))
    BY <1>1, <1>3
  <2> QED
    BY <1>3, <2>1, Zenon DEF SampleRate
<1> QED
  BY <1>2, <1>3

LEMMA RestOfRest ==
    ASSUME NEW A, NEW t \in Seq(A), NEW a \in Nat \ {0}, a <= Len(t) + 1,
           NEW c \in Nat \ {0}, c <= Len(t) - a + 2
    PROVE  SubSeq(SubSeq(t, a, Len(t)), c, Len(SubSeq(t, a, Len(t)))) = SubSeq(t, a + c - 1, Len(t))
<1> DEFINE u == SubSeq(t, a, Len(t))  n == Len(t) - a + 1
<1>1. Len(t) \in Nat
  OBVIOUS
<1>2. u \in Seq(A) /\ Len(u) = n /\ \A k \in 1..n : u[k] = t[a + k - 1]
  BY <1>1, SubSeqFacts
<1> HIDE DEF u
<1> DEFINE v == SubSeq(u, c, Len(u))  w == SubSeq(t, a + c - 1, Len(t))  z == n - c + 1
<1>3. v \in Seq(A) /\ Len(v) = z /\ \A k \in 1..z : v[k] = u[c + k - 1]
  <2>1. n \in Nat /\ c <= n + 1 /\ n <= Len(u)
    BY <1>1, <1>2
  <2> HIDE DEF n
  <2>2. /\ SubSeq(u, c, n) \in Seq(A) /\ Len(SubSeq(u, c, n)) = n - c + 1
        /\ \A k \in 1..(n - c + 1) : SubSeq(u, c, n)[k] = u[c + k - 1]
    BY <1>2, <2>1, SubSeqFacts
  <2> QED
    BY <1>2, <2>2
<1>4. w \in Seq(A) /\ Len(w) = z /\ \A k \in 1..z : w[k] = t[(a + c - 1) + k - 1]
  <2>1. a + c - 1 \in Nat \ {0} /\ a + c - 1 <= Len(t) + 1 /\ Len(t) - (a + c - 1) + 1 = z
    BY <1>1
  <2> QED
    BY <1>1, <2>1, SubSeqFacts
<1> HIDE DEF v, w
<1>5. ASSUME NEW k \in 1..z PROVE v[k] = w[k]
  <2>1. c + k - 1 \in 1..n /\ a + (c + k - 1) - 1 = (a + c - 1) + k - 1
    BY <1>1
  <2> QED
    BY <1>2, <1>3, <1>4, <2>1
<1>6. v = w
  BY <1>3, <1>4, <1>5, SeqEqual
<1> QED
  BY <1>6 DEF u, v, w

LEMMA TypeAndAt ==
    ASSUME NEW A, NEW s \in Seq(A), NEW D, NEW v \in Seq(D), Len(v) + 2 <= Len(s)
    PROVE  SubSeq(s, 1, Len(v) + 2) = v \o <<"|", "@">> <=>
             /\ \A q \in 1..Len(v) : s[q] = v[q]
             /\ s[Len(v) + 1] = "|" /\ s[Len(v) + 2] = "@"
<1> DEFINE n == Len(v)  e == <<"|", "@">>  E == D \cup {"|", "@"}  B == A \cup E
<1>1. n \in Nat /\ Len(s) \in Nat
  OBVIOUS
<1>2. e \in Seq(E) /\ Len(e) = 2 /\ e[1] = "|" /\ e[2] = "@"
  <2>1. "|" \in E /\ "@" \in E
    OBVIOUS
  <2>2. ASSUME NEW C, NEW x \in C, NEW y \in C
        PROVE  <<x, y>> \in Seq(C) /\ Len(<<x, y>>) = 2
    OBVIOUS
  <2> HIDE DEF E
  <2>3. <<"|", "@">> \in Seq(E) /\ Len(<<"|", "@">>) = 2
    BY <2>1, <2>2, Zenon
  <2> QED
    BY <2>3
<1>8. v \in Seq(E)
  OBVIOUS
<1> HIDE DEF E
<1> HIDE DEF e
<1> DEFINE u == SubSeq(s, 1, n + 2)  w == v \o e
<1>3. /\ w \in Seq(E) /\ Len(w) = n + 2
      /\ \A q \in 1..n : w[q] = v[q]
      /\ w[n + 1] = "|" /\ w[n + 2] = "@"
  <2>1. /\ w \in Seq(E) /\ Len(w) = n + 2
        /\ \A i \in 1..(n + 2) : w[i] = IF i <= n THEN v[i] ELSE e[i - n]
    <3>1. /\ v \o e \in Seq(E) /\ Len(v \o e) = Len(v) + Len(e)
          /\ \A i \in 1..(Len(v) + Len(e)) : (v \o e)[i] = IF i <= Len(v) THEN v[i] ELSE e[i - Len(v)]
      BY <1>2, <1>8, ConcatProperties, Zenon
    <3> QED
      BY <1>2, <3>1
  <2> HIDE DEF w, n
  <2>2. n \in Nat /\ (n + 1) - n = 1 /\ (n + 2) - n = 2 /\ ~(n + 1 <= n) /\ ~(n + 2 <= n)
    BY <1>1
  <2> QED
    BY <1>2, <2>1, <2>2
<1>4. u \in Seq(A) /\ Len(u) = n + 2 /\ \A k \in 1..(n + 2) : u[k] = s[k]
  <2>1. /\ u \in Seq(A) /\ Len(u) = (n + 2) - 1 + 1
        /\ \A k \in 1..((n + 2) - 1 + 1) : u[k] = s[1 + k - 1]
    BY <1>1, SubSeqFacts
  <2> HIDE DEF u, n
  <2> QED
    BY <1>1, <2>1
<1> HIDE DEF u, w, n
<1>5. ASSUME u = w PROVE /\ \A q \in 1..n : s[q] = v[q]
                         /\ s[n + 1] = "|" /\ s[n + 2] = "@"
  BY <1>1, <1>3, <1>4, <1>5
<1>6. ASSUME /\ \A q \in 1..n : s[q] = v[q]
             /\ s[n + 1] = "|" /\ s[n + 2] = "@"
      PROVE  u = w
  <2>1. \A q \in 1..(n + 2) : u[q] = w[q]
    <3> TAKE q \in 1..(n + 2)
    <3>1. q \in 1..n \/ q = n + 1 \/ q = n + 2
      BY <1>1
    <3>2. u[q] = s[q]
      BY <1>4
    <3> QED
      BY <1>3, <1>6, <3>1, <3>2, Zenon
  <2>2. u \in Seq(B) /\ w \in Seq(B)
    BY <1>1, <1>3, <1>4
  <2> HIDE DEF B
  <2> QED
    BY <1>3, <1>4, <2>1, <2>2, SeqEqual
<1> QED
  BY <1>5, <1>6 DEF u, w, n, e

(* What is left of a text after its first j characters. *)
IsRest(A, t, j, s) ==
    /\ s \in Seq(A) /\ Len(s) = Len(t) - j
    /\ \A q \in 1..(Len(t) - j) : s[q] = t[j + q]

LEMMA RestFacts ==
    ASSUME NEW A, NEW t \in Seq(A), NEW j \in 1..Len(t)
    PROVE  IsRest(A, t, j, SubSeq(t, j + 1, Len(t)))
BY DEF IsRest

(* The type and the rate are found. *)
LEMMA TypeFoundSound ==
    ASSUME NEW A, NEW t \in Seq(A), NEW j \in 1..Len(t), TypeFound(t, j)
    PROVE  TypeAndRate(SubSeq(t, j + 1, Len(t)))
<1> DEFINE s == SubSeq(t, j + 1, Len(t))  k == Second(t, j)
<1>1. Len(t) \in Nat /\ (Len(t) + 1) - 1 = Len(t) /\ j \in Nat
  OBVIOUS
<1>2. /\ s \in Seq(A) /\ Len(s) = Len(t) - j
      /\ \A q \in 1..(Len(t) - j) : s[q] = t[j + q]
  <2>1. IsRest(A, t, j, s)
    BY RestFacts
  <2> HIDE DEF s
  <2> QED
    BY <2>1 DEF IsRest
<1>3. CASE k = 0
  <2>1. SubSeq(t, j + 1, (Len(t) + 1) - 1) \in valid_stat_types
    BY <1>3 DEF TypeFound, StatType
  <2> QED
    BY <1>1, <2>1 DEF TypeAndRate
<1>4. CASE k # 0
  <2> DEFINE v == SubSeq(t, j + 1, k - 1)
  <2>1. k \in (j + 1)..Len(t) /\ t[k] = "|"
    BY <1>4, SecondBar
  <2>2. k \in 1..Len(t)
    BY <1>1, <2>1
  <2>3. v \in valid_stat_types /\ SampleRate(t, k)
    BY <1>4 DEF TypeFound, StatType
  <2>4. k + 1 < Len(t) /\ t[k + 1] = "@" /\ Numeric(SubSeq(t, k + 2, Len(t)))
    BY <2>2, <2>3, RateNumeric
  <2> HIDE DEF k
  <2>5. Len(v) = k - 1 - j /\ \A q \in 1..(k - 1 - j) : v[q] = t[j + q]
    <3>1. j + 1 \in Nat \ {0} /\ j + 1 <= (k - 1) + 1 /\ k - 1 \in Nat /\ k - 1 <= Len(t)
      BY <1>1, <2>1
    <3>2. /\ Len(v) = (k - 1) - (j + 1) + 1
          /\ \A q \in 1..((k - 1) - (j + 1) + 1) : v[q] = t[(j + 1) + q - 1]
      BY <3>1, SubSeqFacts
    <3> HIDE DEF v
    <3> QED
      BY <1>1, <2>1, <3>2
  <2>6. v \in Seq(Letter)
    BY <2>3, TypesHaveNoBar
  <2> HIDE DEF v, s
  <2> DEFINE n == Len(v)
  <2>7. n = k - 1 - j /\ n \in Nat /\ Len(s) > n + 2 /\ k = j + n + 1
    BY <1>1, <1>2, <2>1, <2>4, <2>5
  <2> HIDE DEF n
  <2>8. SubSeq(s, 1, n + 2) = v \o <<"|", "@">>
    <3>1. \A q \in 1..n : s[q] = v[q]
      <4> TAKE q \in 1..n
      <4>1. q \in 1..(k - 1 - j) /\ q \in 1..(Len(t) - j)
        BY <1>1, <2>1, <2>7
      <4> QED
        BY <1>2, <2>5, <4>1
    <3>2. s[n + 1] = "|" /\ s[n + 2] = "@"
      <4>1. /\ n + 1 \in 1..(Len(t) - j) /\ n + 2 \in 1..(Len(t) - j)
            /\ j + (n + 1) = k /\ j + (n + 2) = k + 1
        BY <1>1, <2>4, <2>7
      <4>2. s[n + 1] = t[k] /\ s[n + 2] = t[k + 1]
        BY <1>2, <4>1
      <4> QED
        BY <2>1, <2>4, <4>2
    <3>3. n + 2 <= Len(s)
      BY <1>2, <2>7
    <3>4. s \in Seq(A) /\ v \in Seq(Letter) /\ Len(v) + 2 <= Len(s)
      BY <1>2, <2>6, <3>3 DEF n
    <3>5. SubSeq(s, 1, Len(v) + 2) = v \o <<"|", "@">> <=>
            /\ \A q \in 1..Len(v) : s[q] = v[q]
            /\ s[Len(v) + 1] = "|" /\ s[Len(v) + 2] = "@"
      BY <3>4, TypeAndAt, Zenon
    <3> QED
      BY <3>1, <3>2, <3>5, Zenon DEF n
  <2>9. SubSeq(s, n + 3, Len(s)) = SubSeq(t, k + 2, Len(t))
    <3>1. /\ j + 1 \in Nat \ {0} /\ j + 1 <= Len(t) + 1 /\ n + 3 \in Nat \ {0}
          /\ n + 3 <= Len(t) - (j + 1) + 2 /\ (j + 1) + (n + 3) - 1 = k + 2
      BY <1>1, <2>4, <2>7
    <3>2. SubSeq(s, n + 3, Len(s)) = SubSeq(t, (j + 1) + (n + 3) - 1, Len(t))
      BY <3>1, RestOfRest DEF s
    <3> QED
      BY <3>1, <3>2
  <2> QED
    BY <2>3, <2>4, <2>7, <2>8, <2>9, Zenon DEF TypeAndRate, n, s
<1> QED
  BY <1>3, <1>4

(* Where they are, they are found. *)
LEMMA TypeFoundComplete ==
    ASSUME NEW A, NEW t \in Seq(A), NEW j \in 1..Len(t), TypeAndRate(SubSeq(t, j + 1, Len(t)))
    PROVE  TypeFound(t, j)
<1> DEFINE s == SubSeq(t, j + 1, Len(t))
<1>1. Len(t) \in Nat /\ (Len(t) + 1) - 1 = Len(t) /\ j \in Nat /\ j + 1 \in Nat \ {0}
  OBVIOUS
<1>2. /\ s \in Seq(A) /\ Len(s) = Len(t) - j
      /\ \A q \in 1..(Len(t) - j) : s[q] = t[j + q]
  <2>1. IsRest(A, t, j, s)
    BY RestFacts
  <2> HIDE DEF s
  <2> QED
    BY <2>1 DEF IsRest
<1>3. CASE s \in valid_stat_types
  <2>1. \A q \in 1..Len(s) : s[q] # "|"
    BY <1>3, TypesHaveNoBar
  <2> HIDE DEF s
  <2>2. ASSUME NEW q \in (j + 1)..Len(t) PROVE t[q] # "|"
    <3>1. q - j \in 1..(Len(t) - j) /\ j + (q - j) = q
      BY <1>1
    <3> QED
      BY <1>2, <2>1, <3>1
  <2>3. Second(t, j) = 0
    BY <1>1, <2>2, MemchrNone, Zenon DEF Second
  <2>4. SubSeq(t, j + 1, (Len(t) + 1) - 1) \in valid_stat_types
    BY <1>1, <1>3 DEF s
  <2> QED
    BY <2>3, <2>4 DEF TypeFound, StatType
<1>4. ASSUME NEW v \in valid_stat_types,
             Len(s) > Len(v) + 2, SubSeq(s, 1, Len(v) + 2) = v \o <<"|", "@">>,
             Numeric(SubSeq(s, Len(v) + 3, Len(s)))
      PROVE  TypeFound(t, j)
  <2> HIDE DEF s
  <2> DEFINE n == Len(v)  k == j + n + 1
  <2>1. v \in Seq(Letter) /\ n \in 1..2 /\ \A q \in 1..n : v[q] # "|"
    BY TypesHaveNoBar
  <2>2. n \in Nat /\ n + 2 <= Len(s) /\ n + 2 < Len(t) - j
    BY <1>1, <1>2, <1>4, <2>1
  <2>3. (\A q \in 1..n : s[q] = v[q]) /\ s[n + 1] = "|" /\ s[n + 2] = "@"
    <3>1. s \in Seq(A) /\ v \in Seq(Letter) /\ Len(v) + 2 <= Len(s)
      BY <1>2, <2>1, <2>2
    <3>2. SubSeq(s, 1, Len(v) + 2) = v \o <<"|", "@">> <=>
             /\ \A q \in 1..Len(v) : s[q] = v[q]
             /\ s[Len(v) + 1] = "|" /\ s[Len(v) + 2] = "@"
      BY <3>1, TypeAndAt, Zenon
    <3> QED
      BY <1>4, <3>2, Zenon
  <2> HIDE DEF n
  <2>4. /\ k \in (j + 1)..Len(t) /\ k \in 1..Len(t) /\ k # 0 /\ k - 1 = j + n
        /\ k + 1 < Len(t) /\ n + 1 \in 1..(Len(t) - j) /\ n + 2 \in 1..(Len(t) - j)
        /\ j + (n + 1) = k /\ j + (n + 2) = k + 1
    BY <1>1, <2>2
  <2>5. t[k] = "|" /\ t[k + 1] = "@"
    <3>1. s[n + 1] = t[j + (n + 1)] /\ s[n + 2] = t[j + (n + 2)]
      BY <1>2, <2>4
    <3> QED
      BY <2>3, <2>4, <3>1
  <2>6. ASSUME NEW q \in 1..n PROVE t[j + q] = v[q]
    <3>1. q \in 1..(Len(t) - j)
      BY <1>1, <2>2
    <3> QED
      BY <1>2, <2>3, <3>1
  <2>7. ASSUME NEW q \in (j + 1)..(k - 1) PROVE t[q] # "|"
    <3>1. q - j \in 1..n /\ j + (q - j) = q
      BY <1>1, <2>2
    <3> QED
      BY <2>1, <2>6, <3>1 DEF n
  <2>8. Second(t, j) = k
    <3> HIDE DEF k
    <3> QED
      BY <1>1, <2>4, <2>5, <2>7, MemchrIs, Zenon DEF Second
  <2>9. SubSeq(t, j + 1, k - 1) = v
    <3> DEFINE u == SubSeq(t, j + 1, k - 1)  B == A \cup Letter
    <3>1. u \in Seq(A) /\ Len(u) = n /\ \A q \in 1..n : u[q] = t[j + q]
      <4>1. k - 1 \in Nat /\ j + 1 <= (k - 1) + 1 /\ k - 1 <= Len(t) /\ (k - 1) - (j + 1) + 1 = n
        BY <1>1, <2>2
      <4>2. /\ u \in Seq(A) /\ Len(u) = (k - 1) - (j + 1) + 1
            /\ \A q \in 1..((k - 1) - (j + 1) + 1) : u[q] = t[(j + 1) + q - 1]
        BY <1>1, <4>1, SubSeqFacts
      <4> HIDE DEF u
      <4> QED
        BY <1>1, <2>2, <4>1, <4>2
    <3> HIDE DEF u
    <3>2. u \in Seq(B) /\ v \in Seq(B)
      BY <2>1, <3>1
    <3>3. Len(u) = Len(v) /\ \A q \in 1..Len(u) : u[q] = v[q]
      BY <2>6, <3>1 DEF n
    <3> HIDE DEF B
    <3>4. u = v
      BY <3>2, <3>3, SeqEqual
    <3> QED
      BY <3>4 DEF u
  <2>10. SampleRate(t, k)
    <3>1. SubSeq(s, n + 3, Len(s)) = SubSeq(t, k + 2, Len(t))
      <4>1. /\ j + 1 <= Len(t) + 1 /\ n + 3 \in Nat \ {0}
            /\ n + 3 <= Len(t) - (j + 1) + 2 /\ (j + 1) + (n + 3) - 1 = k + 2
        BY <1>1, <2>2
      <4>2. SubSeq(s, n + 3, Len(s)) = SubSeq(t, (j + 1) + (n + 3) - 1, Len(t))
        BY <1>1, <4>1, RestOfRest DEF s
      <4> QED
        BY <4>1, <4>2
    <3>2. Numeric(SubSeq(t, k + 2, Len(t)))
      BY <1>4, <3>1 DEF n
    <3> QED
      BY <2>4, <2>5, <3>2, RateNumeric
  <2> HIDE DEF k
  <2> QED
    BY <2>4, <2>8, <2>9, <2>10 DEF TypeFound, StatType
<1> QED
  BY <1>3, <1>4, Zenon DEF TypeAndRate

-----------------------------------------------------------------------------
LEMMA StatsdExact ==
    ASSUME NEW A, NEW t \in Seq(A)
    PROVE  validate_statsd(t) <=> IsStatsd(t)
<1> DEFINE c == memchr(t, 1, ":")
<1>1. /\ c \in Nat
      /\ c # 0 => c \in 1..Len(t) /\ t[c] = ":" /\ \A k \in 1..(c - 1) : t[k] # ":"
  <2>1. 1 \in Nat \ {0}
    OBVIOUS
  <2> QED
    BY <2>1, MemchrFirst, Zenon
<1> HIDE DEF c
<1> DEFINE b == memchr(t, c + 1, "|")
<1>2. /\ b \in Nat
      /\ b # 0 => b \in (c + 1)..Len(t) /\ t[b] = "|" /\ \A k \in (c + 1)..(b - 1) : t[k] # "|"
  <2>1. c + 1 \in Nat \ {0}
    BY <1>1
  <2> QED
    BY <2>1, MemchrFirst, Zenon
<1> HIDE DEF b
<1>3. Len(t) \in Nat
  OBVIOUS
<1>4. validate_statsd(t) <=> c > 1 /\ strtod(t, c + 1) /\ b # 0 /\ TypeFound(t, b)
  BY Zenon DEF validate_statsd, TypeFound, Second, b, c
<1>5. ASSUME NEW i \in 1..Len(t), NEW j \in 1..Len(t), i < j, t[j] = "|"
      PROVE  /\ Numeric(SubSeq(t, i + 1, j - 1)) <=> strtod(t, i + 1)
             /\ TypeFound(t, j) <=> TypeAndRate(SubSeq(t, j + 1, Len(t)))
             /\ SubSeq(t, 1, i - 1) # <<>> <=> i > 1
             /\ (\A k \in DOMAIN SubSeq(t, 1, i - 1) : SubSeq(t, 1, i - 1)[k] # ":")
                  <=> \A k \in 1..(i - 1) : t[k] # ":"
             /\ (\A k \in DOMAIN SubSeq(t, i + 1, j - 1) : SubSeq(t, i + 1, j - 1)[k] # "|")
                  <=> \A k \in (i + 1)..(j - 1) : t[k] # "|"
  <2>1. i + 1 \in Nat \ {0} /\ j \in (i + 1)..Len(t)
    BY <1>3, <1>5
  <2>2. Numeric(SubSeq(t, i + 1, j - 1)) <=> strtod(t, i + 1)
    BY <1>5, <2>1, ValueNumeric
  <2>3. TypeFound(t, j) <=> TypeAndRate(SubSeq(t, j + 1, Len(t)))
    BY TypeFoundSound, TypeFoundComplete
  <2> DEFINE key == SubSeq(t, 1, i - 1)  value == SubSeq(t, i + 1, j - 1)
  <2>4. key \in Seq(A) /\ Len(key) = i - 1 /\ \A k \in 1..(i - 1) : key[k] = t[k]
    <3>1. 1 \in Nat \ {0} /\ i - 1 \in Nat /\ 1 <= (i - 1) + 1 /\ i - 1 <= Len(t)
      BY <1>3
    <3>2. /\ key \in Seq(A) /\ Len(key) = (i - 1) - 1 + 1
          /\ \A k \in 1..((i - 1) - 1 + 1) : key[k] = t[1 + k - 1]
      BY <3>1, SubSeqFacts
    <3> HIDE DEF key
    <3> QED
      BY <3>2
  <2>5. /\ value \in Seq(A) /\ Len(value) = j - 1 - i
        /\ \A k \in 1..(j - 1 - i) : value[k] = t[i + k]
    <3>1. i + 1 \in Nat \ {0} /\ j - 1 \in Nat /\ i + 1 <= (j - 1) + 1 /\ j - 1 <= Len(t)
      BY <1>3, <1>5
    <3>2. /\ value \in Seq(A) /\ Len(value) = (j - 1) - (i + 1) + 1
          /\ \A k \in 1..((j - 1) - (i + 1) + 1) : value[k] = t[(i + 1) + k - 1]
      BY <3>1, SubSeqFacts
    <3> HIDE DEF value
    <3> QED
      BY <3>2
  <2> HIDE DEF key, value
  <2>6. key # <<>> <=> i > 1
    <3>1. key = <<>> <=> Len(key) = 0
      BY <2>4
    <3> QED
      BY <2>4, <3>1
  <2>7. (\A k \in DOMAIN key : key[k] # ":") <=> \A k \in 1..(i - 1) : t[k] # ":"
    BY <2>4
  <2>8. (\A k \in DOMAIN value : value[k] # "|") <=> \A k \in (i + 1)..(j - 1) : t[k] # "|"
    <3>1. DOMAIN value = 1..(j - 1 - i)
      BY <2>5
    <3>2. ASSUME NEW k \in (i + 1)..(j - 1), \A q \in 1..(j - 1 - i) : value[q] # "|"
          PROVE  t[k] # "|"
      <4>1. k - i \in 1..(j - 1 - i) /\ i + (k - i) = k
        OBVIOUS
      <4> QED
        BY <2>5, <3>2, <4>1
    <3>3. ASSUME NEW k \in 1..(j - 1 - i), \A q \in (i + 1)..(j - 1) : t[q] # "|"
          PROVE  value[k] # "|"
      <4>1. i + k \in (i + 1)..(j - 1)
        OBVIOUS
      <4> QED
        BY <2>5, <3>3, <4>1
    <3> QED
      BY <3>1, <3>2, <3>3
  <2> QED
    BY <2>2, <2>3, <2>6, <2>7, <2>8 DEF key, value
<1>6. ASSUME c > 1, strtod(t, c + 1), b # 0, TypeFound(t, b) PROVE IsStatsd(t)
  <2>1. /\ c \in 1..Len(t) /\ b \in 1..Len(t) /\ c < b /\ t[c] = ":" /\ t[b] = "|"
        /\ \A k \in 1..(c - 1) : t[k] # ":"
        /\ \A k \in (c + 1)..(b - 1) : t[k] # "|"
    BY <1>1, <1>2, <1>3, <1>6
  <2> QED
    BY <1>5, <1>6, <2>1, Zenon DEF IsStatsd
<1>7. ASSUME IsStatsd(t) PROVE c > 1 /\ strtod(t, c + 1) /\ b # 0 /\ TypeFound(t, b)
  <2>1. PICK i \in 1..Len(t), j \in 1..Len(t) :
          /\ i < j /\ t[i] = ":" /\ t[j] = "|"
          /\ SubSeq(t, 1, i - 1) # <<>>
          /\ \A k \in DOMAIN SubSeq(t, 1, i - 1) : SubSeq(t, 1, i - 1)[k] # ":"
          /\ Numeric(SubSeq(t, i + 1, j - 1))
          /\ \A k \in DOMAIN SubSeq(t, i + 1, j - 1) : SubSeq(t, i + 1, j - 1)[k] # "|"
          /\ TypeAndRate(SubSeq(t, j + 1, Len(t)))
    BY <1>7, Zenon DEF IsStatsd
  <2>2. /\ i > 1 /\ strtod(t, i + 1) /\ TypeFound(t, j)
        /\ \A k \in 1..(i - 1) : t[k] # ":"
        /\ \A k \in (i + 1)..(j - 1) : t[k] # "|"
    BY <1>5, <2>1, Zenon
  <2>3. c = i
    <3>1. 1 \in Nat \ {0}
      OBVIOUS
    <3> QED
      BY <2>1, <2>2, <3>1, MemchrIs, Zenon DEF c
  <2>4. b = j
    <3>1. i + 1 \in Nat \ {0} /\ j \in (i + 1)..Len(t)
      BY <1>3, <2>1
    <3>2. memchr(t, i + 1, "|") = j
      <4>1. t[j] = "|" /\ \A k \in (i + 1)..(j - 1) : t[k] # "|"
        BY <2>1, <2>2
      <4> QED
        BY <3>1, <4>1, MemchrIs, Zenon
    <3> QED
      BY <2>3, <3>2, Zenon DEF b
  <2>5. j # 0
    OBVIOUS
  <2> QED
    BY <2>2, <2>3, <2>4, <2>5
<1> QED
  BY <1>4, <1>6, <1>7

(***************************************************************************)
(* For a text of any length, over any characters, validate_statsd and      *)
(* validate_carbon accept it exactly when it is one of their format: the   *)
(* pointers and remaining lengths they walk through a line with are right  *)
(* at every edge.                                                          *)
(***************************************************************************)
THEOREM ValidatorsRight == \A A : \A t \in Seq(A) : Exact(t)
BY CarbonExact, StatsdExact, Zenon DEF Exact

(***************************************************************************)
(* A text that validate_statsd accepts, whatever it is, has a key for      *)
(* protocol_parser_statsd to find.                                         *)
(***************************************************************************)
THEOREM ValidTextHasKey ==
    \A A : \A t \in Seq(A) : validate_statsd(t) => protocol_parser_statsd(t) > 0
<1> SUFFICES ASSUME NEW A, NEW t \in Seq(A), validate_statsd(t)
             PROVE  protocol_parser_statsd(t) > 0
  OBVIOUS
<1> DEFINE c == memchr(t, 1, ":")
<1>1. c > 1
  BY Zenon DEF validate_statsd
<1>2. c \in Nat
  <2>1. 1 \in Nat \ {0}
    OBVIOUS
  <2> QED
    BY <2>1, MemchrFirst, Zenon
<1>3. protocol_parser_statsd(t) = IF c = 0 THEN 0 ELSE c - 1
  BY Zenon DEF protocol_parser_statsd, simple_parse
<1> HIDE DEF c
<1> QED
  BY <1>1, <1>2, <1>3

(* The texts of the model are texts. *)
LEMMA TextsAreTexts == \A t \in Texts : t \in Seq(Chars)
<1>1. ASSUME NEW t \in TextsOver(Chars) PROVE t \in Seq(Chars)
  <2>1. PICK n \in 0..MaxText : t \in [1..n -> Chars]
    BY DEF TextsOver
  <2>2. n \in Nat
    BY FormatAssumption
  <2> QED
    BY <2>1, <2>2
<1>2. ASSUME NEW t \in TextsOver(Chars) PROVE Prefix \o t \in Seq(Chars)
  BY <1>1, FormatAssumption
<1> QED
  BY <1>1, <1>2 DEF Texts
=============================================================================
