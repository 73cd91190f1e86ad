----------------------------- MODULE WordProofs ----------------------------
(***************************************************************************)
(* Words of every width: powers of two, bits, and the operators of C on     *)
(* them.  Induction is over sets of numbers, by their least elements.       *)
(***************************************************************************)
EXTENDS Words, FiniteSetTheorems, WellFoundedInduction, TLAPS

LEMMA LeastElement ==
  ASSUME NEW T, T \subseteq Nat, T # {}
  PROVE  \E n \in T : \A m \in T : n <= m
<1> DEFINE R == {p \in Nat \X Nat : p[1] < p[2]}
<1>1. OpToRel(<, Nat) = R
  BY Zenon DEF OpToRel
<1>2. IsWellFoundedOn(R, Nat)
  BY <1>1, NatLessThanWellFounded
<1>3. \E n \in T : \A m \in T : ~ (<<m, n>> \in R)
  BY <1>2, WFMin
<1>4. \A n, m \in Nat : ~ (<<m, n>> \in R) => n <= m
  OBVIOUS
<1> QED BY <1>3, <1>4

(* Induction up to the width: over the numbers with a property.             *)
LEMMA UpToWidth ==
  ASSUME NEW S, 0 \in S, \A i \in 0 .. Width-1 : i \in S => i+1 \in S
  PROVE  \A i \in 0 .. Width : i \in S
<1> SUFFICES ASSUME NEW k \in 0 .. Width, k \notin S PROVE FALSE
  OBVIOUS
<1>w. Width \in Nat
  BY WidthAssumption
<1> DEFINE T == {i \in 0 .. Width : i \notin S}
<1>1. T \subseteq Nat /\ k \in T
  BY <1>w
<1>2. PICK n \in T : \A m \in T : n <= m
  BY <1>1, LeastElement
<1>3. n # 0 /\ n-1 \in 0 .. Width-1 /\ n-1 \notin T
  BY <1>w, <1>2
<1>4. n-1 \in 0 .. Width /\ n = (n-1) + 1
  BY <1>w, <1>2, <1>3
<1> QED BY <1>2, <1>3, <1>4

-----------------------------------------------------------------------------
(* Powers of two.                                                           *)
LEMMA Powers ==
  /\ Width \in Nat \ {0, 1} /\ 2^0 = 1
  /\ \A i \in 0 .. Width : 2^i \in Nat \ {0} /\ i < 2^i
  /\ \A i \in 0 .. Width-1 : 2^(i+1) = 2 * 2^i
<1>w. Width \in Nat \ {0, 1} /\ 2^0 = 1
  BY WidthAssumption
<1> DEFINE S == {i \in 0 .. Width : 2^i \in Nat \ {0} /\ i < 2^i}
<1>1. 0 \in S
  BY <1>w
<1>2. ASSUME NEW i \in 0 .. Width-1, i \in S PROVE i+1 \in S
  <2>1. 2^(i+1) = 2 * 2^i /\ 2^i \in Nat \ {0} /\ i < 2^i /\ i+1 \in 0 .. Width
    BY <1>w, <1>2, WidthAssumption
  <2> QED BY <2>1
<1> HIDE DEF S
<1>3. \A i \in 0 .. Width : i \in S
  BY <1>1, <1>2, UpToWidth
<1> QED BY <1>w, <1>3, WidthAssumption DEF S

LEMMA PowerSum ==
  ASSUME NEW i \in 0 .. Width, NEW j \in 0 .. Width, i + j <= Width
  PROVE  2^(i+j) = 2^i * 2^j
<1>w. Width \in Nat
  BY Powers
<1> DEFINE S == {n \in 0 .. Width : i + n <= Width => 2^(i+n) = 2^i * 2^n}
<1>1. 0 \in S
  <2>1. i + 0 = i /\ 2^i \in Nat
    BY <1>w, Powers
  <2> QED BY <1>w, <2>1, Powers
<1>2. ASSUME NEW n \in 0 .. Width-1, n \in S PROVE n+1 \in S
  <2> SUFFICES ASSUME i + (n+1) <= Width PROVE 2^(i+(n+1)) = 2^i * 2^(n+1)
    BY <1>w
  <2>1. 2^(i+n) = 2^i * 2^n /\ i+n \in 0 .. Width-1
    BY <1>w, <1>2
  <2>2. 2^((i+n)+1) = 2 * 2^(i+n) /\ 2^(n+1) = 2 * 2^n
    BY <2>1, Powers
  <2>3. i+(n+1) = (i+n)+1
    BY <1>w
  <2>4. 2^i \in Nat /\ 2^n \in Nat
    BY <1>w, Powers
  <2>5. 2 * (2^i * 2^n) = 2^i * (2 * 2^n)
    BY <2>4
  <2> QED BY <2>1, <2>2, <2>3, <2>5
<1> HIDE DEF S
<1>3. j \in S
  BY <1>1, <1>2, UpToWidth
<1> QED BY <1>3 DEF S

-----------------------------------------------------------------------------
(* Quotients and remainders.                                                *)
LEMMA Division ==
  ASSUME NEW a \in Int, NEW m \in Nat \ {0}
  PROVE  /\ a \div m \in Int /\ a % m \in 0 .. m-1
         /\ a = (a \div m) * m + (a % m)
OBVIOUS

LEMMA DivisionIsUnique ==
  ASSUME NEW m \in Nat \ {0}, NEW q \in Int, NEW s \in 0 .. m-1
  PROVE  (q * m + s) \div m = q /\ (q * m + s) % m = s
<1> DEFINE a == q * m + s
<1>1. a \in Int /\ a = q * m + s
  OBVIOUS
<1> HIDE DEF a
<1>2. a \div m = q /\ a % m = s
  BY <1>1
<1> QED BY <1>2 DEF a

LEMMA NestedDivision ==
  ASSUME NEW a \in Int, NEW m \in Nat \ {0}, NEW d \in Nat \ {0}
  PROVE  a \div (d * m) = (a \div m) \div d
<1> DEFINE b == a \div m
           q == b \div d
           u == a % m
           s == b % d
<1>1. b \in Int /\ u \in 0 .. m-1 /\ a = b * m + u
  BY Division
<1> HIDE DEF b
<1>2. q \in Int /\ s \in 0 .. d-1 /\ b = q * d + s
  BY <1>1, Division
<1> HIDE DEF q, u, s
<1>3. d * m \in Nat \ {0} /\ s * m \in Nat /\ s * m + u \in Nat
  BY <1>1, <1>2
<1>4. s * m + u < d * m
  <2>1. s * m <= (d-1) * m
    BY <1>2
  <2>2. (d-1) * m = d * m - m
    OBVIOUS
  <2> QED BY <1>1, <1>3, <2>1, <2>2
<1>5. a = q * (d * m) + (s * m + u)
  <2>1. (q * d + s) * m = q * (d * m) + s * m
    BY <1>2
  <2> QED BY <1>1, <1>2, <2>1
<1>6. s * m + u \in 0 .. d * m - 1
  BY <1>3, <1>4
<1> HIDE DEF b
<1> DEFINE e == d * m
           t == s * m + u
<1>7. e \in Nat \ {0} /\ t \in 0 .. e-1 /\ a = q * e + t
  BY <1>3, <1>5, <1>6
<1> HIDE DEF e, t
<1>8. a \div e = q
  BY <1>2, <1>7, DivisionIsUnique
<1> QED BY <1>8 DEF e, q, b

-----------------------------------------------------------------------------
(* Bits.                                                                    *)
LEMMA BitType ==
  ASSUME NEW a \in Int, NEW i \in 0 .. Width
  PROVE  Bit(a, i) \in {0, 1} /\ a \div 2^i \in Int
<1>1. 2^i \in Nat \ {0}
  BY Powers
<1> DEFINE m == 2^i
<1> HIDE DEF m
<1>2. a \div m \in Int /\ (a \div m) % 2 \in {0, 1}
  BY <1>1 DEF m
<1> QED BY <1>2 DEF Bit, m

(* The bits of a number that is cut at place k.                             *)
LEMMA LowBit ==
  ASSUME NEW k \in 0 .. Width, NEW q \in Int, NEW y \in Int, NEW i \in 0 .. k-1
  PROVE  Bit(q * 2^k + y, i) = Bit(y, i)
<1>1. /\ k-i \in 0 .. Width /\ i + (k-i) = k /\ i \in 0 .. Width
      /\ k-i-1 \in 0 .. Width-1 /\ (k-i-1) + 1 = k-i
  BY Powers
<1> DEFINE m == 2^i
           c == 2^(k-i-1)
           b == y \div m
           u == y % m
<1>2. m \in Nat \ {0} /\ c \in Nat \ {0} /\ 2^k = m * (2 * c)
  BY <1>1, Powers, PowerSum
<1> HIDE DEF m, c
<1>3. b \in Int /\ u \in 0 .. m-1 /\ y = b * m + u
  BY <1>2, Division
<1>4. q * 2^k + y = (2 * (q * c) + b) * m + u /\ 2 * (q * c) + b \in Int
  <2> DEFINE e == q * c
  <2>1. e \in Int /\ q * (m * (2 * c)) = (2 * e) * m
    BY <1>2
  <2> HIDE DEF e, b, u
  <2>2. (2 * e + b) * m = (2 * e) * m + b * m
    BY <1>2, <1>3, <2>1
  <2>3. b * m \in Int /\ (2 * e) * m \in Int /\ 2 * e + b \in Int
    BY <1>2, <1>3, <2>1
  <2>4. (2 * e) * m + y = (2 * e + b) * m + u
    BY <1>3, <2>2, <2>3
  <2> QED BY <1>2, <2>1, <2>3, <2>4 DEF e
<1>5. (q * 2^k + y) \div m = 2 * (q * c) + b
  <2> DEFINE e == 2 * (q * c) + b
  <2>1. e \in Int
    BY <1>4
  <2> HIDE DEF e, u
  <2>2. (e * m + u) \div m = e
    BY <1>2, <1>3, <2>1, DivisionIsUnique
  <2> QED BY <1>4, <2>2 DEF e
<1>6. q * c \in Int
  BY <1>2
<1>7. (2 * (q * c) + b) % 2 = b % 2
  <2> DEFINE p == q * c
  <2>1. p \in Int
    BY <1>6
  <2> HIDE DEF p, b
  <2>2. (2 * p + b) % 2 = b % 2
    BY <1>3, <2>1
  <2> QED BY <2>2 DEF p
<1> QED BY <1>5, <1>7 DEF Bit, m

LEMMA HighPart ==
  ASSUME NEW k \in 0 .. Width, NEW q \in Int, NEW y \in 0 .. 2^k - 1, NEW i \in k .. Width
  PROVE  (q * 2^k + y) \div 2^i = q \div 2^(i-k)
<1>1. i-k \in 0 .. Width /\ (i-k) + k = i
  BY Powers
<1> DEFINE m == 2^k
           d == 2^(i-k)
<1>2. m \in Nat \ {0} /\ d \in Nat \ {0} /\ 2^i = d * m
  BY <1>1, Powers, PowerSum
<1>3. (q * m + y) \div m = q /\ q * m + y \in Int
  BY <1>2, DivisionIsUnique
<1> HIDE DEF m, d
<1>4. (q * m + y) \div (d * m) = q \div d
  BY <1>2, <1>3, NestedDivision
<1> QED BY <1>2, <1>4 DEF m, d

(* A word is determined by its bits.                                        *)
LEMMA SameBits ==
  ASSUME NEW w \in Word, NEW v \in Word, \A i \in 0 .. Width-1 : Bit(w, i) = Bit(v, i)
  PROVE  w = v
<1>0. w \in Nat /\ v \in Nat /\ w < 2^Width /\ v < 2^Width /\ Width \in 0 .. Width
      /\ 2^Width \in Nat \ {0}
  BY Powers DEF Word, Size
<1>1. ASSUME NEW a \in Int, NEW m \in Nat \ {0}
      PROVE  a % (2 * m) = ((a \div m) % 2) * m + (a % m)
  <2> DEFINE b == a \div m
             u == a % m
  <2>1. b \in Int /\ u \in 0 .. m-1 /\ a = b * m + u
    BY Division
  <2> HIDE DEF b, u
  <2> DEFINE q == b \div 2
             s == b % 2
             t == s * m + u
             e == 2 * m
  <2>2. q \in Int /\ s \in {0, 1} /\ b = 2 * q + s
    BY <2>1
  <2> HIDE DEF q, s
  <2>3. t \in 0 .. e-1 /\ e \in Nat \ {0}
    BY <2>1, <2>2
  <2>4. a = q * e + t
    <3>1. (2 * q + s) * m = q * (2 * m) + s * m
      BY <2>2
    <3> QED BY <2>1, <2>2, <3>1
  <2> HIDE DEF t, e
  <2>5. a % e = t
    BY <2>2, <2>3, <2>4, DivisionIsUnique
  <2> QED BY <2>5 DEF t, e, s, b, u
<1> DEFINE S == {k \in 0 .. Width : w % 2^k = v % 2^k}
<1>2. 0 \in S
  <2>1. w % 1 = 0 /\ v % 1 = 0
    BY <1>0
  <2> QED BY <2>1, Powers
<1>3. ASSUME NEW k \in 0 .. Width-1, k \in S PROVE k+1 \in S
  <2>1. 2^k \in Nat \ {0} /\ 2^(k+1) = 2 * 2^k /\ k+1 \in 0 .. Width
    BY Powers
  <2> DEFINE m == 2^k
  <2>2. \A a \in Int : a % (2 * m) = Bit(a, k) * m + (a % m)
    BY <1>1, <2>1 DEF Bit
  <2>3. w % m = v % m /\ Bit(w, k) = Bit(v, k) /\ w \in Int /\ v \in Int
    BY <1>0, <1>3
  <2> HIDE DEF m
  <2>4. w % (2 * m) = v % (2 * m)
    BY <2>2, <2>3
  <2> QED BY <2>1, <2>4 DEF m
<1> HIDE DEF S
<1>4. Width \in S
  BY <1>0, <1>2, <1>3, UpToWidth
<1>5. w % 2^Width = w /\ v % 2^Width = v
  BY <1>0
<1> QED BY <1>4, <1>5 DEF S

(* OfBits counts, for each bit that is set, the numbers that have their     *)
(* highest bit there: as many as it is worth.                               *)
Counted(b, k) == {n \in 1 .. 2^k - 1 : \E i \in 0 .. k-1 : n \div 2^i = 1 /\ b[i] = 1}
One(b, k) == IF b[k] = 1 THEN 1 ELSE 0

LEMMA PowersGrow ==
  ASSUME NEW i \in 0 .. Width, NEW j \in i .. Width
  PROVE  2^i <= 2^j
<1>1. j-i \in 0 .. Width /\ i + (j-i) = j
  BY Powers
<1> DEFINE m == 2^i
           d == 2^(j-i)
<1>2. m \in Nat \ {0} /\ d \in Nat \ {0} /\ 2^j = m * d
  BY <1>1, Powers, PowerSum
<1> HIDE DEF m, d
<1>3. m * d >= m
  BY <1>2
<1> QED BY <1>2, <1>3 DEF m

LEMMA HighestBit ==
  ASSUME NEW n \in Nat, NEW m \in Nat \ {0}
  PROVE  n \div m = 1 <=> n \in m .. 2 * m - 1
<1> DEFINE q == n \div m
           u == n % m
<1>1. q \in Int /\ u \in 0 .. m-1 /\ n = q * m + u
  BY Division
<1> HIDE DEF q, u
<1>2. CASE q >= 2
  <2>1. q * m >= 2 * m
    BY <1>2, <1>1
  <2> QED BY <1>1, <1>2, <2>1 DEF q
<1>3. CASE q <= 0
  <2>1. q * m <= 0
    BY <1>3, <1>1
  <2> QED BY <1>1, <1>3, <2>1 DEF q
<1>4. CASE q = 1
  BY <1>1, <1>4 DEF q
<1> QED BY <1>1, <1>2, <1>3, <1>4

LEMMA CountedNext ==
  ASSUME NEW b, NEW k \in 0 .. Width-1
  PROVE  Counted(b, k+1) = Counted(b, k) \cup (IF b[k] = 1 THEN 2^k .. 2 * 2^k - 1 ELSE {})
<1> DEFINE m == 2^k
<1>1. /\ m \in Nat \ {0} /\ 2^(k+1) = 2 * m /\ k \in 0 .. Width
      /\ 0 .. (k+1)-1 = 0 .. k-1 \cup {k}
  BY Powers
<1>2. ASSUME NEW i \in 0 .. k-1, NEW n \in Nat, n \div 2^i = 1 PROVE n \in 1 .. m-1
  <2>1. 2^i \in Nat \ {0} /\ 2^(i+1) = 2 * 2^i /\ 2^(i+1) <= m
    BY <1>1, Powers, PowersGrow
  <2>2. n \in 2^i .. 2 * 2^i - 1
    BY <1>2, <2>1, HighestBit
  <2> QED BY <1>1, <2>1, <2>2
<1>3. \A n \in Nat : n \div m = 1 <=> n \in m .. 2 * m - 1
  BY <1>1, HighestBit
<1>4. 1 .. 2 * m - 1 \subseteq Nat /\ 1 .. m-1 \subseteq 1 .. 2*m-1 /\ m .. 2*m-1 \subseteq 1 .. 2*m-1
  BY <1>1
<1>5. ASSUME NEW n \in Counted(b, k+1)
      PROVE  n \in Counted(b, k) \cup (IF b[k] = 1 THEN m .. 2 * m - 1 ELSE {})
  <2>1. n \in 1 .. 2*m-1 /\ n \in Nat
    BY <1>1, <1>4 DEF Counted
  <2>2. PICK i \in 0 .. k-1 \cup {k} : n \div 2^i = 1 /\ b[i] = 1
    BY <1>1 DEF Counted
  <2>3. CASE i = k
    BY <1>3, <2>1, <2>2, <2>3
  <2>4. CASE i \in 0 .. k-1
    BY <1>2, <2>1, <2>2, <2>4 DEF Counted
  <2> QED BY <2>2, <2>3, <2>4
<1>6. ASSUME NEW n \in Counted(b, k) \cup (IF b[k] = 1 THEN m .. 2 * m - 1 ELSE {})
      PROVE  n \in Counted(b, k+1)
  <2>1. CASE n \in Counted(b, k)
    <3>1. n \in 1 .. m-1
      BY <2>1 DEF Counted
    <3>2. PICK i \in 0 .. k-1 : n \div 2^i = 1 /\ b[i] = 1
      BY <2>1 DEF Counted
    <3>3. i \in 0 .. (k+1)-1 /\ n \in 1 .. 2 * m - 1
      BY <1>1, <1>4, <3>1
    <3> QED BY <1>1, <3>2, <3>3 DEF Counted
  <2>2. CASE b[k] = 1 /\ n \in m .. 2 * m - 1
    <3>1. n \in 1 .. 2*m-1 /\ n \div 2^k = 1 /\ k \in 0 .. (k+1)-1
      BY <1>1, <1>3, <1>4, <2>2
    <3> QED BY <1>1, <2>2, <3>1 DEF Counted
  <2> QED BY <1>6, <2>1, <2>2
<1> QED BY <1>5, <1>6

LEMMA CountIsValue ==
  ASSUME NEW b, NEW k \in 0 .. Width
  PROVE  /\ IsFiniteSet(Counted(b, k)) /\ Cardinality(Counted(b, k)) \in 0 .. 2^k - 1
         /\ \A i \in 0 .. k-1 : Bit(Cardinality(Counted(b, k)), i) = One(b, i)
<1> DEFINE V(j) == Cardinality(Counted(b, j))
           P(j) == /\ IsFiniteSet(Counted(b, j)) /\ V(j) \in 0 .. 2^j - 1
                   /\ \A i \in 0 .. j-1 : Bit(V(j), i) = One(b, i)
           S == {j \in 0 .. Width : P(j)}
<1>w. Width \in Nat
  BY Powers
<1>1. 0 \in S
  <2>1. Counted(b, 0) = {} /\ 0 .. 0-1 = {}
    BY Powers DEF Counted
  <2> QED BY <1>w, <2>1, FS_EmptySet, Powers
<1>2. ASSUME NEW j \in 0 .. Width-1, j \in S PROVE j+1 \in S
  <2> DEFINE m == 2^j
             more == IF b[j] = 1 THEN m .. 2 * m - 1 ELSE {}
             v == V(j)
  <2>1. m \in Nat \ {0} /\ 2^(j+1) = 2 * m /\ j \in 0 .. Width /\ j+1 \in 0 .. Width
    BY <1>w, Powers
  <2>2. Counted(b, j+1) = Counted(b, j) \cup more
    BY CountedNext
  <2>3. IsFiniteSet(Counted(b, j)) /\ v \in 0 .. m-1 /\ \A i \in 0 .. j-1 : Bit(v, i) = One(b, i)
    BY <1>2
  <2>4. IsFiniteSet(more) /\ Cardinality(more) = One(b, j) * m
    <3>1. CASE b[j] = 1
      <4>1. IsFiniteSet(m .. 2*m-1) /\ Cardinality(m .. 2*m-1) = m
        <5> DEFINE e == 2 * m - 1
        <5>1. m \in Int /\ e \in Int /\ ~ (m > e) /\ e - m + 1 = m
          BY <2>1
        <5> HIDE DEF m, e
        <5>2. IsFiniteSet(m .. e) /\ Cardinality(m .. e) = e - m + 1
          BY <5>1, FS_Interval
        <5> QED BY <5>1, <5>2 DEF e
      <4> QED BY <2>1, <3>1, <4>1 DEF One
    <3>2. CASE b[j] # 1
      BY <2>1, <3>2, FS_EmptySet DEF One
    <3> QED BY <3>1, <3>2
  <2>5. Counted(b, j) \cap more = {}
    BY <2>1 DEF Counted
  <2> HIDE DEF more, m, v
  <2>6. IsFiniteSet(Counted(b, j+1)) /\ V(j+1) = One(b, j) * m + v
    <3>1. /\ IsFiniteSet(Counted(b, j) \cup more)
          /\ Cardinality(Counted(b, j) \cup more)
               = Cardinality(Counted(b, j)) + Cardinality(more)
               - Cardinality(Counted(b, j) \cap more)
      BY <2>3, <2>4, FS_Union
    <3>2. Cardinality({}) = 0
      BY FS_EmptySet
    <3>3. One(b, j) * m \in Int /\ v \in Int
      BY <2>1, <2>3 DEF One
    <3>4. V(j+1) = v + One(b, j) * m - 0
      BY <2>2, <2>4, <2>5, <3>1, <3>2 DEF v
    <3> DEFINE e == One(b, j) * m
               u == V(j+1)
    <3>5. e \in Int /\ v \in Int /\ u = v + e - 0
      BY <3>3, <3>4
    <3> HIDE DEF e, u
    <3>6. u = e + v
      BY <3>5
    <3> QED BY <2>2, <3>1, <3>6 DEF e, u
  <2> DEFINE o == One(b, j)
  <2>7. o \in {0, 1} /\ o * m + v \in 0 .. 2 * m - 1 /\ (o * m + v) \div m = o
    <3>1. o \in {0, 1}
      BY DEF One
    <3>2. o * m + v \in 0 .. 2 * m - 1
      BY <2>1, <2>3, <3>1
    <3> HIDE DEF o
    <3>3. (o * m + v) \div m = o
      BY <2>1, <2>3, <3>1, DivisionIsUnique
    <3> QED BY <3>1, <3>2, <3>3
  <2> HIDE DEF o
  <2>8. ASSUME NEW i \in 0 .. (j+1)-1 PROVE Bit(o * m + v, i) = One(b, i)
    <3>1. CASE i = j
      BY <2>7, <3>1 DEF Bit, o, m
    <3>2. CASE i # j
      <4>1. i \in 0 .. j-1
        BY <2>1, <3>2
      <4>2. Bit(o * 2^j + v, i) = Bit(v, i)
        <5>1. o \in Int /\ v \in Int
          BY <2>1, <2>3, <2>7
        <5> QED BY <2>1, <4>1, <5>1, LowBit
      <4> QED BY <2>3, <4>1, <4>2 DEF m
    <3> QED BY <3>1, <3>2
  <2> QED BY <2>1, <2>6, <2>7, <2>8 DEF o
<1> HIDE DEF S
<1>3. k \in S
  BY <1>1, <1>2, UpToWidth
<1> QED BY <1>3 DEF S

(* A word of given bits has these.                                          *)
LEMMA BitsOfWord ==
  ASSUME NEW b
  PROVE  /\ OfBits(b) \in Word
         /\ \A i \in 0 .. Width-1 : Bit(OfBits(b), i) = One(b, i)
<1>1. OfBits(b) = Cardinality(Counted(b, Width)) /\ Width \in 0 .. Width
  BY Powers DEF OfBits, Counted, Size
<1> QED BY <1>1, CountIsValue DEF Word, Size

LEMMA BitwiseBits ==
  ASSUME NEW x \in Int, NEW y \in Int, NEW i \in 0 .. Width-1
  PROVE  /\ Bit(And(x, y), i) = 1 <=> Bit(x, i) = 1 /\ Bit(y, i) = 1
         /\ Bit(Or(x, y), i) = 1 <=> Bit(x, i) = 1 \/ Bit(y, i) = 1
         /\ Bit(Xor(x, y), i) = 1 <=> Bit(x, i) # Bit(y, i)
<1>1. Bit(x, i) \in {0, 1} /\ Bit(y, i) \in {0, 1}
  BY Powers, BitType
<1> DEFINE a == [j \in 0 .. Width-1 |-> Bit(x, j) * Bit(y, j)]
           o == [j \in 0 .. Width-1 |-> 1 - (1 - Bit(x, j)) * (1 - Bit(y, j))]
           e == [j \in 0 .. Width-1 |-> (Bit(x, j) + Bit(y, j)) % 2]
<1>2. /\ Bit(And(x, y), i) = One(a, i) /\ Bit(Or(x, y), i) = One(o, i)
      /\ Bit(Xor(x, y), i) = One(e, i)
  BY BitsOfWord DEF And, Or, Xor
<1>3. One(a, i) = 1 <=> Bit(x, i) = 1 /\ Bit(y, i) = 1
  BY <1>1 DEF One
<1>4. One(o, i) = 1 <=> Bit(x, i) = 1 \/ Bit(y, i) = 1
  BY <1>1 DEF One
<1>5. One(e, i) = 1 <=> Bit(x, i) # Bit(y, i)
  BY <1>1 DEF One
<1> QED BY <1>2, <1>3, <1>4, <1>5

LEMMA WordValues ==
  /\ Size = 2 * Half /\ Size \in Nat \ {0} /\ Half \in Nat \ {0} /\ Half = 2^(Width-1)
  /\ Size = 2^Width /\ Width-1 \in 0 .. Width-1 /\ Width \in 0 .. Width
  /\ \A w \in Word : w \in Int /\ 0 <= w /\ w < Size
<1>1. Width-1 \in 0 .. Width-1 /\ (Width-1) + 1 = Width
  BY Powers
<1> QED BY <1>1, Powers DEF Size, Half, Word

LEMMA WrapBits ==
  ASSUME NEW a \in Int, NEW i \in 0 .. Width-1
  PROVE  Bit(Wrap(a), i) = Bit(a, i)
<1> DEFINE q == a \div Size
           y == a % Size
<1>0. Size \in Nat \ {0}
  BY WordValues
<1>1. q \in Int /\ y \in Int /\ a = q * Size + y
  <2>1. q \in Int /\ y \in 0 .. Size-1 /\ a = q * Size + y
    BY <1>0, Division
  <2> QED BY <1>0, <2>1
<1> HIDE DEF q, y
<1>2. Bit(q * Size + y, i) = Bit(y, i)
  BY <1>1, WordValues, LowBit
<1> QED BY <1>1, <1>2 DEF Wrap, y

LEMMA NotBits ==
  ASSUME NEW x \in Word, NEW i \in 0 .. Width-1
  PROVE  Bit(Not(x), i) = 1 - Bit(x, i)
<1>1. /\ i \in 0 .. Width /\ Width-i-1 \in 0 .. Width-1
      /\ (Width-i-1) + 1 = Width-i /\ i + (Width-i) = Width
  BY Powers
<1> DEFINE m == 2^i
           c == 2^(Width-i-1)
           b == x \div m
           u == x % m
<1>2. m \in Nat \ {0} /\ c \in Nat \ {0} /\ Size = m * (2 * c)
  BY <1>1, Powers, PowerSum DEF Size
<1> HIDE DEF m, c
<1>3. b \in Int /\ u \in 0 .. m-1 /\ x = b * m + u
  BY <1>2, WordValues, Division
<1> HIDE DEF b, u
<1> DEFINE q == 2 * c - 1 - b
           s == m - 1 - u
<1>4. Size - 1 - x = q * m + s /\ q \in Int /\ s \in 0 .. m-1
  <2>1. (2 * c - 1 - b) * m = m * (2 * c) - m - b * m
    BY <1>2, <1>3
  <2>2. b * m \in Int /\ m * (2 * c) \in Int
    BY <1>2, <1>3
  <2> QED BY <1>2, <1>3, <2>1, <2>2
<1> HIDE DEF q, s
<1>5. (Size - 1 - x) \div m = q
  BY <1>2, <1>4, DivisionIsUnique
<1>6. q % 2 = 1 - (b % 2)
  BY <1>2, <1>3 DEF q
<1> QED BY <1>5, <1>6 DEF Bit, Not, m, b

LEMMA SllBits ==
  ASSUME NEW x \in Word, NEW s \in 0 .. Width-1, NEW i \in 0 .. Width-1
  PROVE  Bit(Sll(x, s), i) = IF i >= s THEN Bit(x, i-s) ELSE 0
<1>1. x \in Int /\ s \in 0 .. Width /\ i \in 0 .. Width /\ 2^s \in Nat \ {0}
  BY WordValues, Powers
<1>2. x * 2^s \in Int /\ x * 2^s = x * 2^s + 0 /\ 0 \in 0 .. 2^s - 1
  BY <1>1
<1>3. Bit(Sll(x, s), i) = Bit(x * 2^s, i)
  BY <1>2, WrapBits DEF Sll
<1>4. CASE i >= s
  <2>1. i \in s .. Width
    BY <1>1, <1>4
  <2>2. (x * 2^s + 0) \div 2^i = x \div 2^(i-s)
    BY <1>1, <1>2, <2>1, HighPart
  <2> QED BY <1>2, <1>3, <1>4, <2>2 DEF Bit
<1>5. CASE ~ (i >= s)
  <2>1. i \in 0 .. s-1
    BY <1>1, <1>5
  <2>2. Bit(x * 2^s + 0, i) = Bit(0, i)
    <3> DEFINE z == 0
    <3>1. z \in Int
      OBVIOUS
    <3> HIDE DEF z
    <3>2. Bit(x * 2^s + z, i) = Bit(z, i)
      BY <1>1, <2>1, <3>1, LowBit
    <3> QED BY <3>2 DEF z
  <2>3. Bit(0, i) = 0
    <3>1. 2^i \in Nat \ {0}
      BY <1>1, Powers
    <3> DEFINE m == 2^i
    <3> HIDE DEF m
    <3> DEFINE z == 0
    <3>2. z \in Int /\ z \in 0 .. m-1 /\ m \in Nat \ {0} /\ z * m + z = z
      BY <3>1 DEF m
    <3> HIDE DEF z
    <3>3. z \div m = z
      BY <3>2, DivisionIsUnique
    <3>4. z % 2 = z
      BY DEF z
    <3>5. Bit(z, i) = z
      BY <3>3, <3>4 DEF Bit, m
    <3> QED BY <3>5 DEF z
  <2> QED BY <1>2, <1>3, <1>5, <2>2, <2>3
<1> QED BY <1>4, <1>5

(* What a shift to the right leaves: of the places that are there, their    *)
(* bits; of those beyond, the sign.                                         *)
LEMMA ShiftedBits ==
  ASSUME NEW x \in Int, -Size <= x, x < Size, NEW s \in 0 .. Width-1, NEW i \in 0 .. Width-1
  PROVE  Bit(x \div 2^s, i) = IF i + s < Width THEN Bit(x, i+s)
                              ELSE IF x < 0 THEN 1 ELSE 0
<1>1. s \in 0 .. Width /\ i \in 0 .. Width /\ Width \in Nat /\ Width-s \in 0 .. Width
  BY Powers
<1> DEFINE m == 2^s
           d == 2^i
<1>2. m \in Nat \ {0} /\ d \in Nat \ {0}
  BY <1>1, Powers
<1>3. Bit(x \div 2^s, i) = (x \div (d * m)) % 2
  <2> HIDE DEF m, d
  <2>1. x \div (d * m) = (x \div m) \div d
    BY <1>2, NestedDivision
  <2> QED BY <2>1 DEF Bit, m, d
<1>4. CASE i + s < Width
  <2>1. 2^(i+s) = d * m
    BY <1>1, <1>4, PowerSum
  <2> QED BY <1>3, <1>4, <2>1 DEF Bit
<1>5. CASE ~ (i + s < Width)
  <2>1. Width-s <= i /\ s + (Width-s) = Width
    BY <1>1, <1>5
  <2>2. Size = m * 2^(Width-s) /\ 2^(Width-s) <= d /\ 2^(Width-s) \in Nat
    BY <1>1, <2>1, PowerSum, PowersGrow, Powers DEF Size
  <2> DEFINE e == d * m
             c == 2^(Width-s)
  <2> HIDE DEF m, d, c
  <2>3. Size <= d * m /\ d * m \in Nat \ {0}
    <3>1. m * c <= m * d
      BY <1>2, <2>2 DEF c
    <3> QED BY <1>2, <2>2, <3>1 DEF c
  <2> HIDE DEF e
  <2>4. e \in Nat \ {0} /\ -e <= x /\ x < e
    BY <2>3, WordValues DEF e
  <2>5. CASE x < 0
    <3>1. x = (-1) * e + (x + e) /\ x + e \in 0 .. e-1
      BY <2>4, <2>5
    <3>2. x \div e = -1
      BY <2>4, <3>1, DivisionIsUnique
    <3> QED BY <1>3, <1>5, <2>5, <3>2 DEF e
  <2>6. CASE x >= 0
    <3>1. x = 0 * e + x /\ x \in 0 .. e-1
      BY <2>4, <2>6
    <3>2. x \div e = 0
      BY <2>4, <3>1, DivisionIsUnique
    <3> QED BY <1>3, <1>5, <2>6, <3>2 DEF e
  <2> QED BY <2>5, <2>6
<1> QED BY <1>4, <1>5

-----------------------------------------------------------------------------
(* Wraps and signs.                                                         *)
LEMMA WrapIs ==
  ASSUME NEW w \in Word, NEW k \in Int
  PROVE  Wrap(k * Size + w) = w
<1>1. Size \in Nat \ {0} /\ w \in 0 .. Size-1
  BY WordValues DEF Word
<1> QED BY <1>1, DivisionIsUnique DEF Wrap

LEMMA WrapOf ==
  ASSUME NEW a \in Int
  PROVE  Wrap(a) \in Word /\ \E k \in Int : a = k * Size + Wrap(a)
<1>1. Size \in Nat \ {0}
  BY WordValues
<1>2. a \div Size \in Int /\ a % Size \in 0 .. Size-1 /\ a = (a \div Size) * Size + (a % Size)
  BY <1>1, Division
<1> QED BY <1>2 DEF Wrap, Word

LEMMA WrapShifted ==
  ASSUME NEW a \in Int, NEW k \in Int
  PROVE  Wrap(k * Size + a) = Wrap(a)
<1>1. Wrap(a) \in Word /\ Size \in Nat
  BY WrapOf, WordValues
<1>2. PICK j \in Int : a = j * Size + Wrap(a)
  BY WrapOf
<1> DEFINE w == Wrap(a)
<1>3. w \in Int
  BY <1>1, WordValues
<1> HIDE DEF w
<1>4. k * Size + a = (k + j) * Size + w
  <2>1. (k + j) * Size = k * Size + j * Size /\ k * Size \in Int /\ j * Size \in Int
    BY <1>1
  <2> QED BY <1>2, <1>3, <2>1 DEF w
<1>5. Wrap((k + j) * Size + w) = w
  BY <1>1, WrapIs DEF w
<1> QED BY <1>4, <1>5 DEF w

LEMMA SignedValues ==
  ASSUME NEW w \in Word
  PROVE  /\ Signed(w) \in Int /\ -Half <= Signed(w) /\ Signed(w) < Half
         /\ \E k \in {-1, 0} : Signed(w) = k * Size + w
         /\ Signed(w) < 0 <=> w >= Half
<1>1. w \in Int /\ 0 <= w /\ w < Size /\ Size = 2 * Half /\ Half \in Nat \ {0}
  BY WordValues
<1>2. CASE w >= Half
  <2>1. Signed(w) = w - Size /\ w - Size = (-1) * Size + w
    BY <1>1, <1>2 DEF Signed
  <2> QED BY <1>1, <1>2, <2>1
<1>3. CASE ~ (w >= Half)
  <2>1. Signed(w) = w /\ w = 0 * Size + w
    BY <1>1, <1>3 DEF Signed
  <2> QED BY <1>1, <1>3, <2>1
<1> QED BY <1>2, <1>3

LEMMA TopBit ==
  ASSUME NEW w \in Word
  PROVE  Bit(w, Width-1) = IF w >= Half THEN 1 ELSE 0
<1>1. w \in Nat /\ w < 2 * Half /\ Half \in Nat \ {0} /\ Half = 2^(Width-1)
  BY WordValues
<1>2. Bit(w, Width-1) = (w \div Half) % 2
  BY <1>1 DEF Bit
<1>3. CASE w >= Half
  <2>1. w \div Half = 1
    BY <1>1, <1>3, HighestBit
  <2> QED BY <1>2, <1>3, <2>1
<1>4. CASE w < Half
  <2>1. w = 0 * Half + w /\ w \in 0 .. Half-1
    BY <1>1, <1>4
  <2>2. w \div Half = 0
    BY <1>1, <2>1, DivisionIsUnique
  <2> QED BY <1>1, <1>2, <1>4, <2>2
<1> QED BY <1>1, <1>3, <1>4

LEMMA SrlBits ==
  ASSUME NEW w \in Word, NEW s \in 0 .. Width-1, NEW i \in 0 .. Width-1
  PROVE  Bit(Srl(w, s), i) = IF i + s < Width THEN Bit(w, i+s) ELSE 0
BY ShiftedBits, WordValues DEF Srl

LEMMA SraBits ==
  ASSUME NEW w \in Word, NEW s \in 0 .. Width-1, NEW i \in 0 .. Width-1
  PROVE  Bit(Sra(w, s), i) = IF i + s < Width THEN Bit(w, i+s)
                             ELSE IF w >= Half THEN 1 ELSE 0
<1> DEFINE x == Signed(w)
<1>1. x \in Int /\ -Size <= x /\ x < Size /\ (x < 0 <=> w >= Half)
  BY SignedValues, WordValues
<1>2. PICK k \in {-1, 0} : x = k * Size + w
  BY SignedValues
<1>3. s \in 0 .. Width /\ w \in Int /\ k \in Int
  BY Powers, WordValues
<1> HIDE DEF x
<1>4. x \div 2^s \in Int
  BY <1>1, <1>3, BitType
<1>5. Bit(Sra(w, s), i) = Bit(x \div 2^s, i)
  BY <1>4, WrapBits DEF Sra, x
<1>6. ASSUME i + s < Width PROVE Bit(x, i+s) = Bit(w, i+s)
  <2>1. i+s \in 0 .. Width-1 /\ Width \in 0 .. Width
    BY <1>6, Powers
  <2> QED BY <1>2, <1>3, <2>1, LowBit DEF Size
<1> QED BY <1>1, <1>5, <1>6, ShiftedBits

(* A word with its highest bit flipped.                                     *)
Flipped(w) == IF w < Half THEN w + Half ELSE w - Half

LEMMA FlippedBits ==
  ASSUME NEW w \in Word
  PROVE  /\ Flipped(w) \in Word
         /\ \A i \in 0 .. Width-1 :
              Bit(Flipped(w), i) = IF i = Width-1 THEN 1 - Bit(w, i) ELSE Bit(w, i)
<1>1. w \in Int /\ 0 <= w /\ w < Size /\ Size = 2 * Half /\ Half \in Nat \ {0}
      /\ Half = 2^(Width-1) /\ Width-1 \in 0 .. Width
  BY Powers, WordValues
<1>2. Flipped(w) \in Word /\ (Flipped(w) >= Half <=> w < Half)
  BY <1>1 DEF Flipped, Word
<1>3. ASSUME NEW i \in 0 .. Width-1 - 1 PROVE Bit(Flipped(w), i) = Bit(w, i)
  <2> DEFINE f == Flipped(w)
  <2>1. w < Half => f = 1 * Half + w
    BY <1>1 DEF Flipped
  <2>2. ~ (w < Half) => w = 1 * Half + f
    BY <1>1 DEF Flipped
  <2>3. f \in Int /\ 1 \in Int
    BY <1>2, WordValues
  <2> HIDE DEF f
  <2>4. Bit(1 * Half + w, i) = Bit(w, i) /\ Bit(1 * Half + f, i) = Bit(f, i)
    BY <1>1, <2>3, LowBit
  <2> QED BY <2>1, <2>2, <2>4 DEF f
<1>4. Bit(Flipped(w), Width-1) = 1 - Bit(w, Width-1)
  <2>1. Bit(Flipped(w), Width-1) = IF Flipped(w) >= Half THEN 1 ELSE 0
    BY <1>2, TopBit
  <2>2. Bit(w, Width-1) = IF w >= Half THEN 1 ELSE 0
    BY TopBit
  <2>3. w >= Half <=> ~ (w < Half)
    BY <1>1
  <2> QED BY <1>2, <2>1, <2>2, <2>3
<1>5. \A i \in 0 .. Width-1 : i # Width-1 => i \in 0 .. Width-1 - 1
  BY Powers
<1> QED BY <1>2, <1>3, <1>4, <1>5

LEMMA FlippedOrder ==
  ASSUME NEW w \in Word, NEW v \in Word
  PROVE  Flipped(w) < Flipped(v) <=> Signed(w) < Signed(v)
BY WordValues DEF Flipped, Signed

-----------------------------------------------------------------------------
(* Products of twice the width, and division.                               *)
LEMMA HighIs ==
  ASSUME NEW p \in Int
  PROVE  High(p) = Wrap(p \div Size)
<1>1. Size \in Nat \ {0} /\ Half \in Nat \ {0}
  BY WordValues
<1> DEFINE e == Size * Size
           h == Size * Half
           q == (p + h) \div e
           s == (p + h) % e
<1>2. e \in Nat \ {0} /\ h \in Int
  BY <1>1
<1> HIDE DEF e, h
<1>3. q \in Int /\ s \in Int /\ p + h = q * e + s
  <2>1. p + h \in Int
    BY <1>2
  <2>2. q \in Int /\ s \in 0 .. e-1 /\ p + h = q * e + s
    BY <1>2, <2>1, Division
  <2> QED BY <1>2, <2>2
<1>4. Signed64(p) = s - h
  BY DEF Signed64, s, e, h
<1> HIDE DEF q, s
<1>5. s - h = p - q * e
  <2>1. q * e \in Int
    BY <1>2, <1>3
  <2> QED BY <1>2, <1>3, <2>1
<1>6. (p - q * e) \div Size = (0 - q) * Size + (p \div Size)
  <2> DEFINE b == p \div Size
             u == p % Size
             k == (0 - q) * Size
  <2>1. b \in Int /\ u \in 0 .. Size-1 /\ p = b * Size + u
    BY <1>1, Division
  <2>2. k \in Int
    BY <1>1, <1>3
  <2>3. p - q * e = (k + b) * Size + u
    <3> HIDE DEF b, u
    <3>1. (k + b) * Size = k * Size + b * Size
      BY <1>1, <2>1, <2>2
    <3>2. k * Size = 0 - q * e
      <4>1. ((0 - q) * Size) * Size = 0 - q * (Size * Size)
        BY <1>1, <1>3
      <4> QED BY <4>1 DEF e
    <3>3. q * e \in Int /\ b * Size \in Int
      BY <1>1, <1>2, <1>3, <2>1
    <3> QED BY <2>1, <2>2, <3>1, <3>2, <3>3
  <2> HIDE DEF b, u, k
  <2>4. k + b \in Int
    BY <2>1, <2>2
  <2>5. ((k + b) * Size + u) \div Size = k + b
    BY <1>1, <2>1, <2>4, DivisionIsUnique
  <2> QED BY <2>3, <2>5 DEF b, k
<1>7. p \div Size \in Int /\ 0 - q \in Int
  BY <1>1, <1>3
<1>8. Wrap((0 - q) * Size + (p \div Size)) = Wrap(p \div Size)
  BY <1>7, WrapShifted
<1> QED BY <1>4, <1>5, <1>6, <1>8 DEF High

(* Quotient and remainder of C: the remainder has the sign of the dividend. *)
LEMMA QuotientDivides ==
  ASSUME NEW n \in Int, NEW d \in Int, d # 0
  PROVE  /\ Quo(n, d) \in Int /\ Rem(n, d) \in Int
         /\ n = Quo(n, d) * d + Rem(n, d)
         /\ IF n < 0 THEN Rem(n, d) <= 0 ELSE Rem(n, d) >= 0
         /\ Abs(Rem(n, d)) < Abs(d)
         /\ Abs(Quo(n, d)) <= Abs(n) /\ Abs(Rem(n, d)) <= Abs(n)
<1> DEFINE a == Abs(n)
           b == Abs(d)
           q == a \div b
           u == a % b
<1>1. a \in Nat /\ b \in Nat \ {0} /\ (n = a \/ n = -a) /\ (d = b \/ d = -b)
      /\ (n < 0 => n = -a) /\ (~ (n < 0) => n = a) /\ (d < 0 => d = -b) /\ (~ (d < 0) => d = b)
  BY DEF Abs
<1> HIDE DEF a, b
<1>2. q \in Int /\ u \in 0 .. b-1 /\ a = q * b + u
  BY <1>1, Division
<1>3. Quo(n, d) = IF (n < 0) = (d < 0) THEN q ELSE -q
  BY DEF Quo, a, b
<1> HIDE DEF q, u
<1>4. q >= 0 /\ q <= a /\ u <= a
  <2>1. q < 0 => q * b <= -b
    BY <1>1, <1>2
  <2>2. q >= 0 => q * b >= q
    BY <1>1, <1>2
  <2> DEFINE e == q * b
  <2>3. e \in Int
    BY <1>1, <1>2
  <2> HIDE DEF e
  <2>4. q >= 0
    BY <1>1, <1>2, <2>1, <2>3 DEF e
  <2>5. e >= 0
    BY <1>2, <2>2, <2>4, <2>3 DEF e
  <2> QED BY <1>1, <1>2, <2>2, <2>3, <2>4, <2>5 DEF e
<1> DEFINE x == Quo(n, d)
           y == Rem(n, d)
<1>5. x \in Int /\ x \in {q, -q} /\ x * d = IF n < 0 THEN -(q * b) ELSE q * b
  <2>1. CASE n < 0 /\ d < 0
    BY <1>1, <1>2, <1>3, <2>1
  <2>2. CASE n < 0 /\ ~ (d < 0)
    BY <1>1, <1>2, <1>3, <2>2
  <2>3. CASE ~ (n < 0) /\ d < 0
    BY <1>1, <1>2, <1>3, <2>3
  <2>4. CASE ~ (n < 0) /\ ~ (d < 0)
    BY <1>1, <1>2, <1>3, <2>4
  <2> QED BY <2>1, <2>2, <2>3, <2>4
<1>6. y = n - x * d
  BY DEF Rem
<1> HIDE DEF x, y
<1>7. y = IF n < 0 THEN -u ELSE u
  <2> DEFINE e == q * b
  <2>1. e \in Int
    BY <1>1, <1>2
  <2> HIDE DEF e
  <2> QED BY <1>1, <1>2, <1>5, <1>6, <2>1 DEF e
<1>8. y \in Int /\ n = x * d + y
  <2>1. x * d \in Int
    BY <1>5
  <2> QED BY <1>2, <1>6, <1>7, <2>1
<1>9. Abs(y) = u /\ Abs(x) = q
  BY <1>2, <1>4, <1>5, <1>7 DEF Abs
<1>10. IF n < 0 THEN y <= 0 ELSE y >= 0
  BY <1>2, <1>7
<1>11. Abs(y) < b /\ Abs(x) <= a /\ Abs(y) <= a
  BY <1>1, <1>2, <1>4, <1>9
<1> QED BY <1>5, <1>8, <1>10, <1>11 DEF x, y, a, b

LEMMA QuotientIsUnique ==
  ASSUME NEW n \in Int, NEW d \in Int, d # 0, NEW q \in Int, NEW s \in Int,
         n = q * d + s, IF n < 0 THEN s <= 0 ELSE s >= 0, s * s < d * d
  PROVE  q = Quo(n, d) /\ s = Rem(n, d)
<1> DEFINE a == Abs(n)
           b == Abs(d)
           t == Abs(s)
           p == IF (n < 0) = (d < 0) THEN q ELSE -q
<1>1. /\ a \in Nat /\ b \in Nat \ {0} /\ t \in Nat /\ p \in Int
      /\ (n < 0 => n = -a /\ s = -t) /\ (~ (n < 0) => n = a /\ s = t)
      /\ (d < 0 => d = -b) /\ (~ (d < 0) => d = b)
  BY DEF Abs
<1>2. t < b
  <2>1. t * t < b * b
    <3>1. t * t = s * s /\ b * b = d * d
      BY DEF Abs
    <3> QED BY <3>1
  <2>2. CASE t >= b
    <3>1. t * t >= t * b /\ t * b >= b * b
      BY <1>1, <2>2
    <3> HIDE DEF t, b
    <3>2. t * t \in Int /\ b * b \in Int /\ t * b \in Int
      BY <1>1
    <3> QED BY <2>1, <3>1, <3>2
  <2> QED BY <1>1, <2>2
<1>3. q * d = IF n < 0 THEN -(p * b) ELSE p * b
  <2> HIDE DEF a, b, t
  <2>1. CASE n < 0 /\ d < 0
    BY <1>1, <2>1
  <2>2. CASE n < 0 /\ ~ (d < 0)
    BY <1>1, <2>2
  <2>3. CASE ~ (n < 0) /\ d < 0
    BY <1>1, <2>3
  <2>4. CASE ~ (n < 0) /\ ~ (d < 0)
    BY <1>1, <2>4
  <2> QED BY <2>1, <2>2, <2>3, <2>4
<1>4. Quo(n, d) = IF (n < 0) = (d < 0) THEN a \div b ELSE -(a \div b)
  BY DEF Quo
<1> HIDE DEF a, b, t
<1>5. a = p * b + t
  <2> DEFINE e == p * b
             f == q * d
  <2>1. e \in Int /\ f \in Int
    BY <1>1
  <2> HIDE DEF e, f
  <2> QED BY <1>1, <1>3, <2>1 DEF e, f
<1>6. a \div b = p
  <2> HIDE DEF p
  <2>1. t \in 0 .. b-1
    BY <1>1, <1>2
  <2> QED BY <1>1, <1>5, <2>1, DivisionIsUnique
<1>7. Quo(n, d) = q
  BY <1>4, <1>6
<1>8. Rem(n, d) = n - q * d
  BY <1>7 DEF Rem
<1>9. q * d \in Int
  OBVIOUS
<1> QED BY <1>7, <1>8, <1>9
=============================================================================
