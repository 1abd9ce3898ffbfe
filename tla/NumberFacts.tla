---------------------------- MODULE NumberFacts ----------------------------
(***************************************************************************)
(* Facts about numbers that the proofs of several modules use: least       *)
(* elements, remainders and the sizes of finite sets.                      *)
(***************************************************************************)
EXTENDS Integers, FiniteSets, FiniteSetsExt, FiniteSetTheorems,
        WellFoundedInduction, NaturalsInduction, TLAPS

\* A set of numbers that is not empty has a least element.
LEMMA LeastNumber ==
    ASSUME NEW T \in SUBSET Nat, T # {}
    PROVE  \E x \in T : \A y \in T : x <= y
<1> DEFINE R == OpToRel(<, Nat)
<1>1. IsWellFoundedOn(R, Nat)
  BY NatLessThanWellFounded
<1>2. \E x \in T : \A y \in T : ~(<<y, x>> \in R)
  <2> HIDE DEF R
  <2>1. QED
    BY <1>1, WFMin
<1>3. PICK x \in T : \A y \in T : ~(<<y, x>> \in R)
  BY <1>2
<1>4. \A y \in T : ~(y < x)
  BY <1>3 DEF OpToRel
<1>5. QED
  BY <1>4

\* Min of a set of numbers is one of them, and none is less.
LEMMA MinIsLeast ==
    ASSUME NEW T \in SUBSET Nat, T # {}
    PROVE  Min(T) \in T /\ \A y \in T : Min(T) <= y
BY LeastNumber DEF Min

\* A number that is less than the modulus is its own remainder.
LEMMA SmallRemainder ==
    ASSUME NEW x \in Nat, NEW w \in Nat, x < w
    PROVE  x % w = x
OBVIOUS

\* A remainder is less than the modulus.
LEMMA RemainderType ==
    ASSUME NEW x \in Int, NEW w \in Nat \ {0}
    PROVE  x % w \in 0 .. w - 1
OBVIOUS

(* Counting modulo w: it does not matter whether what is added to was       *)
(* reduced before.                                                          *)
LEMMA RemainderOfSum ==
    ASSUME NEW a \in Int, NEW b \in Int, NEW w \in Nat \ {0}
    PROVE  ((a % w) + b) % w = (a + b) % w
<1>1. ASSUME NEW x \in Int
      PROVE  x = (x \div w) * w + (x % w) /\ x \div w \in Int /\ x % w \in 0 .. w - 1
  OBVIOUS
<1>2. ASSUME NEW p \in Int, NEW q \in Int, NEW x \in 0 .. w - 1, NEW y \in 0 .. w - 1,
             p * w + x = q * w + y
      PROVE  x = y
  BY <1>2
<1> DEFINE m == a % w
           k == a \div w
           c == m + b
           d == a + b
<1>3. m \in Int /\ k \in Int /\ a = k * w + m
  BY <1>1
<1>4. c \in Int /\ d \in Int /\ d = k * w + c
  BY <1>3
<1> HIDE DEF m, k, c, d
<1>5. c = (c \div w) * w + (c % w) /\ c \div w \in Int /\ c % w \in 0 .. w - 1
  BY <1>1, <1>4
<1>6. d = (d \div w) * w + (d % w) /\ d \div w \in Int /\ d % w \in 0 .. w - 1
  BY <1>1, <1>4
<1> DEFINE i == c \div w
           j == d \div w
           x == c % w
           y == d % w
<1>7. i \in Int /\ j \in Int /\ x \in 0 .. w - 1 /\ y \in 0 .. w - 1
  BY <1>5, <1>6
<1>8. k * w + (i * w + x) = j * w + y
  BY <1>4, <1>5, <1>6
<1> HIDE DEF i, j, x, y
<1>9. (k + i) * w + x = j * w + y
  BY <1>3, <1>7, <1>8
<1>10. x = y
  BY <1>2, <1>3, <1>7, <1>9
<1>11. QED
  BY <1>10 DEF x, y, c, d, m

\* Two finite sets without a common element.
LEMMA DisjointUnion ==
    ASSUME NEW S, NEW T, IsFiniteSet(S), IsFiniteSet(T), S \cap T = {}
    PROVE  IsFiniteSet(S \cup T) /\ Cardinality(S \cup T) = Cardinality(S) + Cardinality(T)
<1>1. Cardinality(S \cap T) = 0
  BY FS_EmptySet
<1>2. Cardinality(S) \in Nat /\ Cardinality(T) \in Nat
  BY FS_CardinalityType
<1>3. /\ IsFiniteSet(S \cup T)
      /\ Cardinality(S \cup T) = Cardinality(S) + Cardinality(T) - Cardinality(S \cap T)
  BY FS_Union
<1>4. QED
  BY <1>1, <1>2, <1>3

\* A finite set without some of its elements.
LEMMA Remainder ==
    ASSUME NEW S, NEW T \in SUBSET S, IsFiniteSet(S)
    PROVE  /\ IsFiniteSet(T) /\ IsFiniteSet(S \ T)
           /\ Cardinality(S \ T) = Cardinality(S) - Cardinality(T)
<1>1. S \cap T = T
  OBVIOUS
<1>2. QED
  BY <1>1, FS_Difference, FS_Subset, ZenonT(30)
=============================================================================
