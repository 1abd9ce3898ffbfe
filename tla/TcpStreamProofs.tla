--------------------------- MODULE TcpStreamProofs ---------------------------
(***************************************************************************)
(* What arrives is what was written, for every length of the streams,      *)
(* window, segment size and initial sequence numbers, whatever the network *)
(* does.                                                                   *)
(***************************************************************************)
EXTENDS TcpStream, NumberFacts, SequenceTheorems

-----------------------------------------------------------------------------
(* The two ends.                                                           *)

\* The peer of the peer is the end itself.
LEMMA PeerIsOther ==
    ASSUME NEW e \in Ends
    PROVE  /\ Peer(e) \in Ends /\ Peer(e) # e /\ Peer(Peer(e)) = e
           /\ \A f \in Ends : f = e \/ f = Peer(e)
<1>1. PICK a, b \in Ends : Ends = {a, b}
  <2>1. IsFiniteSet(Ends) /\ Cardinality(Ends) = 2
    BY TcpStreamAssumption
  <2>2. IsFiniteSet(Ends \ {e}) /\ Cardinality(Ends \ {e}) = 1
    BY <2>1, FS_RemoveElement
  <2>3. PICK b : Ends \ {e} = {b}
    BY <2>2, FS_Singleton
  <2>4. Ends = {e, b} /\ b \in Ends
    BY <2>3
  <2>5. QED
    BY <2>4
<1>2. a # b
  <2> SUFFICES ASSUME a = b PROVE FALSE
    OBVIOUS
  <2>1. Cardinality(Ends) = 1
    BY <1>1, FS_Singleton
  <2>2. QED
    BY <2>1, TcpStreamAssumption
<1>3. \A x \in Ends : Peer(x) \in Ends /\ Peer(x) # x
  BY <1>1, <1>2 DEF Peer
<1>4. QED
  BY <1>1, <1>3

-----------------------------------------------------------------------------
(* Numbers modulo SeqSpace.                                                *)

\* The types of the constants.
LEMMA ConstantTypes ==
    /\ SeqSpace \in Nat \ {0} /\ SeqSpace % 2 = 0
    /\ MaxSeg \in Nat \ {0} /\ MaxWin \in Nat /\ MaxSeg <= MaxWin /\ 2 * MaxWin < SeqSpace
    /\ MaxInPkt \in Nat \ {0}
    /\ \A e \in Ends : Isn[e][1] \in Seqno /\ Isn[e][1] \in Int /\ Total[e] \in Nat
    /\ \A e \in Ends : \A n \in 1..Len(Isn[e]) : Isn[e][n] \in Seqno /\ Isn[e][n] \in Int
<1>1. /\ SeqSpace \in Nat \ {0} /\ SeqSpace % 2 = 0
      /\ MaxSeg \in Nat \ {0} /\ MaxWin \in Nat /\ MaxSeg <= MaxWin /\ 2 * MaxWin < SeqSpace
      /\ MaxInPkt \in Nat \ {0}
      /\ \A e \in Ends : Total[e] \in Nat
  BY TcpStreamAssumption
<1>2. ASSUME NEW e \in Ends, NEW n \in 1..Len(Isn[e]) PROVE Isn[e][n] \in Seqno /\ Isn[e][n] \in Int
  <2>1. Isn[e] \in Seq(Seqno)
    BY TcpStreamAssumption DEF Seqno
  <2>2. Isn[e][n] \in Seqno
    BY <2>1, ElementOfSeq
  <2>3. QED
    BY <1>1, <2>2 DEF Seqno
<1>3. ASSUME NEW e \in Ends PROVE 1 \in 1..Len(Isn[e])
  <2>1. Isn[e] \in Seq(Seqno) /\ Isn[e] # <<>>
    BY TcpStreamAssumption DEF Seqno
  <2>2. QED
    BY <2>1, EmptySeq, LenProperties
<1>4. QED
  BY <1>1, <1>2, <1>3

\* Sequence numbers.
LEMMA SeqnoType ==
    /\ \A x \in Int : x % SeqSpace \in Seqno
    /\ \A x \in Seqno : x \in Int /\ x \in Nat /\ x < SeqSpace /\ x % SeqSpace = x
<1>1. \A x \in Int : x % SeqSpace \in Seqno
  BY ConstantTypes, RemainderType DEF Seqno
<1>2. \A x \in Seqno : x \in Int /\ x \in Nat /\ x < SeqSpace
  BY ConstantTypes DEF Seqno
<1>3. \A x \in Seqno : x % SeqSpace = x
  BY <1>2, ConstantTypes, SmallRemainder
<1>4. QED
  BY <1>1, <1>2, <1>3

\* What was reduced before may be added to.
LEMMA Reduced ==
    ASSUME NEW a \in Int, NEW b \in Int
    PROVE  ((a % SeqSpace) + b) % SeqSpace = (a + b) % SeqSpace
BY ConstantTypes, RemainderOfSum

\* Position(e, k): the sequence number of what follows the first k bytes of e.
Position(e, k) == (Isn[e][1] + 1 + k) % SeqSpace

\* The number of bytes of e before a sequence number.
Offset(e, x) == (x - Isn[e][1] - 1) % SeqSpace

(* Positions and offsets are inverse to each other, as long as the numbers  *)
(* do not come round.                                                       *)
LEMMA OffsetOfPosition ==
    ASSUME NEW e \in Ends, NEW k \in Nat, k < SeqSpace
    PROVE  Offset(e, Position(e, k)) = k
<1> DEFINE a == Isn[e][1] + 1 + k
           b == 0 - Isn[e][1] - 1
<1>1. a \in Int /\ b \in Int /\ a + b = k
  BY ConstantTypes
<1>2. Offset(e, Position(e, k)) = ((a % SeqSpace) + b) % SeqSpace
  <2>1. a % SeqSpace \in Int
    BY <1>1, SeqnoType
  <2>2. (a % SeqSpace) - Isn[e][1] - 1 = (a % SeqSpace) + b
    BY <2>1, ConstantTypes
  <2>3. QED
    BY <2>2 DEF Offset, Position
<1>3. ((a % SeqSpace) + b) % SeqSpace = k % SeqSpace
  <2> HIDE DEF a, b
  <2>1. QED
    BY <1>1, Reduced
<1>4. k % SeqSpace = k
  BY ConstantTypes, SmallRemainder
<1>5. QED
  BY <1>2, <1>3, <1>4

\* The number at an offset.
LEMMA PositionOfOffset ==
    ASSUME NEW e \in Ends, NEW x \in Seqno
    PROVE  /\ Offset(e, x) \in Nat /\ Offset(e, x) < SeqSpace
           /\ Position(e, Offset(e, x)) = x
<1> DEFINE isn == Isn[e][1]
           a == x - isn - 1
           b == isn + 1
<1>0. isn \in Int /\ x \in Int
  BY ConstantTypes, SeqnoType
<1>1. a \in Int /\ b \in Int /\ a + b = x /\ x \in Int
  <2> HIDE DEF isn
  <2>1. QED
    BY <1>0
<1>2. a % SeqSpace \in Seqno /\ a % SeqSpace \in Nat /\ a % SeqSpace < SeqSpace
  BY <1>1, SeqnoType
<1>3. Position(e, a % SeqSpace) = ((a % SeqSpace) + b) % SeqSpace
  <2>1. Isn[e][1] + 1 + (a % SeqSpace) = (a % SeqSpace) + b
    BY <1>1, <1>2, ConstantTypes
  <2>2. QED
    BY <2>1 DEF Position
<1>4. ((a % SeqSpace) + b) % SeqSpace = x
  <2> HIDE DEF a, b
  <2>1. ((a % SeqSpace) + b) % SeqSpace = x % SeqSpace
    BY <1>1, Reduced
  <2>2. QED
    BY <2>1, SeqnoType
<1>5. QED
  BY <1>2, <1>3, <1>4 DEF Offset

\* The next position.
LEMMA PositionAdd ==
    ASSUME NEW e \in Ends, NEW k \in Int, NEW n \in Int
    PROVE  /\ Position(e, k) \in Seqno
           /\ (Position(e, k) + n) % SeqSpace = Position(e, k + n)
<1> DEFINE a == Isn[e][1] + 1 + k
<1>1. a \in Int /\ Isn[e][1] + 1 + (k + n) = a + n
  BY ConstantTypes
<1>2. ((a % SeqSpace) + n) % SeqSpace = (a + n) % SeqSpace
  <2> HIDE DEF a
  <2>1. QED
    BY <1>1, Reduced
<1>3. a % SeqSpace \in Seqno
  BY <1>1, SeqnoType
<1>4. QED
  BY <1>1, <1>2, <1>3 DEF Position

-----------------------------------------------------------------------------
(* Sequences of consecutive numbers.                                       *)

\* Sequences of numbers that are put together.
LEMMA JoinType ==
    ASSUME NEW x \in Seq(Nat), NEW y \in Seq(Nat)
    PROVE  /\ x \o y \in Seq(Nat) /\ Len(x) \in Nat /\ Len(y) \in Nat
           /\ Len(x \o y) = Len(x) + Len(y)
BY ConcatProperties, LenProperties

\* The order in which they are put together does not matter.
LEMMA JoinAssociative ==
    ASSUME NEW x \in Seq(Nat), NEW y \in Seq(Nat), NEW z \in Seq(Nat)
    PROVE  (x \o y) \o z = x \o (y \o z)
OBVIOUS

\* The n numbers after a.
Numbers(a, n) == [i \in 1..n |-> a + i]

\* What they are.
LEMMA NumbersType ==
    ASSUME NEW a \in Nat, NEW n \in Nat
    PROVE  /\ Numbers(a, n) \in Seq(Nat) /\ Len(Numbers(a, n)) = n
           /\ \A i \in 1..n : Numbers(a, n)[i] = a + i
           /\ n = 0 => Numbers(a, n) = <<>>
           /\ ToSet(Numbers(a, n)) = a + 1 .. a + n
<1>1. Numbers(a, n) \in Seq(Nat) /\ Len(Numbers(a, n)) = n
  BY DEF Numbers
<1>2. \A i \in 1..n : Numbers(a, n)[i] = a + i
  BY DEF Numbers
<1>3. n = 0 => Numbers(a, n) = <<>>
  BY <1>1
<1>4. DOMAIN Numbers(a, n) = 1..n
  BY DEF Numbers
<1>5. ASSUME NEW x \in a + 1 .. a + n PROVE x \in ToSet(Numbers(a, n))
  <2>1. x - a \in 1..n /\ a + (x - a) = x
    BY <1>5
  <2>2. QED
    BY <1>2, <1>4, <2>1 DEF ToSet
<1>6. ToSet(Numbers(a, n)) \subseteq a + 1 .. a + n
  BY <1>2, <1>4 DEF ToSet
<1>7. QED
  BY <1>1, <1>2, <1>3, <1>5, <1>6

\* Put together and cut.
LEMMA NumbersCut ==
    ASSUME NEW a \in Nat, NEW m \in Nat, NEW n \in Nat
    PROVE  /\ Numbers(a, m) \o Numbers(a + m, n) = Numbers(a, m + n)
           /\ SubSeq(Numbers(a, m + n), 1, m) = Numbers(a, m)
           /\ SubSeq(Numbers(a, m + n), m + 1, m + n) = Numbers(a + m, n)
<1> DEFINE s == Numbers(a, m)
           t == Numbers(a + m, n)
           u == Numbers(a, m + n)
<1>1. /\ s \in Seq(Nat) /\ Len(s) = m /\ \A i \in 1..m : s[i] = a + i
      /\ t \in Seq(Nat) /\ Len(t) = n /\ \A i \in 1..n : t[i] = a + m + i
      /\ u \in Seq(Nat) /\ Len(u) = m + n /\ \A i \in 1 .. m + n : u[i] = a + i
  <2>1. a + m \in Nat /\ m + n \in Nat
    OBVIOUS
  <2>2. QED
    BY <2>1, NumbersType
<1> HIDE DEF s, t, u
<1>2. s \o t = u
  <2>1. /\ s \o t \in Seq(Nat) /\ Len(s \o t) = m + n
        /\ \A i \in 1 .. m + n : (s \o t)[i] = IF i <= m THEN s[i] ELSE t[i - m]
    <3>1. s \in Seq(Nat) /\ t \in Seq(Nat) /\ Len(s) = m /\ Len(t) = n
      BY <1>1
    <3>2. QED
      BY <3>1, ConcatProperties
  <2>2. ASSUME NEW i \in 1 .. m + n PROVE (s \o t)[i] = u[i]
    <3>1. CASE i <= m
      <4>1. i \in 1..m
        BY <3>1
      <4>2. QED
        BY <1>1, <2>1, <3>1, <4>1
    <3>2. CASE ~(i <= m)
      <4>1. i - m \in 1..n /\ a + m + (i - m) = a + i
        BY <3>2
      <4>2. t[i - m] = a + m + (i - m)
        BY <1>1, <4>1
      <4>3. (s \o t)[i] = t[i - m]
        BY <2>1, <3>2
      <4>4. QED
        BY <1>1, <4>1, <4>2, <4>3
    <3>3. QED
      BY <3>1, <3>2
  <2>3. QED
    BY <1>1, <2>1, <2>2, SeqEqual
<1>3. SubSeq(u, 1, m) = s
  <2>1. \A i \in 1..m : u[i] \in Nat
    BY <1>1
  <2>2. /\ SubSeq(u, 1, m) \in Seq(Nat)
        /\ Len(SubSeq(u, 1, m)) = IF 1 <= m THEN m - 1 + 1 ELSE 0
        /\ \A i \in 1 .. m - 1 + 1 : SubSeq(u, 1, m)[i] = u[1 + i - 1]
    BY <2>1, SubSeqProperties
  <2>3. Len(SubSeq(u, 1, m)) = m /\ \A i \in 1..m : SubSeq(u, 1, m)[i] = s[i]
    BY <1>1, <2>2
  <2>4. QED
    BY <1>1, <2>2, <2>3, SeqEqual
<1>4. SubSeq(u, m + 1, m + n) = t
  <2>1. \A i \in m + 1 .. m + n : u[i] \in Nat
    BY <1>1
  <2> DEFINE x == m + 1
             y == m + n
             v == SubSeq(u, x, y)
  <2>2. x \in Int /\ y \in Int /\ y - x + 1 = n
    OBVIOUS
  <2>3. /\ v \in Seq(Nat)
        /\ Len(v) = IF x <= y THEN y - x + 1 ELSE 0
        /\ \A i \in 1 .. y - x + 1 : v[i] = u[x + i - 1]
    <3>1. \A i \in x .. y : u[i] \in Nat
      BY <2>1
    <3> HIDE DEF x, y
    <3>2. QED
      BY <2>2, <3>1, SubSeqProperties
  <2> HIDE DEF v
  <2>4. Len(v) = n
    BY <2>2, <2>3
  <2>7. ASSUME NEW i \in 1..n PROVE v[i] = t[i]
    <3>1. v[i] = u[x + i - 1]
      BY <2>2, <2>3
    <3>2. x + i - 1 \in 1 .. m + n /\ a + (x + i - 1) = a + m + i
      OBVIOUS
    <3>3. u[x + i - 1] = a + (x + i - 1)
      BY <1>1, <3>2
    <3>4. QED
      BY <1>1, <3>1, <3>2, <3>3
  <2>5. v = t
    BY <1>1, <2>3, <2>4, <2>7, SeqEqual
  <2>6. QED
    BY <2>5 DEF v
<1>5. QED
  BY <1>2, <1>3, <1>4 DEF s, t, u

-----------------------------------------------------------------------------
(* Induction and iteration up to a bound.                                  *)

\* Induction for a set of numbers.
LEMMA UpToBound ==
    ASSUME NEW N \in Nat, NEW G, 0 \in G,
           \A n \in Nat : n < N /\ n \in G => n + 1 \in G
    PROVE  \A n \in 0..N : n \in G
<1> DEFINE T == {n \in 0..N : n \notin G}
<1> SUFFICES ASSUME T # {} PROVE FALSE
  OBVIOUS
<1>0. T \in SUBSET Nat
  OBVIOUS
<1>1. PICK k \in T : \A j \in T : k <= j
  <2> HIDE DEF T
  <2>1. QED
    BY <1>0, LeastNumber
<1>2. k \in Nat /\ k <= N /\ k # 0 /\ k \notin G
  OBVIOUS
<1>3. k - 1 \in Nat /\ k - 1 < N /\ k - 1 \in 0..N /\ (k - 1) + 1 = k
  BY <1>2
<1>4. k - 1 \notin T
  <2> HIDE DEF T
  <2>1. QED
    BY <1>1, <1>2, <1>3
<1>5. QED
  BY <1>2, <1>3, <1>4

\* The values in T of N steps that start at a.
Run(f, N, T, a, F) ==
    f \in [0..N -> T] /\ f[0] = a /\ \A n \in 1..N : f[n] = F[<<n, f[n - 1]>>]

\* A step can be repeated.
LEMMA Iterated ==
    ASSUME NEW N \in Nat, NEW T, NEW a \in T, NEW F \in [(1..N) \X T -> T]
    PROVE  \E f : Run(f, N, T, a, F)
<1> USE DEF Run
<1> DEFINE G == {m \in 0..N : \E f : Run(f, m, T, a, F)}
<1>1. 0 \in G
  <2> DEFINE f == [n \in 0..0 |-> a]
  <2>1. f \in [0..0 -> T] /\ f[0] = a /\ \A n \in 1..0 : FALSE
    OBVIOUS
  <2>2. Run(f, 0, T, a, F) /\ 0 \in 0..N
    BY <2>1
  <2> HIDE DEF Run, f
  <2>3. QED
    BY <2>2
<1>2. ASSUME NEW m \in Nat, m < N, m \in G PROVE m + 1 \in G
  <2>1. PICK f : Run(f, m, T, a, F)
    BY <1>2
  <2> DEFINE k == m + 1
             g == [n \in 0..k |-> IF n = k THEN F[<<k, f[m]>>] ELSE f[n]]
  <2>2. k \in 1..N /\ k \in 0..k /\ m \in 0..m /\ k - 1 = m
    BY <1>2
  <2>3. f[m] \in T /\ F[<<k, f[m]>>] \in T
    BY <2>1, <2>2
  <2>4. g[0] = a /\ g \in [0..k -> T]
    <3>1. \A n \in 0..k : n # k => n \in 0..m
      OBVIOUS
    <3>2. 0 \in 0..k /\ 0 # k
      BY <1>2
    <3>3. \A n \in 0..k : g[n] \in T
      BY <2>1, <2>3, <3>1
    <3> QED
      BY <2>1, <3>2, <3>3
  <2>5. ASSUME NEW n \in 1..k PROVE g[n] = F[<<n, g[n - 1]>>]
    <3>1. n - 1 \in 0..k /\ n - 1 # k /\ n \in 0..k
      BY <1>2
    <3>2. g[n - 1] = f[n - 1]
      BY <3>1
    <3>3. CASE n = k
      BY <2>2, <3>1, <3>2, <3>3
    <3>4. CASE n # k
      <4>1. n \in 1..m
        BY <1>2, <3>4
      <4>2. f[n] = F[<<n, f[n - 1]>>]
        BY <2>1, <4>1
      <4>3. QED
        BY <3>1, <3>2, <3>4, <4>2
    <3>5. QED
      BY <3>3, <3>4
  <2>6. Run(g, k, T, a, F)
    BY <2>4, <2>5 DEF Run
  <2>7. k \in 0..N
    BY <2>2
  <2> HIDE DEF Run, g, k
  <2>8. k \in G
    BY <2>6, <2>7
  <2>9. QED
    BY <2>8 DEF k
<1>3. N \in G
  <2> HIDE DEF G
  <2>1. \A n \in 0..N : n \in G
    BY <1>1, <1>2, UpToBound
  <2>2. QED
    BY <2>1
<1>4. QED
  BY <1>3

-----------------------------------------------------------------------------
(* The elements of sequences.                                              *)

\* What a sequence of T is made of.
LEMMA Elements ==
    ASSUME NEW T, NEW s \in Seq(T)
    PROVE  /\ ToSet(s) \subseteq T /\ s \in Seq(ToSet(s))
           /\ \A i \in 1..Len(s) : s[i] \in ToSet(s)
           /\ \A x \in ToSet(s) : \E i \in 1..Len(s) : x = s[i]
           /\ s = <<>> <=> ToSet(s) = {}
<1>1. Len(s) \in Nat /\ s \in [1..Len(s) -> T] /\ DOMAIN s = 1..Len(s)
  BY LenProperties
<1>2. ToSet(s) = {s[i] : i \in 1..Len(s)}
  BY <1>1 DEF ToSet
<1>3. ToSet(s) \subseteq T /\ \A i \in 1..Len(s) : s[i] \in ToSet(s)
  BY <1>1, <1>2
<1>4. s \in Seq(ToSet(s))
  <2>1. s \in [1..Len(s) -> ToSet(s)]
    BY <1>1, <1>3
  <2>2. QED
    BY <1>1, <2>1
<1>5. s = <<>> <=> ToSet(s) = {}
  <2>1. s = <<>> => ToSet(s) = {}
    BY <1>2
  <2>2. s # <<>> => 1 \in 1..Len(s)
    BY <1>1
  <2>3. QED
    BY <1>3, <2>1, <2>2
<1>6. QED
  BY <1>2, <1>3, <1>4, <1>5

\* Two sequences put together.
LEMMA ElementsOfConcat ==
    ASSUME NEW T, NEW s \in Seq(T), NEW t \in Seq(T)
    PROVE  ToSet(s \o t) = ToSet(s) \cup ToSet(t)
<1> DEFINE u == s \o t
<1>1. /\ u \in Seq(T) /\ Len(u) = Len(s) + Len(t)
      /\ \A i \in 1 .. Len(s) + Len(t) : u[i] = IF i <= Len(s) THEN s[i] ELSE t[i - Len(s)]
  BY ConcatProperties
<1>2. Len(s) \in Nat /\ Len(t) \in Nat
  BY LenProperties
<1> HIDE DEF u
<1>3. ASSUME NEW x \in ToSet(u) PROVE x \in ToSet(s) \cup ToSet(t)
  <2>1. PICK i \in 1 .. Len(u) : x = u[i]
    BY <1>1, Elements
  <2>2. CASE i <= Len(s)
    <3>1. i \in 1..Len(s) /\ x = s[i]
      BY <1>1, <1>2, <2>1, <2>2
    <3>2. QED
      BY <3>1, Elements
  <2>3. CASE ~(i <= Len(s))
    <3>1. i - Len(s) \in 1..Len(t)
      BY <1>1, <1>2, <2>3
    <3>2. x = t[i - Len(s)]
      BY <1>1, <2>1, <2>3
    <3>3. QED
      BY <3>1, <3>2, Elements
  <2>4. QED
    BY <2>2, <2>3
<1>4. ASSUME NEW x \in ToSet(s) PROVE x \in ToSet(u)
  <2>1. PICK i \in 1..Len(s) : x = s[i]
    BY Elements
  <2>2. i \in 1..Len(u) /\ i <= Len(s)
    BY <1>1, <1>2
  <2>3. u[i] = x
    BY <1>1, <2>1, <2>2
  <2>4. QED
    BY <1>1, <2>2, <2>3, Elements
<1>5. ASSUME NEW x \in ToSet(t) PROVE x \in ToSet(u)
  <2>1. PICK i \in 1..Len(t) : x = t[i]
    BY Elements
  <2> DEFINE k == Len(s) + i
  <2>2. k \in 1..Len(u) /\ ~(k <= Len(s)) /\ k - Len(s) = i
    BY <1>1, <1>2
  <2> HIDE DEF k
  <2>3. u[k] = x
    BY <1>1, <2>1, <2>2
  <2>4. QED
    BY <1>1, <2>2, <2>3, Elements
<1>6. QED
  BY <1>3, <1>4, <1>5 DEF u

\* One more element.
LEMMA ElementsOfAppend ==
    ASSUME NEW T, NEW s \in Seq(T), NEW x \in T
    PROVE  /\ Append(s, x) \in Seq(T) /\ Append(s, x) # <<>>
           /\ Len(Append(s, x)) = Len(s) + 1
           /\ ToSet(Append(s, x)) = ToSet(s) \cup {x}
<1>1. /\ Append(s, x) \in Seq(T) /\ Append(s, x) # <<>>
      /\ Len(Append(s, x)) = Len(s) + 1 /\ Append(s, x) = s \o <<x>>
  BY AppendProperties, AppendIsConcat
<1> DEFINE t == <<x>>
<1>2. t \in Seq(T) /\ ToSet(t) = {x}
  BY DEF ToSet
<1> HIDE DEF t
<1>3. ToSet(s \o t) = ToSet(s) \cup {x}
  BY <1>2, ElementsOfConcat
<1>4. QED
  BY <1>1, <1>3 DEF t

\* Without the first element.
LEMMA ElementsOfTail ==
    ASSUME NEW T, NEW s \in Seq(T), s # <<>>
    PROVE  /\ Head(s) \in T /\ Tail(s) \in Seq(T) /\ Len(Tail(s)) = Len(s) - 1
           /\ ToSet(s) = {Head(s)} \cup ToSet(Tail(s))
<1> DEFINE t == Tail(s)
<1>1. /\ Head(s) \in T /\ t \in Seq(T) /\ Len(t) = Len(s) - 1
      /\ \A i \in 1..Len(t) : t[i] = s[i + 1]
  BY HeadTailProperties
<1>2. Len(s) \in Nat /\ Len(s) # 0 /\ Head(s) = s[1]
  BY LenProperties, EmptySeq
<1> DEFINE h == Head(s)
<1> HIDE DEF t, h
<1>3. ASSUME NEW x \in ToSet(s) PROVE x \in {h} \cup ToSet(t)
  <2>1. PICK i \in 1..Len(s) : x = s[i]
    BY Elements
  <2>2. CASE i # 1
    <3>1. i - 1 \in 1..Len(t) /\ (i - 1) + 1 = i
      BY <1>1, <1>2, <2>2
    <3>2. t[i - 1] \in ToSet(t)
      BY <1>1, <3>1, Elements
    <3>3. t[i - 1] = s[(i - 1) + 1]
      BY <1>1, <3>1
    <3>4. QED
      BY <2>1, <3>1, <3>2, <3>3
  <2>3. QED
    BY <1>2, <2>1, <2>2 DEF h
<1>4. ASSUME NEW x \in ToSet(t) PROVE x \in ToSet(s)
  <2>1. PICK i \in 1..Len(t) : x = t[i]
    BY <1>1, Elements
  <2>2. i + 1 \in 1..Len(s) /\ x = s[i + 1]
    BY <1>1, <1>2, <2>1
  <2>3. QED
    BY <2>2, Elements
<1>5. h \in ToSet(s)
  <2>1. 1 \in 1..Len(s)
    BY <1>2
  <2>2. QED
    BY <1>2, <2>1, Elements DEF h
<1>6. QED
  BY <1>1, <1>3, <1>4, <1>5 DEF t, h

\* Another first element.
LEMMA ElementsOfNewHead ==
    ASSUME NEW T, NEW s \in Seq(T), s # <<>>, NEW x \in T
    PROVE  /\ <<x>> \o Tail(s) \in Seq(T) /\ <<x>> \o Tail(s) # <<>>
           /\ ToSet(<<x>> \o Tail(s)) = {x} \cup ToSet(Tail(s))
<1> DEFINE h == <<x>>
           t == Tail(s)
<1>1. h \in Seq(T) /\ ToSet(h) = {x} /\ t \in Seq(T)
  BY ElementsOfTail DEF ToSet
<1> HIDE DEF h, t
<1>2. h \o t \in Seq(T) /\ ToSet(h \o t) = {x} \cup ToSet(t)
  BY <1>1, ElementsOfConcat, ConcatProperties
<1>3. h \o t # <<>>
  BY <1>2, Elements
<1>4. QED
  BY <1>2, <1>3 DEF h, t

\* Without one element.
LEMMA ElementsOfRemoveAt ==
    ASSUME NEW T, NEW s \in Seq(T), NEW i \in 1..Len(s)
    PROVE  /\ RemoveAt(s, i) \in Seq(T) /\ Len(RemoveAt(s, i)) = Len(s) - 1
           /\ ToSet(RemoveAt(s, i)) \subseteq ToSet(s)
<1> DEFINE U == ToSet(s)
           a == SubSeq(s, 1, i - 1)
           b == SubSeq(s, i + 1, Len(s))
<1>1. Len(s) \in Nat /\ \A k \in 1..Len(s) : s[k] \in U
  BY Elements, LenProperties
<1>2. a \in Seq(U) /\ Len(a) = i - 1
  <2>1. i - 1 \in Int /\ \A k \in 1 .. i - 1 : s[k] \in U
    BY <1>1
  <2> HIDE DEF U
  <2>2. Len(a) = IF 1 <= i - 1 THEN (i - 1) - 1 + 1 ELSE 0
    BY <2>1, SubSeqProperties
  <2>3. QED
    BY <2>1, <2>2, SubSeqProperties
<1>3. b \in Seq(U) /\ Len(b) = Len(s) - i
  <2> DEFINE m == i + 1
             n == Len(s)
  <2>1. m \in Int /\ n \in Int /\ \A k \in m..n : s[k] \in U
    BY <1>1
  <2>2. m <= n => n - m + 1 = Len(s) - i
    BY <1>1
  <2>3. ~(m <= n) => Len(s) - i = 0
    BY <1>1
  <2> HIDE DEF U, m, n
  <2>4. SubSeq(s, m, n) \in Seq(U) /\ Len(SubSeq(s, m, n)) = IF m <= n THEN n - m + 1 ELSE 0
    BY <2>1, SubSeqProperties
  <2>5. QED
    BY <2>2, <2>3, <2>4 DEF m, n
<1>4. RemoveAt(s, i) = a \o b
  BY DEF RemoveAt
<1> HIDE DEF a, b
<1>5. a \o b \in Seq(U) /\ Len(a \o b) = Len(s) - 1 /\ ToSet(a \o b) \subseteq U
  <2>1. a \o b \in Seq(U) /\ Len(a \o b) = Len(a) + Len(b)
    BY <1>2, <1>3, ConcatProperties
  <2>2. ToSet(a \o b) \subseteq U
    <3> DEFINE c == a \o b
    <3> HIDE DEF c, U
    <3>1. c \in Seq(U)
      BY <2>1 DEF c
    <3>2. QED
      BY <3>1, Elements DEF c
  <2>3. Len(a) + Len(b) = Len(s) - 1
    BY <1>1, <1>2, <1>3
  <2>4. QED
    BY <2>1, <2>2, <2>3
<1>6. U \subseteq T
  BY Elements
<1>7. QED
  BY <1>4, <1>5, <1>6, SeqMonotonic

\* What Only keeps.
LEMMA OnlyKeeps ==
    ASSUME NEW T, NEW q \in Seq(T), NEW S
    PROVE  /\ Only(q, S) \in Seq(T) /\ Len(Only(q, S)) <= Len(q)
           /\ ToSet(Only(q, S)) = ToSet(q) \cap S
<1> DEFINE N == Len(q)
           Step(n, x) == IF q[n] \in S THEN Append(x, q[n]) ELSE x
           IsRun(f) == f = [n \in 0..N |-> IF n = 0 THEN <<>> ELSE Step(n, f[n - 1])]
           u == CHOOSE f : IsRun(f)
           First(n) == {q[i] : i \in 1..n}
           Good(n) == /\ u[n] \in Seq(T) /\ Len(u[n]) <= n
                      /\ ToSet(u[n]) = First(n) \cap S
<1>1. N \in Nat /\ \A n \in 1..N : q[n] \in T
  BY LenProperties, ElementOfSeq
<1>2. Only(q, S) = u[N]
  BY DEF Only
<1>3. IsRun(u)
  <2> DEFINE F == [x \in (1..N) \X Seq(T) |-> Step(x[1], x[2])]
  <2>1. F \in [(1..N) \X Seq(T) -> Seq(T)]
    <3>1. \A n \in 1..N : \A x \in Seq(T) : Step(n, x) \in Seq(T)
      BY <1>1, AppendProperties
    <3> HIDE DEF Step, N
    <3>2. QED
      BY <3>1
  <2>2. <<>> \in Seq(T)
    OBVIOUS
  <2> DEFINE W == Seq(T)
             z == <<>>
  <2> HIDE DEF F, N
  <2>3. PICK f : Run(f, N, W, z, F)
    <3>1. F \in [(1..N) \X W -> W] /\ z \in W /\ N \in Nat
      BY <1>1, <2>1, <2>2
    <3> HIDE DEF W, z
    <3>2. QED
      BY <3>1, Iterated
  <2>8. f \in [0..N -> Seq(T)] /\ f[0] = <<>> /\ \A n \in 1..N : f[n] = F[<<n, f[n - 1]>>]
    BY <2>3 DEF Run
  <2>4. ASSUME NEW n \in 0..N, n # 0 PROVE f[n] = Step(n, f[n - 1])
    <3>1. n \in 1..N /\ n - 1 \in 0..N
      BY <1>1, <2>4
    <3>2. f[n - 1] \in Seq(T) /\ f[n] = F[<<n, f[n - 1]>>]
      BY <2>8, <3>1
    <3>3. <<n, f[n - 1]>> \in (1..N) \X Seq(T)
      BY <3>1, <3>2
    <3> HIDE DEF Step
    <3>4. QED
      BY <3>2, <3>3 DEF F
  <2> HIDE DEF Step
  <2>5. f = [n \in 0..N |-> IF n = 0 THEN <<>> ELSE Step(n, f[n - 1])]
    BY <2>4, <2>8
  <2> USE DEF N
  <2>6. IsRun(f)
    BY <2>5
  <2> HIDE DEF IsRun
  <2>7. QED
    BY <2>6
<1> HIDE DEF N, u, Step
<1>4. u[0] = <<>> /\ \A n \in 1..N : u[n] = Step(n, u[n - 1])
  BY <1>1, <1>3
<1>5. Good(0)
  BY <1>4 DEF ToSet
<1>6. ASSUME NEW n \in Nat, n < N, Good(n) PROVE Good(n + 1)
  <2> DEFINE k == n + 1
             x == u[n]
  <2>1. k \in 1..N /\ k - 1 = n /\ q[k] \in T /\ First(k) = First(n) \cup {q[k]}
    <3>1. k \in 1..N /\ k - 1 = n
      BY <1>1, <1>6
    <3>2. 1..k = (1..n) \cup {k}
      BY <1>6
    <3> HIDE DEF k
    <3>3. First(k) = First(n) \cup {q[k]}
      BY <3>2
    <3>4. QED
      BY <1>1, <3>1, <3>3
  <2>2. u[k] = Step(k, x)
    BY <1>4, <2>1
  <2>3. x \in Seq(T) /\ Len(x) \in Nat /\ Len(x) <= n /\ ToSet(x) = First(n) \cap S
    BY <1>6, LenProperties
  <2> HIDE DEF k, x, First
  <2>4. CASE q[k] \in S
    <3>1. u[k] = Append(x, q[k])
      BY <2>2, <2>4 DEF Step
    <3>2. /\ Append(x, q[k]) \in Seq(T) /\ Len(Append(x, q[k])) = Len(x) + 1
          /\ ToSet(Append(x, q[k])) = ToSet(x) \cup {q[k]}
      BY <2>1, <2>3, ElementsOfAppend
    <3>3. ToSet(u[k]) = First(k) \cap S
      BY <2>1, <2>3, <2>4, <3>1, <3>2
    <3>4. Len(u[k]) <= k
      BY <2>3, <3>1, <3>2 DEF k
    <3>5. QED
      BY <3>1, <3>2, <3>3, <3>4 DEF k
  <2>5. CASE q[k] \notin S
    <3>1. u[k] = x
      BY <2>2, <2>5 DEF Step
    <3>2. ToSet(u[k]) = First(k) \cap S
      BY <2>1, <2>3, <2>5, <3>1
    <3>3. Len(u[k]) <= k
      BY <2>3, <3>1 DEF k
    <3>4. QED
      BY <2>3, <3>1, <3>2, <3>3 DEF k
  <2>6. QED
    BY <2>4, <2>5
<1>7. Good(N)
  <2> DEFINE G == {n \in 0..N : Good(n)}
  <2>1. 0 \in G
    BY <1>1, <1>5
  <2>2. ASSUME NEW n \in Nat, n < N, n \in G PROVE n + 1 \in G
    <3>1. Good(n) /\ n + 1 \in 0..N
      BY <1>1, <2>2
    <3> HIDE DEF Good
    <3>2. QED
      BY <1>6, <2>2, <3>1
  <2> HIDE DEF G
  <2>3. N \in G
    <3>1. \A n \in 0..N : n \in G
      BY <1>1, <2>1, <2>2, UpToBound
    <3>2. QED
      BY <1>1, <3>1
  <2> HIDE DEF Good
  <2>4. QED
    BY <2>3 DEF G
<1>8. First(N) = ToSet(q)
  <2>1. DOMAIN q = 1..N
    BY LenProperties DEF N
  <2>2. QED
    BY <2>1 DEF ToSet
<1>9. QED
  BY <1>2, <1>7, <1>8 DEF N

-----------------------------------------------------------------------------
(* Types.                                                                  *)

\* The data of one packet: a segment at most.
Segments == {d \in Seq(Nat) : Len(d) <= MaxSeg}

\* The types of the fields of a packet.
Packets ==
    [syn : BOOLEAN, fin : BOOLEAN, ack : BOOLEAN, data : Segments,
     seqno : Seqno, ackno : Seqno, winsize : 0..MaxWin]

\* The types of the fields of a stream.
Streams ==
    [state : TcpStates, lives : Nat, inStreamActive : BOOLEAN, outStreamActive : BOOLEAN,
     outSeqno : Seqno, outAcked : Seqno, outWinSize : 0..MaxWin, inAckno : Seqno,
     lastSentAck : Seqno, lastSentWinSize : 0..MaxWin, retransTimerOn : BOOLEAN,
     inQueue : Seq(Nat), outQueue : Seq(Nat), inPkt : Seq(Packets), outPkt : Seq(Packets),
     sent : SUBSET Packets]

\* Before the handshake is over nothing is queued.
QueueIsUsed(s) == Connected(s) \/ s.inPkt = <<>>

\* A stream within its bounds, whose timer runs while packets wait for it.
Sound(s) ==
    /\ s \in Streams /\ QueueIsUsed(s)
    /\ Len(s.inPkt) <= MaxInPkt
    /\ s.outPkt # <<>> => s.retransTimerOn

\* What sending leaves alone.
Untouched(s, t) ==
    /\ t.state = s.state /\ t.lives = s.lives
    /\ t.inStreamActive = s.inStreamActive /\ t.outStreamActive = s.outStreamActive
    /\ t.outAcked = s.outAcked /\ t.outWinSize = s.outWinSize /\ t.inAckno = s.inAckno
    /\ t.inQueue = s.inQueue /\ t.outQueue = s.outQueue /\ t.inPkt = s.inPkt

\* The header and the data of a packet as they were given to toSend.
Filled(s, p, q) ==
    /\ q.syn = p.syn /\ q.fin = p.fin /\ q.data = p.data /\ q.seqno = s.outSeqno
    /\ q.ack = (p.ack \/ ~p.syn)
    /\ q.ackno = IF p.ack \/ ~p.syn THEN s.inAckno ELSE 0

\* The window that is offered.
LEMMA InWinSizeType ==
    ASSUME NEW s \in Streams
    PROVE  InWinSize(s) \in 0..MaxWin
<1>1. Len(s.outQueue) \in Nat
  BY DEF Streams
<1>2. QED
  BY <1>1, ConstantTypes DEF InWinSize

\* A packet as it is made.
LEMMA PacketType ==
    ASSUME NEW syn \in BOOLEAN, NEW fin \in BOOLEAN, NEW ack \in BOOLEAN, NEW data \in Segments
    PROVE  /\ Packet(syn, fin, ack, data) \in Packets
           /\ Packet(syn, fin, ack, data).syn = syn /\ Packet(syn, fin, ack, data).fin = fin
           /\ Packet(syn, fin, ack, data).ack = ack /\ Packet(syn, fin, ack, data).data = data
<1>1. 0 \in Seqno /\ 0 \in 0..MaxWin
  BY ConstantTypes DEF Seqno
<1>2. QED
  BY <1>1 DEF Packet, Packets

\* What toSend does.
Sends(s, p, retrans, t) ==
    /\ Untouched(s, t)
    /\ t.outSeqno = (s.outSeqno + Len(p.data) + (IF p.syn THEN 1 ELSE 0)) % SeqSpace
    /\ t.retransTimerOn = (s.retransTimerOn \/ retrans)
    /\ \E q \in Packets :
         /\ Filled(s, p, q)
         /\ t.outPkt = IF retrans THEN Append(s.outPkt, q) ELSE s.outPkt
         /\ t.sent = s.sent \cup {q}

\* toSend sends the packet, filled in, and keeps it if it is to be sent again.
LEMMA ToSendDoes ==
    ASSUME NEW s \in Streams, NEW p \in Packets, NEW retrans \in BOOLEAN
    PROVE  ToSend(s, p, retrans) \in Streams /\ Sends(s, p, retrans, ToSend(s, p, retrans))
<1> DEFINE q == [p EXCEPT !.seqno = s.outSeqno, !.winsize = InWinSize(s),
                          !.ack = @ \/ ~p.syn,
                          !.ackno = IF p.ack \/ ~p.syn THEN s.inAckno ELSE 0]
           x == (s.outSeqno + Len(p.data) + (IF p.syn THEN 1 ELSE 0)) % SeqSpace
           out == IF retrans THEN Append(s.outPkt, q) ELSE s.outPkt
           t == [s EXCEPT !.outSeqno = x, !.lastSentAck = q.ackno,
                          !.lastSentWinSize = q.winsize,
                          !.retransTimerOn = (s.retransTimerOn \/ retrans),
                          !.outPkt = out, !.sent = s.sent \cup {q}]
<1>1. q \in Packets /\ Filled(s, p, q) /\ q.ackno \in Seqno /\ q.winsize \in 0..MaxWin
  <2>1. InWinSize(s) \in 0..MaxWin /\ s.outSeqno \in Seqno /\ s.inAckno \in Seqno /\ 0 \in Seqno
    BY InWinSizeType, ConstantTypes DEF Streams, Seqno
  <2>2. QED
    BY <2>1 DEF Packets, Filled
<1>2. x \in Seqno
  <2> DEFINE m == s.outSeqno + Len(p.data) + (IF p.syn THEN 1 ELSE 0)
  <2>1. s.outSeqno \in Int /\ Len(p.data) \in Nat
    BY SeqnoType DEF Streams, Packets, Segments
  <2>2. m \in Int
    BY <2>1
  <2> HIDE DEF m
  <2>3. m % SeqSpace \in Seqno
    BY <2>2, SeqnoType
  <2>4. QED
    BY <2>3 DEF m
<1>3. ToSend(s, p, retrans) = t
  BY DEF ToSend
<1> HIDE DEF q, x
<1>4. out \in Seq(Packets)
  BY <1>1 DEF Streams
<1> HIDE DEF out
<1>5. t \in Streams
  BY <1>1, <1>2, <1>4 DEF Streams
<1>6. Untouched(s, t)
  BY DEF Untouched, Streams
<1>7. /\ t.outSeqno = x /\ t.retransTimerOn = (s.retransTimerOn \/ retrans)
      /\ t.outPkt = out /\ t.sent = s.sent \cup {q}
  BY DEF Streams
<1> HIDE DEF t
<1>8. QED
  BY <1>1, <1>3, <1>5, <1>6, <1>7 DEF x, out, Sends

\* An acknowledgement that stands at seqno and acknowledges what is before ackno.
Acknowledges(q, seqno, ackno) ==
    ~q.syn /\ ~q.fin /\ q.ack /\ q.data = <<>> /\ q.seqno = seqno /\ q.ackno = ackno

\* A segment without data.
LEMMA EmptySegment == <<>> \in Segments /\ Len(<<>>) = 0
BY ConstantTypes DEF Segments

\* What sendAck does.
LEMMA SendAckDoes ==
    ASSUME NEW s \in Streams
    PROVE  /\ SendAck(s) \in Streams /\ Untouched(s, SendAck(s))
           /\ SendAck(s).outSeqno = s.outSeqno /\ SendAck(s).outPkt = s.outPkt
           /\ SendAck(s).retransTimerOn = s.retransTimerOn
           /\ \E q \in Packets :
                Acknowledges(q, s.outSeqno, s.inAckno) /\ SendAck(s).sent = s.sent \cup {q}
<1> DEFINE p == Packet(FALSE, FALSE, TRUE, <<>>)
           t == ToSend(s, p, FALSE)
<1>1. p \in Packets /\ p.syn = FALSE /\ p.fin = FALSE /\ p.ack = TRUE /\ p.data = <<>>
  BY EmptySegment, PacketType
<1>2. SendAck(s) = t
  BY DEF SendAck
<1> HIDE DEF p
<1>3. /\ t \in Streams /\ Untouched(s, t)
      /\ t.outSeqno = (s.outSeqno + Len(p.data) + (IF p.syn THEN 1 ELSE 0)) % SeqSpace
      /\ t.retransTimerOn = (s.retransTimerOn \/ FALSE)
      /\ \E q \in Packets : Filled(s, p, q) /\ t.outPkt = s.outPkt /\ t.sent = s.sent \cup {q}
  <2>1. t \in Streams /\ Sends(s, p, FALSE, t)
    BY <1>1, ToSendDoes
  <2>2. QED
    BY <2>1 DEF Sends
<1> HIDE DEF t
<1>4. t.outSeqno = s.outSeqno
  <2>1. s.outSeqno \in Seqno
    BY DEF Streams
  <2>2. s.outSeqno + Len(p.data) + (IF p.syn THEN 1 ELSE 0) = s.outSeqno
    BY <1>1, <2>1, SeqnoType
  <2>3. QED
    BY <1>3, <2>1, <2>2, SeqnoType
<1>5. t.retransTimerOn = s.retransTimerOn
  BY <1>3 DEF Streams
<1>6. \E q \in Packets : Acknowledges(q, s.outSeqno, s.inAckno) /\ t.sent = s.sent \cup {q}
  BY <1>1, <1>3 DEF Filled, Acknowledges
<1>7. QED
  BY <1>2, <1>3, <1>4, <1>5, <1>6

\* What cleanup leaves.
Emptied(s, t) ==
    /\ t.state = "closed" /\ t.lives = s.lives
    /\ t.inQueue = <<>> /\ t.outQueue = <<>> /\ t.inPkt = <<>> /\ t.outPkt = <<>>
    /\ t.retransTimerOn = s.retransTimerOn /\ t.sent = s.sent

\* What cleanup does.
LEMMA CleanupDoes ==
    ASSUME NEW s \in Streams
    PROVE  Cleanup(s) \in Streams /\ Emptied(s, Cleanup(s))
<1> DEFINE t == Cleanup(s)
<1>1. <<>> \in Seq(Nat) /\ <<>> \in Seq(Packets) /\ "closed" \in TcpStates
  BY DEF TcpStates
<1>2. t \in Streams
  BY <1>1 DEF Cleanup, Streams
<1>3. QED
  BY <1>2 DEF Cleanup, Streams, Emptied

(* What TakePacket does: the data of p is delivered, or the stream is       *)
(* closed; an acknowledgement of p may be sent.                             *)
Took(s, p, t) ==
    LET ackno == (p.seqno + Len(p.data)) % SeqSpace IN
    /\ \/ /\ t.state = "closed"
          /\ t.inQueue = <<>> /\ t.outQueue = <<>> /\ t.inPkt = <<>> /\ t.outPkt = <<>>
       \/ /\ Connected(t)
          /\ t.inQueue = s.inQueue /\ t.inPkt = s.inPkt /\ t.outPkt = s.outPkt
          /\ t.outQueue = s.outQueue \o p.data /\ t.inAckno = ackno
          /\ t.outSeqno = s.outSeqno /\ t.outStreamActive = s.outStreamActive
          /\ t.inStreamActive = (s.inStreamActive /\ ~p.fin)
          /\ t.outAcked = s.outAcked \/ (p.ack /\ t.outAcked = p.ackno)
    /\ t.lives = s.lives /\ t.retransTimerOn = s.retransTimerOn
    /\ \/ t.sent = s.sent
       \/ \E q \in Packets : Acknowledges(q, s.outSeqno, ackno) /\ t.sent = s.sent \cup {q}

\* A packet in order is acknowledged, its data go to outQueue and its FIN ends the stream.
LEMMA TakePacketDoes ==
    ASSUME NEW s \in Streams, Connected(s), NEW p \in Packets
    PROVE  TakePacket(s, p) \in Streams /\ Took(s, p, TakePacket(s, p))
<1> DEFINE newer == p.ack /\ IsOldSequence(s.outAcked, p.ackno)
           ackno == (p.seqno + Len(p.data)) % SeqSpace
           acked == IF newer THEN p.ackno ELSE s.outAcked
           win == IF newer THEN p.winsize ELSE s.outWinSize
           que == s.outQueue \o p.data
           t == [s EXCEPT !.inAckno = ackno, !.outAcked = acked,
                          !.outWinSize = win, !.outQueue = que]
           u == [SendAck(t) EXCEPT !.inStreamActive = FALSE]
           fin == CASE ~p.fin -> t
                    [] p.fin /\ s.state = "established" -> [u EXCEPT !.state = "close_wait"]
                    [] p.fin /\ s.state = "fin_wait_1" -> [u EXCEPT !.state = "closing"]
                    [] p.fin /\ s.state = "fin_wait_2" -> Cleanup(u)
                    [] OTHER -> u
           v == IF ~(p.ack /\ ~fin.outStreamActive /\ p.ackno = fin.outSeqno) THEN fin
                ELSE CASE fin.state = "fin_wait_1" -> [fin EXCEPT !.state = "fin_wait_2"]
                       [] fin.state \in {"last_ack", "closing"} -> Cleanup(fin)
                       [] OTHER -> fin
<1>1. TakePacket(s, p) = v
  BY DEF TakePacket
<1>2. /\ ackno \in Seqno /\ acked \in Seqno /\ win \in 0..MaxWin /\ que \in Seq(Nat)
      /\ p.fin \in BOOLEAN /\ p.ack \in BOOLEAN /\ p.ackno \in Seqno
      /\ acked = s.outAcked \/ (p.ack /\ acked = p.ackno)
  <2>1. /\ p.seqno \in Seqno /\ p.data \in Segments /\ p.ackno \in Seqno /\ p.winsize \in 0..MaxWin
        /\ p.fin \in BOOLEAN /\ p.ack \in BOOLEAN
    BY DEF Packets
  <2>2. s.outAcked \in Seqno /\ s.outWinSize \in 0..MaxWin /\ s.outQueue \in Seq(Nat)
    BY DEF Streams
  <2>3. p.data \in Seq(Nat) /\ Len(p.data) \in Nat
    BY <2>1 DEF Segments
  <2>4. ackno \in Seqno
    <3> DEFINE m == p.seqno + Len(p.data)
    <3>1. m \in Int
      BY <2>1, <2>3, SeqnoType
    <3> HIDE DEF m
    <3>2. m % SeqSpace \in Seqno
      BY <3>1, SeqnoType
    <3>3. QED
      BY <3>2 DEF m
  <2>5. que \in Seq(Nat)
    BY <2>2, <2>3, ConcatProperties
  <2> HIDE DEF ackno, que
  <2>6. QED
    BY <2>1, <2>2, <2>4, <2>5
<1> DEFINE Sent(x) == \/ x.sent = s.sent
                      \/ \E q \in Packets : Acknowledges(q, s.outSeqno, ackno) /\ x.sent = s.sent \cup {q}
           Open(x) == /\ x \in Streams
                      /\ x.inQueue = s.inQueue /\ x.inPkt = s.inPkt /\ x.outPkt = s.outPkt
                      /\ x.outQueue = que /\ x.inAckno = ackno
                      /\ x.outSeqno = s.outSeqno /\ x.outStreamActive = s.outStreamActive
                      /\ x.outAcked = acked
                      /\ x.lives = s.lives /\ x.retransTimerOn = s.retransTimerOn
                      /\ Sent(x)
           Shut(x) == /\ x \in Streams /\ x.state = "closed"
                      /\ x.inQueue = <<>> /\ x.outQueue = <<>> /\ x.inPkt = <<>> /\ x.outPkt = <<>>
                      /\ x.lives = s.lives /\ x.retransTimerOn = s.retransTimerOn
                      /\ Sent(x)
           Fine(x) == \/ Shut(x)
                      \/ /\ Open(x) /\ Connected(x)
                         /\ x.inStreamActive = (s.inStreamActive /\ ~p.fin)
<1> HIDE DEF newer, ackno, acked, win, que
<1>3. t \in Streams /\ Open(t) /\ t.state = s.state /\ t.inStreamActive = s.inStreamActive
  BY <1>2 DEF Streams
<1> HIDE DEF t
<1>4. u \in Streams /\ Open(u) /\ u.state = s.state /\ u.inStreamActive = FALSE
  <2>1. /\ SendAck(t) \in Streams /\ Untouched(t, SendAck(t))
        /\ SendAck(t).outSeqno = t.outSeqno /\ SendAck(t).outPkt = t.outPkt
        /\ SendAck(t).retransTimerOn = t.retransTimerOn
    BY <1>3, SendAckDoes
  <2>2. PICK q \in Packets : /\ Acknowledges(q, t.outSeqno, t.inAckno)
                             /\ SendAck(t).sent = t.sent \cup {q}
    BY <1>3, SendAckDoes
  <2>3. t.sent = s.sent
    BY DEF t, Streams
  <2>4. u \in Streams
    BY <2>1 DEF Streams
  <2>5. u.sent = s.sent \cup {q} /\ Acknowledges(q, s.outSeqno, ackno)
    BY <1>3, <2>1, <2>2, <2>3 DEF Streams
  <2>6. QED
    BY <1>3, <2>1, <2>4, <2>5 DEF Untouched, Streams
<1> HIDE DEF u, Sent
<1>5. ASSUME NEW x \in Streams, Open(x), NEW st \in TcpStates
      PROVE  /\ [x EXCEPT !.state = st] \in Streams
             /\ Open([x EXCEPT !.state = st]) /\ [x EXCEPT !.state = st].state = st
             /\ [x EXCEPT !.state = st].inStreamActive = x.inStreamActive
  BY <1>5 DEF Streams, Sent
<1>6. ASSUME NEW x \in Streams, Open(x) PROVE Shut(Cleanup(x))
  BY <1>6, CleanupDoes DEF Emptied, Sent
<1> HIDE DEF Open, Shut
<1>7. s.state \in TcpStates /\ s.inStreamActive \in BOOLEAN
  BY DEF Streams
<1>8. Fine(fin) /\ fin \in Streams
  <2>1. CASE ~p.fin
    <3>1. fin = t
      BY <2>1
    <3>2. QED
      BY <1>2, <1>3, <1>7, <2>1, <3>1 DEF Connected
  <2>2. CASE p.fin /\ s.state = "established"
    <3>1. fin = [u EXCEPT !.state = "close_wait"]
      BY <2>2
    <3>2. "close_wait" \in TcpStates /\ FALSE = (s.inStreamActive /\ ~p.fin)
      BY <2>2 DEF TcpStates
    <3> HIDE DEF fin
    <3>3. QED
      <4>1. /\ fin \in Streams /\ Open(fin) /\ fin.state = "close_wait"
            /\ fin.inStreamActive = FALSE
        BY <1>4, <1>5, <3>1, <3>2
      <4>2. QED
        BY <3>2, <4>1 DEF Connected
  <2>3. CASE p.fin /\ s.state = "fin_wait_1"
    <3>1. fin = [u EXCEPT !.state = "closing"]
      BY <2>3
    <3>2. "closing" \in TcpStates /\ FALSE = (s.inStreamActive /\ ~p.fin)
      BY <2>3 DEF TcpStates
    <3> HIDE DEF fin
    <3>3. QED
      <4>1. /\ fin \in Streams /\ Open(fin) /\ fin.state = "closing"
            /\ fin.inStreamActive = FALSE
        BY <1>4, <1>5, <3>1, <3>2
      <4>2. QED
        BY <3>2, <4>1 DEF Connected
  <2>4. CASE p.fin /\ s.state = "fin_wait_2"
    <3>1. fin = Cleanup(u)
      BY <2>4
    <3> HIDE DEF fin
    <3>2. QED
      BY <1>4, <1>6, <3>1 DEF Shut
  <2>5. CASE p.fin /\ s.state \notin {"established", "fin_wait_1", "fin_wait_2"}
    <3>1. fin = u
      BY <2>5
    <3>2. QED
      BY <1>2, <1>4, <2>5, <3>1 DEF Connected
  <2>6. QED
    BY <2>1, <2>2, <2>3, <2>4, <2>5
<1> HIDE DEF fin
<1>9. Fine(v) /\ v \in Streams
  <2>1. CASE v = fin
    BY <1>8, <2>1
  <2>2. CASE v = [fin EXCEPT !.state = "fin_wait_2"] /\ fin.state = "fin_wait_1"
    <3>1. "fin_wait_2" \in TcpStates
      BY DEF TcpStates
    <3>2. Open(fin) /\ fin.inStreamActive = (s.inStreamActive /\ ~p.fin)
      BY <1>8, <2>2 DEF Shut
    <3>3. QED
      BY <1>5, <1>8, <2>2, <3>1, <3>2 DEF Connected
  <2>3. CASE v = Cleanup(fin) /\ fin.state \in {"last_ack", "closing"}
    <3>1. Open(fin)
      BY <1>8, <2>3 DEF Shut
    <3>2. QED
      BY <1>6, <1>8, <2>3, <3>1 DEF Shut
  <2>4. QED
    BY <2>1, <2>2, <2>3
<1> HIDE DEF v
<1>10. Took(s, p, v)
  BY <1>2, <1>9 DEF Took, Open, Shut, Sent, ackno, que
<1>11. QED
  BY <1>1, <1>9, <1>10

-----------------------------------------------------------------------------
(* check_InPkts.                                                           *)

\* The first packet that comes next is one of those in the queue.
LEMMA FirstInPktDoes ==
    ASSUME NEW s \in Streams
    PROVE  /\ FirstInPkt(s) \in 0..Len(s.inPkt)
           /\ FirstInPkt(s) # 0 => s.inPkt[FirstInPkt(s)].seqno = s.inAckno
<1> DEFINE at == {i \in 1..Len(s.inPkt) : s.inPkt[i].seqno = s.inAckno}
<1>1. Len(s.inPkt) \in Nat
  BY LenProperties DEF Streams
<1>2. CASE at = {}
  BY <1>1, <1>2 DEF FirstInPkt
<1>3. CASE at # {}
  <2>1. at \in SUBSET Nat
    BY <1>1
  <2>2. FirstInPkt(s) = CHOOSE i \in at : \A j \in at : i <= j
    BY <1>3 DEF FirstInPkt
  <2> DEFINE T == at
  <2>3. \E i \in T : \A j \in T : i <= j
    <3>1. T \in SUBSET Nat /\ T # {}
      BY <1>3, <2>1
    <3> HIDE DEF T
    <3>2. QED
      BY <3>1, LeastNumber
  <2>4. FirstInPkt(s) \in at
    BY <2>2, <2>3
  <2>5. QED
    BY <1>1, <2>4
<1>4. QED
  BY <1>2, <1>3

\* One round: nothing, or a packet that is next is taken out and used.
NextTaken(s, t) ==
    \/ t = s
    \/ \E i \in 1..Len(s.inPkt), r \in Streams :
         /\ r = [s EXCEPT !.inPkt = RemoveAt(@, i)]
         /\ s.inPkt[i].seqno = s.inAckno
         /\ Took(r, s.inPkt[i], t)

\* check_InPkts takes the packet that comes next, if it has arrived.
LEMMA TakeNextDoes ==
    ASSUME NEW s \in Streams, QueueIsUsed(s)
    PROVE  /\ TakeNext(s) \in Streams /\ QueueIsUsed(TakeNext(s))
           /\ NextTaken(s, TakeNext(s))
<1> DEFINE i == FirstInPkt(s)
           t == TakeNext(s)
<1>1. i \in 0..Len(s.inPkt) /\ (i # 0 => s.inPkt[i].seqno = s.inAckno)
  BY FirstInPktDoes
<1>2. CASE i = 0
  <2>1. t = s
    BY <1>2 DEF TakeNext
  <2>2. QED
    BY <2>1 DEF NextTaken
<1>3. CASE i # 0
  <2> DEFINE que == RemoveAt(s.inPkt, i)
             r == [s EXCEPT !.inPkt = que]
             p == s.inPkt[i]
  <2>1. t = TakePacket(r, p)
    BY <1>3 DEF TakeNext
  <2> HIDE DEF i, t
  <2>2. s.inPkt \in Seq(Packets) /\ Len(s.inPkt) \in Nat /\ i \in 1..Len(s.inPkt)
    BY <1>1, <1>3, LenProperties DEF Streams
  <2>3. p \in Packets /\ que \in Seq(Packets) /\ s.inPkt # <<>>
    BY <2>2, ElementsOfRemoveAt, ElementOfSeq
  <2> HIDE DEF que
  <2>4. r \in Streams /\ r.state = s.state
    BY <2>3 DEF Streams
  <2>5. Connected(r)
    BY <2>3, <2>4 DEF QueueIsUsed, Connected
  <2>6. t \in Streams /\ Took(r, p, t)
    <3> HIDE DEF r, p
    <3>1. QED
      BY <2>1, <2>3, <2>4, <2>5, TakePacketDoes
  <2>7. NextTaken(s, t)
    BY <1>1, <1>3, <2>2, <2>4, <2>6 DEF NextTaken, que
  <2>8. QueueIsUsed(t)
    BY <2>6 DEF Took, QueueIsUsed
  <2>9. QED
    BY <2>6, <2>7, <2>8 DEF t
<1>4. QED
  BY <1>2, <1>3

(* What every round keeps holds when check_InPkts discards the old packets. *)
LEMMA CheckInPktsKeeps ==
    ASSUME NEW s, NEW T, s \in T, \A x \in T : TakeNext(x) \in T, Len(s.inPkt) \in Nat
    PROVE  \E end \in T :
             CheckInPkts(s) = [end EXCEPT !.inPkt = NotBefore(end.inPkt, end.inAckno)]
<1> DEFINE N == Len(s.inPkt)
           IsRun(f) == f = [n \in 0..N |-> IF n = 0 THEN s ELSE TakeNext(f[n - 1])]
           u == CHOOSE f : IsRun(f)
           F == [x \in (1..N) \X T |-> TakeNext(x[2])]
<1>1. CheckInPkts(s) = [u[N] EXCEPT !.inPkt = NotBefore(u[N].inPkt, u[N].inAckno)]
  BY DEF CheckInPkts
<1>2. N \in Nat
  OBVIOUS
<1> HIDE DEF N
<1>3. F \in [(1..N) \X T -> T]
  OBVIOUS
<1>4. IsRun(u)
  <2> HIDE DEF F
  <2>1. PICK f : Run(f, N, T, s, F)
    BY <1>2, <1>3, Iterated
  <2>2. f \in [0..N -> T] /\ f[0] = s /\ \A n \in 1..N : f[n] = F[<<n, f[n - 1]>>]
    BY <2>1 DEF Run
  <2>3. ASSUME NEW n \in 0..N, n # 0 PROVE f[n] = TakeNext(f[n - 1])
    <3>1. n \in 1..N /\ n - 1 \in 0..N
      BY <1>2, <2>3
    <3>2. f[n - 1] \in T /\ f[n] = F[<<n, f[n - 1]>>]
      BY <2>2, <3>1
    <3>3. <<n, f[n - 1]>> \in (1..N) \X T
      BY <3>1, <3>2
    <3>4. QED
      BY <3>2, <3>3 DEF F
  <2>4. f = [n \in 0..N |-> IF n = 0 THEN s ELSE TakeNext(f[n - 1])]
    BY <2>2, <2>3
  <2>5. IsRun(f)
    BY <2>4
  <2> HIDE DEF IsRun
  <2>6. QED
    BY <2>5
<1> HIDE DEF u, F
<1>5. u[0] = s /\ \A n \in 1..N : u[n] = TakeNext(u[n - 1])
  BY <1>2, <1>4
<1>6. u[N] \in T
  <2> DEFINE G == {n \in 0..N : u[n] \in T}
  <2>1. 0 \in G
    BY <1>2, <1>5
  <2>2. ASSUME NEW n \in Nat, n < N, n \in G PROVE n + 1 \in G
    <3>1. n + 1 \in 1..N /\ (n + 1) - 1 = n
      BY <1>2, <2>2
    <3>2. u[n + 1] = TakeNext(u[n])
      BY <1>5, <3>1
    <3>3. QED
      BY <2>2, <3>1, <3>2
  <2> HIDE DEF G
  <2>3. \A n \in 0..N : n \in G
    BY <1>2, <2>1, <2>2, UpToBound
  <2>4. N \in G
    BY <1>2, <2>3
  <2>5. QED
    BY <2>4 DEF G
<1>7. QED
  BY <1>1, <1>6

\* What is left when the packets before a number are discarded.
LEMMA NotBeforeDoes ==
    ASSUME NEW q \in Seq(Packets), NEW x
    PROVE  /\ NotBefore(q, x) \in Seq(Packets) /\ Len(NotBefore(q, x)) <= Len(q)
           /\ ToSet(NotBefore(q, x)) = {p \in ToSet(q) : ~IsOldSequence(p.seqno, x)}
           /\ NotBefore(q, x) # <<>> => q # <<>>
<1> DEFINE S == {p \in ToSet(q) : ~IsOldSequence(p.seqno, x)}
<1>1. NotBefore(q, x) = Only(q, S)
  BY DEF NotBefore
<1> HIDE DEF S
<1>2. /\ Only(q, S) \in Seq(Packets) /\ Len(Only(q, S)) <= Len(q)
      /\ ToSet(Only(q, S)) = ToSet(q) \cap S
  BY OnlyKeeps
<1>3. Only(q, S) # <<>> => q # <<>>
  BY <1>2, Elements
<1>4. QED
  BY <1>1, <1>2, <1>3 DEF S

\* The rounds of check_InPkts keep a stream sound.
LEMMA CheckInPktsSound ==
    ASSUME NEW s, Sound(s)
    PROVE  Sound(CheckInPkts(s)) /\ CheckInPkts(s).lives = s.lives
<1> DEFINE T == {x \in Streams : Sound(x) /\ x.lives = s.lives}
<1>1. s \in T /\ Len(s.inPkt) \in Nat
  BY LenProperties DEF Sound, Streams
<1>2. ASSUME NEW x \in T PROVE TakeNext(x) \in T
  <2> DEFINE t == TakeNext(x)
  <2>1. /\ x \in Streams /\ Sound(x) /\ t \in Streams /\ QueueIsUsed(t) /\ NextTaken(x, t)
        /\ x.lives = s.lives
    BY TakeNextDoes DEF Sound
  <2> HIDE DEF t, T
  <2>2. CASE t = x
    BY <2>1, <2>2 DEF t, T
  <2>3. CASE t # x
    <3>1. PICK i \in 1..Len(x.inPkt), r \in Streams :
            r = [x EXCEPT !.inPkt = RemoveAt(@, i)] /\ Took(r, x.inPkt[i], t)
      BY <2>1, <2>3 DEF NextTaken
    <3>2. x.inPkt \in Seq(Packets) /\ Len(x.inPkt) \in Nat
      BY <2>1, LenProperties DEF Streams
    <3>3. Len(RemoveAt(x.inPkt, i)) = Len(x.inPkt) - 1
      BY <3>2, ElementsOfRemoveAt
    <3>4. /\ r.inPkt = RemoveAt(x.inPkt, i) /\ r.outPkt = x.outPkt
          /\ r.retransTimerOn = x.retransTimerOn /\ r.lives = x.lives
      BY <2>1, <3>1 DEF Streams
    <3>5. Len(t.inPkt) <= MaxInPkt
      <4>1. CASE t.inPkt = <<>>
        BY <4>1, ConstantTypes
      <4>2. CASE t.inPkt = r.inPkt
        BY <2>1, <3>2, <3>3, <3>4, <4>2, ConstantTypes DEF Sound
      <4>3. QED
        BY <3>1, <4>1, <4>2 DEF Took
    <3>6. t.outPkt # <<>> => t.retransTimerOn
      BY <2>1, <3>1, <3>4 DEF Took, Sound
    <3>8. t.lives = s.lives
      BY <2>1, <3>1, <3>4 DEF Took
    <3>7. QED
      BY <2>1, <3>5, <3>6, <3>8 DEF Sound, T, t
  <2>4. QED
    BY <2>2, <2>3
<1> HIDE DEF T
<1>3. PICK end \in T : CheckInPkts(s) = [end EXCEPT !.inPkt = NotBefore(end.inPkt, end.inAckno)]
  BY <1>1, <1>2, CheckInPktsKeeps
<1>4. end \in Streams /\ Sound(end) /\ end.lives = s.lives
  BY DEF T
<1> DEFINE que == NotBefore(end.inPkt, end.inAckno)
<1>5. que \in Seq(Packets) /\ Len(que) <= Len(end.inPkt) /\ (que # <<>> => end.inPkt # <<>>)
  BY <1>4, NotBeforeDoes DEF Streams
<1>6. Len(que) \in Nat /\ Len(end.inPkt) \in Nat
  BY <1>4, <1>5, LenProperties DEF Streams
<1> HIDE DEF que
<1> DEFINE t == [end EXCEPT !.inPkt = que]
<1>7. /\ t \in Streams /\ t.inPkt = que /\ t.state = end.state /\ t.outPkt = end.outPkt
      /\ t.retransTimerOn = end.retransTimerOn /\ t.lives = end.lives
  BY <1>4, <1>5 DEF Streams
<1>a. CheckInPkts(s) = t
  BY <1>3 DEF que
<1> HIDE DEF t
<1>8. Sound(t)
  BY <1>4, <1>5, <1>6, <1>7, ConstantTypes DEF Sound, QueueIsUsed, Connected
<1>9. QED
  BY <1>4, <1>7, <1>8, <1>a

-----------------------------------------------------------------------------
(* handleIncoming.                                                         *)

(* A packet is put into the queue before check_InPkts: its acknowledgement  *)
(* may be used, or an acknowledgement be sent.                              *)
Queued(s, p, r) ==
    /\ r \in Streams
    /\ r.state = s.state /\ r.lives = s.lives
    /\ r.inStreamActive = s.inStreamActive /\ r.outStreamActive = s.outStreamActive
    /\ r.outSeqno = s.outSeqno /\ r.inAckno = s.inAckno
    /\ r.inQueue = s.inQueue /\ r.outQueue = s.outQueue /\ r.outPkt = s.outPkt
    /\ r.retransTimerOn = s.retransTimerOn
    /\ r.outAcked = s.outAcked \/ (p.ack /\ r.outAcked = p.ackno)
    /\ \/ r.sent = s.sent
       \/ \E q \in Packets : Acknowledges(q, s.outSeqno, s.inAckno) /\ r.sent = s.sent \cup {q}
    /\ Len(r.inPkt) <= MaxInPkt /\ ToSet(r.inPkt) \subseteq ToSet(s.inPkt) \cup {p}

\* The queue of packets keeps its bound.
LEMMA QueuePacketDoes ==
    ASSUME NEW q \in Seq(Packets), Len(q) <= MaxInPkt, NEW p \in Packets
    PROVE  /\ QueuePacket(q, p) \in Seq(Packets) /\ Len(QueuePacket(q, p)) <= MaxInPkt
           /\ ToSet(QueuePacket(q, p)) \subseteq ToSet(q) \cup {p}
<1>1. Len(q) \in Nat
  BY LenProperties
<1>2. CASE Len(q) >= MaxInPkt
  <2>1. q # <<>>
    BY <1>2, ConstantTypes
  <2> DEFINE t == Tail(q)
  <2>2. t \in Seq(Packets) /\ Len(t) = Len(q) - 1 /\ ToSet(t) \subseteq ToSet(q)
    BY <2>1, ElementsOfTail
  <2> HIDE DEF t
  <2>3. /\ Append(t, p) \in Seq(Packets) /\ Len(Append(t, p)) = Len(t) + 1
        /\ ToSet(Append(t, p)) = ToSet(t) \cup {p}
    BY <2>2, ElementsOfAppend
  <2>4. QueuePacket(q, p) = Append(t, p)
    BY <1>2 DEF QueuePacket, t
  <2>5. QED
    BY <1>1, <2>2, <2>3, <2>4, ConstantTypes
<1>3. CASE ~(Len(q) >= MaxInPkt)
  <2>1. QueuePacket(q, p) = Append(q, p)
    BY <1>3 DEF QueuePacket
  <2>2. /\ Append(q, p) \in Seq(Packets) /\ Len(Append(q, p)) = Len(q) + 1
        /\ ToSet(Append(q, p)) = ToSet(q) \cup {p}
    BY ElementsOfAppend
  <2>3. QED
    BY <1>1, <1>3, <2>1, <2>2, ConstantTypes
<1>4. QED
  BY <1>2, <1>3

\* A packet for a connected stream is queued, and the queue is checked.
LEMMA IncomingEstablishedDoes ==
    ASSUME NEW s \in Streams, Len(s.inPkt) <= MaxInPkt, NEW p \in Packets
    PROVE  \E r : Queued(s, p, r) /\ IncomingEstablished(s, p) = CheckInPkts(r)
<1> DEFINE inWindow == /\ ~IsOldSequence(p.seqno, s.inAckno)
                       /\ IsOldSequence(p.seqno, s.inAckno + MaxWin)
           acked == IF p.ack THEN p.ackno ELSE s.outAcked
           t == IF inWindow
                THEN [s EXCEPT !.outAcked = acked, !.outWinSize = p.winsize]
                ELSE SendAck(s)
           que == QueuePacket(t.inPkt, p)
           r == [t EXCEPT !.inPkt = que]
<1>1. IncomingEstablished(s, p) = CheckInPkts(r)
  BY DEF IncomingEstablished
<1>2. acked \in Seqno /\ p.winsize \in 0..MaxWin
  BY DEF Packets, Streams
<1>3. acked = s.outAcked \/ (p.ack /\ acked = p.ackno)
  OBVIOUS
<1> HIDE DEF inWindow, acked
<1> DEFINE Same(x) ==
       /\ x \in Streams
       /\ x.state = s.state /\ x.lives = s.lives
       /\ x.inStreamActive = s.inStreamActive /\ x.outStreamActive = s.outStreamActive
       /\ x.outSeqno = s.outSeqno /\ x.inAckno = s.inAckno
       /\ x.inQueue = s.inQueue /\ x.outQueue = s.outQueue /\ x.outPkt = s.outPkt
       /\ x.retransTimerOn = s.retransTimerOn
       /\ x.outAcked = s.outAcked \/ (p.ack /\ x.outAcked = p.ackno)
       /\ \/ x.sent = s.sent
          \/ \E q \in Packets : Acknowledges(q, s.outSeqno, s.inAckno) /\ x.sent = s.sent \cup {q}
<1>4. Same(t) /\ t.inPkt = s.inPkt
  <2>1. CASE inWindow
    BY <1>2, <1>3, <2>1 DEF Streams
  <2>2. CASE ~inWindow
    BY <2>2, SendAckDoes DEF Untouched
  <2>3. QED
    BY <2>1, <2>2
<1> HIDE DEF t
<1>5. /\ que \in Seq(Packets) /\ Len(que) <= MaxInPkt
      /\ ToSet(que) \subseteq ToSet(s.inPkt) \cup {p}
  BY <1>4, QueuePacketDoes DEF Streams
<1> HIDE DEF que
<1>6. Same(r) /\ r.inPkt = que
  BY <1>4, <1>5 DEF Streams
<1> HIDE DEF r
<1>7. Queued(s, p, r)
  BY <1>5, <1>6 DEF Queued
<1>8. QED
  BY <1>1, <1>7

(* incoming_Closed answers a SYN that is no acknowledgement: with a SYN of  *)
(* its own, or if it has sent one already, with a plain ACK.                *)
Answered(e, s, p, t) ==
    /\ p.syn /\ ~p.ack
    /\ t.state = "syn_rcvd" /\ t.inAckno = (p.seqno + 1) % SeqSpace /\ t.retransTimerOn
    /\ t.inStreamActive = s.inStreamActive /\ t.outStreamActive = s.outStreamActive
    /\ t.inQueue = s.inQueue /\ t.outQueue = s.outQueue /\ t.inPkt = s.inPkt
    /\ \E q \in Packets :
         /\ t.outPkt = Append(s.outPkt, q) /\ t.sent = s.sent \cup {q}
         /\ ~q.fin /\ q.ack /\ q.data = <<>> /\ q.ackno = t.inAckno
         /\ IF s.state = "closed"
            THEN /\ q.syn /\ q.seqno = Isn[e][t.lives] /\ t.lives = s.lives + 1
                 /\ t.outSeqno = (Isn[e][t.lives] + 1) % SeqSpace
            ELSE /\ ~q.syn /\ q.seqno = s.outSeqno
                 /\ t.outSeqno = s.outSeqno /\ t.lives = s.lives

\* There is a number for the stream to be opened with.
Openable(e, s) == s.state = "closed" => s.lives < Len(Isn[e])

\* A stream that is opened begins another life.
LEMMA OpenedDoes ==
    ASSUME NEW e \in Ends, NEW s \in Streams, s.lives < Len(Isn[e])
    PROVE  /\ Opened(e, s) \in Streams
           /\ Opened(e, s).lives = s.lives + 1
           /\ Opened(e, s).outSeqno = Isn[e][s.lives + 1]
           /\ Opened(e, s).outSeqno \in Seqno /\ Opened(e, s).outSeqno \in Int
           /\ Opened(e, s).state = s.state /\ Opened(e, s).inAckno = s.inAckno
           /\ Opened(e, s).inStreamActive = s.inStreamActive
           /\ Opened(e, s).outStreamActive = s.outStreamActive
           /\ Opened(e, s).inQueue = s.inQueue /\ Opened(e, s).outQueue = s.outQueue
           /\ Opened(e, s).inPkt = s.inPkt /\ Opened(e, s).outPkt = s.outPkt
           /\ Opened(e, s).sent = s.sent
<1> DEFINE n == s.lives + 1
           isn == Isn[e][n]
<1>1. n \in 1..Len(Isn[e]) /\ n \in Nat
  BY LenProperties DEF Streams
<1>2. isn \in Seqno /\ isn \in Int
  BY <1>1, ConstantTypes
<1>3. Opened(e, s) = [s EXCEPT !.outSeqno = isn, !.outAcked = isn, !.lives = n]
  BY DEF Opened
<1> HIDE DEF isn, n
<1>4. QED
  BY <1>1, <1>2, <1>3 DEF Streams, isn, n

\* A closed stream answers a SYN and ignores everything else.
LEMMA IncomingClosedDoes ==
    ASSUME NEW e \in Ends, NEW s \in Streams, NEW p \in Packets, Openable(e, s)
    PROVE  /\ IncomingClosed(e, s, p) \in Streams
           /\ IncomingClosed(e, s, p) = s \/ Answered(e, s, p, IncomingClosed(e, s, p))
<1> DEFINE ackno == (p.seqno + 1) % SeqSpace
           t == [s EXCEPT !.inAckno = ackno, !.outWinSize = p.winsize]
           new == Opened(e, t)
           isn == Isn[e][s.lives + 1]
           synAck == Packet(TRUE, FALSE, TRUE, <<>>)
           plain == Packet(FALSE, FALSE, TRUE, <<>>)
           rsp == IF s.state = "closed" THEN ToSend(new, synAck, TRUE) ELSE ToSend(t, plain, TRUE)
           v == [rsp EXCEPT !.state = "syn_rcvd"]
<1>1. IncomingClosed(e, s, p) = IF p.syn /\ ~p.ack THEN v ELSE s
  BY DEF IncomingClosed
<1>2. ackno \in Seqno /\ p.winsize \in 0..MaxWin
  <2>1. p.seqno \in Seqno /\ p.winsize \in 0..MaxWin
    BY DEF Packets
  <2> DEFINE m == p.seqno + 1
  <2>2. m \in Int
    BY <2>1, SeqnoType
  <2> HIDE DEF m
  <2>3. m % SeqSpace \in Seqno
    BY <2>2, SeqnoType
  <2>4. QED
    BY <2>1, <2>3 DEF m
<1>3. "syn_rcvd" \in TcpStates
  BY DEF TcpStates
<1>4. /\ synAck \in Packets /\ synAck.syn = TRUE /\ synAck.fin = FALSE /\ synAck.ack = TRUE
      /\ synAck.data = <<>> /\ Len(synAck.data) = 0
      /\ plain \in Packets /\ plain.syn = FALSE /\ plain.fin = FALSE /\ plain.ack = TRUE
      /\ plain.data = <<>> /\ Len(plain.data) = 0
  BY EmptySegment, PacketType
<1> HIDE DEF ackno, synAck, plain
<1>5. /\ t \in Streams /\ t.inAckno = ackno /\ t.state = s.state /\ t.lives = s.lives
      /\ t.inStreamActive = s.inStreamActive /\ t.outStreamActive = s.outStreamActive
      /\ t.inQueue = s.inQueue /\ t.outQueue = s.outQueue /\ t.inPkt = s.inPkt
      /\ t.outPkt = s.outPkt /\ t.sent = s.sent /\ t.outSeqno = s.outSeqno
  BY <1>2 DEF Streams
<1>6. s.state = "closed" =>
        /\ new \in Streams /\ new.inAckno = ackno /\ new.state = s.state /\ new.lives = s.lives + 1
        /\ new.inStreamActive = s.inStreamActive /\ new.outStreamActive = s.outStreamActive
        /\ new.inQueue = s.inQueue /\ new.outQueue = s.outQueue /\ new.inPkt = s.inPkt
        /\ new.outPkt = s.outPkt /\ new.sent = s.sent /\ new.outSeqno = isn /\ isn \in Int
  <2> HIDE DEF t
  <2>1. ASSUME s.state = "closed" PROVE t.lives < Len(Isn[e])
    BY <1>5, <2>1 DEF Openable
  <2>2. QED
    BY <1>5, <2>1, OpenedDoes
<1> HIDE DEF t, new, isn
<1>7. CASE p.syn /\ ~p.ack /\ s.state = "closed"
  <2> DEFINE x == ToSend(new, synAck, TRUE)
  <2>1. x \in Streams /\ Sends(new, synAck, TRUE, x)
    BY <1>4, <1>6, <1>7, ToSendDoes
  <2>2. v = [x EXCEPT !.state = "syn_rcvd"]
    BY <1>7
  <2> HIDE DEF x, v
  <2>3. /\ v \in Streams /\ v.state = "syn_rcvd" /\ v.lives = x.lives
        /\ v.inStreamActive = x.inStreamActive /\ v.outStreamActive = x.outStreamActive
        /\ v.outSeqno = x.outSeqno /\ v.inAckno = x.inAckno /\ v.retransTimerOn = x.retransTimerOn
        /\ v.inQueue = x.inQueue /\ v.outQueue = x.outQueue /\ v.inPkt = x.inPkt
        /\ v.outPkt = x.outPkt /\ v.sent = x.sent
    BY <1>3, <2>1, <2>2 DEF Streams
  <2>4. x.outSeqno = (isn + 1) % SeqSpace
    <3>1. isn + 0 + 1 = isn + 1
      BY <1>6, <1>7
    <3>2. x.outSeqno = (isn + 0 + 1) % SeqSpace
      BY <1>4, <1>6, <1>7, <2>1 DEF Sends
    <3>3. QED
      BY <3>1, <3>2
  <2>5. Answered(e, s, p, v)
    <3>1. PICK q \in Packets : /\ Filled(new, synAck, q)
                               /\ x.outPkt = Append(new.outPkt, q)
                               /\ x.sent = new.sent \cup {q}
      BY <2>1 DEF Sends
    <3>2. /\ ~q.fin /\ q.ack /\ q.data = <<>> /\ q.ackno = ackno /\ q.syn /\ q.seqno = isn
      BY <1>4, <1>6, <1>7, <3>1 DEF Filled
    <3>3. x.inAckno = ackno /\ x.retransTimerOn /\ x.lives = s.lives + 1
      BY <1>6, <1>7, <2>1 DEF Sends, Untouched
    <3>5. isn = Isn[e][v.lives]
      BY <2>3, <3>3 DEF isn
    <3>6. /\ v.outSeqno = (Isn[e][v.lives] + 1) % SeqSpace /\ q.seqno = Isn[e][v.lives]
          /\ v.lives = s.lives + 1
      BY <2>3, <2>4, <3>2, <3>3, <3>5
    <3>7. /\ v.state = "syn_rcvd" /\ v.inAckno = ackno /\ v.retransTimerOn
          /\ v.inStreamActive = s.inStreamActive /\ v.outStreamActive = s.outStreamActive
          /\ v.inQueue = s.inQueue /\ v.outQueue = s.outQueue /\ v.inPkt = s.inPkt
          /\ v.outPkt = Append(s.outPkt, q) /\ v.sent = s.sent \cup {q}
      BY <1>6, <1>7, <2>1, <2>3, <3>1, <3>3 DEF Sends, Untouched
    <3>4. QED
      BY <1>7, <3>2, <3>6, <3>7 DEF Answered, ackno
  <2>6. QED
    BY <1>1, <1>7, <2>3, <2>5
<1>8. CASE p.syn /\ ~p.ack /\ s.state # "closed"
  <2> DEFINE x == ToSend(t, plain, TRUE)
  <2>1. x \in Streams /\ Sends(t, plain, TRUE, x)
    BY <1>4, <1>5, ToSendDoes
  <2>2. v = [x EXCEPT !.state = "syn_rcvd"]
    BY <1>8
  <2> HIDE DEF x, v
  <2>3. /\ v \in Streams /\ v.state = "syn_rcvd" /\ v.lives = x.lives
        /\ v.inStreamActive = x.inStreamActive /\ v.outStreamActive = x.outStreamActive
        /\ v.outSeqno = x.outSeqno /\ v.inAckno = x.inAckno /\ v.retransTimerOn = x.retransTimerOn
        /\ v.inQueue = x.inQueue /\ v.outQueue = x.outQueue /\ v.inPkt = x.inPkt
        /\ v.outPkt = x.outPkt /\ v.sent = x.sent
    BY <1>3, <2>1, <2>2 DEF Streams
  <2>4. x.outSeqno = s.outSeqno
    <3>1. s.outSeqno \in Seqno /\ s.outSeqno + 0 + 0 = s.outSeqno
      BY SeqnoType DEF Streams
    <3>2. x.outSeqno = (s.outSeqno + 0 + 0) % SeqSpace
      BY <1>4, <1>5, <2>1 DEF Sends
    <3>3. QED
      BY <3>1, <3>2, SeqnoType
  <2>5. Answered(e, s, p, v)
    <3>1. PICK q \in Packets : /\ Filled(t, plain, q)
                               /\ x.outPkt = Append(t.outPkt, q)
                               /\ x.sent = t.sent \cup {q}
      BY <2>1 DEF Sends
    <3>2. /\ ~q.fin /\ q.ack /\ q.data = <<>> /\ q.ackno = ackno /\ ~q.syn /\ q.seqno = s.outSeqno
      BY <1>4, <1>5, <3>1 DEF Filled
    <3>3. x.inAckno = ackno /\ x.retransTimerOn
      BY <1>5, <2>1 DEF Sends, Untouched
    <3>4. QED
      BY <1>5, <1>8, <2>1, <2>3, <2>4, <3>1, <3>2, <3>3 DEF Answered, Sends, Untouched, ackno
  <2>6. QED
    BY <1>1, <1>8, <2>3, <2>5
<1>9. QED
  BY <1>1, <1>7, <1>8

\* The stream is established by the packet p.
Established(s, p, t) ==
    /\ p.ack /\ p.ackno = s.outSeqno
    /\ t.state = "established" /\ t.lives = s.lives
    /\ t.inStreamActive = TRUE /\ t.outStreamActive = TRUE
    /\ t.outSeqno = s.outSeqno /\ t.outAcked = p.ackno
    /\ t.inQueue = s.inQueue /\ t.outQueue = s.outQueue
    /\ t.inPkt = s.inPkt /\ t.outPkt = s.outPkt /\ t.retransTimerOn = s.retransTimerOn

\* What incoming_SynSent does: nothing, an answer to a SYN, or the end of the handshake.
SynSentLeft(e, s, p, t) ==
    \/ t = s
    \/ Answered(e, s, p, t)
    \/ /\ Established(s, p, t)
       /\ p.syn /\ t.inAckno = (p.seqno + 1) % SeqSpace
       /\ \E q \in Packets : Acknowledges(q, s.outSeqno, t.inAckno) /\ t.sent = s.sent \cup {q}

\* A stream that has sent its SYN answers a SYN, or connects, or does nothing.
LEMMA IncomingSynSentDoes ==
    ASSUME NEW e \in Ends, NEW s \in Streams, NEW p \in Packets, Openable(e, s)
    PROVE  /\ IncomingSynSent(e, s, p) \in Streams
           /\ SynSentLeft(e, s, p, IncomingSynSent(e, s, p))
<1> DEFINE ackno == (p.seqno + 1) % SeqSpace
           r == [s EXCEPT !.inAckno = ackno, !.outWinSize = p.winsize, !.outAcked = p.ackno]
           x == SendAck(r)
           v == [x EXCEPT !.state = "established", !.inStreamActive = TRUE, !.outStreamActive = TRUE]
           t == IncomingSynSent(e, s, p)
<1>1. t = IF ~(p.syn /\ p.ack) THEN IncomingClosed(e, s, p)
          ELSE IF p.ackno # s.outSeqno THEN s ELSE v
  BY DEF IncomingSynSent
<1>2. ackno \in Seqno /\ p.winsize \in 0..MaxWin /\ p.ackno \in Seqno
  <2>1. p.seqno \in Seqno /\ p.winsize \in 0..MaxWin /\ p.ackno \in Seqno
    BY DEF Packets
  <2> DEFINE m == p.seqno + 1
  <2>2. m \in Int
    BY <2>1, SeqnoType
  <2> HIDE DEF m
  <2>3. m % SeqSpace \in Seqno
    BY <2>2, SeqnoType
  <2>4. QED
    BY <2>1, <2>3 DEF m
<1> HIDE DEF ackno
<1>3. /\ r \in Streams /\ r.inAckno = ackno /\ r.outAcked = p.ackno /\ r.lives = s.lives
      /\ r.outSeqno = s.outSeqno /\ r.inQueue = s.inQueue /\ r.outQueue = s.outQueue
      /\ r.inPkt = s.inPkt /\ r.outPkt = s.outPkt /\ r.sent = s.sent
      /\ r.retransTimerOn = s.retransTimerOn
  BY <1>2 DEF Streams
<1> HIDE DEF r
<1>4. x \in Streams /\ Untouched(r, x) /\ x.outSeqno = r.outSeqno /\ x.outPkt = r.outPkt
      /\ x.retransTimerOn = r.retransTimerOn
  BY <1>3, SendAckDoes
<1>5. PICK q \in Packets : Acknowledges(q, r.outSeqno, r.inAckno) /\ x.sent = r.sent \cup {q}
  BY <1>3, SendAckDoes
<1> HIDE DEF x
<1>6. /\ v \in Streams /\ v.state = "established" /\ v.inStreamActive = TRUE
      /\ v.outStreamActive = TRUE /\ v.lives = x.lives /\ v.outSeqno = x.outSeqno
      /\ v.outAcked = x.outAcked /\ v.inAckno = x.inAckno /\ v.inQueue = x.inQueue
      /\ v.outQueue = x.outQueue /\ v.inPkt = x.inPkt /\ v.outPkt = x.outPkt
      /\ v.retransTimerOn = x.retransTimerOn /\ v.sent = x.sent
  <2>1. "established" \in TcpStates
    BY DEF TcpStates
  <2>2. QED
    BY <1>4, <2>1 DEF Streams
<1> HIDE DEF v
<1>7. CASE ~(p.syn /\ p.ack)
  <2>1. t = IncomingClosed(e, s, p)
    BY <1>1, <1>7
  <2> HIDE DEF t
  <2>2. QED
    BY <2>1, IncomingClosedDoes DEF t, SynSentLeft
<1>8. CASE p.syn /\ p.ack /\ p.ackno # s.outSeqno
  BY <1>1, <1>8 DEF SynSentLeft
<1>9. CASE p.syn /\ p.ack /\ p.ackno = s.outSeqno
  <2>1. t = v
    BY <1>1, <1>9
  <2> HIDE DEF t
  <2>2. Established(s, p, t) /\ t.inAckno = ackno /\ t.sent = s.sent \cup {q}
    BY <1>3, <1>4, <1>5, <1>6, <1>9, <2>1 DEF Established, Untouched
  <2>3. Acknowledges(q, s.outSeqno, t.inAckno)
    BY <1>3, <1>5, <2>2
  <2>4. QED
    BY <1>6, <1>9, <2>1, <2>2, <2>3 DEF t, ackno, SynSentLeft
<1>10. QED
  BY <1>7, <1>8, <1>9

\* What incoming_SynRcvd does.
LEMMA IncomingSynRcvdDoes ==
    ASSUME NEW s \in Streams, NEW p \in Packets
    PROVE  \/ IncomingSynRcvd(s, p) = s
           \/ \E t \in Streams :
                /\ Established(s, p, t) /\ t.inAckno = p.seqno /\ t.sent = s.sent
                /\ IncomingSynRcvd(s, p) = IF p.data = <<>> THEN t ELSE IncomingEstablished(t, p)
<1> DEFINE t == [s EXCEPT !.inAckno = p.seqno, !.outWinSize = p.winsize, !.outAcked = p.ackno,
                         !.state = "established", !.inStreamActive = TRUE,
                         !.outStreamActive = TRUE]
<1>1. IncomingSynRcvd(s, p) = IF ~p.ack \/ p.ackno # s.outSeqno THEN s
                              ELSE IF p.data = <<>> THEN t ELSE IncomingEstablished(t, p)
  BY DEF IncomingSynRcvd
<1>2. CASE ~p.ack \/ p.ackno # s.outSeqno
  BY <1>1, <1>2
<1>3. CASE p.ack /\ p.ackno = s.outSeqno
  <2>1. IncomingSynRcvd(s, p) = IF p.data = <<>> THEN t ELSE IncomingEstablished(t, p)
    BY <1>1, <1>3
  <2>2. p.seqno \in Seqno /\ p.ackno \in Seqno /\ p.winsize \in 0..MaxWin
    BY DEF Packets
  <2>3. "established" \in TcpStates
    BY DEF TcpStates
  <2>4. t \in Streams /\ Established(s, p, t) /\ t.inAckno = p.seqno /\ t.sent = s.sent
    BY <1>3, <2>2, <2>3 DEF Streams, Established
  <2> HIDE DEF t
  <2>5. QED
    BY <2>1, <2>4
<1>4. QED
  BY <1>2, <1>3

\* Whatever arrives, the stream stays sound.
LEMMA HandleIncomingSound ==
    ASSUME NEW e \in Ends, NEW s, Sound(s), NEW p \in Packets, Openable(e, s)
    PROVE  Sound(HandleIncoming(e, s, p)) /\ s.lives <= HandleIncoming(e, s, p).lives
<1>1. /\ s \in Streams /\ Len(s.inPkt) <= MaxInPkt /\ (s.outPkt # <<>> => s.retransTimerOn)
      /\ s.lives \in Nat
  BY DEF Sound, Streams
<1>2. ASSUME NEW x, Sound(x), Connected(x)
      PROVE  Sound(IncomingEstablished(x, p)) /\ IncomingEstablished(x, p).lives = x.lives
  <2>1. x \in Streams /\ Len(x.inPkt) <= MaxInPkt
    BY <1>2 DEF Sound
  <2>2. PICK r : Queued(x, p, r) /\ IncomingEstablished(x, p) = CheckInPkts(r)
    BY <2>1, IncomingEstablishedDoes
  <2>3. Sound(r) /\ r.lives = x.lives
    BY <1>2, <2>2 DEF Queued, Sound, QueueIsUsed, Connected
  <2>4. QED
    BY <2>2, <2>3, CheckInPktsSound
<1>3. ASSUME NEW t \in Streams, Answered(e, s, p, t), QueueIsUsed(s), ~Connected(s)
      PROVE  Sound(t) /\ s.lives <= t.lives
  <2>1. t.inPkt = s.inPkt /\ s.inPkt = <<>> /\ t.retransTimerOn
    BY <1>3 DEF Answered, QueueIsUsed
  <2>2. s.lives <= t.lives
    <3>1. t.lives = s.lives \/ t.lives = s.lives + 1
      BY <1>3 DEF Answered
    <3>2. QED
      BY <1>1, <3>1
  <2>3. QED
    BY <1>1, <2>1, <2>2 DEF Sound, QueueIsUsed
<1>4. ASSUME NEW t \in Streams, Established(s, p, t)
      PROVE  Sound(t) /\ Connected(t) /\ t.lives = s.lives
  BY <1>1, <1>4 DEF Established, Sound, QueueIsUsed, Connected
<1>5. QueueIsUsed(s)
  BY DEF Sound
<1>6. CASE s.state = "closed"
  <2>1. HandleIncoming(e, s, p) = IncomingClosed(e, s, p)
    BY <1>6 DEF HandleIncoming
  <2>2. ~Connected(s)
    BY <1>6 DEF Connected
  <2>3. Sound(IncomingClosed(e, s, p)) /\ s.lives <= IncomingClosed(e, s, p).lives
    BY <1>1, <1>3, <1>5, <2>2, IncomingClosedDoes
  <2>4. QED
    BY <2>1, <2>3
<1>7. CASE s.state = "syn_sent"
  <2> DEFINE t == IncomingSynSent(e, s, p)
  <2>1. HandleIncoming(e, s, p) = t
    BY <1>7 DEF HandleIncoming
  <2>2. ~Connected(s)
    BY <1>7 DEF Connected
  <2>3. t \in Streams /\ (t = s \/ Answered(e, s, p, t) \/ Established(s, p, t))
    BY <1>1, IncomingSynSentDoes DEF SynSentLeft
  <2> HIDE DEF t
  <2>4. QED
    BY <1>1, <1>3, <1>4, <1>5, <2>1, <2>2, <2>3
<1>8. CASE s.state = "syn_rcvd"
  <2>1. HandleIncoming(e, s, p) = IncomingSynRcvd(s, p)
    BY <1>8 DEF HandleIncoming
  <2>2. CASE IncomingSynRcvd(s, p) = s
    BY <1>1, <2>1, <2>2
  <2>3. CASE \E t \in Streams :
               /\ Established(s, p, t)
               /\ IncomingSynRcvd(s, p) = IF p.data = <<>> THEN t ELSE IncomingEstablished(t, p)
    BY <1>1, <1>2, <1>4, <2>1, <2>3
  <2>4. QED
    BY <1>1, <2>2, <2>3, IncomingSynRcvdDoes
<1>9. CASE s.state \notin {"closed", "syn_sent", "syn_rcvd"}
  <2>1. HandleIncoming(e, s, p) = IncomingEstablished(s, p) /\ Connected(s)
    BY <1>9 DEF HandleIncoming, Connected
  <2>2. QED
    BY <1>1, <1>2, <2>1
<1>10. QED
  BY <1>6, <1>7, <1>8, <1>9

-----------------------------------------------------------------------------
(* tick.                                                                   *)

\* What acknowledge does.
AcknowledgedUpTo(s, t) ==
    /\ t.state = s.state /\ t.lives = s.lives
    /\ t.inStreamActive = s.inStreamActive /\ t.outStreamActive = s.outStreamActive
    /\ t.outSeqno = s.outSeqno /\ t.outAcked = s.outAcked /\ t.inAckno = s.inAckno
    /\ t.inQueue = s.inQueue /\ t.outQueue = s.outQueue /\ t.inPkt = s.inPkt
    /\ t.sent = s.sent
    /\ ToSet(t.outPkt) = {p \in ToSet(s.outPkt) : ~IsOldSequence(p.seqno, s.outAcked)}

\* acknowledge drops the packets before outAcked from those to be sent again.
LEMMA AcknowledgeDoes ==
    ASSUME NEW s, Sound(s)
    PROVE  Sound(Acknowledge(s)) /\ AcknowledgedUpTo(s, Acknowledge(s))
<1> DEFINE rest == NotBefore(s.outPkt, s.outAcked)
           on == s.retransTimerOn /\ rest # <<>>
           t == [s EXCEPT !.outPkt = rest, !.retransTimerOn = on]
<1>1. Acknowledge(s) = t
  BY DEF Acknowledge
<1>2. s \in Streams /\ s.outPkt \in Seq(Packets)
  BY DEF Sound, Streams
<1>3. /\ rest \in Seq(Packets) /\ (rest # <<>> => s.outPkt # <<>>)
      /\ ToSet(rest) = {p \in ToSet(s.outPkt) : ~IsOldSequence(p.seqno, s.outAcked)}
  BY <1>2, NotBeforeDoes
<1>4. on \in BOOLEAN /\ (rest # <<>> => on)
  BY <1>2, <1>3 DEF Sound, Streams
<1> HIDE DEF rest, on
<1>5. t \in Streams /\ t.outPkt = rest /\ t.retransTimerOn = on
  BY <1>2, <1>3, <1>4 DEF Streams
<1>6. AcknowledgedUpTo(s, t)
  BY <1>2, <1>3 DEF Streams, AcknowledgedUpTo
<1> HIDE DEF t
<1>7. Sound(t)
  BY <1>4, <1>5, <1>6 DEF Sound, AcknowledgedUpTo, QueueIsUsed, Connected
<1>8. QED
  BY <1>1, <1>6, <1>7

(* What retrans does: nothing, or the first packet is sent again, with the  *)
(* acknowledgement of now unless it is a SYN.                               *)
SentAgain(s, t) ==
    /\ Untouched(s, t) /\ t.outSeqno = s.outSeqno
    /\ \/ t.outPkt = s.outPkt /\ t.sent = s.sent
       \/ \E p \in ToSet(s.outPkt), q \in Packets :
            /\ q.syn = p.syn /\ q.fin = p.fin /\ q.ack = p.ack
            /\ q.data = p.data /\ q.seqno = p.seqno
            /\ q.ackno = IF p.syn THEN p.ackno ELSE s.inAckno
            /\ t.sent = s.sent \cup {q}
            /\ ToSet(s.outPkt) \subseteq ToSet(t.outPkt) \cup {p}
            /\ ToSet(t.outPkt) \subseteq ToSet(s.outPkt) \cup {q}
            /\ q \in ToSet(t.outPkt)

\* retrans sends the first packet again, or nothing.
LEMMA RetransDoes ==
    ASSUME NEW s, Sound(s), NEW due \in BOOLEAN
    PROVE  Sound(Retrans(s, due)) /\ SentAgain(s, Retrans(s, due))
<1> DEFINE p == Head(s.outPkt)
           ackno == IF p.syn THEN p.ackno ELSE s.inAckno
           win == InWinSize(s)
           q == [p EXCEPT !.ackno = ackno, !.winsize = win]
           que == <<q>> \o Tail(s.outPkt)
           last == IF p.syn THEN s.lastSentAck ELSE q.ackno
           t == [s EXCEPT !.outPkt = que, !.lastSentAck = last,
                          !.lastSentWinSize = q.winsize, !.sent = s.sent \cup {q}]
<1>1. Retrans(s, due) = IF ~(due /\ s.retransTimerOn) \/ s.outPkt = <<>> THEN s ELSE t
  BY DEF Retrans
<1>2. CASE ~(due /\ s.retransTimerOn) \/ s.outPkt = <<>>
  BY <1>1, <1>2 DEF SentAgain, Untouched
<1>3. CASE due /\ s.retransTimerOn /\ s.outPkt # <<>>
  <2>1. Retrans(s, due) = t
    BY <1>1, <1>3
  <2>2. s \in Streams /\ s.outPkt \in Seq(Packets)
    BY DEF Sound, Streams
  <2>3. /\ p \in Packets /\ Tail(s.outPkt) \in Seq(Packets)
        /\ ToSet(s.outPkt) = {p} \cup ToSet(Tail(s.outPkt))
    BY <1>3, <2>2, ElementsOfTail
  <2> HIDE DEF p
  <2>4. ackno \in Seqno /\ win \in 0..MaxWin
    BY <2>2, <2>3, InWinSizeType DEF Streams, Packets
  <2> HIDE DEF win
  <2>5. /\ q \in Packets /\ q.syn = p.syn /\ q.fin = p.fin /\ q.ack = p.ack
        /\ q.data = p.data /\ q.seqno = p.seqno /\ q.ackno = ackno /\ q.winsize \in 0..MaxWin
    <3> HIDE DEF ackno
    <3>1. QED
      BY <2>3, <2>4 DEF Packets
  <2> HIDE DEF q
  <2>6. /\ que \in Seq(Packets) /\ que # <<>>
        /\ ToSet(que) = {q} \cup ToSet(Tail(s.outPkt))
    BY <1>3, <2>2, <2>5, ElementsOfNewHead
  <2>7. last \in Seqno
    BY <2>2, <2>4, <2>5 DEF Streams
  <2> HIDE DEF que, last
  <2>8. /\ t \in Streams /\ t.outPkt = que /\ t.sent = s.sent \cup {q}
        /\ t.retransTimerOn = s.retransTimerOn /\ t.outSeqno = s.outSeqno
    BY <2>2, <2>5, <2>6, <2>7 DEF Streams
  <2>9. Untouched(s, t)
    BY <2>2 DEF Streams, Untouched
  <2> HIDE DEF t
  <2>10. Sound(t)
    BY <1>3, <2>8, <2>9 DEF Sound, Untouched, QueueIsUsed, Connected
  <2>11. p \in ToSet(s.outPkt)
    BY <2>3
  <2>12. SentAgain(s, t)
    BY <2>3, <2>5, <2>6, <2>8, <2>9, <2>11 DEF SentAgain
  <2>13. QED
    BY <2>1, <2>10, <2>12
<1>4. QED
  BY <1>2, <1>3

(* data is sent, rest is left in inQueue; fin says whether it is a FIN, and *)
(* retrans whether the packet is kept to be sent again.                     *)
Given(s, data, rest, fin, retrans, t) ==
    /\ t.state = s.state /\ t.lives = s.lives
    /\ t.inStreamActive = s.inStreamActive /\ t.outStreamActive = s.outStreamActive
    /\ t.outAcked = s.outAcked /\ t.inAckno = s.inAckno
    /\ t.outQueue = s.outQueue /\ t.inPkt = s.inPkt /\ t.inQueue = rest
    /\ t.outSeqno = (s.outSeqno + Len(data)) % SeqSpace
    /\ t.retransTimerOn = (s.retransTimerOn \/ retrans)
    /\ \E q \in Packets :
         /\ ~q.syn /\ q.fin = fin /\ q.ack /\ q.data = data
         /\ q.seqno = s.outSeqno /\ q.ackno = s.inAckno
         /\ t.outPkt = IF retrans THEN Append(s.outPkt, q) ELSE s.outPkt
         /\ t.sent = s.sent \cup {q}

\* Sending data from the queue.
LEMMA DataSent ==
    ASSUME NEW s \in Streams, NEW data \in Segments, NEW rest \in Seq(Nat),
           NEW fin \in BOOLEAN, NEW retrans \in BOOLEAN, NEW t,
           t = ToSend([s EXCEPT !.inQueue = rest], Packet(FALSE, fin, TRUE, data), retrans)
    PROVE  t \in Streams /\ Given(s, data, rest, fin, retrans, t)
<1> DEFINE r == [s EXCEPT !.inQueue = rest]
           p == Packet(FALSE, fin, TRUE, data)
<1>1. p \in Packets /\ p.syn = FALSE /\ p.fin = fin /\ p.ack = TRUE /\ p.data = data
  <2>1. p \in Packets
    BY PacketType
  <2>2. p.syn = FALSE /\ p.ack = TRUE /\ p.data = data
    BY DEF Packet
  <2>3. p.fin = fin
    BY DEF Packet
  <2>4. QED
    BY <2>1, <2>2, <2>3, Zenon
<1>2. /\ r \in Streams /\ r.state = s.state /\ r.lives = s.lives
      /\ r.inStreamActive = s.inStreamActive /\ r.outStreamActive = s.outStreamActive
      /\ r.outAcked = s.outAcked /\ r.inAckno = s.inAckno /\ r.outQueue = s.outQueue
      /\ r.inPkt = s.inPkt /\ r.inQueue = rest /\ r.outSeqno = s.outSeqno
      /\ r.retransTimerOn = s.retransTimerOn /\ r.outPkt = s.outPkt /\ r.sent = s.sent
  BY DEF Streams
<1> HIDE DEF r, p
<1>3. t = ToSend(r, p, retrans)
  BY DEF r, p
<1>4. t \in Streams /\ Sends(r, p, retrans, t)
  BY <1>1, <1>2, <1>3, ToSendDoes
<1>5. t.outSeqno = (s.outSeqno + Len(data)) % SeqSpace
  <2>1. s.outSeqno \in Int /\ Len(data) \in Nat
    BY SeqnoType DEF Streams, Segments
  <2>2. s.outSeqno + Len(data) + 0 = s.outSeqno + Len(data)
    BY <2>1
  <2>3. t.outSeqno = (s.outSeqno + Len(data) + 0) % SeqSpace
    BY <1>1, <1>2, <1>4 DEF Sends
  <2>4. QED
    BY <2>2, <2>3
<1>6. PICK q \in Packets : /\ Filled(r, p, q)
                           /\ t.outPkt = IF retrans THEN Append(r.outPkt, q) ELSE r.outPkt
                           /\ t.sent = r.sent \cup {q}
  BY <1>4 DEF Sends
<1>7. ~q.syn /\ q.fin = fin /\ q.ack /\ q.data = data /\ q.seqno = s.outSeqno /\ q.ackno = s.inAckno
  BY <1>1, <1>2, <1>6 DEF Filled
<1>8. /\ t.outPkt = IF retrans THEN Append(s.outPkt, q) ELSE s.outPkt
      /\ t.sent = s.sent \cup {q}
  BY <1>2, <1>6
<1>9. t.retransTimerOn = (s.retransTimerOn \/ retrans)
  BY <1>2, <1>4 DEF Sends
<1>10. /\ t.state = s.state /\ t.lives = s.lives
       /\ t.inStreamActive = s.inStreamActive /\ t.outStreamActive = s.outStreamActive
       /\ t.outAcked = s.outAcked /\ t.inAckno = s.inAckno
       /\ t.outQueue = s.outQueue /\ t.inPkt = s.inPkt /\ t.inQueue = rest
  BY <1>2, <1>4 DEF Sends, Untouched
<1>11. QED
  BY <1>4, <1>5, <1>7, <1>8, <1>9, <1>10, Zenon DEF Given

\* Sending keeps a stream sound.
LEMMA GivenSound ==
    ASSUME NEW s, Sound(s), NEW data, NEW rest, NEW fin, NEW retrans \in BOOLEAN,
           NEW t \in Streams, Given(s, data, rest, fin, retrans, t)
    PROVE  Sound(t)
<1>1. t.inPkt = s.inPkt /\ t.state = s.state
  BY DEF Given
<1>2. t.outPkt # <<>> => t.retransTimerOn
  <2>1. CASE retrans
    BY <2>1 DEF Given
  <2>2. CASE ~retrans
    <3>1. t.outPkt = s.outPkt /\ (s.retransTimerOn => t.retransTimerOn)
      BY <2>2 DEF Given
    <3>2. QED
      BY <3>1 DEF Sound
  <2>3. QED
    BY <2>1, <2>2
<1>3. QED
  BY <1>1, <1>2 DEF Sound, QueueIsUsed, Connected

\* A full segment.
LEMMA SendSegmentDoes ==
    ASSUME NEW s \in Streams, MaxSeg <= Len(s.inQueue)
    PROVE  LET data == SubSeq(s.inQueue, 1, MaxSeg)
               rest == SubSeq(s.inQueue, MaxSeg + 1, Len(s.inQueue)) IN
           /\ SendSegment(s) \in Streams
           /\ data \in Segments /\ rest \in Seq(Nat)
           /\ Len(data) = MaxSeg /\ Len(rest) = Len(s.inQueue) - MaxSeg
           /\ Given(s, data, rest, FALSE, TRUE, SendSegment(s))
<1> DEFINE q == s.inQueue
           n == Len(q)
           m == MaxSeg + 1
           data == SubSeq(q, 1, MaxSeg)
           rest == SubSeq(q, m, n)
<1>1. q \in Seq(Nat) /\ n \in Nat /\ \A i \in 1..n : q[i] \in Nat
  BY LenProperties, ElementOfSeq DEF Streams
<1>2. data \in Seq(Nat) /\ Len(data) = MaxSeg
  <2>1. \A i \in 1..MaxSeg : q[i] \in Nat
    BY <1>1, ConstantTypes
  <2>2. Len(data) = IF 1 <= MaxSeg THEN MaxSeg - 1 + 1 ELSE 0
    BY <2>1, ConstantTypes, SubSeqProperties
  <2>3. QED
    BY <2>1, <2>2, ConstantTypes, SubSeqProperties
<1>3. rest \in Seq(Nat) /\ Len(rest) = n - MaxSeg
  <2>1. m \in Int /\ n \in Int /\ \A i \in m..n : q[i] \in Nat
    BY <1>1, ConstantTypes
  <2>2. IF m <= n THEN n - m + 1 = n - MaxSeg ELSE n - MaxSeg = 0
    BY <1>1, ConstantTypes
  <2> HIDE DEF m, n
  <2>3. rest \in Seq(Nat) /\ Len(rest) = IF m <= n THEN n - m + 1 ELSE 0
    BY <2>1, SubSeqProperties
  <2>4. QED
    BY <2>2, <2>3
<1>4. SendSegment(s) = ToSend([s EXCEPT !.inQueue = rest], Packet(FALSE, FALSE, TRUE, data), TRUE)
  BY DEF SendSegment
<1>5. data \in Segments
  BY <1>2, ConstantTypes DEF Segments
<1> HIDE DEF data, rest
<1>6. SendSegment(s) \in Streams /\ Given(s, data, rest, FALSE, TRUE, SendSegment(s))
  BY <1>3, <1>4, <1>5, DataSent
<1>7. QED
  BY <1>2, <1>3, <1>5, <1>6 DEF data, rest

(* What sending one segment keeps, a full one or the rest of the queue,     *)
(* send keeps.                                                              *)
LEMMA SendDataKeeps ==
    ASSUME NEW T \in SUBSET Streams, NEW s \in T, NEW congestWinSize,
           \A x \in T : MaxSeg <= Len(x.inQueue) => SendSegment(x) \in T,
           \A x \in T : \A t \in Streams :
               x.inQueue \in Segments /\ Given(x, x.inQueue, <<>>, FALSE, TRUE, t) => t \in T,
           MaxSend(s, congestWinSize) \in Nat
    PROVE  SendData(s, congestWinSize) \in T
<1> DEFINE room == MaxSend(s, congestWinSize)
           full == Len(s.inQueue) \div MaxSeg
           n == IF full <= room \div MaxSeg THEN full ELSE room \div MaxSeg
           rem == Len(s.inQueue) % MaxSeg
           IsRun(f) == f = [i \in 0..n |-> IF i = 0 THEN s ELSE SendSegment(f[i - 1])]
           u == CHOOSE f : IsRun(f)
           t == ToSend([s EXCEPT !.inQueue = <<>>], Packet(FALSE, FALSE, TRUE, s.inQueue), TRUE)
<1>1. SendData(s, congestWinSize) =
        CASE n > 0 -> u[n]
          [] n = 0 /\ full = 0 /\ rem > 0 /\ rem <= room -> t
          [] OTHER -> s
  BY DEF SendData
<1>2. Len(s.inQueue) \in Nat /\ s.inQueue \in Seq(Nat) /\ s \in Streams
  BY LenProperties DEF Streams
<1>3. full \in Nat /\ full * MaxSeg <= Len(s.inQueue) /\ Len(s.inQueue) < full * MaxSeg + MaxSeg
  <2> DEFINE a == Len(s.inQueue)
             b == a \div MaxSeg
  <2>1. a \in Nat /\ MaxSeg \in Nat \ {0}
    BY <1>2, ConstantTypes
  <2> HIDE DEF a
  <2>2. b \in Nat /\ b * MaxSeg <= a /\ a < b * MaxSeg + MaxSeg
    BY <2>1
  <2> HIDE DEF b
  <2>3. QED
    BY <2>2 DEF a, b
<1>4. n \in Nat /\ n <= full
  <2> DEFINE c == room \div MaxSeg
  <2>1. c \in Nat
    BY ConstantTypes
  <2> HIDE DEF c
  <2>2. QED
    BY <1>3, <2>1 DEF c
<1>5. ASSUME n > 0 PROVE u[n] \in T
  <2> HIDE DEF n, full, rem, t, room
  <2> DEFINE Step(x) == IF MaxSeg <= Len(x.inQueue) THEN SendSegment(x) ELSE x
             F == [x \in (1..n) \X T |-> Step(x[2])]
             Left(i) == Len(s.inQueue) - i * MaxSeg
  <2>1. F \in [(1..n) \X T -> T]
    <3>1. \A x \in T : Step(x) \in T
      OBVIOUS
    <3> HIDE DEF Step
    <3>2. QED
      BY <3>1
  <2>2. ASSUME NEW i \in Nat, i < n PROVE Left(i) >= MaxSeg /\ Left(i + 1) = Left(i) - MaxSeg
    <3>5. ASSUME NEW a \in Nat, NEW b \in Nat, a <= b PROVE a * MaxSeg <= b * MaxSeg
      <4>1. b * MaxSeg = a * MaxSeg + (b - a) * MaxSeg /\ (b - a) * MaxSeg \in Nat
        BY <3>5, ConstantTypes
      <4>2. a * MaxSeg \in Nat /\ b * MaxSeg \in Nat
        BY ConstantTypes
      <4>3. QED
        BY <4>1, <4>2
    <3>1. (i + 1) * MaxSeg <= n * MaxSeg /\ n * MaxSeg <= full * MaxSeg
      <4>1. i + 1 \in Nat /\ i + 1 <= n
        BY <1>4, <2>2
      <4>2. QED
        BY <1>3, <1>4, <3>5, <4>1
    <3>2. (i + 1) * MaxSeg = i * MaxSeg + MaxSeg /\ i * MaxSeg \in Nat
      BY <2>2, ConstantTypes
    <3>3. n * MaxSeg \in Nat /\ full * MaxSeg \in Nat
      BY <1>3, <1>4, ConstantTypes
    <3> DEFINE a == i * MaxSeg
               b == (i + 1) * MaxSeg
               c == n * MaxSeg
               d == full * MaxSeg
               l == Len(s.inQueue)
    <3>6. /\ a \in Nat /\ b = a + MaxSeg /\ b <= c /\ c <= d /\ d <= l
          /\ c \in Nat /\ d \in Nat /\ l \in Nat /\ MaxSeg \in Nat
      BY <1>2, <1>3, <3>1, <3>2, <3>3, ConstantTypes
    <3>7. Left(i) = l - a /\ Left(i + 1) = l - b
      OBVIOUS
    <3> HIDE DEF a, b, c, d, l, Left
    <3>4. QED
      BY <3>6, <3>7
  <2>3. ASSUME NEW x \in T, NEW i \in Nat, i < n, Len(x.inQueue) = Left(i)
        PROVE  /\ Step(x) = SendSegment(x) /\ Step(x) \in T
               /\ Len(Step(x).inQueue) = Left(i + 1)
    <3>1. MaxSeg <= Len(x.inQueue) /\ x \in Streams
      BY <2>2, <2>3, <1>2, ConstantTypes
    <3>2. Step(x) = SendSegment(x) /\ SendSegment(x) \in T
      BY <3>1
    <3>3. Len(SendSegment(x).inQueue) = Len(x.inQueue) - MaxSeg
      BY <3>1, SendSegmentDoes DEF Given
    <3> HIDE DEF Step, Left
    <3>4. QED
      BY <2>2, <2>3, <3>2, <3>3
  <2> HIDE DEF F
  <2>4. PICK f : Run(f, n, T, s, F)
    BY <1>4, <2>1, Iterated
  <2>5. f \in [0..n -> T] /\ f[0] = s /\ \A i \in 1..n : f[i] = F[<<i, f[i - 1]>>]
    BY <2>4 DEF Run
  <2>6. ASSUME NEW i \in Nat, i < n PROVE i + 1 \in 1..n /\ i \in 0..n /\ f[i + 1] = Step(f[i])
    <3>1. i + 1 \in 1..n /\ i \in 0..n /\ (i + 1) - 1 = i
      BY <1>4, <2>6
    <3>2. f[i] \in T /\ f[i + 1] = F[<<i + 1, f[i]>>]
      BY <2>5, <3>1
    <3>3. <<i + 1, f[i]>> \in (1..n) \X T
      BY <3>1, <3>2
    <3> HIDE DEF Step
    <3>4. QED
      BY <3>1, <3>2, <3>3 DEF F
  <2>7. ASSUME NEW i \in 0..n PROVE Len(f[i].inQueue) = Left(i)
    <3> DEFINE G == {k \in 0..n : Len(f[k].inQueue) = Left(k)}
    <3>1. 0 \in G
      <4>1. 0 * MaxSeg = 0
        BY ConstantTypes
      <4>2. QED
        BY <1>2, <1>4, <2>5, <4>1
    <3>2. ASSUME NEW k \in Nat, k < n, k \in G PROVE k + 1 \in G
      <4>1. f[k] \in T /\ Len(f[k].inQueue) = Left(k) /\ k + 1 \in 0..n
        BY <1>4, <2>5, <3>2
      <4> HIDE DEF Step, Left
      <4>2. f[k + 1] = Step(f[k]) /\ Len(Step(f[k]).inQueue) = Left(k + 1)
        BY <2>3, <2>6, <3>2, <4>1
      <4>3. QED
        BY <4>1, <4>2
    <3> HIDE DEF G
    <3>3. \A k \in 0..n : k \in G
      BY <1>4, <3>1, <3>2, UpToBound
    <3>4. QED
      BY <3>3 DEF G
  <2> HIDE DEF Step, Left
  <2>8. ASSUME NEW i \in 0..n, i # 0 PROVE f[i] = SendSegment(f[i - 1])
    <3> DEFINE k == i - 1
    <3>1. k \in Nat /\ k < n /\ k + 1 = i /\ k \in 0..n
      BY <1>4, <2>8
    <3> HIDE DEF k
    <3>2. f[k + 1] = Step(f[k]) /\ f[k] \in T /\ Len(f[k].inQueue) = Left(k)
      BY <2>5, <2>6, <2>7, <3>1
    <3>3. f[k + 1] = SendSegment(f[k])
      BY <2>3, <3>1, <3>2
    <3>4. QED
      BY <3>1, <3>3 DEF k
  <2>9. IsRun(f)
    BY <2>5, <2>8
  <2>10. IsRun(u)
    <3> HIDE DEF IsRun
    <3>1. QED
      BY <2>9
  <2> HIDE DEF u
  <2>11. u[0] = s /\ \A i \in 0..n : i # 0 => u[i] = SendSegment(u[i - 1])
    BY <1>4, <2>10
  <2>12. ASSUME NEW i \in 0..n PROVE u[i] = f[i]
    <3> DEFINE G == {k \in 0..n : u[k] = f[k]}
    <3>1. 0 \in G
      BY <1>4, <2>5, <2>11
    <3>2. ASSUME NEW k \in Nat, k < n, k \in G PROVE k + 1 \in G
      <4>1. k + 1 \in 0..n /\ k + 1 # 0 /\ (k + 1) - 1 = k /\ u[k] = f[k]
        BY <1>4, <3>2
      <4>2. u[k + 1] = SendSegment(u[k]) /\ f[k + 1] = SendSegment(f[k])
        BY <2>8, <2>11, <4>1
      <4>3. QED
        BY <4>1, <4>2
    <3> HIDE DEF G
    <3>3. \A k \in 0..n : k \in G
      BY <1>4, <3>1, <3>2, UpToBound
    <3>4. QED
      BY <3>3 DEF G
  <2>13. n \in 0..n
    BY <1>4
  <2>14. QED
    BY <2>5, <2>12, <2>13
<1>6. ASSUME n = 0, full = 0 PROVE t \in T
  <2>1. Len(s.inQueue) <= MaxSeg
    <3>1. full * MaxSeg = 0
      <4> HIDE DEF full, n, rem, room, u, t
      <4>1. full = 0 /\ MaxSeg \in Nat
        BY <1>6, ConstantTypes
      <4>2. 0 * MaxSeg = 0
        BY <4>1
      <4>3. QED
        BY <4>1, <4>2
    <3> DEFINE d == full * MaxSeg
    <3>2. d = 0 /\ Len(s.inQueue) < d + MaxSeg
      <4> HIDE DEF full, n, rem, room, u, t
      <4>1. QED
        BY <1>3, <3>1
    <3> HIDE DEF d
    <3>3. QED
      BY <1>2, <3>2, ConstantTypes
  <2>2. s.inQueue \in Segments /\ <<>> \in Seq(Nat)
    BY <1>2, <2>1 DEF Segments
  <2> HIDE DEF t
  <2>3. t \in Streams /\ Given(s, s.inQueue, <<>>, FALSE, TRUE, t)
    BY <1>2, <2>2, DataSent DEF t
  <2>4. QED
    BY <2>2, <2>3
<1> HIDE DEF n, full, rem, room, u, t
<1>7. QED
  BY <1>1, <1>5, <1>6

\* What the window leaves is a number.
LEMMA MaxSendType ==
    ASSUME NEW s \in Streams, NEW congestWinSize \in MaxSeg..MaxWin
    PROVE  MaxSend(s, congestWinSize) \in Nat
<1>1. s.outSeqno \in Nat /\ s.outAcked \in Nat /\ s.outWinSize \in Nat
  BY SeqnoType, ConstantTypes DEF Streams
<1>2. congestWinSize \in Int /\ SeqSpace \in Nat
  BY ConstantTypes
<1> DEFINE inTransit == IF s.outSeqno < s.outAcked THEN (SeqSpace - 1 - s.outAcked) + s.outSeqno
                        ELSE s.outSeqno - s.outAcked
           win == IF s.outWinSize < congestWinSize THEN s.outWinSize ELSE congestWinSize
<1>3. inTransit \in Int /\ win \in Int
  BY <1>1, <1>2
<1>4. MaxSend(s, congestWinSize) = IF win > inTransit THEN win - inTransit ELSE 0
  BY DEF MaxSend
<1> HIDE DEF inTransit, win
<1>5. QED
  BY <1>3, <1>4

\* What a tick sends when there are no data to send.
ControlSent(s, t) ==
    \/ t = s
    \/ t = SendAck(s)
    \/ \E r \in Streams :
         /\ ~s.outStreamActive /\ s.inQueue = <<>>
         /\ s.state \in {"established", "close_wait"}
         /\ Given(s, <<>>, <<>>, TRUE, FALSE, r)
         /\ \E x \in {"fin_wait_1", "last_ack"} : t = [r EXCEPT !.state = x]

\* At the end of send: a FIN, an acknowledgement, or nothing.
LEMMA SendControlDoes ==
    ASSUME NEW s \in Streams, NEW keepAlive
    PROVE  ControlSent(s, SendControl(s, keepAlive)) /\ SendControl(s, keepAlive) \in Streams
<1> DEFINE r == ToSend(s, Packet(FALSE, TRUE, TRUE, <<>>), FALSE)
           c == ~s.outStreamActive /\ s.inQueue = <<>>
           needsAck == \/ IsOldSequence(s.lastSentAck, s.inAckno)
                       \/ s.lastSentWinSize < MaxSeg /\ InWinSize(s) > MaxSeg
                       \/ keepAlive
           t == SendControl(s, keepAlive)
<1>1. t = CASE c /\ s.state = "established" -> [r EXCEPT !.state = "fin_wait_1"]
            [] c /\ s.state = "close_wait" -> [r EXCEPT !.state = "last_ack"]
            [] OTHER -> IF needsAck THEN SendAck(s) ELSE s
  BY DEF SendControl
<1>2. ASSUME c PROVE r \in Streams /\ Given(s, <<>>, <<>>, TRUE, FALSE, r)
  <2>1. s = [s EXCEPT !.inQueue = <<>>]
    BY <1>2 DEF Streams
  <2> DEFINE x == [s EXCEPT !.inQueue = <<>>]
  <2>2. r = ToSend(x, Packet(FALSE, TRUE, TRUE, <<>>), FALSE)
    <3> HIDE DEF x
    <3>1. s = x
      BY <2>1 DEF x
    <3>2. QED
      BY <3>1
  <2> HIDE DEF r
  <2>3. \A d \in Segments, q \in Seq(Nat) :
          r = ToSend([s EXCEPT !.inQueue = q], Packet(FALSE, TRUE, TRUE, d), FALSE) =>
              r \in Streams /\ Given(s, d, q, TRUE, FALSE, r)
    <3> HIDE DEF x
    <3>1. QED
      BY DataSent
  <2>4. <<>> \in Segments /\ <<>> \in Seq(Nat)
    BY EmptySegment
  <2>5. QED
    BY <2>2, <2>3, <2>4
<1>3. ASSUME NEW st \in {"fin_wait_1", "last_ack"}, c PROVE [r EXCEPT !.state = st] \in Streams
  <2> HIDE DEF r
  <2>1. st \in TcpStates
    BY DEF TcpStates
  <2>2. QED
    BY <1>2, <1>3, <2>1 DEF Streams
<1> HIDE DEF r, needsAck, t
<1>4. CASE c /\ s.state = "established"
  <2>1. t = [r EXCEPT !.state = "fin_wait_1"]
    BY <1>1, <1>4
  <2>2. QED
    BY <1>2, <1>3, <1>4, <2>1 DEF ControlSent, t
<1>5. CASE c /\ s.state = "close_wait"
  <2>1. t = [r EXCEPT !.state = "last_ack"]
    BY <1>1, <1>5
  <2>2. QED
    BY <1>2, <1>3, <1>5, <2>1 DEF ControlSent, t
<1>6. CASE ~(c /\ s.state = "established") /\ ~(c /\ s.state = "close_wait")
  <2>1. t = SendAck(s) \/ t = s
    BY <1>1, <1>6
  <2>2. SendAck(s) \in Streams
    BY SendAckDoes
  <2>3. QED
    BY <2>1, <2>2 DEF ControlSent, t
<1>7. QED
  BY <1>4, <1>5, <1>6

\* Sending an acknowledgement keeps a stream sound.
LEMMA SendAckSound ==
    ASSUME NEW s, Sound(s)
    PROVE  Sound(SendAck(s))
BY SendAckDoes DEF Sound, Untouched, QueueIsUsed, Connected

\* It begins no other life.
LEMMA SendAckLives ==
    ASSUME NEW s, Sound(s)
    PROVE  SendAck(s).lives = s.lives
BY SendAckDoes DEF Sound, Untouched

\* A tick keeps a stream sound.
LEMMA SendSound ==
    ASSUME NEW s, Sound(s), NEW congestWinSize \in MaxSeg..MaxWin, NEW due \in BOOLEAN,
           NEW keepAlive
    PROVE  /\ Sound(Send(s, congestWinSize, due, keepAlive))
           /\ Send(s, congestWinSize, due, keepAlive).lives = s.lives
<1> DEFINE a == Acknowledge(s)
           t == Retrans(a, due)
           u == SendData(t, congestWinSize)
           v == SendControl(t, keepAlive)
<1>1. Send(s, congestWinSize, due, keepAlive) =
        IF ~Connected(t) THEN t ELSE IF u # t THEN u ELSE v
  BY DEF Send
<1>2. Sound(a) /\ a.lives = s.lives
  BY AcknowledgeDoes DEF AcknowledgedUpTo
<1> HIDE DEF a
<1>3. Sound(t) /\ t.lives = s.lives
  BY <1>2, RetransDoes DEF SentAgain, Untouched
<1> HIDE DEF t
<1>4. Sound(u) /\ u.lives = s.lives
  <2> DEFINE T == {x \in Streams : Sound(x) /\ x.lives = s.lives}
  <2>1. T \in SUBSET Streams /\ t \in T
    BY <1>3 DEF Sound
  <2>2. ASSUME NEW x \in T, MaxSeg <= Len(x.inQueue) PROVE SendSegment(x) \in T
    <3>1. SendSegment(x) \in Streams /\ Sound(SendSegment(x))
      BY <2>2, SendSegmentDoes, GivenSound
    <3>2. SendSegment(x).lives = x.lives
      BY <2>2, SendSegmentDoes DEF Given
    <3>3. QED
      BY <3>1, <3>2
  <2>3. ASSUME NEW x \in T, NEW y \in Streams, x.inQueue \in Segments,
               Given(x, x.inQueue, <<>>, FALSE, TRUE, y)
        PROVE  y \in T
    BY <2>3, GivenSound DEF Given
  <2>4. MaxSend(t, congestWinSize) \in Nat
    BY <2>1, MaxSendType
  <2> HIDE DEF T
  <2>5. u \in T
    BY <2>1, <2>2, <2>3, <2>4, SendDataKeeps
  <2>6. QED
    BY <2>5 DEF T
<1>5. Sound(v) /\ v.lives = s.lives
  <2>1. t \in Streams
    BY <1>3 DEF Sound
  <2>2. ControlSent(t, v) /\ v \in Streams
    BY <2>1, SendControlDoes
  <2> HIDE DEF v
  <2>3. ASSUME NEW r \in Streams, Given(t, <<>>, <<>>, TRUE, FALSE, r),
               t.state \in {"established", "close_wait"},
               NEW x \in {"fin_wait_1", "last_ack"}, v = [r EXCEPT !.state = x]
        PROVE  Sound(v) /\ v.lives = s.lives
    <3>1. Sound(r) /\ r.lives = t.lives
      BY <1>3, <2>3, GivenSound DEF Given
    <3>2. v.state = x /\ v.inPkt = r.inPkt /\ v.outPkt = r.outPkt
          /\ v.retransTimerOn = r.retransTimerOn /\ v.lives = r.lives
      BY <2>3 DEF Streams
    <3>3. QED
      BY <1>3, <2>2, <3>1, <3>2 DEF Sound, QueueIsUsed, Connected
  <2>4. QED
    BY <1>3, <2>2, <2>3, SendAckSound, SendAckLives DEF ControlSent
<1>6. QED
  BY <1>1, <1>3, <1>4, <1>5


-----------------------------------------------------------------------------
(* Every step of the two streams.                                          *)

\* The types of the variables; every stream is sound, and has sent what it had to send.
TypesOK ==
    /\ stream \in [Ends -> Streams] /\ net \in [Ends -> SUBSET Packets]
    /\ written \in [Ends -> Nat] /\ got \in [Ends -> Seq(Nat)]
    /\ \A e \in Ends : Sound(stream[e]) /\ stream[e].sent = {} /\ written[e] <= Total[e]

\* What Commit does to the streams and to the network.
Committed(e, s, under, arriving) ==
    /\ arriving \subseteq s.sent
    /\ stream' = [stream EXCEPT ![e] = [s EXCEPT !.sent = {}]]
    /\ net' = [under EXCEPT ![Peer(e)] = @ \cup arriving]

\* A sound stream is committed.
LEMMA CommitTypes ==
    ASSUME TypesOK, NEW e \in Ends, NEW s, Sound(s),
           NEW under \in [Ends -> SUBSET Packets], Commit(e, s, under),
           UNCHANGED <<written, got>>
    PROVE  TypesOK' /\ \E arriving : Committed(e, s, under, arriving)
<1>1. PICK arriving \in SUBSET s.sent : net' = [under EXCEPT ![Peer(e)] = @ \cup arriving]
  BY DEF Commit
<1>2. stream' = [stream EXCEPT ![e] = [s EXCEPT !.sent = {}]]
  BY DEF Commit
<1>3. s \in Streams /\ s.sent \subseteq Packets
  BY DEF Sound, Streams
<1> DEFINE t == [s EXCEPT !.sent = {}]
<1>4. t \in Streams /\ t.sent = {} /\ t.state = s.state /\ t.inPkt = s.inPkt
      /\ t.outPkt = s.outPkt /\ t.retransTimerOn = s.retransTimerOn
  BY <1>3 DEF Streams
<1> HIDE DEF t
<1>5. Sound(t)
  BY <1>4 DEF Sound, QueueIsUsed, Connected
<1>6. written' = written /\ got' = got
  OBVIOUS
<1>7. net' \in [Ends -> SUBSET Packets]
  BY <1>1, <1>3, PeerIsOther
<1>8. stream' \in [Ends -> Streams] /\ \A f \in Ends : Sound(stream'[f]) /\ stream'[f].sent = {}
  BY <1>2, <1>4, <1>5 DEF TypesOK, t
<1>9. TypesOK'
  BY <1>6, <1>7, <1>8 DEF TypesOK
<1>10. Committed(e, s, under, arriving)
  BY <1>1, <1>2 DEF Committed
<1>11. QED
  BY <1>9, <1>10

\* The stream once connect has sent the SYN.
Connects(e, s) ==
    [ToSend(Opened(e, s), Packet(TRUE, FALSE, FALSE, <<>>), TRUE) EXCEPT !.state = "syn_sent"]

\* What connect does: a SYN that acknowledges nothing is sent and kept.
LEMMA ConnectsDoes ==
    ASSUME NEW e \in Ends, NEW s, Sound(s), s.state = "closed", Openable(e, s)
    PROVE  LET t == Connects(e, s) IN
           /\ Sound(t) /\ t.state = "syn_sent" /\ t.lives = s.lives + 1
           /\ t.inQueue = s.inQueue /\ t.outQueue = s.outQueue /\ t.inPkt = s.inPkt
           /\ t.outSeqno = (Isn[e][t.lives] + 1) % SeqSpace
           /\ \E q \in Packets :
                /\ q.syn /\ ~q.fin /\ ~q.ack /\ q.data = <<>> /\ q.seqno = Isn[e][t.lives]
                /\ t.outPkt = Append(s.outPkt, q) /\ t.sent = s.sent \cup {q}
<1> DEFINE new == Opened(e, s)
           p == Packet(TRUE, FALSE, FALSE, <<>>)
           isn == Isn[e][s.lives + 1]
           x == ToSend(new, p, TRUE)
           t == Connects(e, s)
<1>1. /\ p \in Packets /\ p.syn = TRUE /\ p.fin = FALSE /\ p.ack = FALSE /\ p.data = <<>>
      /\ Len(p.data) = 0
  BY EmptySegment, PacketType
<1>2. /\ new \in Streams /\ new.inQueue = s.inQueue /\ new.outQueue = s.outQueue
      /\ new.inPkt = s.inPkt /\ new.outPkt = s.outPkt /\ new.sent = s.sent
      /\ new.outSeqno = isn /\ isn \in Int /\ new.lives = s.lives + 1
  <2>1. s \in Streams /\ s.lives < Len(Isn[e])
    BY DEF Sound, Openable
  <2>2. QED
    BY <2>1, OpenedDoes
<1> HIDE DEF new, p, isn
<1>3. x \in Streams /\ Sends(new, p, TRUE, x)
  BY <1>1, <1>2, ToSendDoes
<1>4. t = [x EXCEPT !.state = "syn_sent"]
  BY DEF Connects, new, p
<1> HIDE DEF x
<1>5. PICK q \in Packets : /\ Filled(new, p, q) /\ x.outPkt = Append(new.outPkt, q)
                           /\ x.sent = new.sent \cup {q}
  BY <1>3 DEF Sends
<1>6. q.syn /\ ~q.fin /\ ~q.ack /\ q.data = <<>> /\ q.seqno = isn
  BY <1>1, <1>2, <1>5 DEF Filled
<1>8. x.outSeqno = (isn + 1) % SeqSpace
  <2>1. isn + 0 + 1 = isn + 1
    BY <1>2
  <2>2. x.outSeqno = (isn + 0 + 1) % SeqSpace
    BY <1>1, <1>2, <1>3 DEF Sends
  <2>3. QED
    BY <2>1, <2>2
<1>9. /\ x.inQueue = s.inQueue /\ x.outQueue = s.outQueue /\ x.inPkt = s.inPkt
      /\ x.lives = s.lives + 1 /\ x.retransTimerOn
  BY <1>2, <1>3 DEF Sends, Untouched
<1> HIDE DEF t
<1>10. /\ t \in Streams /\ t.state = "syn_sent" /\ t.lives = x.lives /\ t.inQueue = x.inQueue
       /\ t.outQueue = x.outQueue /\ t.inPkt = x.inPkt /\ t.outSeqno = x.outSeqno
       /\ t.outPkt = x.outPkt /\ t.sent = x.sent /\ t.retransTimerOn = x.retransTimerOn
  <2>1. "syn_sent" \in TcpStates
    BY DEF TcpStates
  <2>2. QED
    BY <1>3, <1>4, <2>1 DEF Streams
<1>11. Sound(t)
  <2>1. s.inPkt = <<>> /\ Len(s.inPkt) <= MaxInPkt
    BY DEF Sound, QueueIsUsed, Connected
  <2>2. QED
    BY <1>9, <1>10, <2>1 DEF Sound, QueueIsUsed
<1>7. isn = Isn[e][t.lives] /\ t.lives = s.lives + 1
  BY <1>9, <1>10 DEF isn
<1>12. /\ q.seqno = Isn[e][t.lives] /\ t.outSeqno = (Isn[e][t.lives] + 1) % SeqSpace
       /\ t.outPkt = Append(s.outPkt, q) /\ t.sent = s.sent \cup {q}
  BY <1>2, <1>5, <1>6, <1>7, <1>8, <1>10
<1>13. QED
  BY <1>6, <1>7, <1>9, <1>10, <1>11, <1>12 DEF t

\* At the beginning.
LEMMA TypesInit == Init => TypesOK
<1> SUFFICES ASSUME Init PROVE TypesOK
  OBVIOUS
<1>1. Sound(Fresh) /\ Fresh \in Streams /\ Fresh.sent = {}
  <2>1. 0 \in Seqno /\ 0 \in 0..MaxWin /\ "closed" \in TcpStates
    BY ConstantTypes DEF Seqno, TcpStates
  <2>2. <<>> \in Seq(Nat) /\ <<>> \in Seq(Packets)
    OBVIOUS
  <2>3. Fresh \in Streams /\ Fresh.sent = {} /\ Fresh.inPkt = <<>> /\ Fresh.outPkt = <<>>
    BY <2>1, <2>2 DEF Fresh, Streams
  <2>4. Len(Fresh.inPkt) = 0
    BY <2>3
  <2>5. QED
    BY <2>3, <2>4, ConstantTypes DEF Sound, QueueIsUsed
<1>2. <<>> \in Seq(Nat) /\ {} \in SUBSET Packets /\ 0 \in Nat
  OBVIOUS
<1>3. \A e \in Ends : 0 <= Total[e]
  BY ConstantTypes
<1> HIDE DEF Fresh
<1>4. QED
  BY <1>1, <1>2, <1>3 DEF Init, TypesOK

\* The stream of e after a write of n bytes.
Writes(s, w, n) == [s EXCEPT !.inQueue = @ \o [i \in 1..n |-> w + i]]

\* The stream of e after a read of n bytes.
Reads(s, n) == [s EXCEPT !.outQueue = SubSeq(@, n + 1, Len(@))]

\* What write does to the stream: the new bytes are put behind the others.
LEMMA WritesDoes ==
    ASSUME NEW s, Sound(s), NEW w \in Nat, NEW n \in Nat
    PROVE  LET t == Writes(s, w, n) IN
           /\ Sound(t) /\ Untouched([s EXCEPT !.inQueue = t.inQueue], t)
           /\ t.inQueue = s.inQueue \o Numbers(w, n)
           /\ t.outSeqno = s.outSeqno /\ t.outPkt = s.outPkt /\ t.sent = s.sent
<1> DEFINE q == s.inQueue \o [i \in 1..n |-> w + i]
           t == Writes(s, w, n)
<1>1. s \in Streams /\ s.inQueue \in Seq(Nat)
  BY DEF Sound, Streams
<1>2. q = s.inQueue \o Numbers(w, n)
  BY DEF Numbers
<1>3. q \in Seq(Nat)
  <2>1. Numbers(w, n) \in Seq(Nat)
    BY NumbersType
  <2> HIDE DEF q
  <2>2. QED
    BY <1>1, <1>2, <2>1, ConcatProperties
<1>4. t = [s EXCEPT !.inQueue = q]
  BY DEF Writes
<1> HIDE DEF q, t
<1>5. /\ t \in Streams /\ Untouched([s EXCEPT !.inQueue = q], t) /\ t.inQueue = q
      /\ t.outSeqno = s.outSeqno /\ t.outPkt = s.outPkt /\ t.sent = s.sent
      /\ t.state = s.state /\ t.inPkt = s.inPkt /\ t.retransTimerOn = s.retransTimerOn
  BY <1>1, <1>3, <1>4 DEF Streams, Untouched
<1>6. Sound(t)
  BY <1>5 DEF Sound, QueueIsUsed, Connected
<1>7. QED
  BY <1>2, <1>5, <1>6 DEF t

\* What read does to the stream: the first bytes are taken out.
LEMMA ReadsDoes ==
    ASSUME NEW s, Sound(s), NEW n \in Nat, n <= Len(s.outQueue)
    PROVE  LET t == Reads(s, n) IN
           /\ Sound(t) /\ Untouched([s EXCEPT !.outQueue = t.outQueue], t)
           /\ SubSeq(s.outQueue, 1, n) \in Seq(Nat)
           /\ SubSeq(s.outQueue, 1, n) \o t.outQueue = s.outQueue
           /\ t.outSeqno = s.outSeqno /\ t.outPkt = s.outPkt /\ t.sent = s.sent
<1> DEFINE o == s.outQueue
           l == Len(o)
           m == n + 1
           a == SubSeq(o, 1, n)
           q == SubSeq(o, m, l)
           t == Reads(s, n)
<1>1. s \in Streams /\ o \in Seq(Nat) /\ l \in Nat /\ \A i \in 1..l : o[i] \in Nat
  BY LenProperties, ElementOfSeq DEF Sound, Streams
<1>2. a \in Seq(Nat) /\ Len(a) = n /\ \A i \in 1..n : a[i] = o[i]
  <2>1. \A i \in 1..n : o[i] \in Nat
    BY <1>1
  <2>2. /\ Len(a) = IF 1 <= n THEN n - 1 + 1 ELSE 0
        /\ a \in Seq(Nat) /\ \A i \in 1 .. n - 1 + 1 : a[i] = o[1 + i - 1]
    BY <2>1, SubSeqProperties
  <2>3. QED
    BY <2>2
<1>3. q \in Seq(Nat) /\ Len(q) = l - n /\ \A i \in 1 .. l - n : q[i] = o[n + i]
  <2>1. m \in Int /\ l \in Int /\ \A i \in m..l : o[i] \in Nat
    BY <1>1
  <2>2. l - m + 1 = l - n /\ IF m <= l THEN TRUE ELSE l - n = 0
    BY <1>1
  <2>3. \A i \in 1 .. l - n : m + i - 1 = n + i
    OBVIOUS
  <2> HIDE DEF m, l
  <2>4. /\ q \in Seq(Nat) /\ Len(q) = IF m <= l THEN l - m + 1 ELSE 0
        /\ \A i \in 1 .. l - m + 1 : q[i] = o[m + i - 1]
    BY <2>1, SubSeqProperties
  <2>5. QED
    BY <2>2, <2>3, <2>4
<1>4. t = [s EXCEPT !.outQueue = q]
  BY DEF Reads
<1> HIDE DEF a, q, t, o, l
<1>5. a \o q = o
  <2>1. /\ a \o q \in Seq(Nat) /\ Len(a \o q) = n + (l - n)
        /\ \A i \in 1 .. n + (l - n) : (a \o q)[i] = IF i <= n THEN a[i] ELSE q[i - n]
    <3>1. /\ a \o q \in Seq(Nat) /\ Len(a \o q) = Len(a) + Len(q)
          /\ \A i \in 1 .. Len(a) + Len(q) :
               (a \o q)[i] = IF i <= Len(a) THEN a[i] ELSE q[i - Len(a)]
      <4>1. a \in Seq(Nat) /\ q \in Seq(Nat)
        BY <1>2, <1>3
      <4>2. QED
        BY <4>1, ConcatProperties
    <3>2. QED
      BY <1>2, <1>3, <3>1
  <2>2. n + (l - n) = l
    BY <1>1
  <2>3. ASSUME NEW i \in 1..l PROVE (a \o q)[i] = o[i]
    <3>1. CASE i <= n
      BY <1>2, <2>1, <2>2, <3>1
    <3>2. CASE ~(i <= n)
      <4>1. i - n \in 1 .. l - n /\ n + (i - n) = i
        BY <1>1, <3>2
      <4>2. q[i - n] = o[n + (i - n)]
        BY <1>3, <4>1
      <4>3. QED
        BY <2>1, <2>2, <3>2, <4>1, <4>2
    <3>3. QED
      BY <3>1, <3>2
  <2>4. QED
    BY <1>1, <2>1, <2>2, <2>3, SeqEqual DEF l
<1>6. /\ t \in Streams /\ Untouched([s EXCEPT !.outQueue = q], t) /\ t.outQueue = q
      /\ t.outSeqno = s.outSeqno /\ t.outPkt = s.outPkt /\ t.sent = s.sent
      /\ t.state = s.state /\ t.inPkt = s.inPkt /\ t.retransTimerOn = s.retransTimerOn
  BY <1>1, <1>3, <1>4 DEF Streams, Untouched
<1>7. Sound(t)
  BY <1>6 DEF Sound, QueueIsUsed, Connected
<1>8. QED
  BY <1>2, <1>5, <1>6, <1>7 DEF t, a, o

\* The stream of a user who closes his half of it.
Closes(s) == [s EXCEPT !.outStreamActive = FALSE]

\* What closeWrite does to the stream.
LEMMA ClosesDoes ==
    ASSUME NEW s, Sound(s)
    PROVE  LET t == Closes(s) IN
           /\ Sound(t) /\ Untouched([s EXCEPT !.outStreamActive = FALSE], t)
           /\ t.outSeqno = s.outSeqno /\ t.outPkt = s.outPkt /\ t.sent = s.sent
<1> DEFINE t == Closes(s)
<1>1. s \in Streams
  BY DEF Sound
<1>2. /\ t \in Streams /\ Untouched([s EXCEPT !.outStreamActive = FALSE], t)
      /\ t.outSeqno = s.outSeqno /\ t.outPkt = s.outPkt /\ t.sent = s.sent
      /\ t.state = s.state /\ t.inPkt = s.inPkt /\ t.retransTimerOn = s.retransTimerOn
  BY <1>1 DEF Streams, Untouched, Closes
<1> HIDE DEF t
<1>3. Sound(t)
  BY <1>2 DEF Sound, QueueIsUsed, Connected
<1>4. QED
  BY <1>2, <1>3 DEF t

\* What cleanup leaves is sound.
LEMMA CleanupSound ==
    ASSUME NEW s, Sound(s)
    PROVE  Sound(Cleanup(s)) /\ Emptied(s, Cleanup(s))
<1>1. Cleanup(s) \in Streams /\ Emptied(s, Cleanup(s))
  BY CleanupDoes DEF Sound
<1>2. Len(Cleanup(s).inPkt) = 0
  BY <1>1 DEF Emptied
<1>3. QED
  BY <1>1, <1>2, ConstantTypes DEF Emptied, Sound, QueueIsUsed

\* A step that only changes the stream of e.
Changed(e, t) == stream' = [stream EXCEPT ![e] = t] /\ net' = net

\* Every step keeps the types, and is one of these.
LEMMA TypesNext ==
    ASSUME TypesOK, Next
    PROVE  TypesOK'
<1>0. /\ stream \in [Ends -> Streams] /\ net \in [Ends -> SUBSET Packets]
      /\ written \in [Ends -> Nat] /\ got \in [Ends -> Seq(Nat)]
      /\ \A e \in Ends : /\ Sound(stream[e]) /\ stream[e].sent = {} /\ written[e] <= Total[e]
                         /\ stream[e] \in Streams
  BY DEF TypesOK, Sound
<1>1. ASSUME NEW e \in Ends, NEW t, Sound(t), t.sent = {}, Changed(e, t),
             written' \in [Ends -> Nat], \A f \in Ends : written'[f] <= Total[f],
             got' \in [Ends -> Seq(Nat)]
      PROVE  TypesOK'
  BY <1>0, <1>1 DEF TypesOK, Changed, Sound
<1>2. ASSUME NEW e \in Ends, Connect(e) PROVE TypesOK'
  <2>1. /\ Commit(e, Connects(e, stream[e]), net) /\ UNCHANGED <<written, got>>
        /\ stream[e].state = "closed" /\ Openable(e, stream[e])
    BY <1>2 DEF Connect, Connects, MayOpen, Openable
  <2>2. Sound(Connects(e, stream[e]))
    BY <1>0, <2>1, ConnectsDoes
  <2>3. QED
    BY <1>0, <2>1, <2>2, CommitTypes
<1>3. ASSUME NEW e \in Ends, NEW p \in net[e], RecvPkt(e, p) PROVE TypesOK'
  <2>1. PICK under \in {net, [net EXCEPT ![e] = @ \ {p}]} :
          Commit(e, HandleIncoming(e, stream[e], p), under)
    BY <1>3 DEF RecvPkt
  <2>2. under \in [Ends -> SUBSET Packets] /\ p \in Packets /\ UNCHANGED <<written, got>>
    BY <1>0, <1>3 DEF RecvPkt
  <2>5. Openable(e, stream[e])
    BY <1>3 DEF RecvPkt, MayOpen, Openable
  <2>3. Sound(HandleIncoming(e, stream[e], p))
    BY <1>0, <2>2, <2>5, HandleIncomingSound
  <2>4. QED
    BY <2>1, <2>2, <2>3, CommitTypes
<1>4. ASSUME NEW e \in Ends, Tick(e) PROVE TypesOK'
  <2>1. PICK c \in MaxSeg..MaxWin, due \in BOOLEAN, keepAlive \in BOOLEAN :
          Commit(e, Send(stream[e], c, due, keepAlive), net)
    BY <1>4 DEF Tick
  <2>2. Sound(Send(stream[e], c, due, keepAlive))
    BY <1>0, SendSound
  <2>3. UNCHANGED <<written, got>>
    BY <1>4 DEF Tick
  <2>4. QED
    BY <1>0, <2>1, <2>2, <2>3, CommitTypes
<1>5. ASSUME NEW e \in Ends, NEW n \in 1..MaxWin, Write(e, n) PROVE TypesOK'
  <2>1. n \in Nat /\ n <= Total[e] - written[e] /\ written' = [written EXCEPT ![e] = @ + n]
    BY <1>5, ConstantTypes DEF Write
  <2>2. Changed(e, Writes(stream[e], written[e], n)) /\ got' = got
    BY <1>5 DEF Write, Changed, Writes
  <2>3. written' \in [Ends -> Nat] /\ \A f \in Ends : written'[f] <= Total[f]
    BY <1>0, <2>1, ConstantTypes
  <2>4. Sound(Writes(stream[e], written[e], n)) /\ Writes(stream[e], written[e], n).sent = {}
    <3>1. Sound(stream[e]) /\ written[e] \in Nat /\ n \in Nat /\ stream[e].sent = {}
      BY <1>0, <2>1
    <3>2. QED
      BY <3>1, WritesDoes
  <2>5. QED
    BY <1>0, <1>1, <2>2, <2>3, <2>4
<1>6. ASSUME NEW e \in Ends, NEW n \in 1..MaxWin, Read(e, n) PROVE TypesOK'
  <2>1. n \in Nat /\ n <= Len(stream[e].outQueue)
    BY <1>6, ConstantTypes DEF Read
  <2>2. Changed(e, Reads(stream[e], n)) /\ written' = written
    BY <1>6 DEF Read, Changed, Reads
  <2> DEFINE a == SubSeq(stream[e].outQueue, 1, n)
  <2>3. a \in Seq(Nat) /\ Sound(Reads(stream[e], n)) /\ Reads(stream[e], n).sent = {}
    BY <1>0, <2>1, ReadsDoes
  <2>4. got' = [got EXCEPT ![e] = @ \o a]
    BY <1>6 DEF Read
  <2> HIDE DEF a
  <2>5. got' \in [Ends -> Seq(Nat)]
    BY <1>0, <2>3, <2>4, ConcatProperties
  <2>6. QED
    BY <1>0, <1>1, <2>2, <2>3, <2>5
<1>7. ASSUME NEW e \in Ends, CloseWrite(e) PROVE TypesOK'
  <2>1. Changed(e, Closes(stream[e])) /\ written' = written /\ got' = got
    BY <1>7 DEF CloseWrite, Changed, Closes
  <2>2. Sound(Closes(stream[e])) /\ Closes(stream[e]).sent = {}
    BY <1>0, ClosesDoes
  <2>3. QED
    BY <1>0, <1>1, <2>1, <2>2
<1>8. ASSUME NEW e \in Ends, Close(e) PROVE TypesOK'
  <2>1. Changed(e, Cleanup(stream[e])) /\ written' = written /\ got' = got
    BY <1>8 DEF Close, Changed
  <2>2. Sound(Cleanup(stream[e])) /\ Cleanup(stream[e]).sent = {}
    BY <1>0, CleanupSound DEF Emptied
  <2>3. QED
    BY <1>0, <1>1, <2>1, <2>2
<1>9. QED
  BY <1>2, <1>3, <1>4, <1>5, <1>6, <1>7, <1>8 DEF Next

\* A step of e after which it has been opened at least as often.
Ages(e, t) == stream' = [stream EXCEPT ![e] = t] /\ stream[e].lives <= t.lives

\* What has been opened twice has been opened twice for ever.
LEMMA OneLifeBefore ==
    ASSUME TypesOK, Next, OneLife'
    PROVE  OneLife
<1>0. /\ stream \in [Ends -> Streams] /\ net \in [Ends -> SUBSET Packets]
      /\ \A e \in Ends : /\ Sound(stream[e]) /\ stream[e] \in Streams
                         /\ stream[e].lives \in Nat
  BY DEF TypesOK, Sound, Streams
<1>1. ASSUME NEW e \in Ends, NEW t, Ages(e, t), t.lives \in Nat PROVE OneLife
  <2>1. \A f \in Ends : stream[f].lives <= stream'[f].lives /\ stream'[f].lives \in Nat
    BY <1>0, <1>1 DEF Ages
  <2>2. \A f \in Ends : stream'[f].lives <= 1
    BY DEF OneLife
  <2>3. QED
    BY <1>0, <2>1, <2>2 DEF OneLife
<1>2. ASSUME NEW e \in Ends, NEW s, NEW under, Sound(s), Commit(e, s, under),
             stream[e].lives <= s.lives
      PROVE  OneLife
  <2> DEFINE t == [s EXCEPT !.sent = {}]
  <2>1. s \in Streams /\ t.lives = s.lives /\ s.lives \in Nat
    BY <1>2 DEF Sound, Streams
  <2>2. Ages(e, t)
    BY <1>2, <2>1 DEF Commit, Ages
  <2>3. QED
    BY <1>1, <2>1, <2>2
<1>3. ASSUME NEW e \in Ends, NEW t, stream' = [stream EXCEPT ![e] = t], t.lives = stream[e].lives
      PROVE  OneLife
  <2>1. t.lives \in Nat /\ stream[e].lives <= t.lives
    BY <1>0, <1>3
  <2>2. Ages(e, t)
    BY <1>3, <2>1 DEF Ages
  <2>3. QED
    BY <1>1, <2>1, <2>2
<1>4. ASSUME NEW e \in Ends, Connect(e) PROVE OneLife
  <2>1. /\ Commit(e, Connects(e, stream[e]), net)
        /\ stream[e].state = "closed" /\ Openable(e, stream[e])
    BY <1>4 DEF Connect, Connects, MayOpen, Openable
  <2>2. /\ Sound(Connects(e, stream[e]))
        /\ Connects(e, stream[e]).lives = stream[e].lives + 1
    BY <1>0, <2>1, ConnectsDoes
  <2>3. stream[e].lives <= Connects(e, stream[e]).lives
    BY <1>0, <2>2
  <2>4. QED
    BY <1>2, <2>1, <2>2, <2>3
<1>5. ASSUME NEW e \in Ends, NEW p \in net[e], RecvPkt(e, p) PROVE OneLife
  <2>1. PICK under \in {net, [net EXCEPT ![e] = @ \ {p}]} :
          Commit(e, HandleIncoming(e, stream[e], p), under)
    BY <1>5 DEF RecvPkt
  <2>2. p \in Packets /\ Openable(e, stream[e])
    BY <1>0, <1>5 DEF RecvPkt, MayOpen, Openable
  <2>3. /\ Sound(HandleIncoming(e, stream[e], p))
        /\ stream[e].lives <= HandleIncoming(e, stream[e], p).lives
    BY <1>0, <2>2, HandleIncomingSound
  <2>4. QED
    BY <1>2, <2>1, <2>3
<1>6. ASSUME NEW e \in Ends, Tick(e) PROVE OneLife
  <2>1. PICK c \in MaxSeg..MaxWin, due \in BOOLEAN, keepAlive \in BOOLEAN :
          Commit(e, Send(stream[e], c, due, keepAlive), net)
    BY <1>6 DEF Tick
  <2> DEFINE t == Send(stream[e], c, due, keepAlive)
  <2>2. Sound(t) /\ t.lives = stream[e].lives
    BY <1>0, SendSound
  <2>3. Commit(e, t, net)
    BY <2>1
  <2> HIDE DEF t
  <2>4. stream[e].lives <= t.lives
    BY <1>0, <2>2
  <2>5. QED
    BY <1>2, <2>2, <2>3, <2>4
<1>7. ASSUME NEW e \in Ends, NEW n, Write(e, n) PROVE OneLife
  <2>1. stream' = [stream EXCEPT ![e] = Writes(stream[e], written[e], n)]
    BY <1>7 DEF Write, Writes
  <2>2. Writes(stream[e], written[e], n).lives = stream[e].lives
    BY <1>0 DEF Writes, Streams
  <2>3. QED
    BY <1>3, <2>1, <2>2
<1>8. ASSUME NEW e \in Ends, NEW n, Read(e, n) PROVE OneLife
  <2>1. stream' = [stream EXCEPT ![e] = Reads(stream[e], n)]
    BY <1>8 DEF Read, Reads
  <2>2. Reads(stream[e], n).lives = stream[e].lives
    BY <1>0 DEF Reads, Streams
  <2>3. QED
    BY <1>3, <2>1, <2>2
<1>9. ASSUME NEW e \in Ends, CloseWrite(e) PROVE OneLife
  <2>1. stream' = [stream EXCEPT ![e] = Closes(stream[e])]
    BY <1>9 DEF CloseWrite, Closes
  <2>2. Closes(stream[e]).lives = stream[e].lives
    BY <1>0 DEF Closes, Streams
  <2>3. QED
    BY <1>3, <2>1, <2>2
<1>10. ASSUME NEW e \in Ends, Close(e) PROVE OneLife
  <2>1. stream' = [stream EXCEPT ![e] = Cleanup(stream[e])]
    BY <1>10 DEF Close
  <2>2. Cleanup(stream[e]).lives = stream[e].lives
    BY <1>0, CleanupDoes DEF Emptied
  <2>3. QED
    BY <1>3, <2>1, <2>2
<1>11. QED
  BY <1>4, <1>5, <1>6, <1>7, <1>8, <1>9, <1>10 DEF Next

(* The numbers of the streams and packets keep to their widths, the queue   *)
(* of early packets to kMaxQueueSize, and every segment to MAX_SEG.         *)
THEOREM TypesAreRight == Spec => []TypeOK
<1>1. TypesOK /\ UNCHANGED vars => TypesOK'
  BY DEF TypesOK, vars
<1>2. TypesOK => TypeOK
  <2> SUFFICES ASSUME TypesOK, NEW e \in Ends
               PROVE  /\ stream[e].state \in TcpStates
                      /\ \A x \in {"outSeqno", "outAcked", "inAckno", "lastSentAck"} :
                           stream[e][x] \in Seqno
                      /\ \A x \in {"outWinSize", "lastSentWinSize"} : stream[e][x] \in 0..MaxWin
                      /\ Len(stream[e].inPkt) <= MaxInPkt
                      /\ \A p \in net[e] \cup ToSet(stream[e].inPkt) \cup ToSet(stream[e].outPkt) :
                           /\ p.seqno \in Seqno /\ p.ackno \in Seqno /\ p.winsize \in 0..MaxWin
                           /\ Len(p.data) <= MaxSeg
                      /\ stream[e].sent = {} /\ stream[e].lives \in Nat
                      /\ written[e] \in 0..Total[e]
    BY DEF TypeOK
  <2>1. /\ Sound(stream[e]) /\ stream[e] \in Streams /\ stream[e].sent = {}
        /\ net[e] \subseteq Packets /\ written[e] \in Nat /\ written[e] <= Total[e]
    BY DEF TypesOK, Sound
  <2> DEFINE s == stream[e]
  <2> HIDE DEF s
  <2>2. s \in Streams
    BY <2>1 DEF s
  <2>3. /\ s.state \in TcpStates
        /\ \A x \in {"outSeqno", "outAcked", "inAckno", "lastSentAck"} : s[x] \in Seqno
        /\ \A x \in {"outWinSize", "lastSentWinSize"} : s[x] \in 0..MaxWin
        /\ s.lives \in Nat
    BY <2>2 DEF Streams
  <2>4. ToSet(s.inPkt) \subseteq Packets /\ ToSet(s.outPkt) \subseteq Packets
    BY <2>2, Elements DEF Streams
  <2>5. \A p \in Packets : /\ p.seqno \in Seqno /\ p.ackno \in Seqno /\ p.winsize \in 0..MaxWin
                           /\ Len(p.data) <= MaxSeg
    BY DEF Packets, Segments
  <2>6. written[e] \in 0..Total[e]
    BY <2>1, ConstantTypes
  <2>7. QED
    BY <2>1, <2>3, <2>4, <2>5, <2>6 DEF s, Sound
<1>3. QED
  BY TypesInit, TypesNext, <1>1, <1>2, PTL DEF Spec

(* As long as a packet waits for its acknowledgement the timer of the       *)
(* retransmission runs, whatever order packets, ticks and closes come in.   *)
THEOREM TimerAlwaysRuns == Spec => []TimerRuns
<1>1. TypesOK /\ UNCHANGED vars => TypesOK'
  BY DEF TypesOK, vars
<1>2. TypesOK => TimerRuns
  BY DEF TypesOK, Sound, TimerRuns
<1>3. QED
  BY TypesInit, TypesNext, <1>1, <1>2, PTL DEF Spec

-----------------------------------------------------------------------------
(* What an end has done so far: how often it was opened, whether it was the *)
(* one that sent the first SYN (connect) or answered one, and how many      *)
(* bytes it has written.  What is said from here on is said of streams that *)
(* are opened once.                                                         *)
Parts == [lives : Nat, first : BOOLEAN, written : Nat]

\* A packet that the end f has sent, when it has done c.
PacketOK(f, c, p) ==
    /\ c.lives # 0
    /\ IF p.syn
       THEN p.data = <<>> /\ ~p.fin /\ p.seqno = Isn[f][1] /\ (p.ack <=> ~c.first)
       ELSE /\ p.ack
            /\ p.data = Numbers(Offset(f, p.seqno), Len(p.data))
            /\ Offset(f, p.seqno) + Len(p.data) <= c.written
            /\ p.fin => Offset(f, p.seqno) = Total[f]

(* The sending half of the stream s of e, when e has done c: outSeqno and   *)
(* inQueue stand where the bytes sent so far end, and every packet carries  *)
(* the bytes that belong at its number.                                     *)
OutOK(e, c, s) ==
    /\ c.lives = s.lives
    /\ Len(s.inQueue) <= c.written
    /\ s.inQueue = Numbers(c.written - Len(s.inQueue), Len(s.inQueue))
    /\ s.state # "closed" => s.lives # 0 /\ s.outSeqno = Position(e, c.written - Len(s.inQueue))
    /\ Connected(s) /\ ~s.outStreamActive => c.written = Total[e]
    /\ s.lives = 0 \/ s.state \in {"syn_sent", "syn_rcvd"} => c.written = 0
    /\ s.lives # 0 /\ c.first => e \in Connecting
    /\ \A p \in ToSet(s.outPkt) \cup s.sent : PacketOK(e, c, p)

(* The receiving half of a stream s whose user has read g, when its peer f  *)
(* has done c: what was delivered is the beginning of what f has written,   *)
(* and inAckno stands where it ends.                                        *)
InOK(f, c, g, s) ==
    LET r == g \o s.outQueue IN
    /\ r = Numbers(0, Len(r)) /\ Len(r) <= c.written
    /\ s.state \notin {"closed", "syn_sent"} => s.inAckno = Position(f, Len(r))
    /\ Connected(s) /\ ~s.inStreamActive => Len(r) = Total[f]
    /\ ~Connected(s) /\ (s.state # "closed" \/ s.lives = 0) => r = <<>>
    /\ s.state = "syn_rcvd" => c.lives # 0 /\ c.first
    /\ \A p \in ToSet(s.inPkt) : PacketOK(f, c, p)

\* Both halves.
Agrees(e, o, c, g, s) == OutOK(e, o, s) /\ InOK(Peer(e), c, g, s)

(* What e has done (o), what its peer has done (c) and what e has read (g): *)
(* no end has more bytes to write than there are sequence numbers.          *)
Situation(e, o, c, g) ==
    /\ o \in Parts /\ c \in Parts /\ g \in Seq(Nat)
    /\ o.written <= Total[e] /\ Total[e] < SeqSpace
    /\ c.written <= Total[Peer(e)] /\ Total[Peer(e)] < SeqSpace

\* A packet stays right as its sender goes on.
LEMMA PacketLasts ==
    ASSUME NEW f \in Ends, NEW c \in Parts, NEW d \in Parts, NEW p \in Packets,
           c.lives # 0 => d.lives # 0 /\ d.first = c.first, c.written <= d.written,
           PacketOK(f, c, p)
    PROVE  PacketOK(f, d, p)
<1>1. p.seqno \in Seqno /\ Len(p.data) \in Nat
  BY DEF Packets, Segments
<1>2. Offset(f, p.seqno) \in Nat /\ c.written \in Nat /\ d.written \in Nat
  BY <1>1, PositionOfOffset DEF Parts
<1>3. CASE p.syn
  BY <1>3 DEF PacketOK
<1>4. CASE ~p.syn
  BY <1>1, <1>2, <1>4 DEF PacketOK
<1>5. QED
  BY <1>3, <1>4

\* So does the receiving half of a stream.
LEMMA InLasts ==
    ASSUME NEW f \in Ends, NEW c \in Parts, NEW d \in Parts, NEW g \in Seq(Nat),
           NEW s \in Streams,
           c.lives # 0 => d.lives # 0 /\ d.first = c.first, c.written <= d.written,
           InOK(f, c, g, s)
    PROVE  InOK(f, d, g, s)
<1> DEFINE r == g \o s.outQueue
<1>1. r \in Seq(Nat)
  BY ConcatProperties DEF Streams
<1> HIDE DEF r
<1>2. Len(r) \in Nat /\ c.written \in Nat /\ d.written \in Nat
  BY <1>1, LenProperties DEF Parts
<1>3. \A p \in ToSet(s.inPkt) : PacketOK(f, c, p) /\ p \in Packets
  <2>1. s.inPkt \in Seq(Packets)
    BY DEF Streams
  <2>2. QED
    BY <2>1, Elements DEF InOK
<1>4. \A p \in ToSet(s.inPkt) : PacketOK(f, d, p)
  BY <1>3, PacketLasts
<1>5. Len(r) <= c.written
  BY DEF InOK, r
<1>6. Len(r) <= d.written
  BY <1>2, <1>5
<1>7. s.state = "syn_rcvd" => d.lives # 0 /\ d.first
  BY DEF InOK
<1>8. QED
  BY <1>4, <1>6, <1>7 DEF InOK, r

\* A beginning of consecutive numbers, and what follows it.
LEMMA NumbersPrefix ==
    ASSUME NEW a \in Nat, NEW g \in Seq(Nat), NEW q \in Seq(Nat),
           g \o q = Numbers(a, Len(g \o q))
    PROVE  /\ g = Numbers(a, Len(g)) /\ q = Numbers(a + Len(g), Len(q))
           /\ Len(g \o q) = Len(g) + Len(q)
<1> DEFINE r == g \o q
           m == Len(g)
           n == Len(q)
<1>1. /\ m \in Nat /\ n \in Nat /\ r \in Seq(Nat) /\ Len(r) = m + n
      /\ \A i \in 1 .. m + n : r[i] = IF i <= m THEN g[i] ELSE q[i - m]
  BY LenProperties, ConcatProperties
<1> HIDE DEF r, m, n
<1>2. r = Numbers(a, m + n) /\ m + n \in Nat /\ a + m \in Nat
  BY <1>1 DEF r
<1>3. \A i \in 1 .. m + n : r[i] = a + i
  BY <1>2, NumbersType
<1>4. g = Numbers(a, m)
  <2> DEFINE t == Numbers(a, m)
  <2>1. t \in Seq(Nat) /\ Len(t) = m /\ \A i \in 1..m : t[i] = a + i
    BY <1>1, NumbersType
  <2> HIDE DEF t
  <2>2. \A i \in 1..m : g[i] = a + i
    BY <1>1, <1>3
  <2>3. QED
    BY <2>1, <2>2, SeqEqual DEF m, t
<1>5. q = Numbers(a + m, n)
  <2> DEFINE t == Numbers(a + m, n)
  <2>1. t \in Seq(Nat) /\ Len(t) = n /\ \A i \in 1..n : t[i] = a + m + i
    BY <1>1, <1>2, NumbersType
  <2> HIDE DEF t
  <2>2. ASSUME NEW i \in 1..n PROVE q[i] = a + m + i
    <3> DEFINE k == m + i
    <3>1. k \in 1 .. m + n /\ ~(k <= m) /\ k - m = i /\ a + k = a + m + i
      BY <1>1
    <3> HIDE DEF k
    <3>2. QED
      BY <1>1, <1>3, <3>1
  <2>3. QED
    BY <2>1, <2>2, SeqEqual DEF n, t
<1>6. QED
  BY <1>1, <1>4, <1>5 DEF m, n, r

(* A packet that carries, at the position of the offset k, the bytes that   *)
(* belong there.                                                            *)
LEMMA PacketIsOK ==
    ASSUME NEW e \in Ends, NEW c \in Parts, c.lives # 0, c.written <= Total[e], Total[e] < SeqSpace,
           NEW k \in Nat, NEW n \in Nat, k + n <= c.written, NEW q,
           ~q.syn, q.ack, q.seqno = Position(e, k), q.data = Numbers(k, n),
           q.fin => k = Total[e]
    PROVE  PacketOK(e, c, q)
<1>1. k < SeqSpace /\ c.written \in Nat
  BY ConstantTypes DEF Parts
<1>2. Offset(e, q.seqno) = k
  BY <1>1, OffsetOfPosition
<1>3. Len(q.data) = n
  BY NumbersType
<1>4. QED
  BY <1>2, <1>3 DEF PacketOK

\* A plain acknowledgement is right.
LEMMA AckIsOK ==
    ASSUME NEW e \in Ends, NEW c \in Parts, c.written <= Total[e], Total[e] < SeqSpace,
           NEW s \in Streams, OutOK(e, c, s), s.state # "closed",
           NEW q, NEW ackno, Acknowledges(q, s.outSeqno, ackno)
    PROVE  PacketOK(e, c, q)
<1> DEFINE k == c.written - Len(s.inQueue)
<1>1. Len(s.inQueue) \in Nat /\ c.written \in Nat
  BY DEF Streams, Parts
<1>2. k \in Nat /\ k + 0 <= c.written /\ 0 \in Nat
  BY <1>1 DEF OutOK
<1>3. c.lives # 0 /\ s.outSeqno = Position(e, k)
  BY DEF OutOK
<1> HIDE DEF k
<1>4. q.data = Numbers(k, 0)
  BY <1>2, NumbersType DEF Acknowledges
<1>5. QED
  BY <1>2, <1>3, <1>4, PacketIsOK DEF Acknowledges

\* What is received when the packet p has been delivered to s.
Delivered(f, c, g, s, p) ==
    LET r == g \o (s.outQueue \o p.data) IN
    /\ r = Numbers(0, Len(r)) /\ Len(r) <= c.written
    /\ (p.seqno + Len(p.data)) % SeqSpace = Position(f, Len(r))
    /\ p.fin \/ ~s.inStreamActive => Len(r) = Total[f]

(* The packet that comes next in the stream is delivered: what is received  *)
(* stays a beginning of what the peer has written.                          *)
LEMMA DeliveryOK ==
    ASSUME NEW e \in Ends, NEW o, NEW c, NEW g, Situation(e, o, c, g),
           NEW s \in Streams, InOK(Peer(e), c, g, s), Connected(s),
           NEW p \in Packets, PacketOK(Peer(e), c, p), p.seqno = s.inAckno
    PROVE  Delivered(Peer(e), c, g, s, p)
<1> DEFINE f == Peer(e)
           x == g \o s.outQueue
           m == Len(x)
           n == Len(p.data)
           r == x \o p.data
<1>1. f \in Ends
  BY PeerIsOther
<1> HIDE DEF f
<1>2. /\ g \in Seq(Nat) /\ s.outQueue \in Seq(Nat) /\ p.data \in Seq(Nat) /\ p.seqno \in Seqno
      /\ c \in Parts /\ c.written \in Nat /\ c.written <= Total[f] /\ Total[f] < SeqSpace
  BY DEF Situation, Streams, Packets, Segments, Parts, f
<1>3. x \in Seq(Nat) /\ m \in Nat /\ n \in Nat
  <2>1. x \in Seq(Nat)
    BY <1>2, ConcatProperties
  <2> HIDE DEF x
  <2>2. QED
    BY <1>2, <2>1, LenProperties
<1>4. g \o (s.outQueue \o p.data) = r
  <2>1. \A y, z \in Seq(Nat) : (g \o y) \o z = g \o (y \o z)
    BY <1>2, JoinAssociative
  <2>2. s.outQueue \in Seq(Nat) /\ p.data \in Seq(Nat)
    BY <1>2
  <2>3. QED
    BY <2>1, <2>2
<1>5. /\ x = Numbers(0, m) /\ m <= c.written /\ s.inAckno = Position(f, m)
      /\ (~s.inStreamActive => m = Total[f])
  BY DEF InOK, Connected, f
<1>6. PacketOK(f, c, p)
  BY DEF f
<1> HIDE DEF x, m
<1>7. Total[f] \in Nat /\ m < SeqSpace
  BY <1>1, <1>2, <1>3, <1>5, ConstantTypes
<1>8. p.data = Numbers(m, n) /\ m + n <= c.written /\ (p.fin => m = Total[f])
  <2>1. CASE p.syn
    <3>1. p.data = <<>> /\ ~p.fin
      BY <1>6, <2>1 DEF PacketOK
    <3>2. n = 0
      BY <3>1
    <3>3. Numbers(m, n) = <<>>
      BY <1>3, <3>2, NumbersType
    <3>4. QED
      BY <1>2, <1>3, <1>5, <3>1, <3>2, <3>3
  <2>2. CASE ~p.syn
    <3>1. Offset(f, p.seqno) = m
      BY <1>1, <1>3, <1>5, <1>7, OffsetOfPosition
    <3>2. QED
      BY <1>6, <2>2, <3>1 DEF PacketOK
  <2>3. QED
    BY <2>1, <2>2
<1> HIDE DEF n
<1>9. r = Numbers(0, m + n)
  <2>1. 0 \in Nat /\ 0 + m = m
    BY <1>3
  <2>2. Numbers(0, m) \o Numbers(0 + m, n) = Numbers(0, m + n)
    BY <1>3, <2>1, NumbersCut
  <2>3. QED
    BY <1>5, <1>8, <2>1, <2>2
<1> HIDE DEF r
<1>10. Len(r) = m + n
  <2>1. 0 \in Nat /\ m + n \in Nat
    BY <1>3
  <2>2. QED
    BY <1>9, <2>1, NumbersType
<1>11. (p.seqno + n) % SeqSpace = Position(f, m + n)
  <2>1. m \in Int /\ n \in Int
    BY <1>3
  <2>2. QED
    BY <1>1, <1>5, <2>1, PositionAdd
<1>12. p.fin \/ ~s.inStreamActive => m + n = Total[f]
  BY <1>2, <1>3, <1>5, <1>7, <1>8
<1>13. QED
  BY <1>4, <1>8, <1>9, <1>10, <1>11, <1>12 DEF f, n, Delivered

\* The sending half of a stream that only sends acknowledgements, or is closed.
LEMMA OutLasts ==
    ASSUME NEW e \in Ends, NEW o \in Parts, o.written <= Total[e], Total[e] < SeqSpace,
           NEW s \in Streams, OutOK(e, o, s), s.state # "closed",
           NEW t \in Streams, t.lives = s.lives,
           \/ t.sent = s.sent
           \/ \E q \in Packets : \E ackno :
                Acknowledges(q, s.outSeqno, ackno) /\ t.sent = s.sent \cup {q},
           \/ t.state = "closed" /\ t.inQueue = <<>> /\ t.outPkt = <<>>
           \/ /\ Connected(s) /\ Connected(t)
              /\ t.inQueue = s.inQueue /\ t.outPkt = s.outPkt /\ t.outSeqno = s.outSeqno
              /\ t.outStreamActive = s.outStreamActive
    PROVE  OutOK(e, o, t)
<1>1. \A q \in t.sent : PacketOK(e, o, q)
  <2>1. \A q : \A ackno : Acknowledges(q, s.outSeqno, ackno) => PacketOK(e, o, q)
    BY AckIsOK
  <2>2. \A q \in s.sent : PacketOK(e, o, q)
    BY DEF OutOK
  <2>3. QED
    BY <2>1, <2>2
<1>2. CASE t.state = "closed" /\ t.inQueue = <<>> /\ t.outPkt = <<>>
  <2>1. Len(t.inQueue) = 0 /\ o.written \in Nat /\ o.written - 0 = o.written
    BY <1>2 DEF Parts
  <2>2. t.inQueue = Numbers(o.written - Len(t.inQueue), Len(t.inQueue))
    <3>1. 0 \in Nat /\ Numbers(o.written, 0) = <<>>
      BY <2>1, NumbersType
    <3>2. QED
      BY <1>2, <2>1, <3>1
  <2>3. ToSet(t.outPkt) = {}
    BY <1>2, Elements DEF Streams
  <2>4. ~Connected(t) /\ s.lives # 0 /\ o.lives = s.lives
    BY <1>2 DEF Connected, OutOK
  <2>5. QED
    BY <1>1, <1>2, <2>1, <2>2, <2>3, <2>4 DEF OutOK
<1>3. CASE /\ Connected(s) /\ Connected(t)
           /\ t.inQueue = s.inQueue /\ t.outPkt = s.outPkt /\ t.outSeqno = s.outSeqno
           /\ t.outStreamActive = s.outStreamActive
  BY <1>1, <1>3 DEF OutOK, Connected
<1>4. QED
  BY <1>2, <1>3

\* The receiving half of a stream that is closed keeps what has been read.
LEMMA InClosed ==
    ASSUME NEW e \in Ends, NEW o, NEW c, NEW g, Situation(e, o, c, g),
           NEW s \in Streams, InOK(Peer(e), c, g, s),
           NEW t \in Streams, t.state = "closed", t.lives # 0, t.outQueue = <<>>, t.inPkt = <<>>
    PROVE  InOK(Peer(e), c, g, t)
<1> DEFINE x == g \o s.outQueue
<1>1. g \in Seq(Nat) /\ s.outQueue \in Seq(Nat) /\ c.written \in Nat
  BY DEF Situation, Streams, Parts
<1>2. x = Numbers(0, Len(x)) /\ Len(x) <= c.written
  BY DEF InOK
<1>3. g = Numbers(0, Len(g)) /\ Len(x) = Len(g) + Len(s.outQueue) /\ 0 \in Nat
  <2>1. 0 \in Nat /\ 0 + Len(g) = Len(g)
    BY <1>1
  <2> DEFINE q == s.outQueue
             z == 0
  <2>2. q \in Seq(Nat) /\ z \in Nat /\ g \o q = Numbers(z, Len(g \o q))
    BY <1>1, <1>2
  <2> HIDE DEF q, z
  <2>3. g = Numbers(z, Len(g)) /\ Len(g \o q) = Len(g) + Len(q)
    <3>1. g \in Seq(Nat)
      BY <1>1
    <3>2. QED
      BY <2>2, <3>1, NumbersPrefix
  <2>4. QED
    BY <2>1, <2>3 DEF q, z
<1>4. Len(g) <= c.written
  <2>1. Len(g) \in Nat /\ Len(s.outQueue) \in Nat
    BY <1>1
  <2> DEFINE l == Len(x)
  <2>2. l = Len(g) + Len(s.outQueue) /\ l <= c.written
    BY <1>2, <1>3
  <2> HIDE DEF l, x
  <2>3. QED
    BY <1>1, <2>1, <2>2
<1>5. g \o t.outQueue = g
  BY <1>1
<1>6. ToSet(t.inPkt) = {}
  BY Elements DEF Streams
<1>7. QED
  BY <1>3, <1>4, <1>5, <1>6 DEF InOK, Connected

\* Another queue of right packets.
LEMMA AgreesQueue ==
    ASSUME NEW e, NEW o, NEW c, NEW g, NEW s \in Streams, Agrees(e, o, c, g, s),
           NEW que \in Seq(Packets), \A p \in ToSet(que) : PacketOK(Peer(e), c, p)
    PROVE  Agrees(e, o, c, g, [s EXCEPT !.inPkt = que])
<1> DEFINE t == [s EXCEPT !.inPkt = que]
<1>1. /\ t.inPkt = que /\ t.state = s.state /\ t.lives = s.lives
      /\ t.inStreamActive = s.inStreamActive /\ t.outStreamActive = s.outStreamActive
      /\ t.outSeqno = s.outSeqno /\ t.inAckno = s.inAckno /\ t.inQueue = s.inQueue
      /\ t.outQueue = s.outQueue /\ t.outPkt = s.outPkt /\ t.sent = s.sent
  BY DEF Streams
<1> HIDE DEF t
<1>2. OutOK(e, o, s) /\ InOK(Peer(e), c, g, s)
  BY DEF Agrees
<1>3. OutOK(e, o, t)
  BY <1>1, <1>2 DEF OutOK, Connected
<1>4. InOK(Peer(e), c, g, t)
  BY <1>1, <1>2 DEF InOK, Connected
<1>5. QED
  BY <1>3, <1>4 DEF Agrees, t

\* A packet that is taken is delivered, or the stream is closed.
LEMMA TakeOK ==
    ASSUME NEW e \in Ends, NEW o, NEW c, NEW g, Situation(e, o, c, g),
           NEW s \in Streams, Agrees(e, o, c, g, s), Connected(s),
           NEW p \in Packets, PacketOK(Peer(e), c, p), p.seqno = s.inAckno,
           NEW t \in Streams, Took(s, p, t)
    PROVE  Agrees(e, o, c, g, t)
<1> DEFINE ackno == (p.seqno + Len(p.data)) % SeqSpace
           Shut == /\ t.state = "closed"
                   /\ t.inQueue = <<>> /\ t.outQueue = <<>> /\ t.inPkt = <<>> /\ t.outPkt = <<>>
           Open == /\ Connected(t)
                   /\ t.inQueue = s.inQueue /\ t.inPkt = s.inPkt /\ t.outPkt = s.outPkt
                   /\ t.outQueue = s.outQueue \o p.data /\ t.inAckno = ackno
                   /\ t.outSeqno = s.outSeqno /\ t.outStreamActive = s.outStreamActive
                   /\ t.inStreamActive = (s.inStreamActive /\ ~p.fin)
<1>1. /\ Shut \/ Open
      /\ t.lives = s.lives
      /\ \/ t.sent = s.sent
         \/ \E q \in Packets : Acknowledges(q, s.outSeqno, ackno) /\ t.sent = s.sent \cup {q}
  BY DEF Took
<1>2. /\ OutOK(e, o, s) /\ InOK(Peer(e), c, g, s)
      /\ o \in Parts /\ o.written <= Total[e] /\ Total[e] < SeqSpace
  BY DEF Agrees, Situation
<1>3. s.state # "closed" /\ s.lives # 0
  BY <1>2 DEF Connected, OutOK
<1>4. OutOK(e, o, t)
  <2> HIDE DEF ackno
  <2>1. \/ t.state = "closed" /\ t.inQueue = <<>> /\ t.outPkt = <<>>
        \/ /\ Connected(s) /\ Connected(t)
           /\ t.inQueue = s.inQueue /\ t.outPkt = s.outPkt /\ t.outSeqno = s.outSeqno
           /\ t.outStreamActive = s.outStreamActive
    BY <1>1
  <2>2. QED
    BY <1>1, <1>2, <1>3, <2>1, OutLasts
<1>5. InOK(Peer(e), c, g, t)
  <2>1. CASE Shut
    BY <1>1, <1>2, <1>3, <2>1, InClosed
  <2>2. CASE Open
    <3> DEFINE q == s.outQueue \o p.data
               r == g \o q
    <3>1. /\ r = Numbers(0, Len(r)) /\ Len(r) <= c.written
          /\ ackno = Position(Peer(e), Len(r))
          /\ p.fin \/ ~s.inStreamActive => Len(r) = Total[Peer(e)]
      <4>1. Delivered(Peer(e), c, g, s, p)
        BY <1>2, DeliveryOK
      <4>2. QED
        BY <4>1 DEF Delivered
    <3>2. /\ t.outQueue = q /\ t.inAckno = ackno /\ t.inPkt = s.inPkt /\ Connected(t)
          /\ (~t.inStreamActive => p.fin \/ ~s.inStreamActive)
      BY <2>2
    <3> HIDE DEF q, ackno
    <3>3. \A x \in ToSet(t.inPkt) : PacketOK(Peer(e), c, x)
      BY <1>2, <3>2 DEF InOK
    <3>4. t.state \notin {"closed", "syn_sent", "syn_rcvd"}
      BY <3>2 DEF Connected
    <3>5. QED
      BY <3>1, <3>2, <3>3, <3>4 DEF InOK
  <2>3. QED
    BY <1>1, <2>1, <2>2
<1>6. QED
  BY <1>4, <1>5 DEF Agrees

\* The rounds of check_InPkts.
LEMMA CheckInPktsOK ==
    ASSUME NEW e \in Ends, NEW o, NEW c, NEW g, Situation(e, o, c, g),
           NEW s, Sound(s), Agrees(e, o, c, g, s)
    PROVE  Agrees(e, o, c, g, CheckInPkts(s)) /\ CheckInPkts(s).lives = s.lives
<1> DEFINE T == {x \in Streams : QueueIsUsed(x) /\ Agrees(e, o, c, g, x) /\ x.lives = s.lives}
<1>1. s \in T /\ Len(s.inPkt) \in Nat
  BY LenProperties DEF Sound, Streams
<1>2. ASSUME NEW x \in T PROVE TakeNext(x) \in T
  <2> DEFINE t == TakeNext(x)
  <2>1. /\ x \in Streams /\ QueueIsUsed(x) /\ Agrees(e, o, c, g, x) /\ x.lives = s.lives
        /\ t \in Streams /\ QueueIsUsed(t) /\ NextTaken(x, t)
    BY TakeNextDoes
  <2> HIDE DEF t, T
  <2>2. CASE t = x
    BY <2>2 DEF t
  <2>3. CASE t # x
    <3>1. PICK i \in 1..Len(x.inPkt), r \in Streams :
            /\ r = [x EXCEPT !.inPkt = RemoveAt(@, i)]
            /\ x.inPkt[i].seqno = x.inAckno /\ Took(r, x.inPkt[i], t)
      BY <2>1, <2>3 DEF NextTaken
    <3> DEFINE que == RemoveAt(x.inPkt, i)
               p == x.inPkt[i]
    <3>2. x.inPkt \in Seq(Packets) /\ Len(x.inPkt) \in Nat /\ x.inPkt # <<>>
      BY <2>1, LenProperties DEF Streams
    <3>3. p \in ToSet(x.inPkt) /\ p \in Packets
      BY <3>2, Elements
    <3>4. que \in Seq(Packets) /\ ToSet(que) \subseteq ToSet(x.inPkt)
      BY <3>2, ElementsOfRemoveAt
    <3> HIDE DEF que
    <3>5. \A y \in ToSet(x.inPkt) : PacketOK(Peer(e), c, y)
      BY <2>1 DEF Agrees, InOK
    <3>6. r = [x EXCEPT !.inPkt = que]
      BY <3>1 DEF que
    <3>7. Agrees(e, o, c, g, r)
      BY <2>1, <3>4, <3>5, <3>6, AgreesQueue
    <3>8. r.inAckno = x.inAckno /\ r.state = x.state /\ r.lives = x.lives
      BY <2>1, <3>6 DEF Streams
    <3>9. Connected(r)
      BY <2>1, <3>2, <3>8 DEF QueueIsUsed, Connected
    <3> HIDE DEF p
    <3>10. Took(r, p, t) /\ p.seqno = r.inAckno /\ PacketOK(Peer(e), c, p)
      BY <3>1, <3>3, <3>5, <3>8 DEF p
    <3>11. Agrees(e, o, c, g, t)
      BY <2>1, <3>3, <3>7, <3>9, <3>10, TakeOK
    <3>12. t.lives = s.lives
      BY <2>1, <3>8, <3>10 DEF Took
    <3>13. QED
      BY <2>1, <3>11, <3>12 DEF T, t
  <2>4. QED
    BY <2>2, <2>3
<1> HIDE DEF T
<1>3. PICK end \in T : CheckInPkts(s) = [end EXCEPT !.inPkt = NotBefore(end.inPkt, end.inAckno)]
  BY <1>1, <1>2, CheckInPktsKeeps
<1>4. end \in Streams /\ Agrees(e, o, c, g, end) /\ end.lives = s.lives
  BY DEF T
<1> DEFINE que == NotBefore(end.inPkt, end.inAckno)
<1>5. que \in Seq(Packets) /\ ToSet(que) \subseteq ToSet(end.inPkt)
  BY <1>4, NotBeforeDoes DEF Streams
<1> HIDE DEF que
<1>6. \A p \in ToSet(que) : PacketOK(Peer(e), c, p)
  BY <1>4, <1>5 DEF Agrees, InOK
<1>7. Agrees(e, o, c, g, [end EXCEPT !.inPkt = que]) /\ [end EXCEPT !.inPkt = que].lives = s.lives
  BY <1>4, <1>5, <1>6, AgreesQueue DEF Streams
<1>8. QED
  BY <1>3, <1>7 DEF que

\* A packet that arrives at a connected stream.
LEMMA IncomingEstablishedOK ==
    ASSUME NEW e \in Ends, NEW o, NEW c, NEW g, Situation(e, o, c, g),
           NEW s, Sound(s), Agrees(e, o, c, g, s), Connected(s),
           NEW p \in Packets, PacketOK(Peer(e), c, p)
    PROVE  LET t == IncomingEstablished(s, p) IN Agrees(e, o, c, g, t) /\ t.lives = s.lives
<1>1. s \in Streams /\ Len(s.inPkt) <= MaxInPkt
  BY DEF Sound
<1>2. PICK r : Queued(s, p, r) /\ IncomingEstablished(s, p) = CheckInPkts(r)
  BY <1>1, IncomingEstablishedDoes
<1>3. Sound(r) /\ r \in Streams /\ Connected(r) /\ r.lives = s.lives
  BY <1>2 DEF Queued, Sound, QueueIsUsed, Connected
<1>4. /\ OutOK(e, o, s) /\ InOK(Peer(e), c, g, s)
      /\ o \in Parts /\ o.written <= Total[e] /\ Total[e] < SeqSpace /\ s.state # "closed"
  BY DEF Agrees, Situation, Connected
<1>5. OutOK(e, o, r)
  <2>1. /\ r.inQueue = s.inQueue /\ r.outPkt = s.outPkt /\ r.outSeqno = s.outSeqno
        /\ r.outStreamActive = s.outStreamActive
        /\ \/ r.sent = s.sent
           \/ \E q \in Packets : \E ackno :
                Acknowledges(q, s.outSeqno, ackno) /\ r.sent = s.sent \cup {q}
    BY <1>2 DEF Queued
  <2>2. QED
    BY <1>1, <1>3, <1>4, <2>1, OutLasts
<1>6. InOK(Peer(e), c, g, r)
  <2>1. /\ r.state = s.state /\ r.inAckno = s.inAckno /\ r.outQueue = s.outQueue
        /\ r.inStreamActive = s.inStreamActive /\ ToSet(r.inPkt) \subseteq ToSet(s.inPkt) \cup {p}
    BY <1>2 DEF Queued
  <2>2. QED
    BY <1>3, <1>4, <2>1 DEF InOK, Connected
<1>7. Agrees(e, o, c, g, r)
  BY <1>5, <1>6 DEF Agrees
<1>8. QED
  BY <1>2, <1>3, <1>7, CheckInPktsOK

\* The number of the first byte.
LEMMA FirstPosition ==
    ASSUME NEW e \in Ends
    PROVE  Position(e, 0) = (Isn[e][1] + 1) % SeqSpace
<1>1. Isn[e][1] + 1 + 0 = Isn[e][1] + 1
  BY ConstantTypes
<1>2. QED
  BY <1>1 DEF Position

\* A stream that answers a SYN has received nothing and sends nothing but its answer.
LEMMA AnsweredOK ==
    ASSUME NEW e \in Ends, NEW o, NEW c, NEW g, Situation(e, o, c, g),
           NEW s \in Streams, Agrees(e, o, c, g, s), s.inPkt = <<>>,
           \/ s.state = "closed" /\ s.lives = 0
           \/ s.state = "syn_sent",
           NEW p \in Packets, PacketOK(Peer(e), c, p),
           NEW t \in Streams, Answered(e, s, p, t)
    PROVE  \E d \in Parts : /\ d.written = o.written /\ (s.lives # 0 => d.first = o.first)
                            /\ Agrees(e, d, c, g, t) /\ t.lives # 0
<1> DEFINE d == IF s.state = "closed" THEN [lives |-> 1, first |-> FALSE, written |-> o.written]
                ELSE o
<1>1. /\ OutOK(e, o, s) /\ InOK(Peer(e), c, g, s) /\ Peer(e) \in Ends
      /\ o \in Parts /\ o.written <= Total[e] /\ Total[e] < SeqSpace /\ o.written \in Nat
  BY PeerIsOther DEF Agrees, Situation, Parts
<1>2. /\ p.syn /\ ~p.ack
      /\ t.state = "syn_rcvd" /\ t.inAckno = (p.seqno + 1) % SeqSpace
      /\ t.inQueue = s.inQueue /\ t.outQueue = s.outQueue /\ t.inPkt = s.inPkt
  BY DEF Answered
<1>3. PICK q \in Packets :
         /\ t.outPkt = Append(s.outPkt, q) /\ t.sent = s.sent \cup {q}
         /\ ~q.fin /\ q.ack /\ q.data = <<>> /\ q.ackno = t.inAckno
         /\ IF s.state = "closed"
            THEN /\ q.syn /\ q.seqno = Isn[e][1]
                 /\ t.outSeqno = (Isn[e][1] + 1) % SeqSpace /\ t.lives = 1
            ELSE /\ ~q.syn /\ q.seqno = s.outSeqno
                 /\ t.outSeqno = s.outSeqno /\ t.lives = s.lives
  BY DEF Answered
<1>4. o.written = 0 /\ s.inQueue = <<>>
  <2>1. o.written = 0
    BY <1>1 DEF OutOK
  <2>2. Len(s.inQueue) \in Nat /\ Len(s.inQueue) <= 0 /\ s.inQueue \in Seq(Nat)
    BY <1>1, <2>1 DEF OutOK, Streams
  <2>3. QED
    BY <2>1, <2>2
<1>5. /\ d \in Parts /\ d.written = o.written /\ (s.lives # 0 => d.first = o.first)
      /\ d.lives = t.lives /\ t.lives # 0
  <2>1. CASE s.state = "closed"
    <3>1. s.lives = 0 /\ t.lives = 1
      BY <1>3, <2>1
    <3>2. d = [lives |-> 1, first |-> FALSE, written |-> o.written]
      BY <2>1
    <3>3. d \in Parts /\ d.written = o.written /\ d.lives = 1
      BY <1>1, <3>2 DEF Parts
    <3>4. QED
      BY <3>1, <3>3
  <2>2. CASE s.state # "closed"
    <3>1. s.lives # 0 /\ o.lives = s.lives
      BY <1>1, <2>2 DEF OutOK, Parts, Streams
    <3>2. QED
      BY <1>1, <1>3, <2>2, <3>1
  <2>3. QED
    BY <2>1, <2>2
<1>6. t.outSeqno = Position(e, 0)
  <2>1. CASE s.state = "closed"
    BY <1>3, <2>1, FirstPosition
  <2>2. CASE s.state # "closed"
    <3>1. o.written - Len(s.inQueue) = 0
      <4> DEFINE l == Len(s.inQueue)
      <4>1. l = 0 /\ o.written = 0
        BY <1>4
      <4> HIDE DEF l
      <4>2. o.written - l = 0
        BY <4>1
      <4>3. QED
        BY <4>2 DEF l
    <3>2. s.outSeqno = Position(e, o.written - Len(s.inQueue))
      BY <1>1, <2>2 DEF OutOK
    <3>3. QED
      BY <1>3, <1>4, <2>2, <3>1, <3>2
  <2>3. QED
    BY <2>1, <2>2
<1>7. \A x \in ToSet(t.outPkt) \cup t.sent : PacketOK(e, d, x)
  <2>1. ToSet(t.outPkt) = ToSet(s.outPkt) \cup {q}
    BY <1>3, ElementsOfAppend DEF Streams
  <2>2. CASE s.state = "closed"
    <3>1. \A x : ~PacketOK(e, o, x)
      BY <1>1, <2>2 DEF OutOK, PacketOK
    <3>2. ToSet(s.outPkt) \cup s.sent = {}
      BY <1>1, <3>1 DEF OutOK
    <3>3. PacketOK(e, d, q)
      BY <1>3, <1>5, <2>2 DEF PacketOK
    <3>4. QED
      BY <1>3, <2>1, <3>2, <3>3
  <2>3. CASE s.state # "closed"
    <3>1. Acknowledges(q, s.outSeqno, q.ackno)
      BY <1>3, <2>3 DEF Acknowledges
    <3>2. PacketOK(e, o, q)
      BY <1>1, <2>3, <3>1, AckIsOK
    <3>3. d = o
      BY <2>3
    <3> HIDE DEF d
    <3>4. QED
      BY <1>1, <1>3, <2>1, <3>2, <3>3 DEF OutOK
  <2>4. QED
    BY <2>2, <2>3
<1>8. d.first => e \in Connecting
  BY <1>1 DEF OutOK
<1> HIDE DEF d
<1>9. OutOK(e, d, t)
  <2>1. Len(<<>>) = 0 /\ 0 - 0 = 0 /\ Numbers(0, 0) = <<>>
    BY NumbersType
  <2>2. t.inQueue = <<>> /\ d.written = 0
    BY <1>2, <1>4, <1>5
  <2>3. Len(t.inQueue) = 0 /\ d.written - Len(t.inQueue) = 0
    BY <2>1, <2>2
  <2>4. t.inQueue = Numbers(d.written - Len(t.inQueue), Len(t.inQueue))
    BY <2>1, <2>2, <2>3
  <2>5. ~Connected(t)
    BY <1>2 DEF Connected
  <2>6. t.outSeqno = Position(e, d.written - Len(t.inQueue))
    BY <1>6, <2>3
  <2>7. d.lives = t.lives
    BY <1>5
  <2>8. Len(t.inQueue) <= d.written
    BY <2>2, <2>3
  <2>9. QED
    BY <1>5, <1>7, <1>8, <2>2, <2>4, <2>5, <2>6, <2>7, <2>8 DEF OutOK
<1>10. InOK(Peer(e), c, g, t)
  <2>1. g \o t.outQueue = <<>> /\ Len(<<>>) = 0
    BY <1>1, <1>2 DEF InOK, Connected
  <2>2. p.seqno = Isn[Peer(e)][1] /\ c.lives # 0 /\ c.first
    BY <1>2 DEF PacketOK
  <2>3. t.inAckno = Position(Peer(e), 0)
    BY <1>1, <1>2, <2>2, FirstPosition
  <2>4. ToSet(t.inPkt) = {} /\ Numbers(0, 0) = <<>>
    BY <1>2, Elements, NumbersType DEF Streams
  <2>5. 0 <= c.written
    BY DEF Situation, Parts
  <2>6. QED
    BY <1>2, <2>1, <2>2, <2>3, <2>4, <2>5 DEF InOK, Connected
<1>11. QED
  BY <1>5, <1>9, <1>10 DEF Agrees

\* A stream that is established stands before the first byte.
LEMMA EstablishedOK ==
    ASSUME NEW e \in Ends, NEW o, NEW c, NEW g, Situation(e, o, c, g),
           NEW s \in Streams, Agrees(e, o, c, g, s), s.state \in {"syn_sent", "syn_rcvd"},
           NEW p \in Packets,
           NEW t \in Streams, Established(s, p, t), t.inAckno = Position(Peer(e), 0),
           \A q \in t.sent : q \in s.sent \/ \E ackno : Acknowledges(q, s.outSeqno, ackno)
    PROVE  Agrees(e, o, c, g, t) /\ Connected(t)
<1>1. /\ OutOK(e, o, s) /\ InOK(Peer(e), c, g, s)
      /\ o \in Parts /\ o.written <= Total[e] /\ Total[e] < SeqSpace /\ s.state # "closed"
  BY DEF Agrees, Situation
<1>2. /\ t.state = "established" /\ t.lives = s.lives
      /\ t.inStreamActive = TRUE /\ t.outStreamActive = TRUE
      /\ t.outSeqno = s.outSeqno /\ t.inQueue = s.inQueue /\ t.outQueue = s.outQueue
      /\ t.inPkt = s.inPkt /\ t.outPkt = s.outPkt
  BY DEF Established
<1>3. Connected(t)
  BY <1>2 DEF Connected
<1>4. OutOK(e, o, t)
  <2>1. \A q : \A ackno : Acknowledges(q, s.outSeqno, ackno) => PacketOK(e, o, q)
    BY <1>1, AckIsOK
  <2>2. \A q \in t.sent : PacketOK(e, o, q)
    BY <1>1, <2>1 DEF OutOK
  <2>3. QED
    BY <1>1, <1>2, <2>2 DEF OutOK
<1>5. InOK(Peer(e), c, g, t)
  <2>1. g \o t.outQueue = <<>> /\ Len(<<>>) = 0 /\ Numbers(0, 0) = <<>>
    BY <1>1, <1>2, NumbersType DEF InOK, Connected
  <2>2. 0 <= c.written
    BY DEF Situation, Parts
  <2>3. QED
    BY <1>1, <1>2, <1>3, <2>1, <2>2 DEF InOK
<1>6. QED
  BY <1>3, <1>4, <1>5 DEF Agrees

\* The first packet from a peer that has written nothing.
LEMMA FirstIsEmpty ==
    ASSUME NEW f \in Ends, NEW c, c.first, c.written = 0,
           NEW p \in Packets, PacketOK(f, c, p), p.ack
    PROVE  p.data = <<>> /\ p.seqno = Position(f, 0)
<1>1. ~p.syn /\ Offset(f, p.seqno) + Len(p.data) <= 0
  BY DEF PacketOK
<1>2. p.seqno \in Seqno /\ p.data \in Seq(Nat) /\ Len(p.data) \in Nat
  BY DEF Packets, Segments
<1>3. Offset(f, p.seqno) \in Nat /\ Position(f, Offset(f, p.seqno)) = p.seqno
  BY <1>2, PositionOfOffset
<1>4. Offset(f, p.seqno) = 0 /\ Len(p.data) = 0
  BY <1>1, <1>2, <1>3
<1>5. p.data = <<>>
  BY <1>2, <1>4
<1>6. QED
  BY <1>3, <1>4, <1>5

\* A stream that has answered a SYN expects the first byte.
LEMMA BeforeFirst ==
    ASSUME NEW f, NEW c, NEW g, NEW s, InOK(f, c, g, s), s.state = "syn_rcvd"
    PROVE  s.inAckno = Position(f, 0) /\ g \o s.outQueue = <<>>
<1>1. g \o s.outQueue = <<>> /\ Len(<<>>) = 0
  BY DEF InOK, Connected
<1>2. s.inAckno = Position(f, Len(g \o s.outQueue))
  BY DEF InOK
<1>3. QED
  BY <1>1, <1>2

(* Whatever arrives, both halves stay right, as long as the packet that     *)
(* ends the handshake stands at the beginning.                              *)
LEMMA HandleIncomingOK ==
    ASSUME NEW e \in Ends, NEW o, NEW c, NEW g, Situation(e, o, c, g),
           NEW s, Sound(s), Agrees(e, o, c, g, s), Openable(e, s),
           NEW p \in Packets, PacketOK(Peer(e), c, p),
           s.state = "syn_rcvd" => c.written = 0 \/ ~Overtakes(s, p),
           HandleIncoming(e, s, p).lives <= 1
    PROVE  LET t == HandleIncoming(e, s, p) IN
           \E d \in Parts : /\ d.written = o.written
                            /\ (s.lives # 0 => t.lives # 0 /\ d.first = o.first)
                            /\ Agrees(e, d, c, g, t)
<1> DEFINE Fine(t) == \E d \in Parts : /\ d.written = o.written
                                       /\ (s.lives # 0 => t.lives # 0 /\ d.first = o.first)
                                       /\ Agrees(e, d, c, g, t)
<1>1. /\ s \in Streams /\ (~Connected(s) => s.inPkt = <<>>) /\ Peer(e) \in Ends
      /\ o \in Parts /\ c \in Parts
  BY PeerIsOther DEF Sound, QueueIsUsed, Situation
<1>2. \A t : Agrees(e, o, c, g, t) /\ t.lives = s.lives => Fine(t)
  BY <1>1
<1>3. Fine(s)
  BY <1>2
<1>4. ASSUME NEW t \in Streams, Answered(e, s, p, t),
             (s.state = "closed" /\ s.lives = 0) \/ s.state = "syn_sent"
      PROVE  Fine(t)
  <2>1. s.inPkt = <<>>
    BY <1>1, <1>4 DEF Connected
  <2>2. QED
    BY <1>1, <1>4, <2>1, AnsweredOK
<1> HIDE DEF Fine
<1>5. CASE s.state = "closed"
  <2> DEFINE t == IncomingClosed(e, s, p)
  <2>1. HandleIncoming(e, s, p) = t
    BY <1>5 DEF HandleIncoming
  <2>2. t \in Streams /\ (t = s \/ Answered(e, s, p, t))
    BY <1>1, IncomingClosedDoes
  <2>3. t.lives <= 1
    BY <2>1
  <2> HIDE DEF t
  <2>4. Answered(e, s, p, t) => s.lives = 0
    BY <1>1, <1>5, <2>3 DEF Answered, Streams
  <2>5. Fine(t)
    BY <1>3, <1>4, <1>5, <2>2, <2>4
  <2>6. QED
    BY <2>1, <2>5 DEF Fine
<1>6. CASE s.state = "syn_sent"
  <2> DEFINE t == IncomingSynSent(e, s, p)
  <2>1. HandleIncoming(e, s, p) = t
    BY <1>6 DEF HandleIncoming
  <2>2. t \in Streams /\ SynSentLeft(e, s, p, t)
    BY <1>1, <1>6, IncomingSynSentDoes
  <2> HIDE DEF t
  <2>3. ASSUME Established(s, p, t), p.syn, t.inAckno = (p.seqno + 1) % SeqSpace,
               NEW q \in Packets, Acknowledges(q, s.outSeqno, t.inAckno),
               t.sent = s.sent \cup {q}
        PROVE  Fine(t)
    <3>1. p.seqno = Isn[Peer(e)][1]
      BY <2>3 DEF PacketOK
    <3>2. t.inAckno = Position(Peer(e), 0)
      BY <1>1, <2>3, <3>1, FirstPosition
    <3>3. \A x \in t.sent : x \in s.sent \/ \E ackno : Acknowledges(x, s.outSeqno, ackno)
      BY <2>3
    <3>4. Agrees(e, o, c, g, t)
      BY <1>1, <1>6, <2>2, <2>3, <3>2, <3>3, EstablishedOK
    <3>5. t.lives = s.lives
      BY <2>3 DEF Established
    <3>6. QED
      BY <1>2, <3>4, <3>5
  <2>4. Fine(t)
    BY <1>3, <1>4, <1>6, <2>2, <2>3 DEF SynSentLeft
  <2>5. QED
    BY <2>1, <2>4 DEF Fine
<1>7. CASE s.state = "syn_rcvd"
  <2>1. HandleIncoming(e, s, p) = IncomingSynRcvd(s, p)
    BY <1>7 DEF HandleIncoming
  <2>2. CASE IncomingSynRcvd(s, p) = s
    BY <1>3, <2>1, <2>2 DEF Fine
  <2>3. ASSUME NEW t \in Streams, Established(s, p, t), t.inAckno = p.seqno, t.sent = s.sent,
               IncomingSynRcvd(s, p) = IF p.data = <<>> THEN t ELSE IncomingEstablished(t, p)
        PROVE  Fine(HandleIncoming(e, s, p))
    <3>1. p.ack /\ p.ackno = s.outSeqno /\ c.first
      BY <1>7, <2>3 DEF Established, Agrees, InOK
    <3>2. p.seqno = Position(Peer(e), 0)
      <4>1. CASE c.written = 0
        BY <1>1, <3>1, <4>1, FirstIsEmpty
      <4>2. CASE ~Overtakes(s, p)
        BY <1>1, <1>7, <3>1, <4>2, BeforeFirst DEF Overtakes, Agrees
      <4>3. QED
        BY <1>7, <4>1, <4>2
    <3>3. Agrees(e, o, c, g, t) /\ Connected(t)
      BY <1>1, <1>7, <2>3, <3>2, EstablishedOK
    <3>4. t.lives = s.lives
      BY <2>3 DEF Established
    <3>5. CASE p.data = <<>>
      BY <1>2, <2>1, <2>3, <3>3, <3>4, <3>5
    <3>6. CASE p.data # <<>>
      <4>1. Sound(t)
        BY <1>1, <1>7, <2>3, <3>3 DEF Established, Sound, QueueIsUsed, Connected
      <4>2. Agrees(e, o, c, g, IncomingEstablished(t, p)) /\ IncomingEstablished(t, p).lives = t.lives
        BY <3>3, <4>1, IncomingEstablishedOK
      <4>3. QED
        BY <1>2, <2>1, <2>3, <3>4, <3>6, <4>2
    <3>7. QED
      BY <3>5, <3>6
  <2>4. QED
    BY <1>1, <2>2, <2>3, IncomingSynRcvdDoes DEF Fine
<1>8. CASE s.state \notin {"closed", "syn_sent", "syn_rcvd"}
  <2>1. HandleIncoming(e, s, p) = IncomingEstablished(s, p) /\ Connected(s)
    BY <1>8 DEF HandleIncoming, Connected
  <2>2. Agrees(e, o, c, g, IncomingEstablished(s, p)) /\ IncomingEstablished(s, p).lives = s.lives
    BY <2>1, IncomingEstablishedOK
  <2>3. QED
    BY <1>2, <2>1, <2>2 DEF Fine
<1>9. QED
  BY <1>5, <1>6, <1>7, <1>8

\* The receiving half of a stream that goes on sending.
LEMMA InSame ==
    ASSUME NEW f, NEW c, NEW g, NEW s, NEW t, InOK(f, c, g, s),
           t.state = s.state \/ (Connected(s) /\ Connected(t)),
           t.lives = s.lives, t.inStreamActive = s.inStreamActive, t.inAckno = s.inAckno,
           t.outQueue = s.outQueue, t.inPkt = s.inPkt
    PROVE  InOK(f, c, g, t)
<1>1. CASE t.state = s.state
  BY <1>1 DEF InOK, Connected
<1>2. CASE Connected(s) /\ Connected(t)
  BY <1>2 DEF InOK, Connected
<1>3. QED
  BY <1>1, <1>2

\* Only the packets that wait or are sent change.
LEMMA AgreesPackets ==
    ASSUME NEW e, NEW o, NEW c, NEW g, NEW s, NEW t, Agrees(e, o, c, g, s),
           Untouched(s, t), t.outSeqno = s.outSeqno,
           \A p \in ToSet(t.outPkt) \cup t.sent : PacketOK(e, o, p)
    PROVE  Agrees(e, o, c, g, t) /\ t.lives = s.lives /\ t.state = s.state
<1>1. OutOK(e, o, s) /\ InOK(Peer(e), c, g, s)
  BY DEF Agrees
<1>2. InOK(Peer(e), c, g, t)
  BY <1>1, InSame DEF Untouched
<1>3. OutOK(e, o, t)
  BY <1>1 DEF OutOK, Untouched, Connected
<1>4. QED
  BY <1>2, <1>3 DEF Agrees, Untouched

\* acknowledge drops packets.
LEMMA AcknowledgeOK ==
    ASSUME NEW e, NEW o, NEW c, NEW g, NEW s, Sound(s), Agrees(e, o, c, g, s)
    PROVE  LET t == Acknowledge(s) IN
           Agrees(e, o, c, g, t) /\ t.lives = s.lives /\ t.state = s.state
<1> DEFINE t == Acknowledge(s)
<1>1. AcknowledgedUpTo(s, t)
  BY AcknowledgeDoes
<1> HIDE DEF t
<1>2. OutOK(e, o, s) /\ InOK(Peer(e), c, g, s)
  BY DEF Agrees
<1>3. ToSet(t.outPkt) \subseteq ToSet(s.outPkt) /\ t.sent = s.sent /\ t.inQueue = s.inQueue
  BY <1>1 DEF AcknowledgedUpTo
<1>4. \A p \in ToSet(t.outPkt) \cup t.sent : PacketOK(e, o, p)
  BY <1>2, <1>3 DEF OutOK
<1>5. OutOK(e, o, t)
  BY <1>1, <1>2, <1>4 DEF OutOK, AcknowledgedUpTo, Connected
<1>6. InOK(Peer(e), c, g, t)
  BY <1>1, <1>2, InSame DEF AcknowledgedUpTo
<1>7. QED
  BY <1>1, <1>5, <1>6 DEF Agrees, AcknowledgedUpTo, t

\* retrans sends what was sent before.
LEMMA RetransOK ==
    ASSUME NEW e, NEW o, NEW c, NEW g, NEW s, Sound(s), Agrees(e, o, c, g, s),
           NEW due \in BOOLEAN
    PROVE  LET t == Retrans(s, due) IN
           Agrees(e, o, c, g, t) /\ t.lives = s.lives /\ t.state = s.state
<1> DEFINE t == Retrans(s, due)
<1>1. SentAgain(s, t)
  BY RetransDoes
<1> HIDE DEF t
<1>2. \A p \in ToSet(s.outPkt) \cup s.sent : PacketOK(e, o, p)
  BY DEF Agrees, OutOK
<1>3. ASSUME NEW p, NEW q, PacketOK(e, o, p), q.syn = p.syn, q.fin = p.fin, q.ack = p.ack,
             q.data = p.data, q.seqno = p.seqno
      PROVE  PacketOK(e, o, q)
  BY <1>3 DEF PacketOK
<1>4. \A p \in ToSet(t.outPkt) \cup t.sent : PacketOK(e, o, p)
  <2>1. CASE t.outPkt = s.outPkt /\ t.sent = s.sent
    BY <1>2, <2>1
  <2>2. ASSUME NEW p \in ToSet(s.outPkt), NEW q,
               q.syn = p.syn, q.fin = p.fin, q.ack = p.ack,
               q.data = p.data, q.seqno = p.seqno,
               t.sent = s.sent \cup {q}, ToSet(t.outPkt) \subseteq ToSet(s.outPkt) \cup {q}
        PROVE  \A x \in ToSet(t.outPkt) \cup t.sent : PacketOK(e, o, x)
    <3>1. PacketOK(e, o, q)
      BY <1>2, <1>3, <2>2
    <3>2. QED
      BY <1>2, <2>2, <3>1
  <2>3. QED
    BY <1>1, <2>1, <2>2 DEF SentAgain
<1>5. Untouched(s, t) /\ t.outSeqno = s.outSeqno
  BY <1>1 DEF SentAgain
<1>6. QED
  BY <1>4, <1>5, AgreesPackets DEF t

\* sendAck, of a stream that is not closed.
LEMMA SendAckOK ==
    ASSUME NEW e \in Ends, NEW o, NEW c, NEW g, Situation(e, o, c, g),
           NEW s \in Streams, Agrees(e, o, c, g, s), s.state # "closed"
    PROVE  LET t == SendAck(s) IN
           Agrees(e, o, c, g, t) /\ t.lives = s.lives /\ t.state = s.state
<1> DEFINE t == SendAck(s)
<1>1. Untouched(s, t) /\ t.outSeqno = s.outSeqno /\ t.outPkt = s.outPkt
  BY SendAckDoes
<1>2. PICK q \in Packets : Acknowledges(q, s.outSeqno, s.inAckno) /\ t.sent = s.sent \cup {q}
  BY SendAckDoes
<1> HIDE DEF t
<1>3. OutOK(e, o, s) /\ o \in Parts /\ o.written <= Total[e] /\ Total[e] < SeqSpace
  BY DEF Agrees, Situation
<1>4. PacketOK(e, o, q)
  BY <1>2, <1>3, AckIsOK
<1>5. \A p \in ToSet(t.outPkt) \cup t.sent : PacketOK(e, o, p)
  BY <1>1, <1>2, <1>3, <1>4 DEF OutOK
<1>6. QED
  BY <1>1, <1>5, AgreesPackets DEF t

(* Data from the beginning of the queue of s, or a FIN behind all data, is  *)
(* given to toSend, and t is left.                                          *)
Handed(e, o, s, data, rest, fin, retrans, t) ==
    /\ data \in Seq(Nat) /\ rest \in Seq(Nat) /\ data \o rest = s.inQueue
    /\ fin \in BOOLEAN /\ (fin => s.inQueue = <<>> /\ o.written = Total[e])
    /\ t \in Streams /\ Given(s, data, rest, fin, retrans, t)

\* Data from the beginning of the queue are sent.
LEMMA GivenOK ==
    ASSUME NEW e \in Ends, NEW o, NEW c, NEW g, Situation(e, o, c, g),
           NEW s \in Streams, Agrees(e, o, c, g, s), Connected(s),
           NEW data, NEW rest, NEW fin, NEW retrans, NEW t,
           Handed(e, o, s, data, rest, fin, retrans, t)
    PROVE  Agrees(e, o, c, g, t) /\ t.lives = s.lives /\ t.state = s.state
<1> SUFFICES ASSUME data \in Seq(Nat), rest \in Seq(Nat), data \o rest = s.inQueue,
                    fin \in BOOLEAN, fin => s.inQueue = <<>> /\ o.written = Total[e],
                    t \in Streams, Given(s, data, rest, fin, retrans, t)
             PROVE  Agrees(e, o, c, g, t) /\ t.lives = s.lives /\ t.state = s.state
  BY DEF Handed
<1> DEFINE w == o.written
           k == w - Len(s.inQueue)
           m == Len(data)
           n == Len(rest)
<1>1. /\ OutOK(e, o, s) /\ InOK(Peer(e), c, g, s)
      /\ o \in Parts /\ w <= Total[e] /\ Total[e] < SeqSpace /\ w \in Nat
      /\ s.state # "closed" /\ s.lives # 0 /\ o.lives # 0
  BY DEF Agrees, Situation, Parts, Connected, OutOK
<1>2. m \in Nat /\ n \in Nat /\ Len(s.inQueue) \in Nat
  <2>1. s.inQueue \in Seq(Nat) /\ data \in Seq(Nat) /\ rest \in Seq(Nat)
    BY DEF Streams
  <2>2. QED
    BY <2>1, LenProperties
<1>3. k \in Nat
  BY <1>1, <1>2 DEF OutOK
<1>4. s.inQueue = Numbers(k, Len(s.inQueue)) /\ s.outSeqno = Position(e, k)
  BY <1>1 DEF OutOK
<1>5. k + Len(s.inQueue) = w
  BY <1>1, <1>2
<1> HIDE DEF w, k, m, n
<1>6. data = Numbers(k, m) /\ rest = Numbers(k + m, n) /\ Len(s.inQueue) = m + n
  <2>1. data \o rest = Numbers(k, Len(data \o rest))
    BY <1>4
  <2>2. data = Numbers(k, Len(data)) /\ rest = Numbers(k + Len(data), Len(rest))
        /\ Len(data \o rest) = Len(data) + Len(rest)
    BY <1>3, <2>1, NumbersPrefix
  <2>3. QED
    BY <2>2 DEF m, n
<1>7. k + m + n = w /\ k + m \in Nat /\ k + m <= w /\ w - n = k + m
  BY <1>1, <1>2, <1>3, <1>5, <1>6
<1>8. fin => k = Total[e]
  <2>1. fin => Len(s.inQueue) = 0 /\ w = Total[e]
    BY DEF w
  <2>2. QED
    BY <1>1, <1>3, <1>5, <2>1
<1>9. PICK q \in Packets :
         /\ ~q.syn /\ q.fin = fin /\ q.ack /\ q.data = data
         /\ q.seqno = s.outSeqno /\ q.ackno = s.inAckno
         /\ t.outPkt = IF retrans THEN Append(s.outPkt, q) ELSE s.outPkt
         /\ t.sent = s.sent \cup {q}
  BY DEF Given
<1>10. PacketOK(e, o, q)
  <2>1. q.seqno = Position(e, k) /\ q.data = Numbers(k, m) /\ (q.fin => k = Total[e])
    BY <1>4, <1>6, <1>8, <1>9
  <2>2. o.lives # 0 /\ o.written <= Total[e] /\ k + m <= o.written
    BY <1>1, <1>7 DEF w
  <2>3. QED
    BY <1>1, <1>2, <1>3, <1>9, <2>1, <2>2, PacketIsOK
<1>11. \A p \in ToSet(t.outPkt) \cup t.sent : PacketOK(e, o, p)
  <2>1. ToSet(t.outPkt) \subseteq ToSet(s.outPkt) \cup {q}
    <3>1. s.outPkt \in Seq(Packets) /\ q \in Packets
      BY <1>9 DEF Streams
    <3>2. ToSet(Append(s.outPkt, q)) = ToSet(s.outPkt) \cup {q}
      BY <3>1, ElementsOfAppend
    <3>3. QED
      BY <1>9, <3>2
  <2>2. QED
    BY <1>1, <1>9, <1>10, <2>1 DEF OutOK
<1>12. /\ t.state = s.state /\ t.lives = s.lives
       /\ t.inStreamActive = s.inStreamActive /\ t.outStreamActive = s.outStreamActive
       /\ t.inAckno = s.inAckno /\ t.outQueue = s.outQueue /\ t.inPkt = s.inPkt
       /\ t.inQueue = rest /\ t.outSeqno = (s.outSeqno + m) % SeqSpace
  BY DEF Given, m
<1>13. t.outSeqno = Position(e, k + m)
  <2>1. k \in Int /\ m \in Int
    BY <1>2, <1>3
  <2>2. QED
    BY <1>4, <1>12, <2>1, PositionAdd
<1>14. OutOK(e, o, t)
  <2>1. Len(t.inQueue) = n /\ n <= w
    BY <1>1, <1>2, <1>3, <1>7, <1>12 DEF n
  <2>2. t.inQueue = Numbers(w - n, n) /\ t.outSeqno = Position(e, w - n)
    BY <1>6, <1>7, <1>12, <1>13
  <2>3. Connected(t) /\ t.state \notin {"syn_sent", "syn_rcvd"}
    BY <1>12 DEF Connected
  <2>4. QED
    BY <1>1, <1>11, <1>12, <2>1, <2>2, <2>3 DEF OutOK, w
<1>15. InOK(Peer(e), c, g, t)
  BY <1>1, <1>12, InSame
<1>16. QED
  BY <1>12, <1>14, <1>15 DEF Agrees

\* A queue is its first segment and the rest.
LEMMA CutInTwo ==
    ASSUME NEW q \in Seq(Nat), Len(q) \in Nat, MaxSeg <= Len(q)
    PROVE  SubSeq(q, 1, MaxSeg) \o SubSeq(q, MaxSeg + 1, Len(q)) = q
<1> DEFINE k == MaxSeg
           n == Len(q)
<1>1. 1 \in 1 .. Len(q) + 1 /\ k \in 1 - 1 .. Len(q) /\ n \in k .. Len(q)
  BY ConstantTypes
<1> HIDE DEF k, n
<1>2. SubSeq(q, 1, k) \o SubSeq(q, k + 1, n) = SubSeq(q, 1, n)
  BY <1>1, ConcatAdjacentSubSeq
<1>3. SubSeq(q, 1, n) = q
  BY SubSeqFull DEF n
<1>4. QED
  BY <1>2, <1>3 DEF k, n

\* send takes full segments, or the rest, from the beginning of the queue.
LEMMA SendDataOK ==
    ASSUME NEW e \in Ends, NEW o, NEW c, NEW g, Situation(e, o, c, g),
           NEW s \in Streams, Agrees(e, o, c, g, s), Connected(s),
           NEW congestWinSize \in MaxSeg..MaxWin
    PROVE  LET t == SendData(s, congestWinSize) IN
           Agrees(e, o, c, g, t) /\ t.lives = s.lives
<1> DEFINE T == {x \in Streams : Agrees(e, o, c, g, x) /\ Connected(x) /\ x.lives = s.lives}
<1>1. T \in SUBSET Streams /\ s \in T
  OBVIOUS
<1>2. ASSUME NEW x \in T, NEW data \in Seq(Nat), NEW rest \in Seq(Nat),
             data \o rest = x.inQueue, NEW t \in Streams, Given(x, data, rest, FALSE, TRUE, t)
      PROVE  t \in T
  <2>1. x \in Streams /\ Agrees(e, o, c, g, x) /\ Connected(x) /\ x.lives = s.lives
    OBVIOUS
  <2> DEFINE no == FALSE
             yes == TRUE
  <2>2. /\ no \in BOOLEAN /\ (no => x.inQueue = <<>> /\ o.written = Total[e])
        /\ Given(x, data, rest, no, yes, t)
    BY <1>2
  <2> HIDE DEF no, yes, T
  <2>3. Handed(e, o, x, data, rest, no, yes, t)
    BY <1>2, <2>2 DEF Handed
  <2>4. Agrees(e, o, c, g, t) /\ t.lives = x.lives /\ t.state = x.state
    BY <2>1, <2>3, GivenOK
  <2>5. QED
    BY <2>1, <2>4 DEF T, Connected
<1>3. ASSUME NEW x \in T, MaxSeg <= Len(x.inQueue) PROVE SendSegment(x) \in T
  <2> DEFINE q == x.inQueue
             data == SubSeq(q, 1, MaxSeg)
             rest == SubSeq(q, MaxSeg + 1, Len(q))
  <2>1. /\ SendSegment(x) \in Streams
        /\ data \in Segments /\ rest \in Seq(Nat)
        /\ Given(x, data, rest, FALSE, TRUE, SendSegment(x))
    BY <1>3, SendSegmentDoes
  <2>2. data \in Seq(Nat)
    BY <2>1 DEF Segments
  <2>3. data \o rest = q
    <3>1. q \in Seq(Nat) /\ Len(q) \in Nat /\ MaxSeg <= Len(q)
      BY <1>3, LenProperties DEF Streams
    <3> HIDE DEF q
    <3>2. QED
      BY <3>1, CutInTwo
  <2> HIDE DEF data, rest, T
  <2>4. QED
    BY <1>2, <2>1, <2>2, <2>3
<1>4. ASSUME NEW x \in T, NEW t \in Streams, x.inQueue \in Segments,
             Given(x, x.inQueue, <<>>, FALSE, TRUE, t)
      PROVE  t \in T
  <2> DEFINE data == x.inQueue
             rest == <<>>
  <2>1. data \in Seq(Nat) /\ rest \in Seq(Nat)
    BY <1>4 DEF Segments
  <2>2. data \o rest = x.inQueue
    BY <2>1, ConcatEmptySeq
  <2>3. Given(x, data, rest, FALSE, TRUE, t)
    BY <1>4
  <2> HIDE DEF data, rest, T
  <2>4. QED
    BY <1>2, <2>1, <2>2, <2>3
<1>5. MaxSend(s, congestWinSize) \in Nat
  BY MaxSendType
<1> HIDE DEF T
<1>6. SendData(s, congestWinSize) \in T
  BY <1>1, <1>3, <1>4, <1>5, SendDataKeeps
<1>7. QED
  BY <1>6 DEF T

\* A FIN is sent behind all the data.
LEMMA SendControlOK ==
    ASSUME NEW e \in Ends, NEW o, NEW c, NEW g, Situation(e, o, c, g),
           NEW s \in Streams, Agrees(e, o, c, g, s), Connected(s), NEW keepAlive
    PROVE  LET t == SendControl(s, keepAlive) IN
           Agrees(e, o, c, g, t) /\ t.lives = s.lives
<1> DEFINE t == SendControl(s, keepAlive)
<1>1. ControlSent(s, t) /\ t \in Streams
  BY SendControlDoes
<1> HIDE DEF t
<1>2. CASE t = s
  BY <1>2 DEF t
<1>3. CASE t = SendAck(s)
  <2>1. s.state # "closed"
    BY DEF Connected
  <2>2. QED
    BY <1>3, <2>1, SendAckOK DEF t
<1>4. ASSUME NEW r \in Streams, ~s.outStreamActive, s.inQueue = <<>>,
             Given(s, <<>>, <<>>, TRUE, FALSE, r),
             NEW x \in {"fin_wait_1", "last_ack"}, t = [r EXCEPT !.state = x]
      PROVE  Agrees(e, o, c, g, t) /\ t.lives = s.lives
  <2> DEFINE no == <<>>
             yes == TRUE
             keep == FALSE
  <2>1. no \in Seq(Nat) /\ yes \in BOOLEAN /\ Given(s, no, no, yes, keep, r)
    <3>1. no \in Seq(Nat)
      OBVIOUS
    <3>2. yes \in BOOLEAN
      OBVIOUS
    <3>3. Given(s, no, no, yes, keep, r)
      BY <1>4, Zenon
    <3>4. QED
      BY <3>1, <3>2, <3>3, Zenon
  <2>10. no \o no = s.inQueue
    BY <1>4, <2>1, ConcatEmptySeq
  <2>2. yes => s.inQueue = <<>> /\ o.written = Total[e]
    BY <1>4 DEF Agrees, OutOK
  <2> HIDE DEF no, yes, keep
  <2>3. Agrees(e, o, c, g, r) /\ r.lives = s.lives /\ r.state = s.state
    <3>1. Handed(e, o, s, no, no, yes, keep, r)
      BY <2>1, <2>10, <2>2 DEF Handed
    <3>2. QED
      BY <3>1, GivenOK
  <2>4. /\ t.state = x /\ t.lives = r.lives
        /\ t.inStreamActive = r.inStreamActive /\ t.outStreamActive = r.outStreamActive
        /\ t.inAckno = r.inAckno /\ t.outSeqno = r.outSeqno /\ t.inQueue = r.inQueue
        /\ t.outQueue = r.outQueue /\ t.inPkt = r.inPkt /\ t.outPkt = r.outPkt /\ t.sent = r.sent
    BY <1>4 DEF Streams
  <2>5. Connected(r) /\ Connected(t) /\ t.state \notin {"closed", "syn_sent", "syn_rcvd"}
        /\ r.state \notin {"closed", "syn_sent", "syn_rcvd"}
    BY <2>3, <2>4 DEF Connected
  <2>6. OutOK(e, o, r) /\ InOK(Peer(e), c, g, r)
    BY <2>3 DEF Agrees
  <2>7. OutOK(e, o, t)
    BY <2>4, <2>5, <2>6 DEF OutOK
  <2>8. InOK(Peer(e), c, g, t)
    BY <2>4, <2>5, <2>6, InSame
  <2>9. QED
    BY <2>3, <2>4, <2>7, <2>8 DEF Agrees
<1>5. QED
  BY <1>1, <1>2, <1>3, <1>4 DEF ControlSent, t

\* A tick.
LEMMA SendOK ==
    ASSUME NEW e \in Ends, NEW o, NEW c, NEW g, Situation(e, o, c, g),
           NEW s, Sound(s), Agrees(e, o, c, g, s),
           NEW congestWinSize \in MaxSeg..MaxWin, NEW due \in BOOLEAN, NEW keepAlive
    PROVE  LET t == Send(s, congestWinSize, due, keepAlive) IN
           Agrees(e, o, c, g, t) /\ t.lives = s.lives
<1> DEFINE a == Acknowledge(s)
           t == Retrans(a, due)
           u == SendData(t, congestWinSize)
           v == SendControl(t, keepAlive)
<1>1. Send(s, congestWinSize, due, keepAlive) =
        IF ~Connected(t) THEN t ELSE IF u # t THEN u ELSE v
  BY DEF Send
<1>2. Sound(a) /\ Agrees(e, o, c, g, a) /\ a.lives = s.lives
  BY AcknowledgeDoes, AcknowledgeOK
<1> HIDE DEF a
<1>3. Sound(t) /\ Agrees(e, o, c, g, t) /\ t.lives = s.lives
  BY <1>2, RetransDoes, RetransOK
<1> HIDE DEF t
<1>4. t \in Streams
  BY <1>3 DEF Sound
<1>5. Connected(t) => Agrees(e, o, c, g, u) /\ u.lives = s.lives
  BY <1>3, <1>4, SendDataOK
<1>6. Connected(t) => Agrees(e, o, c, g, v) /\ v.lives = s.lives
  BY <1>3, <1>4, SendControlOK
<1>7. QED
  BY <1>1, <1>3, <1>5, <1>6

-----------------------------------------------------------------------------
(* The two streams together.                                               *)

\* What the end e has done; first[e] says whether it was the one that sent the first SYN.
Done(e, first) == [lives |-> stream[e].lives, first |-> first[e], written |-> written[e]]

(* Both halves of both streams are right, and so is every datagram under    *)
(* way; who is not eager writes only after the other end.                   *)
Right(first) ==
    \A e \in Ends :
      /\ Agrees(e, Done(e, first), Done(Peer(e), first), got[e], stream[e])
      /\ \A p \in net[e] : PacketOK(Peer(e), Done(Peer(e), first), p)
      /\ written[e] > 0 => e \in Eager \/ written[Peer(e)] > 0

\* The invariant.
IInv == TypesOK /\ \E first \in [Ends -> BOOLEAN] : Right(first)

\* What an end has done, as a record.
LEMMA DoneType ==
    ASSUME TypesOK, NEW first \in [Ends -> BOOLEAN], NEW e \in Ends
    PROVE  /\ Done(e, first) \in Parts /\ Done(e, first).lives = stream[e].lives
           /\ Done(e, first).first = first[e] /\ Done(e, first).written = written[e]
<1>1. stream[e].lives \in Nat /\ first[e] \in BOOLEAN /\ written[e] \in Nat
  BY DEF TypesOK, Streams
<1>2. QED
  BY <1>1 DEF Done, Parts

\* No end has more to write than there are sequence numbers.
LEMMA SituationIs ==
    ASSUME TypesOK, NEW first \in [Ends -> BOOLEAN], NEW e \in Ends,
           \A x \in Ends : Total[x] < SeqSpace
    PROVE  Situation(e, Done(e, first), Done(Peer(e), first), got[e])
<1>1. Peer(e) \in Ends
  BY PeerIsOther
<1>2. /\ Done(e, first) \in Parts /\ Done(e, first).written = written[e]
      /\ Done(Peer(e), first) \in Parts /\ Done(Peer(e), first).written = written[Peer(e)]
  BY <1>1, DoneType
<1>3. got[e] \in Seq(Nat) /\ written[e] <= Total[e] /\ written[Peer(e)] <= Total[Peer(e)]
  BY <1>1 DEF TypesOK
<1>4. QED
  BY <1>1, <1>2, <1>3 DEF Situation

(* A step of the end e, which has then done d: its datagrams join those     *)
(* under way to the peer.                                                   *)
LEMMA StepOK ==
    ASSUME TypesOK, TypesOK', NEW first \in [Ends -> BOOLEAN], Right(first),
           NEW e \in Ends, NEW f \in Ends, f = Peer(e), NEW d \in Parts,
           stream'[f] = stream[f], written'[f] = written[f], got'[f] = got[f],
           d.written = written'[e], written[e] <= written'[e],
           stream[e].lives # 0 => d.lives # 0 /\ d.first = first[e],
           OutOK(e, d, stream'[e]), InOK(f, Done(f, first), got'[e], stream'[e]),
           net'[e] \subseteq net[e], \A p \in net'[f] : p \in net[f] \/ PacketOK(e, d, p),
           written'[e] > 0 => e \in Eager \/ written[f] > 0
    PROVE  IInv'
<1> DEFINE later == [first EXCEPT ![e] = d.first]
           c == Done(f, first)
           o == Done(e, first)
<1>1. /\ Peer(f) = e /\ f # e /\ \A x \in Ends : x = e \/ x = f
      /\ stream[f] \in Streams /\ got[f] \in Seq(Nat) /\ written[e] \in Nat /\ written'[e] \in Nat
      /\ net'[f] \subseteq Packets
  BY PeerIsOther DEF TypesOK
<1>2. later \in [Ends -> BOOLEAN] /\ later[e] = d.first /\ later[f] = first[f]
  BY <1>1 DEF Parts
<1>3. /\ Agrees(f, c, o, got[f], stream[f])
      /\ \A p \in net[f] : PacketOK(e, o, p)
      /\ \A p \in net[e] : PacketOK(f, c, p)
      /\ written[f] > 0 => f \in Eager \/ written[e] > 0
  BY <1>1 DEF Right
<1>4. o \in Parts /\ o.lives = stream[e].lives /\ o.first = first[e] /\ o.written = written[e]
  BY DoneType
<1> HIDE DEF later
<1>5. Done(f, later)' = c
  BY <1>2 DEF Done
<1>6. Done(e, later)' = d
  <2>1. d = [lives |-> d.lives, first |-> d.first, written |-> d.written]
    BY DEF Parts
  <2>2. d.lives = stream'[e].lives
    BY DEF OutOK
  <2>3. Done(e, later)' = [lives |-> stream'[e].lives, first |-> later[e], written |-> written'[e]]
    BY DEF Done
  <2>4. QED
    BY <1>2, <2>1, <2>2, <2>3
<1> HIDE DEF c, o
<1>7. o.lives # 0 => d.lives # 0 /\ d.first = o.first
  BY <1>4
<1>8. o.written <= d.written
  BY <1>4
<1>9. \A p \in net'[f] : PacketOK(e, d, p)
  BY <1>1, <1>3, <1>4, <1>7, <1>8, PacketLasts
<1>10. InOK(e, d, got[f], stream[f]) /\ OutOK(f, c, stream[f])
  <2>1. OutOK(f, c, stream[f]) /\ InOK(e, o, got[f], stream[f])
    BY <1>1, <1>3 DEF Agrees
  <2>2. QED
    BY <1>1, <1>4, <1>7, <1>8, <2>1, InLasts
<1>11. Agrees(e, d, c, got'[e], stream'[e]) /\ Agrees(f, c, d, got'[f], stream'[f])
  BY <1>1, <1>10 DEF Agrees, c
<1>12. \A p \in net'[e] : PacketOK(f, c, p)
  BY <1>3
<1>13. /\ written'[e] > 0 => e \in Eager \/ written'[f] > 0
       /\ written'[f] > 0 => f \in Eager \/ written'[e] > 0
  BY <1>1, <1>3
<1>14. Right(later)'
  <2> SUFFICES ASSUME NEW x \in Ends
               PROVE  /\ Agrees(x, Done(x, later)', Done(Peer(x), later)', got'[x], stream'[x])
                      /\ \A p \in net'[x] : PacketOK(Peer(x), Done(Peer(x), later)', p)
                      /\ written'[x] > 0 => x \in Eager \/ written'[Peer(x)] > 0
    BY DEF Right
  <2>1. CASE x = e
    BY <1>5, <1>6, <1>11, <1>12, <1>13, <2>1
  <2>2. CASE x = f
    BY <1>1, <1>5, <1>6, <1>9, <1>11, <1>13, <2>2
  <2>3. QED
    BY <1>1, <2>1, <2>2
<1>15. QED
  BY <1>2, <1>14 DEF IInv

\* A stream that is committed.
LEMMA CommitOK ==
    ASSUME TypesOK, TypesOK', NEW first \in [Ends -> BOOLEAN], Right(first),
           NEW e \in Ends, NEW d \in Parts, NEW s \in Streams,
           Agrees(e, d, Done(Peer(e), first), got[e], s),
           d.written = written[e], stream[e].lives # 0 => d.lives # 0 /\ d.first = first[e],
           NEW under \in [Ends -> SUBSET Packets], \A x \in Ends : under[x] \subseteq net[x],
           NEW arriving, Committed(e, s, under, arriving), UNCHANGED <<written, got>>
    PROVE  IInv'
<1> DEFINE f == Peer(e)
           t == [s EXCEPT !.sent = {}]
           c == Done(f, first)
<1>1. f \in Ends /\ f # e /\ written' = written /\ got' = got /\ written[e] \in Nat
  BY PeerIsOther DEF TypesOK
<1>2. /\ arriving \subseteq s.sent
      /\ stream' = [stream EXCEPT ![e] = t] /\ net' = [under EXCEPT ![f] = @ \cup arriving]
  BY DEF Committed
<1>3. /\ t.state = s.state /\ t.lives = s.lives
      /\ t.inStreamActive = s.inStreamActive /\ t.outStreamActive = s.outStreamActive
      /\ t.outSeqno = s.outSeqno /\ t.inAckno = s.inAckno /\ t.inQueue = s.inQueue
      /\ t.outQueue = s.outQueue /\ t.inPkt = s.inPkt /\ t.outPkt = s.outPkt /\ t.sent = {}
  BY DEF Streams
<1> HIDE DEF t
<1>4. stream'[e] = t /\ stream'[f] = stream[f] /\ net'[e] = under[e]
      /\ net'[f] = under[f] \cup arriving
  BY <1>1, <1>2 DEF TypesOK
<1> HIDE DEF f, c
<1>5. OutOK(e, d, s) /\ InOK(f, c, got[e], s)
  BY DEF Agrees, f, c
<1>6. OutOK(e, d, t)
  BY <1>3, <1>5 DEF OutOK, Connected
<1>7. InOK(f, c, got[e], t)
  BY <1>3, <1>5, InSame
<1>8. \A p \in net'[f] : p \in net[f] \/ PacketOK(e, d, p)
  BY <1>1, <1>2, <1>4, <1>5 DEF OutOK
<1>9. written[e] > 0 => e \in Eager \/ written[f] > 0
  BY DEF Right, f
<1>10. stream'[e] = t /\ got'[e] = got[e] /\ written'[e] = written[e]
       /\ got'[f] = got[f] /\ written'[f] = written[f] /\ written[e] <= written'[e]
  BY <1>1, <1>4
<1>11. OutOK(e, d, stream'[e]) /\ InOK(f, Done(f, first), got'[e], stream'[e])
  BY <1>6, <1>7, <1>10 DEF c
<1>12. net'[e] \subseteq net[e] /\ d.written = written'[e]
       /\ (written'[e] > 0 => e \in Eager \/ written[f] > 0)
  BY <1>4, <1>9, <1>10
<1>13. QED
  BY <1>1, <1>4, <1>8, <1>10, <1>11, <1>12, StepOK DEF f

\* What has been opened once has been closed at most once.
LEMMA OneLifeIs ==
    ASSUME OneLife', NEW e \in Ends, NEW t, stream' = [stream EXCEPT ![e] = t], TypesOK
    PROVE  t.lives <= 1
<1>1. stream'[e] = t
  BY DEF TypesOK
<1>2. QED
  BY <1>1 DEF OneLife

\* connect sends the first SYN.
LEMMA ConnectOK ==
    ASSUME IInv, NEW e \in Ends, Connect(e), OneLife'
    PROVE  IInv'
<1>1. PICK first \in [Ends -> BOOLEAN] : Right(first)
  BY DEF IInv
<1> DEFINE s == Connects(e, stream[e])
           d == [lives |-> 1, first |-> TRUE, written |-> written[e]]
           c == Done(Peer(e), first)
<1>0. /\ TypesOK /\ e \in Connecting /\ stream[e].state = "closed" /\ Openable(e, stream[e])
      /\ Commit(e, s, net) /\ UNCHANGED <<written, got>>
      /\ Sound(stream[e]) /\ stream[e] \in Streams /\ stream[e].lives \in Nat
  <2>1. /\ TypesOK /\ e \in Connecting /\ stream[e].state = "closed" /\ Openable(e, stream[e])
        /\ Commit(e, s, net) /\ UNCHANGED <<written, got>>
    BY DEF IInv, Connect, Connects, MayOpen, Openable
  <2>2. Sound(stream[e]) /\ stream[e] \in Streams
    BY <2>1 DEF TypesOK, Sound
  <2>3. stream[e].lives \in Nat
    BY <2>2 DEF Streams
  <2>4. QED
    BY <2>1, <2>2, <2>3
<1>a. /\ Sound(s) /\ s.state = "syn_sent" /\ s.lives = stream[e].lives + 1
      /\ s.inQueue = stream[e].inQueue /\ s.outQueue = stream[e].outQueue
      /\ s.inPkt = stream[e].inPkt
      /\ s.outSeqno = (Isn[e][s.lives] + 1) % SeqSpace
  BY <1>0, ConnectsDoes
<1>b. PICK q \in Packets :
        /\ q.syn /\ ~q.fin /\ ~q.ack /\ q.data = <<>> /\ q.seqno = Isn[e][s.lives]
        /\ s.outPkt = Append(stream[e].outPkt, q) /\ s.sent = stream[e].sent \cup {q}
  BY <1>0, ConnectsDoes
<1> HIDE DEF s
<1>c. stream[e].lives = 0 /\ s.lives = 1
  <2>1. PICK arriving : Committed(e, s, net, arriving)
    BY <1>0, <1>a, CommitTypes DEF TypesOK
  <2>2. [s EXCEPT !.sent = {}].lives = s.lives
    BY <1>a DEF Sound, Streams
  <2>3. s.lives <= 1
    BY <1>0, <2>1, <2>2, OneLifeIs DEF Committed
  <2>4. QED
    BY <1>0, <1>a, <2>3
<1>2. /\ TypesOK /\ e \in Connecting /\ stream[e].lives = 0 /\ stream[e].state = "closed"
      /\ Commit(e, s, net) /\ UNCHANGED <<written, got>>
  BY <1>0, <1>c
<1>3. /\ net \in [Ends -> SUBSET Packets] /\ written[e] \in Nat /\ Peer(e) \in Ends
      /\ got[e] \in Seq(Nat) /\ stream[e].outQueue \in Seq(Nat)
  BY <1>2, PeerIsOther DEF TypesOK, Streams
<1>6. TypesOK' /\ \E arriving : Committed(e, s, net, arriving)
  BY <1>2, <1>3, <1>a, CommitTypes
<1>7. s \in Streams /\ s.lives # 0
  BY <1>a, <1>c DEF Sound
<1>8. Agrees(e, Done(e, first), c, got[e], stream[e])
  BY <1>1 DEF Right
<1>9. written[e] = 0 /\ got[e] = <<>>
  <2>1. Done(e, first).written = written[e]
    BY <1>1, <1>2, DoneType
  <2>2. got[e] \o stream[e].outQueue = <<>>
    BY <1>2, <1>8 DEF Agrees, InOK, Connected
  <2>3. got[e] = <<>>
    BY <1>3, <2>2, ConcatEqualIffEmpty
  <2>4. QED
    BY <1>2, <1>8, <2>1, <2>3 DEF Agrees, OutOK
<1>d. /\ Done(e, first).lives = 0 /\ Done(e, first).written = 0
      /\ stream[e].inQueue \in Seq(Nat) /\ stream[e].outPkt \in Seq(Packets)
      /\ OutOK(e, Done(e, first), stream[e])
  BY <1>0, <1>1, <1>2, <1>8, <1>9, DoneType DEF Agrees, Streams
<1>4. /\ s.state = "syn_sent" /\ s.inQueue = <<>> /\ s.outQueue = <<>> /\ s.inPkt = <<>>
      /\ s.outSeqno = (Isn[e][1] + 1) % SeqSpace
  <2>1. Len(stream[e].inQueue) <= 0
    BY <1>d DEF OutOK
  <2>2. stream[e].inQueue = <<>>
    BY <1>d, <2>1, LenProperties, EmptySeq
  <2>3. stream[e].inPkt = <<>>
    BY <1>0 DEF Sound, QueueIsUsed, Connected
  <2>4. stream[e].outQueue = <<>>
    <3>1. got[e] \o stream[e].outQueue = <<>>
      BY <1>2, <1>8 DEF Agrees, InOK, Connected
    <3>2. QED
      BY <1>3, <3>1, ConcatEqualIffEmpty
  <2>5. QED
    BY <1>a, <1>c, <2>2, <2>3, <2>4
<1>5. /\ q.syn /\ ~q.fin /\ ~q.ack /\ q.data = <<>> /\ q.seqno = Isn[e][1]
      /\ ToSet(s.outPkt) \cup s.sent = {q}
  <2>1. \A x : ~PacketOK(e, Done(e, first), x)
    BY <1>d DEF PacketOK
  <2>2. ToSet(stream[e].outPkt) \cup stream[e].sent = {}
    BY <1>d, <2>1 DEF OutOK
  <2>3. ToSet(s.outPkt) = ToSet(stream[e].outPkt) \cup {q}
    BY <1>b, <1>d, ElementsOfAppend
  <2>4. QED
    BY <1>b, <1>c, <2>2, <2>3
<1>10. d \in Parts /\ d.written = 0 /\ d.lives = 1 /\ d.first = TRUE
  BY <1>3, <1>9 DEF Parts
<1> HIDE DEF d
<1>11. PacketOK(e, d, q)
  BY <1>5, <1>10 DEF PacketOK
<1>12. OutOK(e, d, s)
  <2>1. Numbers(0, 0) = <<>> /\ Len(s.inQueue) = 0 /\ d.written - Len(s.inQueue) = 0
    <3> DEFINE l == Len(s.inQueue)
    <3>1. l = 0 /\ Numbers(0, 0) = <<>>
      BY <1>4, NumbersType
    <3> HIDE DEF l
    <3>2. d.written - l = 0
      BY <1>10, <3>1
    <3>3. QED
      BY <3>1, <3>2 DEF l
  <2>2. s.outSeqno = Position(e, d.written - Len(s.inQueue))
    BY <1>4, <2>1, FirstPosition
  <2>3. s.inQueue = Numbers(d.written - Len(s.inQueue), Len(s.inQueue))
    BY <1>4, <2>1
  <2>4. ToSet(s.outPkt) \cup s.sent = {q}
    BY <1>5
  <2>5. \A p \in ToSet(s.outPkt) \cup s.sent : PacketOK(e, d, p)
    BY <1>11, <2>4
  <2>6. d.lives = s.lives /\ ~Connected(s) /\ Len(s.inQueue) <= d.written
    BY <1>4, <1>c, <1>10, <2>1 DEF Connected
  <2>7. QED
    BY <1>2, <1>4, <1>10, <2>2, <2>3, <2>5, <2>6 DEF OutOK
<1>13. InOK(Peer(e), c, got[e], s)
  <2>1. got[e] \o s.outQueue = <<>> /\ Len(<<>>) = 0 /\ Numbers(0, 0) = <<>>
    BY <1>4, <1>9, NumbersType
  <2>2. 0 <= c.written
    <3>1. c \in Parts
      BY <1>1, <1>2, <1>3, DoneType
    <3> HIDE DEF c
    <3>2. QED
      BY <3>1 DEF Parts
  <2>3. ToSet(s.inPkt) = {}
    BY <1>4, <1>7, Elements DEF Streams
  <2>4. QED
    BY <1>4, <2>1, <2>2, <2>3 DEF InOK, Connected
<1>14. Agrees(e, d, c, got[e], s)
  BY <1>12, <1>13 DEF Agrees
<1>15. QED
  BY <1>1, <1>2, <1>3, <1>6, <1>7, <1>9, <1>10, <1>14, CommitOK

\* The peer of an end that has only answered a SYN has not written yet.
LEMMA AnsweredFirst ==
    ASSUME TypesOK, NEW first \in [Ends -> BOOLEAN], Right(first), Connecting \cap Eager = {},
           NEW e \in Ends, stream[e].state = "syn_rcvd"
    PROVE  written[Peer(e)] = 0
<1> DEFINE f == Peer(e)
           o == Done(e, first)
           c == Done(f, first)
<1>1. f \in Ends /\ Peer(f) = e /\ written[f] \in Nat
  BY PeerIsOther DEF TypesOK
<1>2. o.written = written[e]
  BY DoneType
<1>3. /\ Agrees(e, o, c, got[e], stream[e]) /\ Agrees(f, c, o, got[f], stream[f])
      /\ written[f] > 0 => f \in Eager \/ written[e] > 0
  BY <1>1 DEF Right
<1> HIDE DEF o, c, f
<1>4. c.lives # 0 /\ c.first
  BY <1>3 DEF Agrees, InOK, f
<1>5. f \in Connecting
  BY <1>3, <1>4 DEF Agrees, OutOK
<1>6. o.written = 0
  BY <1>3 DEF Agrees, OutOK
<1>7. QED
  BY <1>1, <1>2, <1>3, <1>5, <1>6 DEF f

\* recvPkt.
LEMMA RecvPktOK ==
    ASSUME IInv, NEW e \in Ends, NEW p \in net[e], RecvPkt(e, p),
           Connecting \cap Eager = {} \/ ~Overtaking, OneLife',
           \A x \in Ends : Total[x] < SeqSpace
    PROVE  IInv'
<1>1. PICK first \in [Ends -> BOOLEAN] : Right(first)
  BY DEF IInv
<1> DEFINE f == Peer(e)
           o == Done(e, first)
           c == Done(f, first)
           s == stream[e]
           g == got[e]
           t == HandleIncoming(e, s, p)
<1>2. PICK under \in {net, [net EXCEPT ![e] = @ \ {p}]} : Commit(e, t, under)
  BY DEF RecvPkt
<1>3. /\ TypesOK /\ f \in Ends /\ f # e /\ Peer(f) = e /\ p \in Packets
      /\ Sound(s) /\ s \in Streams /\ UNCHANGED <<written, got>>
      /\ under \in [Ends -> SUBSET Packets] /\ \A x \in Ends : under[x] \subseteq net[x]
  <2>1. TypesOK /\ f \in Ends /\ f # e /\ Peer(f) = e /\ UNCHANGED <<written, got>>
    BY PeerIsOther DEF IInv, RecvPkt
  <2>2. net \in [Ends -> SUBSET Packets] /\ Sound(s) /\ s \in Streams
    BY <2>1 DEF TypesOK, Sound
  <2>3. p \in Packets
    BY <2>2
  <2>4. under \in [Ends -> SUBSET Packets] /\ \A x \in Ends : under[x] \subseteq net[x]
    BY <2>2
  <2> HIDE DEF f, s
  <2>5. QED
    BY <2>1, <2>2, <2>3, <2>4
<1>4. /\ o \in Parts /\ o.lives = s.lives /\ o.first = first[e] /\ o.written = written[e]
      /\ c \in Parts /\ c.lives = stream[f].lives /\ c.first = first[f] /\ c.written = written[f]
  BY <1>3, DoneType
<1>5. /\ Agrees(e, o, c, g, s) /\ PacketOK(f, c, p)
      /\ Agrees(f, c, o, got[f], stream[f])
      /\ written[f] > 0 => f \in Eager \/ written[e] > 0
  BY <1>1, <1>3 DEF Right
<1>6. Situation(e, o, c, g)
  BY <1>3, SituationIs
<1>a. Openable(e, s) /\ (Overtaking \/ ~Overtakes(s, p))
  BY DEF RecvPkt, MayOpen, Openable
<1> HIDE DEF o, c, s, g, f
<1>7. s.state = "syn_rcvd" => c.written = 0 \/ ~Overtakes(s, p)
  BY <1>1, <1>3, <1>4, <1>a, AnsweredFirst DEF s, f
<1>8. Sound(t)
  BY <1>3, <1>a, HandleIncomingSound
<1>b. t.lives <= 1
  <2> HIDE DEF t
  <2>1. PICK arriving : Committed(e, t, under, arriving)
    BY <1>2, <1>3, <1>8, CommitTypes
  <2>2. [t EXCEPT !.sent = {}].lives = t.lives
    BY <1>8 DEF Sound, Streams
  <2>3. QED
    BY <1>3, <2>1, <2>2, OneLifeIs DEF Committed
<1>9. PICK d \in Parts : /\ d.written = o.written
                         /\ (s.lives # 0 => t.lives # 0 /\ d.first = o.first)
                         /\ Agrees(e, d, c, g, t)
  BY <1>3, <1>5, <1>6, <1>7, <1>a, <1>b, HandleIncomingOK DEF f
<1> HIDE DEF t
<1>10. TypesOK' /\ \E arriving : Committed(e, t, under, arriving)
  BY <1>2, <1>3, <1>8, CommitTypes
<1>11. d.lives = t.lives
  BY <1>9 DEF Agrees, OutOK
<1>12. t \in Streams
  BY <1>8 DEF Sound
<1>13. d.written = written[e] /\ (stream[e].lives # 0 => d.lives # 0 /\ d.first = first[e])
  BY <1>4, <1>9, <1>11 DEF s
<1>14. Agrees(e, d, Done(Peer(e), first), got[e], t)
  BY <1>9 DEF c, f, g
<1>15. QED
  BY <1>1, <1>3, <1>10, <1>12, <1>13, <1>14, CommitOK

\* tick.
LEMMA TickOK ==
    ASSUME IInv, NEW e \in Ends, Tick(e), \A x \in Ends : Total[x] < SeqSpace
    PROVE  IInv'
<1>1. PICK first \in [Ends -> BOOLEAN] : Right(first)
  BY DEF IInv
<1>2. PICK w \in MaxSeg..MaxWin, due \in BOOLEAN, keepAlive \in BOOLEAN :
        Commit(e, Send(stream[e], w, due, keepAlive), net)
  BY DEF Tick
<1> DEFINE o == Done(e, first)
           c == Done(Peer(e), first)
           s == stream[e]
           t == Send(s, w, due, keepAlive)
<1>3. /\ TypesOK /\ Sound(s) /\ UNCHANGED <<written, got>>
      /\ net \in [Ends -> SUBSET Packets] /\ \A x \in Ends : net[x] \subseteq net[x]
  BY DEF IInv, TypesOK, Tick
<1>4. o \in Parts /\ o.lives = s.lives /\ o.first = first[e] /\ o.written = written[e]
  BY <1>3, DoneType
<1>5. Agrees(e, o, c, got[e], s)
  BY <1>1 DEF Right
<1>6. Situation(e, o, c, got[e])
  BY <1>3, SituationIs
<1>7. Sound(t)
  BY <1>3, SendSound
<1> HIDE DEF o
<1>8. Agrees(e, o, c, got[e], t) /\ t.lives = s.lives
  <2> HIDE DEF c, s
  <2>1. QED
    BY <1>3, <1>5, <1>6, SendOK
<1> HIDE DEF t
<1>9. TypesOK' /\ \E arriving : Committed(e, t, net, arriving)
  BY <1>2, <1>3, <1>7, CommitTypes DEF t
<1>10. t \in Streams
  BY <1>7 DEF Sound
<1>11. QED
  BY <1>1, <1>3, <1>4, <1>8, <1>9, <1>10, CommitOK

\* A step of the user of e.
LEMMA ChangedOK ==
    ASSUME TypesOK, TypesOK', NEW first \in [Ends -> BOOLEAN], Right(first),
           NEW e \in Ends, NEW d \in Parts, NEW t, Changed(e, t),
           \A x \in Ends : x # e => written'[x] = written[x] /\ got'[x] = got[x],
           d.written = written'[e], written[e] <= written'[e],
           stream[e].lives # 0 => d.lives # 0 /\ d.first = first[e],
           Agrees(e, d, Done(Peer(e), first), got'[e], t),
           written'[e] > 0 => e \in Eager \/ written[Peer(e)] > 0
    PROVE  IInv'
<1> DEFINE f == Peer(e)
<1>1. f \in Ends /\ f # e
  BY PeerIsOther
<1>2. stream'[e] = t /\ stream'[f] = stream[f] /\ net' = net
  BY <1>1 DEF TypesOK, Changed
<1> HIDE DEF f
<1>3. OutOK(e, d, stream'[e]) /\ InOK(f, Done(f, first), got'[e], stream'[e])
  BY <1>2 DEF Agrees, f
<1>4. net'[e] \subseteq net[e] /\ \A p \in net'[f] : p \in net[f] \/ PacketOK(e, d, p)
  BY <1>2
<1>5. written'[f] = written[f] /\ got'[f] = got[f]
  BY <1>1
<1>6. written'[e] > 0 => e \in Eager \/ written[f] > 0
  BY DEF f
<1>7. QED
  BY <1>1, <1>2, <1>3, <1>4, <1>5, <1>6, StepOK DEF f

\* write: the bytes are put behind the others.
LEMMA WriteOK ==
    ASSUME IInv, TypesOK', NEW e \in Ends, NEW n \in 1..MaxWin, Write(e, n)
    PROVE  IInv'
<1>1. PICK first \in [Ends -> BOOLEAN] : Right(first)
  BY DEF IInv
<1> DEFINE o == Done(e, first)
           c == Done(Peer(e), first)
           s == stream[e]
           g == got[e]
           w == written[e]
           t == Writes(s, w, n)
           d == [lives |-> s.lives, first |-> first[e], written |-> w + n]
           l == Len(s.inQueue)
           k == w - l
<1>2. /\ TypesOK /\ TypesOK' /\ Sound(s) /\ s \in Streams /\ s.sent = {} /\ w \in Nat /\ n \in Nat
      /\ n > 0 /\ g \in Seq(Nat) /\ s.outQueue \in Seq(Nat) /\ l \in Nat /\ s.lives \in Nat
      /\ Peer(e) \in Ends
  <2>1. TypesOK /\ Sound(s) /\ s.sent = {} /\ w \in Nat /\ g \in Seq(Nat)
    BY DEF IInv, TypesOK
  <2>2. s \in Streams
    BY <2>1 DEF Sound
  <2>3. n \in Nat /\ n > 0
    BY ConstantTypes
  <2> HIDE DEF s
  <2>4. s.outQueue \in Seq(Nat) /\ s.lives \in Nat /\ s.inQueue \in Seq(Nat)
    BY <2>2 DEF Streams
  <2>5. l \in Nat
    BY <2>4, LenProperties
  <2>6. QED
    BY <2>1, <2>2, <2>3, <2>4, <2>5, PeerIsOther
<1>3. /\ Connected(s) /\ s.outStreamActive /\ (e \in Eager \/ g # <<>>)
      /\ written' = [written EXCEPT ![e] = w + n] /\ got' = got
  BY DEF Write
<1>4. Changed(e, t)
  BY DEF Write, Changed, Writes
<1>5. /\ o \in Parts /\ o.lives = s.lives /\ o.first = first[e] /\ o.written = w
      /\ c \in Parts /\ c.written = written[Peer(e)]
  BY <1>2, DoneType
<1>6. OutOK(e, o, s) /\ InOK(Peer(e), c, g, s)
  BY <1>1 DEF Right, Agrees
<1>7. /\ d \in Parts /\ d.lives = s.lives /\ d.first = first[e] /\ d.written = w + n
  BY <1>2 DEF Parts
<1>8. /\ Untouched([s EXCEPT !.inQueue = t.inQueue], t)
      /\ t.inQueue = s.inQueue \o Numbers(w, n)
      /\ t.outSeqno = s.outSeqno /\ t.outPkt = s.outPkt /\ t.sent = s.sent
  <2> HIDE DEF s, w, t
  <2>1. /\ Untouched([s EXCEPT !.inQueue = Writes(s, w, n).inQueue], Writes(s, w, n))
        /\ Writes(s, w, n).inQueue = s.inQueue \o Numbers(w, n)
        /\ Writes(s, w, n).outSeqno = s.outSeqno /\ Writes(s, w, n).outPkt = s.outPkt
        /\ Writes(s, w, n).sent = s.sent
    BY <1>2, WritesDoes
  <2>2. QED
    BY <2>1 DEF t
<1> HIDE DEF o, c, s, g, t, d, k, l
<1>9. /\ t.state = s.state /\ t.lives = s.lives
      /\ t.inStreamActive = s.inStreamActive /\ t.outStreamActive = s.outStreamActive
      /\ t.inAckno = s.inAckno /\ t.outQueue = s.outQueue /\ t.inPkt = s.inPkt
  BY <1>2, <1>8 DEF Untouched, Streams
<1>10. k \in Nat /\ k + l = w /\ s.inQueue = Numbers(k, l) /\ s.outSeqno = Position(e, k)
  <2>1. l <= w /\ s.inQueue = Numbers(w - l, l) /\ s.outSeqno = Position(e, w - l)
    BY <1>3, <1>5, <1>6 DEF OutOK, l, Connected
  <2>2. QED
    BY <1>2, <2>1 DEF k
<1>11. t.inQueue = Numbers(k, l + n) /\ Len(t.inQueue) = l + n
  <2>1. Numbers(k, l) \o Numbers(k + l, n) = Numbers(k, l + n)
    <3>1. k \in Nat /\ l \in Nat /\ n \in Nat
      BY <1>2, <1>10
    <3>2. QED
      BY <3>1, NumbersCut
  <2>2. t.inQueue = Numbers(k, l + n)
    BY <1>8, <1>10, <2>1
  <2>3. l + n \in Nat
    BY <1>2
  <2>4. QED
    BY <1>10, <2>2, <2>3, NumbersType
<1>12. \A p \in ToSet(t.outPkt) \cup t.sent : PacketOK(e, d, p)
  <2>1. \A p \in ToSet(s.outPkt) : PacketOK(e, o, p) /\ p \in Packets
    <3>1. s.outPkt \in Seq(Packets)
      BY <1>2 DEF Streams
    <3>2. ToSet(s.outPkt) \subseteq Packets
      BY <3>1, Elements
    <3>3. QED
      BY <1>6, <3>2 DEF OutOK
  <2>2. o.written <= d.written /\ (o.lives # 0 => d.lives # 0 /\ d.first = o.first)
    BY <1>2, <1>5, <1>7
  <2>3. \A p \in ToSet(s.outPkt) : PacketOK(e, d, p)
    BY <1>5, <1>7, <2>1, <2>2, PacketLasts
  <2>4. QED
    BY <1>2, <1>8, <2>3
<1>13. OutOK(e, d, t)
  <2>1. d.written - Len(t.inQueue) = k /\ Len(t.inQueue) <= d.written
    BY <1>2, <1>7, <1>10, <1>11
  <2>2. t.inQueue = Numbers(d.written - Len(t.inQueue), Len(t.inQueue))
    BY <1>11, <2>1
  <2>3. t.outSeqno = Position(e, d.written - Len(t.inQueue))
    BY <1>8, <1>10, <2>1
  <2>4. Connected(t) /\ t.outStreamActive /\ t.lives # 0 /\ t.state \notin {"syn_sent", "syn_rcvd"}
    BY <1>3, <1>6, <1>9 DEF Connected, OutOK
  <2>5. d.lives = t.lives /\ (d.first => e \in Connecting)
    BY <1>3, <1>5, <1>6, <1>7, <1>9 DEF OutOK, Connected
  <2>6. QED
    BY <1>12, <2>1, <2>2, <2>3, <2>4, <2>5 DEF OutOK
<1>14. InOK(Peer(e), c, g, t)
  BY <1>6, <1>9, InSame
<1>15. e \in Eager \/ written[Peer(e)] > 0
  <2> SUFFICES ASSUME g # <<>> PROVE c.written > 0
    BY <1>3, <1>5
  <2> DEFINE x == g \o s.outQueue
  <2>1. Len(x) = Len(g) + Len(s.outQueue) /\ Len(g) \in Nat /\ Len(s.outQueue) \in Nat
    BY <1>2, ConcatProperties, LenProperties
  <2>2. Len(g) # 0
    BY <1>2
  <2>3. Len(x) <= c.written /\ c.written \in Nat
    BY <1>5, <1>6 DEF InOK, Parts
  <2> HIDE DEF x
  <2>4. QED
    BY <2>1, <2>2, <2>3
<1>16. /\ \A x \in Ends : x # e => written'[x] = written[x] /\ got'[x] = got[x]
       /\ written'[e] = w + n /\ w <= w + n /\ got'[e] = g
  BY <1>2, <1>3 DEF TypesOK, g
<1>17. /\ d.written = written'[e] /\ written[e] <= written'[e]
       /\ (stream[e].lives # 0 => d.lives # 0 /\ d.first = first[e])
  BY <1>7, <1>16 DEF s
<1>18. Agrees(e, d, Done(Peer(e), first), got'[e], t)
  BY <1>13, <1>14, <1>16 DEF Agrees, c
<1>19. QED
  BY <1>1, <1>2, <1>4, <1>7, <1>15, <1>16, <1>17, <1>18, ChangedOK

\* read: what was received is now with the user.
LEMMA ReadOK ==
    ASSUME IInv, TypesOK', NEW e \in Ends, NEW n \in 1..MaxWin, Read(e, n)
    PROVE  IInv'
<1>1. PICK first \in [Ends -> BOOLEAN] : Right(first)
  BY DEF IInv
<1> DEFINE o == Done(e, first)
           c == Done(Peer(e), first)
           s == stream[e]
           g == got[e]
           t == Reads(s, n)
           a == SubSeq(s.outQueue, 1, n)
<1>2. /\ TypesOK /\ TypesOK' /\ Sound(s) /\ s \in Streams /\ n \in Nat /\ g \in Seq(Nat)
      /\ s.outQueue \in Seq(Nat)
  <2>1. TypesOK /\ Sound(s) /\ g \in Seq(Nat)
    BY DEF IInv, TypesOK
  <2>2. s \in Streams
    BY <2>1 DEF Sound
  <2>3. n \in Nat
    BY ConstantTypes
  <2> HIDE DEF s
  <2>4. s.outQueue \in Seq(Nat)
    BY <2>2 DEF Streams
  <2>5. QED
    BY <2>1, <2>2, <2>3, <2>4
<1>3. /\ Connected(s) /\ n <= Len(s.outQueue) /\ written' = written
      /\ got' = [got EXCEPT ![e] = g \o a]
  BY DEF Read
<1>4. Changed(e, t)
  BY DEF Read, Changed, Reads
<1>5. o \in Parts /\ o.lives = s.lives /\ o.first = first[e] /\ o.written = written[e]
  BY <1>2, DoneType
<1>6. OutOK(e, o, s) /\ InOK(Peer(e), c, g, s)
      /\ (written[e] > 0 => e \in Eager \/ written[Peer(e)] > 0)
  BY <1>1 DEF Right, Agrees
<1> HIDE DEF s
<1>7. /\ Sound(t) /\ Untouched([s EXCEPT !.outQueue = t.outQueue], t)
      /\ a \in Seq(Nat) /\ a \o t.outQueue = s.outQueue
      /\ t.outSeqno = s.outSeqno /\ t.outPkt = s.outPkt /\ t.sent = s.sent
  BY <1>2, <1>3, ReadsDoes
<1> HIDE DEF o, c, g, t, a
<1>8. /\ t.state = s.state /\ t.lives = s.lives
      /\ t.inStreamActive = s.inStreamActive /\ t.outStreamActive = s.outStreamActive
      /\ t.inAckno = s.inAckno /\ t.inQueue = s.inQueue /\ t.inPkt = s.inPkt
  BY <1>2, <1>7 DEF Untouched, Streams
<1>9. OutOK(e, o, t)
  BY <1>6, <1>7, <1>8 DEF OutOK, Connected
<1>10. (g \o a) \o t.outQueue = g \o s.outQueue
  <2> DEFINE q == t.outQueue
  <2>1. q \in Seq(Nat)
    BY <1>7 DEF Sound, Streams
  <2> HIDE DEF q
  <2>2. g \in Seq(Nat) /\ a \in Seq(Nat)
    BY <1>2, <1>7
  <2>3. (g \o a) \o q = g \o (a \o q)
    BY <2>1, <2>2, JoinAssociative
  <2>4. QED
    BY <1>7, <2>3 DEF q
<1>11. InOK(Peer(e), c, g \o a, t)
  BY <1>3, <1>6, <1>8, <1>10 DEF InOK, Connected
<1>12. /\ got'[e] = g \o a /\ written'[e] = written[e] /\ written[e] <= written'[e]
       /\ \A x \in Ends : x # e => written'[x] = written[x] /\ got'[x] = got[x]
  BY <1>2, <1>3 DEF TypesOK
<1>13. Agrees(e, o, Done(Peer(e), first), got'[e], t)
  BY <1>9, <1>11, <1>12 DEF Agrees, c
<1>14. /\ o.written = written'[e] /\ (stream[e].lives # 0 => o.lives # 0 /\ o.first = first[e])
       /\ (written'[e] > 0 => e \in Eager \/ written[Peer(e)] > 0)
  BY <1>5, <1>6, <1>12 DEF s
<1>15. QED
  BY <1>1, <1>2, <1>4, <1>5, <1>12, <1>13, <1>14, ChangedOK

\* closeWrite, when all is written.
LEMMA CloseWriteOK ==
    ASSUME IInv, TypesOK', NEW e \in Ends, CloseWrite(e)
    PROVE  IInv'
<1>1. PICK first \in [Ends -> BOOLEAN] : Right(first)
  BY DEF IInv
<1> DEFINE o == Done(e, first)
           c == Done(Peer(e), first)
           s == stream[e]
           t == Closes(s)
<1>2. TypesOK /\ TypesOK' /\ Sound(s) /\ s \in Streams /\ written[e] \in Nat
  BY DEF IInv, TypesOK, Sound
<1>3. written[e] = Total[e] /\ written' = written /\ got' = got
  BY DEF CloseWrite
<1>4. Changed(e, t)
  BY DEF CloseWrite, Changed, Closes
<1>5. o \in Parts /\ o.lives = s.lives /\ o.first = first[e] /\ o.written = written[e]
  BY <1>2, DoneType
<1>6. OutOK(e, o, s) /\ InOK(Peer(e), c, got[e], s)
      /\ (written[e] > 0 => e \in Eager \/ written[Peer(e)] > 0)
  BY <1>1 DEF Right, Agrees
<1> HIDE DEF s
<1>7. /\ Untouched([s EXCEPT !.outStreamActive = FALSE], t)
      /\ t.outSeqno = s.outSeqno /\ t.outPkt = s.outPkt /\ t.sent = s.sent
  BY <1>2, ClosesDoes
<1> HIDE DEF o, c, t
<1>8. /\ t.state = s.state /\ t.lives = s.lives /\ t.inStreamActive = s.inStreamActive
      /\ t.inAckno = s.inAckno /\ t.inQueue = s.inQueue /\ t.inPkt = s.inPkt
      /\ t.outQueue = s.outQueue
  BY <1>2, <1>7 DEF Untouched, Streams
<1>9. OutOK(e, o, t)
  BY <1>3, <1>5, <1>6, <1>7, <1>8 DEF OutOK, Connected
<1>10. InOK(Peer(e), c, got[e], t)
  BY <1>6, <1>8, InSame
<1>11. Agrees(e, o, Done(Peer(e), first), got'[e], t)
  BY <1>3, <1>9, <1>10 DEF Agrees, c
<1>12. /\ o.written = written'[e] /\ (stream[e].lives # 0 => o.lives # 0 /\ o.first = first[e])
       /\ (written'[e] > 0 => e \in Eager \/ written[Peer(e)] > 0)
       /\ written[e] <= written'[e]
       /\ \A x \in Ends : x # e => written'[x] = written[x] /\ got'[x] = got[x]
  BY <1>2, <1>3, <1>5, <1>6 DEF s
<1>13. QED
  BY <1>1, <1>2, <1>4, <1>5, <1>11, <1>12, ChangedOK

\* close, or a time-out.
LEMMA CloseOK ==
    ASSUME IInv, TypesOK', NEW e \in Ends, Close(e), \A x \in Ends : Total[x] < SeqSpace
    PROVE  IInv'
<1>1. PICK first \in [Ends -> BOOLEAN] : Right(first)
  BY DEF IInv
<1> DEFINE o == Done(e, first)
           c == Done(Peer(e), first)
           s == stream[e]
           t == Cleanup(s)
<1>2. TypesOK /\ TypesOK' /\ Sound(s) /\ s \in Streams /\ written[e] \in Nat
  BY DEF IInv, TypesOK, Sound
<1>3. s.state # "closed" /\ written' = written /\ got' = got
  BY DEF Close
<1>4. Changed(e, t)
  BY DEF Close, Changed
<1>5. o \in Parts /\ o.lives = s.lives /\ o.first = first[e] /\ o.written = written[e]
  BY <1>2, DoneType
<1>6. Agrees(e, o, c, got[e], s) /\ (written[e] > 0 => e \in Eager \/ written[Peer(e)] > 0)
  BY <1>1 DEF Right
<1>7. Situation(e, o, c, got[e])
  BY <1>2, SituationIs
<1> HIDE DEF s
<1>8. t \in Streams /\ Emptied(s, t)
  BY <1>2, CleanupDoes
<1> HIDE DEF o, c, t
<1>9. t.lives = s.lives /\ t.sent = s.sent /\ t.state = "closed" /\ t.inQueue = <<>>
      /\ t.outQueue = <<>> /\ t.inPkt = <<>> /\ t.outPkt = <<>>
  BY <1>8 DEF Emptied
<1>10. /\ OutOK(e, o, s) /\ InOK(Peer(e), c, got[e], s) /\ s.lives # 0
       /\ o.written <= Total[e] /\ Total[e] < SeqSpace
  BY <1>3, <1>6, <1>7 DEF Agrees, OutOK, Situation
<1>11. OutOK(e, o, t)
  BY <1>2, <1>3, <1>5, <1>8, <1>9, <1>10, OutLasts
<1>12. InOK(Peer(e), c, got[e], t)
  BY <1>2, <1>7, <1>8, <1>9, <1>10, InClosed
<1>13. Agrees(e, o, Done(Peer(e), first), got'[e], t)
  BY <1>3, <1>11, <1>12 DEF Agrees, c
<1>14. /\ o.written = written'[e] /\ (stream[e].lives # 0 => o.lives # 0 /\ o.first = first[e])
       /\ (written'[e] > 0 => e \in Eager \/ written[Peer(e)] > 0)
       /\ written[e] <= written'[e]
       /\ \A x \in Ends : x # e => written'[x] = written[x] /\ got'[x] = got[x]
  BY <1>2, <1>3, <1>5, <1>6 DEF s
<1>15. QED
  BY <1>1, <1>2, <1>4, <1>5, <1>13, <1>14, ChangedOK

\* At first nothing has been done.
LEMMA IInvInit ==
    ASSUME Init
    PROVE  IInv
<1> DEFINE first == [x \in Ends |-> FALSE]
           z == <<>>
<1>1. first \in [Ends -> BOOLEAN] /\ TypesOK
  BY TypesInit
<1>2. ASSUME NEW e \in Ends
      PROVE  stream[e] = Fresh /\ net[e] = {} /\ written[e] = 0 /\ got[e] = z
  BY DEF Init
<1>3. z \in Seq(Nat) /\ Len(z) = 0 /\ z \o z = z /\ Numbers(0, 0) = z
  BY NumbersType
<1> HIDE DEF first
<1>4. ASSUME NEW e \in Ends
      PROVE  Agrees(e, Done(e, first), Done(Peer(e), first), got[e], stream[e])
  <2> DEFINE o == Done(e, first)
             c == Done(Peer(e), first)
             s == Fresh
  <2>1. Peer(e) \in Ends
    BY PeerIsOther
  <2>2. o.lives = 0 /\ o.written = 0 /\ c.written = 0
    BY <1>2, <2>1 DEF Done, Fresh
  <2>3. /\ s.state = "closed" /\ s.lives = 0 /\ s.inQueue = z /\ s.outQueue = z
        /\ s.inPkt = z /\ s.outPkt = z /\ s.sent = {}
    BY DEF Fresh
  <2>4. ToSet(s.inPkt) = {} /\ ToSet(s.outPkt) \cup s.sent = {}
    BY <2>3 DEF ToSet
  <2> HIDE DEF o, c, s
  <2>5. OutOK(e, o, s)
    <3>1. Len(s.inQueue) = 0
      BY <1>3, <2>3
    <3>2. o.written - Len(s.inQueue) = 0
      BY <2>2, <3>1
    <3>3. QED
      BY <1>3, <2>2, <2>3, <2>4, <3>1, <3>2 DEF OutOK, Connected
  <2>6. InOK(Peer(e), c, z, s)
    BY <1>3, <2>2, <2>3, <2>4 DEF InOK, Connected
  <2>7. QED
    BY <1>2, <2>5, <2>6 DEF Agrees, o, c, s
<1>5. Right(first)
  BY <1>2, <1>4 DEF Right
<1>6. QED
  BY <1>1, <1>5 DEF IInv

(* Every step that opens no stream again keeps the invariant, when the      *)
(* packet that ends a handshake is the first one or the other end must wait *)
(* for it, and no end has more to write than there are sequence numbers.    *)
LEMMA IInvNext ==
    ASSUME Connecting \cap Eager = {} \/ ~Overtaking, \A e \in Ends : Total[e] < SeqSpace,
           IInv, Next, OneLife'
    PROVE  IInv'
<1>1. TypesOK'
  BY TypesNext DEF IInv
<1>2. CASE \E e \in Ends : Connect(e)
  BY <1>2, ConnectOK
<1>3. CASE \E e \in Ends : \E p \in net[e] : RecvPkt(e, p)
  BY <1>3, RecvPktOK
<1>4. CASE \E e \in Ends : Tick(e)
  BY <1>4, TickOK
<1>5. CASE \E e \in Ends, n \in 1..MaxWin : Write(e, n)
  BY <1>1, <1>5, WriteOK
<1>6. CASE \E e \in Ends, n \in 1..MaxWin : Read(e, n)
  BY <1>1, <1>6, ReadOK
<1>7. CASE \E e \in Ends : CloseWrite(e)
  BY <1>1, <1>7, CloseWriteOK
<1>8. CASE \E e \in Ends : Close(e)
  BY <1>1, <1>8, CloseOK
<1>9. QED
  BY <1>2, <1>3, <1>4, <1>5, <1>6, <1>7, <1>8 DEF Next

\* So does a step in which nothing happens.
LEMMA IInvStutter ==
    ASSUME IInv, UNCHANGED vars
    PROVE  IInv'
<1>1. TypesOK'
  BY DEF IInv, TypesOK, vars
<1>2. PICK first \in [Ends -> BOOLEAN] : Right(first)
  BY DEF IInv
<1>3. Right(first)'
  BY <1>2 DEF Right, Done, vars
<1>4. QED
  BY <1>1, <1>2, <1>3 DEF IInv

\* The invariant of every behaviour: while no stream is opened again, both halves are right.
Once == TypesOK /\ (OneLife => IInv)

\* It holds at first.
LEMMA OnceInit == ASSUME Init PROVE Once
  BY IInvInit DEF Once, IInv

\* It is kept.
LEMMA OnceNext ==
    ASSUME Connecting \cap Eager = {} \/ ~Overtaking, \A e \in Ends : Total[e] < SeqSpace
    PROVE  Once /\ [Next]_vars => Once'
<1>1. ASSUME Once, Next PROVE Once'
  <2>1. TypesOK'
    BY <1>1, TypesNext DEF Once
  <2>2. ASSUME OneLife' PROVE IInv'
    <3>1. OneLife
      BY <1>1, <2>2, OneLifeBefore DEF Once
    <3>2. IInv
      BY <1>1, <3>1 DEF Once
    <3>3. QED
      BY <1>1, <2>2, <3>2, IInvNext
  <2>3. QED
    BY <2>1, <2>2 DEF Once
<1>2. ASSUME Once, UNCHANGED vars PROVE Once'
  <2>1. TypesOK' /\ (OneLife' => OneLife)
    BY <1>2 DEF Once, TypesOK, OneLife, vars
  <2>2. IInv => IInv'
    BY <1>2, IInvStutter
  <2>3. QED
    BY <1>2, <2>1, <2>2 DEF Once
<1>3. QED
  BY <1>1, <1>2

\* What the invariant says of what has arrived at e.
LEMMA ReceivedIs ==
    ASSUME IInv, NEW e \in Ends
    PROVE  /\ got[e] \in Seq(Nat) /\ stream[e].outQueue \in Seq(Nat)
           /\ Received(e) = Numbers(0, Len(Received(e))) /\ Len(Received(e)) \in Nat
           /\ Len(Received(e)) <= written[Peer(e)]
           /\ Connected(stream[e]) /\ ~stream[e].inStreamActive =>
                Len(Received(e)) = Total[Peer(e)]
<1>1. PICK first \in [Ends -> BOOLEAN] : Right(first)
  BY DEF IInv
<1> DEFINE s == stream[e]
           f == Peer(e)
<1>2. TypesOK /\ s \in Streams /\ got[e] \in Seq(Nat)
  BY DEF IInv, TypesOK, Sound
<1>3. InOK(f, Done(f, first), got[e], s)
  BY <1>1 DEF Right, Agrees
<1>4. Done(f, first).written = written[f]
  BY DEF Done
<1> HIDE DEF s, f
<1>5. s.outQueue \in Seq(Nat)
  BY <1>2 DEF Streams
<1>6. got[e] \o s.outQueue \in Seq(Nat)
  BY <1>2, <1>5, ConcatProperties
<1>7. Received(e) = got[e] \o s.outQueue
  BY DEF Received, s
<1>8. Received(e) \in Seq(Nat) /\ Len(Received(e)) \in Nat
  BY <1>6, <1>7, LenProperties
<1>9. QED
  BY <1>2, <1>3, <1>4, <1>5, <1>7, <1>8 DEF InOK, s, f

(* The bytes that arrive are those that were written, in order, whatever    *)
(* the network loses, doubles or exchanges, however large the windows and   *)
(* segments and wherever the numbers begin, also across the end of their    *)
(* range, and whichever ends connect.  Either the packet that ends a        *)
(* handshake is the first one sent behind the SYN, or an end that connects  *)
(* must wait for an answer before it writes: MCTcpStreamOrder shows what    *)
(* happens otherwise.  The numbers must not come round, as a datagram may   *)
(* be late by any time.                                                     *)
THEOREM WhatArrivesIsWhatWasWritten ==
    ASSUME Connecting \cap Eager = {} \/ ~Overtaking, \A e \in Ends : Total[e] < SeqSpace
    PROVE  Spec => []Integrity
<1>1. Once => Integrity
  <2> SUFFICES ASSUME IInv, NEW e \in Ends
               PROVE  Received(e) = [i \in 1..Len(Received(e)) |-> i]
    BY DEF Integrity, Once
  <2> DEFINE n == Len(Received(e))
  <2>1. Received(e) = Numbers(0, n) /\ n \in Nat
    BY ReceivedIs
  <2> HIDE DEF n
  <2>2. Numbers(0, n) = [i \in 1..n |-> i]
    BY <2>1 DEF Numbers
  <2>3. QED
    BY <2>1, <2>2 DEF n
<1>2. Once /\ [Next]_vars => Once'
  BY OnceNext
<1>3. QED
  BY OnceInit, <1>1, <1>2, PTL DEF Spec

(* Who is told that the stream has ended has read all that the other end    *)
(* had to write: the FIN is not taken before what was sent ahead of it.     *)
THEOREM EndOfStreamIsTheEnd ==
    ASSUME Connecting \cap Eager = {} \/ ~Overtaking, \A e \in Ends : Total[e] < SeqSpace
    PROVE  Spec => []EndOfStream
<1>1. Once => EndOfStream
  <2> SUFFICES ASSUME IInv, NEW e \in Ends, Connected(stream[e]),
                      ~stream[e].inStreamActive, stream[e].outQueue = <<>>
               PROVE  Len(got[e]) = written[Peer(e)]
    BY DEF EndOfStream, Once
  <2>1. got[e] \in Seq(Nat) /\ Len(Received(e)) \in Nat
    BY ReceivedIs
  <2>2. Len(Received(e)) <= written[Peer(e)] /\ Len(Received(e)) = Total[Peer(e)]
    BY ReceivedIs
  <2>3. written[Peer(e)] \in Nat /\ written[Peer(e)] <= Total[Peer(e)]
    BY PeerIsOther DEF IInv, TypesOK
  <2>4. Received(e) = got[e]
    BY <2>1, ConcatEmptySeq DEF Received
  <2>5. QED
    BY <2>1, <2>2, <2>3, <2>4
<1>2. Once /\ [Next]_vars => Once'
  BY OnceNext
<1>3. QED
  BY OnceInit, <1>1, <1>2, PTL DEF Spec

-----------------------------------------------------------------------------
(* Nothing is dropped.  A stream is sent in segments, and a segment is never *)
(* cut again: what either end knows of the other ends where a segment ends.  *)

\* A packet of e is one of its segments, when C has the places where these begin and end.
Whole(e, C, p) ==
    ~p.syn =>
      /\ Offset(e, p.seqno) \in C /\ Offset(e, p.seqno) + Len(p.data) \in C
      /\ \A x \in C : x <= Offset(e, p.seqno) \/ Offset(e, p.seqno) + Len(p.data) <= x

\* A packet acknowledges no more than the first m bytes of f, and whole segments.
Refers(f, D, m, p) == p.ack => \E a \in D : a <= m /\ p.ackno = Position(f, a)

\* The byte b of e is in one of the packets P.
Holds(e, P, b) ==
    \E p \in P : ~p.syn /\ Offset(e, p.seqno) < b /\ b <= Offset(e, p.seqno) + Len(p.data)

(* How many bytes a stream has received, when its user has read g and its   *)
(* peer has written v; a stream that was closed asks for nothing any more.  *)
Reach(v, g, s) == IF s.state = "closed" /\ s.lives # 0 THEN v ELSE Len(g \o s.outQueue)

(* The sending half of the stream s of e, which has written w bytes: what   *)
(* was sent and not yet received, l being what was, waits in outPkt, and    *)
(* outAcked is not beyond l; at first only the SYN is sent.                 *)
Sender(e, C, l, w, s) ==
    LET n == w - Len(s.inQueue) IN
    /\ C \subseteq 0..n
    /\ s.state # "closed" => n \in C /\ \A b \in 1..n : b <= l \/ Holds(e, ToSet(s.outPkt), b)
    /\ \A p \in ToSet(s.outPkt) \cup s.sent : Whole(e, C, p)
    /\ Connected(s) => \E a \in C : a <= l /\ s.outAcked = Position(e, a)
    /\ s.state = "syn_sent" => \A p \in ToSet(s.outPkt) : p.syn

(* The receiving half: what was received ends where a segment of the peer   *)
(* does, and the packets sent acknowledge no more.                          *)
Receiver(e, C, D, l, v, g, s) ==
    LET m == Reach(v, g, s) IN
    /\ s.state # "closed" \/ s.lives = 0 => m \in D
    /\ \A p \in ToSet(s.inPkt) : Whole(Peer(e), D, p) /\ Refers(e, C, l, p)
    /\ \A p \in ToSet(s.outPkt) \cup s.sent : Refers(Peer(e), D, m, p)

\* What is given while a stream does something.
Setting(e, o, c, g, C, D, l) ==
    /\ Situation(e, o, c, g)
    /\ C \in SUBSET Nat /\ D \in SUBSET Nat /\ 0 \in C /\ 0 \in D /\ l \in Nat
    /\ 2 * Total[e] < SeqSpace

\* A stream that is right, and keeps what it must; had is what it has received already.
Keeps(e, o, c, g, C, D, l, had, s) ==
    /\ Agrees(e, o, c, g, s)
    /\ Sender(e, C, l, o.written, s) /\ Receiver(e, C, D, l, c.written, g, s)
    /\ had \in 0..Reach(c.written, g, s)

\* The difference of two positions.
LEMMA DifferenceOfPositions ==
    ASSUME NEW e \in Ends, NEW k \in Nat, NEW a \in Nat
    PROVE  (Position(e, k) - Position(e, a)) % SeqSpace = (k - a) % SeqSpace
<1> DEFINE d == k - a
           x == Position(e, a)
           y == Position(e, k)
<1>1. d \in Int /\ a \in Int /\ a + d = k
  OBVIOUS
<1> HIDE DEF d
<1>2. x \in Int /\ y \in Int /\ (x + d) % SeqSpace = y
  <2>1. x \in Seqno /\ (x + d) % SeqSpace = Position(e, a + d)
    BY <1>1, PositionAdd
  <2>2. y \in Seqno
    <3>1. k \in Int /\ a \in Int
      OBVIOUS
    <3>2. QED
      BY <3>1, PositionAdd
  <2>3. QED
    BY <1>1, <2>1, <2>2, SeqnoType
<1> HIDE DEF x, y
<1> DEFINE u == x + d
           z == 0 - x
<1>3. u \in Int /\ z \in Int /\ u + z = d /\ y + z = y - x
  BY <1>1, <1>2
<1>4. u % SeqSpace = y
  BY <1>2
<1> HIDE DEF u, z
<1>5. ((u % SeqSpace) + z) % SeqSpace = (u + z) % SeqSpace
  BY <1>3, Reduced
<1>6. (y - x) % SeqSpace = d % SeqSpace
  BY <1>3, <1>4, <1>5
<1>7. QED
  BY <1>6 DEF x, y, d

\* What stands behind is not old, within half of the numbers.
LEMMA NotOld ==
    ASSUME NEW e \in Ends, NEW k \in Nat, NEW a \in Nat, a <= k, 2 * k < SeqSpace
    PROVE  ~IsOldSequence(Position(e, k), Position(e, a))
<1> DEFINE d == k - a
<1>1. d \in Nat /\ 2 * d < SeqSpace /\ SeqSpace \in Nat
  BY ConstantTypes
<1>2. (Position(e, k) - Position(e, a)) % SeqSpace = d % SeqSpace
  BY DifferenceOfPositions
<1> HIDE DEF d
<1>3. d % SeqSpace = d
  BY <1>1, SmallRemainder
<1>4. ~(d >= SeqSpace \div 2)
  BY <1>1, ConstantTypes
<1>5. QED
  BY <1>2, <1>3, <1>4 DEF IsOldSequence

\* The segments of D come behind those of C.
Extends(C, D) == C \subseteq D /\ \A x \in D \ C : \A y \in C : y <= x

\* Segments stay whole as more are sent.
LEMMA WholeLasts ==
    ASSUME NEW e, NEW C, NEW D, Extends(C, D), NEW p, Whole(e, C, p)
    PROVE  Whole(e, D, p)
BY DEF Whole, Extends

\* An acknowledgement stays right as more is received.
LEMMA RefersLasts ==
    ASSUME NEW f, NEW C \in SUBSET Nat, NEW D, C \subseteq D,
           NEW m \in Nat, NEW n \in Nat, m <= n, NEW p, Refers(f, C, m, p)
    PROVE  Refers(f, D, n, p)
<1>1. \A a \in C : a <= m => a <= n
  OBVIOUS
<1>2. QED
  BY <1>1 DEF Refers

\* How much was received is a number.
LEMMA ReachType ==
    ASSUME NEW v \in Nat, NEW g \in Seq(Nat), NEW s \in Streams
    PROVE  Reach(v, g, s) \in Nat
<1>1. s.outQueue \in Seq(Nat)
  BY DEF Streams
<1> DEFINE r == g \o s.outQueue
<1>2. r \in Seq(Nat)
  BY <1>1, ConcatProperties
<1> HIDE DEF r
<1>3. Len(r) \in Nat
  BY <1>2, LenProperties
<1>4. QED
  BY <1>3 DEF Reach, r

\* The sending half stays as it must be while the peer receives more.
LEMMA SenderLasts ==
    ASSUME NEW e, NEW C \in SUBSET Nat, NEW l \in Nat, NEW k \in Nat, l <= k, NEW w, NEW s,
           Sender(e, C, l, w, s)
    PROVE  Sender(e, C, k, w, s)
<1> DEFINE n == w - Len(s.inQueue)
<1>1. \A a \in C : a <= l => a <= k
  OBVIOUS
<1>2. \A b \in 1..n : b <= l => b <= k
  OBVIOUS
<1>3. QED
  BY <1>1, <1>2 DEF Sender

\* So does the receiving half while the peer sends and receives more.
LEMMA ReceiverLasts ==
    ASSUME NEW e, NEW C \in SUBSET Nat, NEW B, C \subseteq B, NEW D \in SUBSET Nat, NEW E,
           Extends(D, E), NEW l \in Nat, NEW k \in Nat, l <= k,
           NEW v \in Nat, NEW w \in Nat, v <= w, NEW g \in Seq(Nat), NEW s \in Streams,
           Receiver(e, C, D, l, v, g, s)
    PROVE  Receiver(e, B, E, k, w, g, s) /\ Reach(v, g, s) <= Reach(w, g, s)
<1> DEFINE m == Reach(v, g, s)
           n == Reach(w, g, s)
           f == Peer(e)
<1>1. m \in Nat /\ n \in Nat
  BY ReachType
<1>2. m <= n /\ (s.state # "closed" \/ s.lives = 0 => n = m)
  <2>1. CASE s.state = "closed" /\ s.lives # 0
    BY <2>1 DEF Reach
  <2>2. CASE ~(s.state = "closed" /\ s.lives # 0)
    BY <1>1, <2>2 DEF Reach
  <2>3. QED
    BY <2>1, <2>2
<1>3. /\ s.state # "closed" \/ s.lives = 0 => m \in D
      /\ \A p \in ToSet(s.inPkt) : Whole(f, D, p) /\ Refers(e, C, l, p)
      /\ \A p \in ToSet(s.outPkt) \cup s.sent : Refers(f, D, m, p)
  BY DEF Receiver
<1> HIDE DEF m, n, f
<1>4. D \subseteq E
  BY DEF Extends
<1>5. \A p \in ToSet(s.inPkt) : Whole(f, E, p) /\ Refers(e, B, k, p)
  BY <1>3, WholeLasts, RefersLasts
<1>6. \A p \in ToSet(s.outPkt) \cup s.sent : Refers(f, E, n, p)
  BY <1>1, <1>2, <1>3, <1>4, RefersLasts
<1>7. QED
  BY <1>2, <1>3, <1>4, <1>5, <1>6 DEF Receiver, m, n, f

\* A packet without data that stands where the data sent so far end.
LEMMA PlainIsWhole ==
    ASSUME NEW e \in Ends, NEW o, NEW c, NEW g, NEW C, NEW D, NEW l, NEW had,
           Setting(e, o, c, g, C, D, l), NEW s \in Streams, Keeps(e, o, c, g, C, D, l, had, s),
           s.state # "closed",
           NEW q, q.data = <<>>, q.seqno = s.outSeqno
    PROVE  Whole(e, C, q)
<1> DEFINE k == o.written - Len(s.inQueue)
<1>1. /\ o.written \in Nat /\ o.written <= Total[e] /\ Total[e] < SeqSpace /\ Len(s.inQueue) \in Nat
      /\ Total[e] \in Nat /\ C \in SUBSET Nat
  <2>1. s.inQueue \in Seq(Nat)
    BY DEF Streams
  <2>2. Len(s.inQueue) \in Nat
    BY <2>1, LenProperties
  <2>3. QED
    BY <2>2, ConstantTypes DEF Setting, Situation, Parts
<1>2. Len(s.inQueue) <= o.written /\ s.outSeqno = Position(e, k)
  BY DEF Keeps, Agrees, OutOK
<1>3. k \in C /\ C \subseteq 0..k
  BY DEF Keeps, Sender
<1>4. k \in Nat /\ k < SeqSpace
  BY <1>1, <1>2, ConstantTypes
<1> HIDE DEF k
<1>5. Offset(e, q.seqno) = k
  BY <1>2, <1>4, OffsetOfPosition
<1>6. Len(q.data) = 0 /\ k + 0 = k
  BY <1>4
<1>7. \A x \in C : x <= k
  BY <1>3
<1>8. QED
  BY <1>3, <1>5, <1>6, <1>7 DEF Whole

\* The acknowledgement of what has been received so far.
LEMMA AckRefers ==
    ASSUME NEW f, NEW c, NEW g \in Seq(Nat), NEW v \in Nat, NEW s \in Streams, InOK(f, c, g, s),
           s.state \notin {"closed", "syn_sent"},
           NEW D, Reach(v, g, s) \in D, NEW q, q.ackno = s.inAckno
    PROVE  Refers(f, D, Reach(v, g, s), q)
<1> DEFINE n == Len(g \o s.outQueue)
<1>1. Reach(v, g, s) = n /\ s.inAckno = Position(f, n)
  BY DEF Reach, InOK
<1>2. Reach(v, g, s) \in Nat
  BY ReachType
<1> HIDE DEF n
<1>3. n \in D /\ n <= n
  BY <1>1, <1>2
<1>4. QED
  BY <1>1, <1>3 DEF Refers

\* No more was received than was written.
LEMMA ReachIsWritten ==
    ASSUME NEW f, NEW c \in Parts, NEW g \in Seq(Nat), NEW s \in Streams, InOK(f, c, g, s)
    PROVE  Reach(c.written, g, s) <= c.written
<1>1. c.written \in Nat
  BY DEF Parts
<1>2. QED
  BY <1>1 DEF Reach, InOK

\* A step that drops no byte before it is received, and sends and uses right packets.
LEMMA KeepsOn ==
    ASSUME NEW e, NEW o, NEW c, NEW g, NEW C, NEW D, NEW l, NEW had,
           Setting(e, o, c, g, C, D, l),
           NEW s \in Streams, Keeps(e, o, c, g, C, D, l, had, s),
           NEW d \in Parts, d.written = o.written,
           NEW t \in Streams, Agrees(e, d, c, g, t),
           \/ t.inQueue = s.inQueue /\ (s.state # "closed" \/ o.written = 0)
           \/ t.inQueue = s.inQueue /\ t.state = "closed"
           \/ t.inQueue = <<>> /\ t.state = "closed",
           t.state # "closed" =>
             \A b \in Nat : 0 < b /\ b <= d.written - Len(t.inQueue) /\ Holds(e, ToSet(s.outPkt), b) =>
               b <= l \/ Holds(e, ToSet(t.outPkt), b),
           \A p \in ToSet(t.outPkt) \cup t.sent :
             \/ p \in ToSet(s.outPkt) \cup s.sent
             \/ Whole(e, C, p) /\ Refers(Peer(e), D, Reach(c.written, g, t), p),
           \A p \in ToSet(t.inPkt) :
             p \in ToSet(s.inPkt) \/ (Whole(Peer(e), D, p) /\ Refers(e, C, l, p)),
           Reach(c.written, g, s) <= Reach(c.written, g, t),
           t.state # "closed" \/ t.lives = 0 => Reach(c.written, g, t) \in D,
           Connected(t) => \E a \in C : a <= l /\ t.outAcked = Position(e, a),
           \/ t.state # "syn_sent"
           \/ /\ s.state = "syn_sent"
              /\ \A p \in ToSet(t.outPkt) : p \in ToSet(s.outPkt) \/ p.syn
    PROVE  Keeps(e, d, c, g, C, D, l, had, t)
<1> DEFINE w == o.written
           v == c.written
           m == Reach(v, g, s)
           n == Reach(v, g, t)
           k == w - Len(s.inQueue)
           j == w - Len(t.inQueue)
           f == Peer(e)
<1>1. /\ w \in Nat /\ v \in Nat /\ g \in Seq(Nat) /\ C \in SUBSET Nat /\ D \in SUBSET Nat
      /\ 0 \in C /\ l \in Nat
      /\ Len(s.inQueue) \in Nat /\ Len(t.inQueue) \in Nat
  <2>1. w \in Nat /\ v \in Nat /\ g \in Seq(Nat)
    BY DEF Setting, Situation, Parts
  <2>2. C \in SUBSET Nat /\ D \in SUBSET Nat /\ 0 \in C /\ l \in Nat
    BY DEF Setting
  <2>3. \A x \in Streams : Len(x.inQueue) \in Nat
    BY LenProperties DEF Streams
  <2>4. QED
    BY <2>1, <2>2, <2>3
<1>2. m \in Nat /\ n \in Nat /\ m <= n
  BY <1>1, ReachType
<1>3. /\ C \subseteq 0..k
      /\ s.state # "closed" => k \in C /\ \A b \in 1..k : b <= l \/ Holds(e, ToSet(s.outPkt), b)
      /\ \A p \in ToSet(s.outPkt) \cup s.sent : Whole(e, C, p)
  BY DEF Keeps, Sender
<1>4. \A p \in ToSet(s.inPkt) : Whole(f, D, p) /\ Refers(e, C, l, p)
  BY DEF Keeps, Receiver
<1>5. \A p \in ToSet(s.outPkt) \cup s.sent : Refers(f, D, m, p)
  BY DEF Keeps, Receiver
<1>6. \A p \in ToSet(t.outPkt) \cup t.sent : Whole(e, C, p) /\ Refers(f, D, n, p)
  <2> HIDE DEF m, n, f
  <2>1. \A p : Refers(f, D, m, p) => Refers(f, D, n, p)
    BY <1>1, <1>2, RefersLasts
  <2>2. QED
    BY <1>3, <1>5, <2>1 DEF n, f
<1>7. C \subseteq 0..j
  <2>1. Len(<<>>) = 0
    OBVIOUS
  <2>2. k <= j
    BY <1>1, <2>1
  <2> HIDE DEF j, k
  <2>3. QED
    BY <1>1, <1>3, <2>2 DEF j, k
<1>8. ASSUME t.state # "closed"
      PROVE  j \in C /\ \A b \in 1..j : b <= l \/ Holds(e, ToSet(t.outPkt), b)
  <2>1. j = k
    BY <1>8
  <2>2. CASE s.state # "closed"
    <3>1. j \in C /\ \A b \in 1..j : b <= l \/ Holds(e, ToSet(s.outPkt), b)
      BY <1>3, <2>1, <2>2
    <3>2. \A b \in 1..j : 0 < b /\ b <= j
      OBVIOUS
    <3> HIDE DEF j
    <3>3. QED
      BY <1>8, <3>1, <3>2 DEF j
  <2>3. CASE s.state = "closed"
    <3>1. w = 0
      BY <1>8, <2>3
    <3>2. j = 0
      <4>1. j \in Int /\ j <= 0
        BY <1>1, <3>1
      <4>2. 0 \in 0..j
        BY <1>1, <1>7
      <4> HIDE DEF j
      <4>3. QED
        BY <4>1, <4>2
    <3> HIDE DEF j
    <3>3. QED
      BY <1>1, <3>2
  <2>4. QED
    BY <2>2, <2>3
<1>9. Sender(e, C, l, d.written, t)
  <2>1. t.state = "syn_sent" => \A p \in ToSet(t.outPkt) : p.syn
    BY DEF Keeps, Sender
  <2>2. QED
    BY <1>6, <1>7, <1>8, <2>1 DEF Sender
<1>10. Receiver(e, C, D, l, v, g, t)
  BY <1>4, <1>6 DEF Receiver
<1>11. had \in 0..n
  <2>1. had \in 0..m
    BY DEF Keeps
  <2> HIDE DEF m, n
  <2>2. QED
    BY <1>2, <2>1
<1>12. QED
  BY <1>9, <1>10, <1>11 DEF Keeps

\* What is received never becomes less.
LEMMA ReachGrows ==
    ASSUME NEW f, NEW c \in Parts, NEW g \in Seq(Nat), NEW s \in Streams, InOK(f, c, g, s),
           NEW t \in Streams,
           \/ t.state = "closed" /\ t.lives # 0
           \/ t.state # "closed" /\ s.state # "closed" /\ t.outQueue = s.outQueue
           \/ t.state # "closed" /\ s.lives = 0 /\ t.outQueue = s.outQueue
           \/ /\ t.state # "closed" /\ s.state # "closed"
              /\ \E x \in Seq(Nat) : t.outQueue = s.outQueue \o x
    PROVE  Reach(c.written, g, s) <= Reach(c.written, g, t)
<1> DEFINE m == Reach(c.written, g, s)
           n == Reach(c.written, g, t)
           q == s.outQueue
<1>1. c.written \in Nat /\ q \in Seq(Nat)
  BY DEF Parts, Streams
<1>2. m \in Nat /\ n \in Nat /\ m <= c.written
  BY <1>1, ReachType, ReachIsWritten
<1>3. CASE t.state = "closed" /\ t.lives # 0
  <2>1. n = c.written
    BY <1>3 DEF Reach
  <2> HIDE DEF m, n
  <2>2. QED
    BY <1>2, <2>1 DEF m, n
<1>4. CASE t.state # "closed" /\ (s.state # "closed" \/ s.lives = 0) /\ t.outQueue = s.outQueue
  <2>1. n = m
    BY <1>4 DEF Reach
  <2> HIDE DEF m, n
  <2>2. QED
    BY <1>2, <2>1 DEF m, n
<1>5. ASSUME t.state # "closed", s.state # "closed", NEW x \in Seq(Nat), t.outQueue = q \o x
      PROVE  m <= n
  <2>1. m = Len(g \o q) /\ n = Len(g \o (q \o x))
    BY <1>5 DEF Reach
  <2> HIDE DEF m, n, q
  <2>2. (g \o q) \o x = g \o (q \o x)
    BY <1>1, <1>5, JoinAssociative
  <2> DEFINE y == g \o q
  <2>3. y \in Seq(Nat)
    BY <1>1, ConcatProperties
  <2> HIDE DEF y
  <2>4. Len(y \o x) = Len(y) + Len(x) /\ Len(y) \in Nat /\ Len(x) \in Nat
    BY <2>3, ConcatProperties, LenProperties
  <2>5. m = Len(y) /\ n = Len(y \o x)
    BY <2>1, <2>2 DEF y
  <2>6. QED
    BY <2>4, <2>5
<1>6. QED
  BY <1>3, <1>4, <1>5

-----------------------------------------------------------------------------
(* Nothing is dropped when a packet arrives.                               *)

\* What was received ends where a segment does, also after the next packet.
LEMMA NextSegment ==
    ASSUME NEW f \in Ends, NEW c \in Parts, NEW g \in Seq(Nat), NEW s \in Streams, NEW D,
           c.written < SeqSpace, InOK(f, c, g, s), Connected(s), Reach(c.written, g, s) \in D,
           NEW p \in Packets, PacketOK(f, c, p), Whole(f, D, p), p.seqno = s.inAckno
    PROVE  Len(g \o (s.outQueue \o p.data)) \in D
<1> DEFINE q == s.outQueue
           x == p.data
           y == g \o q
           m == Len(y)
           n == Len(x)
<1>1. q \in Seq(Nat) /\ x \in Seq(Nat) /\ c.written \in Nat
  BY DEF Streams, Packets, Segments, Parts
<1>2. m \in D /\ m <= c.written /\ s.inAckno = Position(f, m)
  <2>1. s.state \notin {"closed", "syn_sent"}
    BY DEF Connected
  <2>2. QED
    BY <2>1 DEF Reach, InOK
<1> HIDE DEF q, x
<1>3. y \in Seq(Nat)
  BY <1>1, ConcatProperties
<1>4. g \o (q \o x) = y \o x
  BY <1>1, JoinAssociative
<1> HIDE DEF y
<1>5. Len(y \o x) = m + n /\ m \in Nat /\ n \in Nat
  BY <1>1, <1>3, ConcatProperties, LenProperties
<1> HIDE DEF m
<1>6. m + n \in D
  <2>1. CASE p.syn
    <3>1. x = <<>>
      BY <2>1 DEF PacketOK, x
    <3>2. m + n = m
      BY <1>5, <3>1
    <3>3. QED
      BY <1>2, <3>2
  <2>2. CASE ~p.syn
    <3>1. m < SeqSpace
      <4>1. SeqSpace \in Nat
        BY ConstantTypes
      <4>2. QED
        BY <1>1, <1>2, <1>5, <4>1
    <3>2. Offset(f, p.seqno) = m
      BY <1>2, <1>5, <3>1, OffsetOfPosition
    <3>3. QED
      BY <2>2, <3>2 DEF Whole, x
  <2>3. QED
    BY <2>1, <2>2
<1>7. QED
  BY <1>4, <1>5, <1>6 DEF q, x

\* A packet that is taken.
LEMMA TakeKept ==
    ASSUME NEW e \in Ends, NEW o, NEW c, NEW g, NEW C, NEW D, NEW l, NEW had,
           Setting(e, o, c, g, C, D, l),
           NEW s \in Streams, Keeps(e, o, c, g, C, D, l, had, s), Connected(s),
           NEW p \in Packets, PacketOK(Peer(e), c, p), p.seqno = s.inAckno,
           Whole(Peer(e), D, p), Refers(e, C, l, p),
           NEW t \in Streams, Took(s, p, t)
    PROVE  Keeps(e, o, c, g, C, D, l, had, t)
<1> DEFINE f == Peer(e)
           v == c.written
           ackno == (p.seqno + Len(p.data)) % SeqSpace
           x == g \o (s.outQueue \o p.data)
           n == Len(x)
           Shut == /\ t.state = "closed"
                   /\ t.inQueue = <<>> /\ t.outQueue = <<>> /\ t.inPkt = <<>> /\ t.outPkt = <<>>
           Open == /\ Connected(t)
                   /\ t.inQueue = s.inQueue /\ t.inPkt = s.inPkt /\ t.outPkt = s.outPkt
                   /\ t.outQueue = s.outQueue \o p.data
                   /\ t.outAcked = s.outAcked \/ (p.ack /\ t.outAcked = p.ackno)
<1>1. /\ Shut \/ Open
      /\ t.lives = s.lives
      /\ \/ t.sent = s.sent
         \/ \E q \in Packets : Acknowledges(q, s.outSeqno, ackno) /\ t.sent = s.sent \cup {q}
  BY DEF Took
<1>2. /\ Situation(e, o, c, g) /\ Agrees(e, o, c, g, s) /\ OutOK(e, o, s) /\ InOK(f, c, g, s)
      /\ f \in Ends
  BY PeerIsOther DEF Setting, Keeps, Agrees
<1>3. Agrees(e, o, c, g, t)
  BY <1>2, TakeOK
<1>4. /\ o \in Parts /\ c \in Parts /\ g \in Seq(Nat) /\ v \in Nat /\ v < SeqSpace
      /\ o.written \in Nat /\ C \in SUBSET Nat
  <2>1. o \in Parts /\ c \in Parts /\ g \in Seq(Nat) /\ v <= Total[f] /\ Total[f] < SeqSpace
    BY <1>2 DEF Situation
  <2>2. v \in Nat /\ o.written \in Nat
    BY <2>1 DEF Parts
  <2>3. Total[f] \in Nat /\ SeqSpace \in Nat
    BY <1>2, ConstantTypes
  <2> HIDE DEF v, f
  <2>4. v < SeqSpace
    BY <2>1, <2>2, <2>3
  <2>5. QED
    BY <2>1, <2>2, <2>4 DEF Setting
<1>5. s.state # "closed" /\ s.lives # 0
  BY <1>2 DEF Connected, OutOK
<1>6. Reach(v, g, s) \in D
  BY <1>5 DEF Keeps, Receiver
<1>7. n \in D
  BY <1>2, <1>4, <1>6, NextSegment
<1>8. n <= v /\ ackno = Position(f, n)
  <2>1. Delivered(f, c, g, s, p)
    BY <1>2, DeliveryOK
  <2>2. QED
    BY <2>1 DEF Delivered
<1>9. n \in Nat
  BY <1>7 DEF Setting
<1>10. Reach(v, g, t) = IF t.state = "closed" THEN v ELSE n
  <2>1. CASE Shut
    BY <1>1, <1>5, <2>1 DEF Reach
  <2>2. CASE Open
    BY <2>2 DEF Reach, Connected
  <2>3. QED
    BY <1>1, <2>1, <2>2
<1>11. Reach(v, g, s) <= Reach(v, g, t)
  <2>1. s.outQueue \in Seq(Nat) /\ p.data \in Seq(Nat)
    BY DEF Streams, Packets, Segments
  <2>2. \/ t.state = "closed" /\ t.lives # 0
        \/ /\ t.state # "closed" /\ s.state # "closed"
           /\ \E y \in Seq(Nat) : t.outQueue = s.outQueue \o y
    BY <1>1, <1>5, <2>1 DEF Connected
  <2>3. QED
    BY <1>2, <1>4, <2>2, ReachGrows
<1> HIDE DEF f, v, ackno, n
<1>12. ASSUME NEW q \in Packets, Acknowledges(q, s.outSeqno, ackno)
       PROVE  Whole(e, C, q) /\ Refers(f, D, Reach(v, g, t), q)
  <2>1. q.data = <<>> /\ q.seqno = s.outSeqno /\ q.ackno = ackno
    BY <1>12 DEF Acknowledges
  <2>2. Whole(e, C, q)
    BY <1>5, <2>1, PlainIsWhole
  <2>3. n <= Reach(v, g, t)
    BY <1>8, <1>9, <1>10
  <2>4. QED
    BY <1>7, <1>8, <2>1, <2>2, <2>3 DEF Refers
<1>13. ToSet(t.outPkt) \subseteq ToSet(s.outPkt) /\ ToSet(t.inPkt) \subseteq ToSet(s.inPkt)
  <2>1. CASE Shut
    <3>1. ToSet(t.outPkt) = {} /\ ToSet(t.inPkt) = {}
      BY <2>1, Elements DEF Streams
    <3>2. QED
      BY <3>1
  <2>2. CASE Open
    BY <2>2
  <2>3. QED
    BY <1>1, <2>1, <2>2
<1>14. \A y \in ToSet(t.outPkt) \cup t.sent :
         y \in ToSet(s.outPkt) \cup s.sent \/ (Whole(e, C, y) /\ Refers(f, D, Reach(v, g, t), y))
  BY <1>1, <1>12, <1>13
<1>15. t.state # "closed" \/ t.lives = 0 => Reach(v, g, t) \in D
  BY <1>1, <1>5, <1>7, <1>10
<1>16. Connected(t) => \E a \in C : a <= l /\ t.outAcked = Position(e, a)
  <2>1. \E a \in C : a <= l /\ s.outAcked = Position(e, a)
    BY DEF Keeps, Sender
  <2>2. p.ack => \E a \in C : a <= l /\ p.ackno = Position(e, a)
    BY DEF Refers
  <2>3. CASE Shut
    BY <2>3 DEF Connected
  <2>4. CASE Open
    BY <2>1, <2>2, <2>4
  <2>5. QED
    BY <1>1, <2>3, <2>4
<1>17. t.state # "closed" => t.outPkt = s.outPkt
  BY <1>1
<1>18. \/ t.inQueue = s.inQueue /\ (s.state # "closed" \/ o.written = 0)
       \/ t.inQueue = <<>> /\ t.state = "closed"
  BY <1>1, <1>5
<1>19. t.state # "syn_sent"
  BY <1>1 DEF Connected
<1> HIDE DEF Shut, Open
<1>20. QED
  BY <1>3, <1>4, <1>11, <1>13, <1>14, <1>15, <1>16, <1>17, <1>18, <1>19, KeepsOn DEF f, v

\* Some of the packets in the queue.
LEMMA KeepsQueue ==
    ASSUME NEW e, NEW o, NEW c, NEW g, NEW C, NEW D, NEW l, NEW had,
           Setting(e, o, c, g, C, D, l),
           NEW s \in Streams, Keeps(e, o, c, g, C, D, l, had, s),
           NEW que \in Seq(Packets), ToSet(que) \subseteq ToSet(s.inPkt)
    PROVE  Keeps(e, o, c, g, C, D, l, had, [s EXCEPT !.inPkt = que])
<1> DEFINE t == [s EXCEPT !.inPkt = que]
<1>1. /\ t.inPkt = que /\ t.state = s.state /\ t.lives = s.lives
      /\ t.inQueue = s.inQueue /\ t.outAcked = s.outAcked
      /\ t.outQueue = s.outQueue /\ t.outPkt = s.outPkt /\ t.sent = s.sent
  BY DEF Streams
<1>2. Agrees(e, o, c, g, t)
  <2>1. Agrees(e, o, c, g, s)
    BY DEF Keeps
  <2>2. \A p \in ToSet(que) : PacketOK(Peer(e), c, p)
    BY <2>1 DEF Agrees, InOK
  <2>3. QED
    BY <2>1, <2>2, AgreesQueue
<1> HIDE DEF t
<1>3. Reach(c.written, g, t) = Reach(c.written, g, s)
  BY <1>1 DEF Reach
<1>4. Sender(e, C, l, o.written, t)
  BY <1>1 DEF Keeps, Sender, Connected
<1>5. Receiver(e, C, D, l, c.written, g, t)
  BY <1>1, <1>3 DEF Keeps, Receiver
<1>6. had \in 0..Reach(c.written, g, t)
  BY <1>3 DEF Keeps
<1>7. QED
  BY <1>2, <1>4, <1>5, <1>6 DEF Keeps, t

\* The rounds of check_InPkts.
LEMMA CheckInPktsKept ==
    ASSUME NEW e \in Ends, NEW o, NEW c, NEW g, NEW C, NEW D, NEW l, NEW had,
           Setting(e, o, c, g, C, D, l),
           NEW s, Sound(s), Keeps(e, o, c, g, C, D, l, had, s)
    PROVE  Keeps(e, o, c, g, C, D, l, had, CheckInPkts(s))
<1> DEFINE T == {x \in Streams : QueueIsUsed(x) /\ Keeps(e, o, c, g, C, D, l, had, x)}
<1>1. s \in T /\ Len(s.inPkt) \in Nat
  BY LenProperties DEF Sound, Streams
<1>2. ASSUME NEW x \in T PROVE TakeNext(x) \in T
  <2> DEFINE t == TakeNext(x)
  <2>1. /\ x \in Streams /\ QueueIsUsed(x) /\ Keeps(e, o, c, g, C, D, l, had, x)
        /\ t \in Streams /\ QueueIsUsed(t) /\ NextTaken(x, t)
    BY TakeNextDoes
  <2> HIDE DEF t, T
  <2>2. CASE t = x
    BY <2>2 DEF t
  <2>3. CASE t # x
    <3>1. PICK i \in 1..Len(x.inPkt), r \in Streams :
            /\ r = [x EXCEPT !.inPkt = RemoveAt(@, i)]
            /\ x.inPkt[i].seqno = x.inAckno /\ Took(r, x.inPkt[i], t)
      BY <2>1, <2>3 DEF NextTaken
    <3> DEFINE que == RemoveAt(x.inPkt, i)
               p == x.inPkt[i]
    <3>2. x.inPkt \in Seq(Packets) /\ Len(x.inPkt) \in Nat /\ x.inPkt # <<>>
      BY <2>1, LenProperties DEF Streams
    <3>3. p \in ToSet(x.inPkt) /\ p \in Packets
      BY <3>2, Elements
    <3>4. que \in Seq(Packets) /\ ToSet(que) \subseteq ToSet(x.inPkt)
      BY <3>2, ElementsOfRemoveAt
    <3> HIDE DEF que
    <3>5. \A y \in ToSet(x.inPkt) :
            PacketOK(Peer(e), c, y) /\ Whole(Peer(e), D, y) /\ Refers(e, C, l, y)
      BY <2>1 DEF Keeps, Agrees, InOK, Receiver
    <3>6. r = [x EXCEPT !.inPkt = que]
      BY <3>1 DEF que
    <3>7. Keeps(e, o, c, g, C, D, l, had, r)
      BY <2>1, <3>4, <3>6, KeepsQueue
    <3>8. r.inAckno = x.inAckno /\ r.state = x.state
      BY <2>1, <3>6 DEF Streams
    <3>9. Connected(r)
      BY <2>1, <3>2, <3>8 DEF QueueIsUsed, Connected
    <3> HIDE DEF p
    <3>10. Took(r, p, t) /\ p.seqno = r.inAckno /\ PacketOK(Peer(e), c, p)
           /\ Whole(Peer(e), D, p) /\ Refers(e, C, l, p)
      BY <3>1, <3>3, <3>5, <3>8 DEF p
    <3>11. Keeps(e, o, c, g, C, D, l, had, t)
      BY <2>1, <3>3, <3>7, <3>9, <3>10, TakeKept
    <3>12. QED
      BY <2>1, <3>11 DEF T, t
  <2>4. QED
    BY <2>2, <2>3
<1> HIDE DEF T
<1>3. PICK end \in T : CheckInPkts(s) = [end EXCEPT !.inPkt = NotBefore(end.inPkt, end.inAckno)]
  BY <1>1, <1>2, CheckInPktsKeeps
<1>4. end \in Streams /\ Keeps(e, o, c, g, C, D, l, had, end)
  BY DEF T
<1> DEFINE que == NotBefore(end.inPkt, end.inAckno)
<1>5. que \in Seq(Packets) /\ ToSet(que) \subseteq ToSet(end.inPkt)
  BY <1>4, NotBeforeDoes DEF Streams
<1> HIDE DEF que
<1>6. Keeps(e, o, c, g, C, D, l, had, [end EXCEPT !.inPkt = que])
  BY <1>4, <1>5, KeepsQueue
<1>7. QED
  BY <1>3, <1>6 DEF que

\* An acknowledgement that leaves between two steps of a stream that is not closed.
LEMMA AckIsKept ==
    ASSUME NEW e \in Ends, NEW o, NEW c, NEW g, NEW C, NEW D, NEW l, NEW had,
           Setting(e, o, c, g, C, D, l),
           NEW s \in Streams, Keeps(e, o, c, g, C, D, l, had, s), s.state \notin {"closed", "syn_sent"},
           NEW q, q.data = <<>>, q.seqno = s.outSeqno, q.ackno = s.inAckno
    PROVE  Whole(e, C, q) /\ Refers(Peer(e), D, Reach(c.written, g, s), q)
<1>1. g \in Seq(Nat) /\ c.written \in Nat /\ InOK(Peer(e), c, g, s)
  BY DEF Setting, Situation, Parts, Keeps, Agrees
<1>2. Reach(c.written, g, s) \in D
  BY DEF Keeps, Receiver
<1>3. Whole(e, C, q)
  BY PlainIsWhole
<1> DEFINE v == c.written
<1> HIDE DEF v
<1>4. Refers(Peer(e), D, Reach(v, g, s), q)
  BY <1>1, <1>2, AckRefers DEF v
<1>5. QED
  BY <1>3, <1>4 DEF v

\* A packet that arrives at a connected stream.
LEMMA IncomingEstablishedKept ==
    ASSUME NEW e \in Ends, NEW o, NEW c, NEW g, NEW C, NEW D, NEW l, NEW had,
           Setting(e, o, c, g, C, D, l),
           NEW s, Sound(s), Keeps(e, o, c, g, C, D, l, had, s), Connected(s),
           NEW p \in Packets, PacketOK(Peer(e), c, p),
           Whole(Peer(e), D, p), Refers(e, C, l, p)
    PROVE  Keeps(e, o, c, g, C, D, l, had, IncomingEstablished(s, p))
<1>1. /\ s \in Streams /\ Len(s.inPkt) <= MaxInPkt
      /\ Situation(e, o, c, g) /\ Agrees(e, o, c, g, s)
  BY DEF Sound, Setting, Keeps
<1>2. PICK r : Queued(s, p, r) /\ IncomingEstablished(s, p) = CheckInPkts(r)
  BY <1>1, IncomingEstablishedDoes
<1>3. Sound(r) /\ r \in Streams /\ Connected(r) /\ r.lives = s.lives
  BY <1>2 DEF Queued, Sound, QueueIsUsed, Connected
<1>4. /\ OutOK(e, o, s) /\ InOK(Peer(e), c, g, s)
      /\ o \in Parts /\ o.written <= Total[e] /\ Total[e] < SeqSpace /\ s.state # "closed"
  BY <1>1 DEF Agrees, Situation, Connected
<1>5. OutOK(e, o, r)
  <2>1. /\ r.inQueue = s.inQueue /\ r.outPkt = s.outPkt /\ r.outSeqno = s.outSeqno
        /\ r.outStreamActive = s.outStreamActive
        /\ \/ r.sent = s.sent
           \/ \E q \in Packets : \E ackno :
                Acknowledges(q, s.outSeqno, ackno) /\ r.sent = s.sent \cup {q}
    BY <1>2 DEF Queued
  <2>2. QED
    BY <1>1, <1>3, <1>4, <2>1, OutLasts
<1>6. InOK(Peer(e), c, g, r)
  <2>1. /\ r.state = s.state /\ r.inAckno = s.inAckno /\ r.outQueue = s.outQueue
        /\ r.inStreamActive = s.inStreamActive /\ ToSet(r.inPkt) \subseteq ToSet(s.inPkt) \cup {p}
    BY <1>2 DEF Queued
  <2>2. QED
    BY <1>3, <1>4, <2>1 DEF InOK, Connected
<1>7. Agrees(e, o, c, g, r)
  BY <1>5, <1>6 DEF Agrees
<1>8. Reach(c.written, g, r) = Reach(c.written, g, s) /\ Reach(c.written, g, s) \in D
  BY <1>2, <1>4 DEF Queued, Reach, Keeps, Receiver
<1>9. Reach(c.written, g, s) <= Reach(c.written, g, r)
  <2>1. Reach(c.written, g, s) \in Nat
    BY <1>8 DEF Setting
  <2>2. QED
    BY <1>8, <2>1
<1>10. \A q \in r.sent : \/ q \in s.sent
                         \/ Whole(e, C, q) /\ Refers(Peer(e), D, Reach(c.written, g, r), q)
  <2>1. ASSUME NEW q \in Packets, Acknowledges(q, s.outSeqno, s.inAckno)
        PROVE  Whole(e, C, q) /\ Refers(Peer(e), D, Reach(c.written, g, s), q)
    <3>1. /\ q.data = <<>> /\ q.seqno = s.outSeqno /\ q.ackno = s.inAckno
          /\ s.state \notin {"closed", "syn_sent"}
      BY <2>1 DEF Acknowledges, Connected
    <3>2. QED
      BY <1>1, <3>1, AckIsKept
  <2>2. QED
    BY <1>2, <1>8, <2>1 DEF Queued
<1>11. \E a \in C : a <= l /\ r.outAcked = Position(e, a)
  <2>1. \E a \in C : a <= l /\ s.outAcked = Position(e, a)
    BY DEF Keeps, Sender
  <2>2. QED
    BY <1>2, <2>1 DEF Queued, Refers
<1>12. /\ r.inQueue = s.inQueue /\ r.outPkt = s.outPkt /\ r.state = s.state
       /\ ToSet(r.inPkt) \subseteq ToSet(s.inPkt) \cup {p}
  BY <1>2 DEF Queued
<1>13. Keeps(e, o, c, g, C, D, l, had, r)
  BY <1>1, <1>3, <1>4, <1>7, <1>8, <1>9, <1>10, <1>11, <1>12, KeepsOn
<1>14. QED
  BY <1>2, <1>3, <1>13, CheckInPktsKept

\* A stream that answers a SYN.
LEMMA AnsweredKept ==
    ASSUME NEW e \in Ends, NEW o, NEW c, NEW g, NEW C, NEW D, NEW l, NEW had,
           Setting(e, o, c, g, C, D, l),
           NEW s \in Streams, Keeps(e, o, c, g, C, D, l, had, s), s.inPkt = <<>>,
           \/ s.state = "closed" /\ s.lives = 0
           \/ s.state = "syn_sent",
           NEW p \in Packets, PacketOK(Peer(e), c, p),
           NEW t \in Streams, Answered(e, s, p, t)
    PROVE  \E d \in Parts : /\ d.written = o.written /\ (s.lives # 0 => d.first = o.first)
                            /\ Keeps(e, d, c, g, C, D, l, had, t) /\ t.lives # 0
<1> DEFINE v == c.written
           f == Peer(e)
<1>1. Situation(e, o, c, g) /\ Agrees(e, o, c, g, s)
  BY DEF Setting, Keeps
<1>2. PICK d \in Parts : /\ d.written = o.written /\ (s.lives # 0 => d.first = o.first)
                         /\ Agrees(e, d, c, g, t) /\ t.lives # 0
  BY <1>1, AnsweredOK
<1>3. /\ t.state = "syn_rcvd" /\ t.inQueue = s.inQueue /\ t.outQueue = s.outQueue
      /\ t.inPkt = s.inPkt
  BY DEF Answered
<1>4. PICK q \in Packets :
         /\ t.outPkt = Append(s.outPkt, q) /\ t.sent = s.sent \cup {q}
         /\ q.data = <<>> /\ q.ackno = t.inAckno
         /\ s.state = "closed" => q.syn
         /\ s.state # "closed" => q.seqno = s.outSeqno
  BY DEF Answered
<1>5. g \in Seq(Nat) /\ v \in Nat /\ c \in Parts /\ InOK(f, c, g, s) /\ InOK(f, c, g, t)
  BY <1>1, <1>2 DEF Situation, Parts, Agrees
<1>6. Reach(v, g, t) \in D
  <2>1. Reach(v, g, t) = Reach(v, g, s)
    BY <1>3 DEF Reach
  <2>2. Reach(v, g, s) \in D
    BY DEF Keeps, Receiver
  <2>3. QED
    BY <2>1, <2>2
<1>7. Reach(v, g, s) <= Reach(v, g, t)
  <2>1. \/ t.state # "closed" /\ s.state # "closed" /\ t.outQueue = s.outQueue
        \/ t.state # "closed" /\ s.lives = 0 /\ t.outQueue = s.outQueue
    BY <1>3
  <2> HIDE DEF f
  <2>2. QED
    BY <1>5, <2>1, ReachGrows
<1>8. Whole(e, C, q)
  <2>1. CASE s.state = "closed"
    BY <1>4, <2>1 DEF Whole
  <2>2. CASE s.state # "closed"
    BY <1>4, <2>2, PlainIsWhole
  <2>3. QED
    BY <2>1, <2>2
<1> HIDE DEF v, f
<1>9. Refers(f, D, Reach(v, g, t), q)
  BY <1>3, <1>4, <1>5, <1>6, AckRefers
<1>10. ToSet(t.outPkt) = ToSet(s.outPkt) \cup {q}
  BY <1>4, ElementsOfAppend DEF Streams
<1>11. \A x \in ToSet(t.outPkt) \cup t.sent :
         x \in ToSet(s.outPkt) \cup s.sent \/ (Whole(e, C, x) /\ Refers(f, D, Reach(v, g, t), x))
  BY <1>4, <1>8, <1>9, <1>10
<1>12. \A b : Holds(e, ToSet(s.outPkt), b) => Holds(e, ToSet(t.outPkt), b)
  BY <1>10 DEF Holds
<1>13. t.inQueue = s.inQueue /\ (s.state # "closed" \/ o.written = 0) /\ ~Connected(t)
  BY <1>1, <1>3 DEF Agrees, OutOK, Connected
<1>14. Keeps(e, d, c, g, C, D, l, had, t)
  BY <1>2, <1>3, <1>6, <1>7, <1>11, <1>12, <1>13, KeepsOn DEF v, f
<1>15. QED
  BY <1>2, <1>14

\* A stream that is established.
LEMMA EstablishedKept ==
    ASSUME NEW e \in Ends, NEW o, NEW c, NEW g, NEW C, NEW D, NEW l, NEW had,
           Setting(e, o, c, g, C, D, l),
           NEW s \in Streams, Keeps(e, o, c, g, C, D, l, had, s),
           s.state \in {"syn_sent", "syn_rcvd"}, NEW p \in Packets,
           NEW t \in Streams, Established(s, p, t), t.inAckno = Position(Peer(e), 0),
           \A q \in t.sent : q \in s.sent \/ Acknowledges(q, s.outSeqno, t.inAckno)
    PROVE  Keeps(e, o, c, g, C, D, l, had, t)
<1> DEFINE v == c.written
           f == Peer(e)
<1>1. Situation(e, o, c, g) /\ Agrees(e, o, c, g, s) /\ OutOK(e, o, s) /\ InOK(f, c, g, s)
  BY DEF Setting, Keeps, Agrees
<1>2. Agrees(e, o, c, g, t)
  BY <1>1, EstablishedOK
<1>3. /\ t.state = "established" /\ t.inQueue = s.inQueue /\ t.outQueue = s.outQueue
      /\ t.inPkt = s.inPkt /\ t.outPkt = s.outPkt /\ t.outAcked = s.outSeqno
      /\ s.state # "closed"
  BY DEF Established
<1>4. /\ g \in Seq(Nat) /\ v \in Nat /\ c \in Parts /\ o \in Parts /\ InOK(f, c, g, t)
      /\ 0 \in C /\ l \in Nat
  BY <1>1, <1>2 DEF Situation, Parts, Agrees, Setting
<1>5. Reach(v, g, t) \in D
  <2>1. Reach(v, g, t) = Reach(v, g, s)
    BY <1>3 DEF Reach
  <2>2. Reach(v, g, s) \in D
    BY <1>3 DEF Keeps, Receiver
  <2>3. QED
    BY <2>1, <2>2
<1> HIDE DEF v, f
<1>6. Reach(v, g, s) <= Reach(v, g, t)
  <2>1. t.state # "closed" /\ s.state # "closed" /\ t.outQueue = s.outQueue
    BY <1>3
  <2>2. QED
    BY <1>1, <1>4, <2>1, ReachGrows DEF v
<1>7. ASSUME NEW q, Acknowledges(q, s.outSeqno, t.inAckno)
      PROVE  Whole(e, C, q) /\ Refers(f, D, Reach(v, g, t), q)
  <2>1. q.data = <<>> /\ q.seqno = s.outSeqno /\ q.ackno = t.inAckno
    BY <1>7 DEF Acknowledges
  <2>2. Whole(e, C, q)
    BY <1>3, <2>1, PlainIsWhole
  <2>3. Refers(f, D, Reach(v, g, t), q)
    BY <1>3, <1>4, <1>5, <2>1, AckRefers
  <2>4. QED
    BY <2>2, <2>3
<1>8. \E a \in C : a <= l /\ t.outAcked = Position(e, a)
  <2>1. o.written = 0 /\ Len(s.inQueue) <= 0 /\ Len(s.inQueue) \in Nat
    <3>1. o.written = 0 /\ Len(s.inQueue) <= o.written
      BY <1>1 DEF OutOK
    <3>2. s.inQueue \in Seq(Nat)
      BY DEF Streams
    <3>3. QED
      BY <3>1, <3>2, LenProperties
  <2>2. s.outSeqno = Position(e, o.written - Len(s.inQueue))
    BY <1>1, <1>3 DEF OutOK
  <2> DEFINE k == Len(s.inQueue)
  <2> HIDE DEF k
  <2>3. o.written - k = 0
    BY <2>1 DEF k
  <2>4. t.outAcked = Position(e, 0) /\ 0 <= l
    BY <1>3, <1>4, <2>2, <2>3 DEF k
  <2>5. QED
    BY <1>4, <2>4
<1>9. \A x \in ToSet(t.outPkt) \cup t.sent :
        x \in ToSet(s.outPkt) \cup s.sent \/ (Whole(e, C, x) /\ Refers(f, D, Reach(v, g, t), x))
  BY <1>3, <1>7
<1>10. QED
  BY <1>2, <1>3, <1>4, <1>5, <1>6, <1>8, <1>9, KeepsOn DEF v, f

\* Whatever arrives.
LEMMA HandleIncomingKept ==
    ASSUME NEW e \in Ends, NEW o, NEW c, NEW g, NEW C, NEW D, NEW l, NEW had,
           Setting(e, o, c, g, C, D, l),
           NEW s, Sound(s), Keeps(e, o, c, g, C, D, l, had, s), Openable(e, s),
           NEW p \in Packets, PacketOK(Peer(e), c, p),
           Whole(Peer(e), D, p), Refers(e, C, l, p),
           s.state = "syn_rcvd" => c.written = 0 \/ ~Overtakes(s, p),
           HandleIncoming(e, s, p).lives <= 1
    PROVE  \E d \in Parts : /\ d.written = o.written
                            /\ (s.lives # 0 => HandleIncoming(e, s, p).lives # 0 /\ d.first = o.first)
                            /\ Keeps(e, d, c, g, C, D, l, had, HandleIncoming(e, s, p))
<1> DEFINE Fine(t) == \E d \in Parts : /\ d.written = o.written
                                       /\ (s.lives # 0 => t.lives # 0 /\ d.first = o.first)
                                       /\ Keeps(e, d, c, g, C, D, l, had, t)
<1>1. /\ s \in Streams /\ (~Connected(s) => s.inPkt = <<>>) /\ Peer(e) \in Ends
      /\ o \in Parts /\ c \in Parts /\ Agrees(e, o, c, g, s) /\ o.lives = s.lives
  BY PeerIsOther DEF Sound, QueueIsUsed, Situation, Setting, Keeps, Agrees, OutOK
<1>2. ASSUME NEW t, Keeps(e, o, c, g, C, D, l, had, t) PROVE Fine(t)
  <2>1. o.lives = t.lives
    BY <1>2 DEF Keeps, Agrees, OutOK
  <2>2. QED
    BY <1>1, <1>2, <2>1
<1>3. Fine(s)
  BY <1>2
<1>4. ASSUME NEW t \in Streams, Answered(e, s, p, t),
             (s.state = "closed" /\ s.lives = 0) \/ s.state = "syn_sent"
      PROVE  Fine(t)
  <2>1. s.inPkt = <<>>
    BY <1>1, <1>4 DEF Connected
  <2>2. QED
    BY <1>1, <1>4, <2>1, AnsweredKept
<1> HIDE DEF Fine
<1>5. CASE s.state = "closed"
  <2> DEFINE t == IncomingClosed(e, s, p)
  <2>1. HandleIncoming(e, s, p) = t
    BY <1>5 DEF HandleIncoming
  <2>2. t \in Streams /\ (t = s \/ Answered(e, s, p, t))
    BY <1>1, IncomingClosedDoes
  <2>3. t.lives <= 1
    BY <2>1
  <2> HIDE DEF t
  <2>4. Answered(e, s, p, t) => s.lives = 0
    BY <1>1, <1>5, <2>3 DEF Answered, Streams
  <2>5. Fine(t)
    BY <1>3, <1>4, <1>5, <2>2, <2>4
  <2>6. QED
    BY <2>1, <2>5 DEF Fine
<1>6. CASE s.state = "syn_sent"
  <2> DEFINE t == IncomingSynSent(e, s, p)
  <2>1. HandleIncoming(e, s, p) = t
    BY <1>6 DEF HandleIncoming
  <2>2. t \in Streams /\ SynSentLeft(e, s, p, t)
    BY <1>1, <1>6, IncomingSynSentDoes
  <2> HIDE DEF t
  <2>3. ASSUME Established(s, p, t), p.syn, t.inAckno = (p.seqno + 1) % SeqSpace,
               NEW q \in Packets, Acknowledges(q, s.outSeqno, t.inAckno),
               t.sent = s.sent \cup {q}
        PROVE  Fine(t)
    <3>1. p.seqno = Isn[Peer(e)][1]
      BY <2>3 DEF PacketOK
    <3>2. t.inAckno = Position(Peer(e), 0)
      BY <1>1, <2>3, <3>1, FirstPosition
    <3>3. \A x \in t.sent : x \in s.sent \/ Acknowledges(x, s.outSeqno, t.inAckno)
      BY <2>3
    <3>4. Keeps(e, o, c, g, C, D, l, had, t)
      BY <1>1, <1>6, <2>2, <2>3, <3>2, <3>3, EstablishedKept
    <3>5. QED
      BY <1>2, <3>4
  <2>4. Fine(t)
    BY <1>3, <1>4, <1>6, <2>2, <2>3 DEF SynSentLeft
  <2>5. QED
    BY <2>1, <2>4 DEF Fine
<1>7. CASE s.state = "syn_rcvd"
  <2>1. HandleIncoming(e, s, p) = IncomingSynRcvd(s, p)
    BY <1>7 DEF HandleIncoming
  <2>2. CASE IncomingSynRcvd(s, p) = s
    BY <1>3, <2>1, <2>2 DEF Fine
  <2>3. ASSUME NEW t \in Streams, Established(s, p, t), t.inAckno = p.seqno, t.sent = s.sent,
               IncomingSynRcvd(s, p) = IF p.data = <<>> THEN t ELSE IncomingEstablished(t, p)
        PROVE  Fine(HandleIncoming(e, s, p))
    <3>1. p.ack /\ p.ackno = s.outSeqno /\ c.first
      BY <1>1, <1>7, <2>3 DEF Established, Agrees, InOK
    <3>2. p.seqno = Position(Peer(e), 0)
      <4>1. CASE c.written = 0
        BY <1>1, <3>1, <4>1, FirstIsEmpty
      <4>2. CASE ~Overtakes(s, p)
        BY <1>1, <1>7, <3>1, <4>2, BeforeFirst DEF Overtakes, Agrees
      <4>3. QED
        BY <1>7, <4>1, <4>2
    <3>3. \A q \in t.sent : q \in s.sent \/ Acknowledges(q, s.outSeqno, t.inAckno)
      BY <2>3
    <3>4. Keeps(e, o, c, g, C, D, l, had, t)
      BY <1>1, <1>7, <2>3, <3>2, <3>3, EstablishedKept
    <3>5. CASE p.data = <<>>
      BY <1>2, <2>1, <2>3, <3>4, <3>5
    <3>6. CASE p.data # <<>>
      <4>1. Sound(t) /\ Connected(t)
        BY <1>1, <1>7, <2>3 DEF Established, Sound, QueueIsUsed, Connected
      <4>2. Keeps(e, o, c, g, C, D, l, had, IncomingEstablished(t, p))
        BY <3>4, <4>1, IncomingEstablishedKept
      <4>3. QED
        BY <1>2, <2>1, <2>3, <3>6, <4>2
    <3>7. QED
      BY <3>5, <3>6
  <2>4. QED
    BY <1>1, <2>2, <2>3, IncomingSynRcvdDoes DEF Fine
<1>8. CASE s.state \notin {"closed", "syn_sent", "syn_rcvd"}
  <2>1. HandleIncoming(e, s, p) = IncomingEstablished(s, p) /\ Connected(s)
    BY <1>8 DEF HandleIncoming, Connected
  <2>2. Keeps(e, o, c, g, C, D, l, had, IncomingEstablished(s, p))
    BY <2>1, IncomingEstablishedKept
  <2>3. Fine(HandleIncoming(e, s, p))
    BY <1>2, <2>1, <2>2
  <2>4. QED
    BY <2>3 DEF Fine
<1>9. QED
  BY <1>5, <1>6, <1>7, <1>8

\* acknowledge drops what has been received.
LEMMA AcknowledgeKept ==
    ASSUME NEW e \in Ends, NEW o, NEW c, NEW g, NEW C, NEW D, NEW l, NEW had,
           Setting(e, o, c, g, C, D, l),
           NEW s, Sound(s), Keeps(e, o, c, g, C, D, l, had, s)
    PROVE  Keeps(e, o, c, g, C, D, l, had, Acknowledge(s))
<1> DEFINE t == Acknowledge(s)
           v == c.written
           f == Peer(e)
<1>1. Situation(e, o, c, g) /\ Agrees(e, o, c, g, s) /\ s \in Streams
  BY DEF Setting, Keeps, Sound
<1>2. Agrees(e, o, c, g, t) /\ Sound(t) /\ AcknowledgedUpTo(s, t)
  BY <1>1, AcknowledgeDoes, AcknowledgeOK
<1> HIDE DEF t
<1>3. /\ t \in Streams /\ t.state = s.state /\ t.lives = s.lives /\ t.outAcked = s.outAcked
      /\ t.inQueue = s.inQueue /\ t.outQueue = s.outQueue /\ t.inPkt = s.inPkt /\ t.sent = s.sent
      /\ ToSet(t.outPkt) = {p \in ToSet(s.outPkt) : ~IsOldSequence(p.seqno, s.outAcked)}
  BY <1>2 DEF Sound, AcknowledgedUpTo
<1>4. /\ o \in Parts /\ o.written \in Nat /\ o.written <= Total[e] /\ Total[e] \in Nat
      /\ C \in SUBSET Nat /\ l \in Nat /\ 2 * Total[e] < SeqSpace /\ SeqSpace \in Nat
      /\ g \in Seq(Nat) /\ v \in Nat
  BY <1>1, ConstantTypes DEF Situation, Setting, Parts
<1>5. /\ OutOK(e, o, s) /\ Sender(e, C, l, o.written, s) /\ Receiver(e, C, D, l, v, g, s)
  BY <1>1 DEF Agrees, Keeps
<1>6. ASSUME t.state # "closed", NEW b \in Nat, 0 < b, b <= o.written - Len(t.inQueue),
             Holds(e, ToSet(s.outPkt), b)
      PROVE  b <= l \/ Holds(e, ToSet(t.outPkt), b)
  <2>1. PICK p \in ToSet(s.outPkt) : /\ ~p.syn /\ Offset(e, p.seqno) < b
                                     /\ b <= Offset(e, p.seqno) + Len(p.data)
    BY <1>6 DEF Holds
  <2>2. CASE p \in ToSet(t.outPkt)
    BY <2>1, <2>2 DEF Holds
  <2>3. CASE p \notin ToSet(t.outPkt)
    <3> DEFINE k == Offset(e, p.seqno)
               n == Len(p.data)
    <3>1. p \in Packets /\ p.seqno \in Seqno /\ n \in Nat
      <4>1. s.outPkt \in Seq(Packets)
        BY <1>1 DEF Streams
      <4>2. p \in Packets
        BY <4>1, Elements
      <4>3. QED
        BY <4>2, LenProperties DEF Packets, Segments
    <3>2. k \in Nat /\ Position(e, k) = p.seqno
      BY <3>1, PositionOfOffset
    <3>3. k \in C /\ \A x \in C : x <= k \/ k + n <= x
      BY <1>5, <2>1 DEF Sender, Whole
    <3> HIDE DEF k, n
    <3>4. Len(s.inQueue) \in Nat
      BY <1>1, LenProperties DEF Streams
    <3>5. k <= Total[e]
      <4>1. k \in 0 .. o.written - Len(s.inQueue)
        BY <1>5, <3>3 DEF Sender
      <4>2. QED
        BY <1>4, <3>4, <4>1
    <3>6. Connected(s)
      <4> DEFINE m == Len(t.inQueue)
      <4>1. k < b /\ b <= o.written - m /\ m \in Nat
        BY <1>3, <1>6, <2>1, <3>4 DEF k
      <4> HIDE DEF m
      <4>2. o.written # 0
        BY <1>4, <1>6, <3>2, <4>1
      <4>3. s.state \notin {"syn_sent", "syn_rcvd", "closed"}
        BY <1>3, <1>5, <1>6, <4>2 DEF OutOK
      <4>5. QED
        BY <4>3 DEF Connected
    <3>7. PICK a \in C : a <= l /\ s.outAcked = Position(e, a)
      BY <1>5, <3>6 DEF Sender
    <3>8. IsOldSequence(Position(e, k), Position(e, a))
      BY <1>3, <2>3, <3>2, <3>7
    <3>9. ~(a <= k)
      <4>1. 2 * k < SeqSpace
        BY <1>4, <3>2, <3>5
      <4>2. a \in Nat
        BY <1>4
      <4>3. QED
        BY <3>2, <3>8, <4>1, <4>2, NotOld
    <3>10. k + n <= a /\ a \in Nat
      BY <1>4, <3>3, <3>9
    <3>11. b <= k + n
      BY <2>1 DEF k, n
    <3>12. QED
      BY <1>4, <1>6, <3>1, <3>2, <3>7, <3>10, <3>11
  <2>4. QED
    BY <2>2, <2>3
<1>7. \A p \in ToSet(t.outPkt) \cup t.sent : p \in ToSet(s.outPkt) \cup s.sent
  BY <1>3
<1>8. Reach(v, g, t) = Reach(v, g, s) /\ Reach(v, g, s) \in Nat
  BY <1>1, <1>3, <1>4, ReachType DEF Reach
<1>9. /\ t.state # "closed" \/ t.lives = 0 => Reach(v, g, t) \in D
      /\ Reach(v, g, s) <= Reach(v, g, t)
  BY <1>3, <1>5, <1>8 DEF Receiver
<1>10. Connected(t) => \E a \in C : a <= l /\ t.outAcked = Position(e, a)
  BY <1>3, <1>5 DEF Sender, Connected
<1>11. \/ t.inQueue = s.inQueue /\ (s.state # "closed" \/ o.written = 0)
       \/ t.inQueue = s.inQueue /\ t.state = "closed"
  BY <1>3
<1>12. \A p \in ToSet(t.inPkt) : p \in ToSet(s.inPkt)
  BY <1>3
<1>13. QED
  BY <1>1, <1>2, <1>3, <1>4, <1>6, <1>7, <1>9, <1>10, <1>11, <1>12, KeepsOn DEF t, v

\* A packet that is sent again says what has been received now.
LEMMA RetransKept ==
    ASSUME NEW e \in Ends, NEW o, NEW c, NEW g, NEW C, NEW D, NEW l, NEW had,
           Setting(e, o, c, g, C, D, l),
           NEW s, Sound(s), Keeps(e, o, c, g, C, D, l, had, s), s.state # "closed",
           NEW due \in BOOLEAN
    PROVE  Keeps(e, o, c, g, C, D, l, had, Retrans(s, due))
<1> DEFINE t == Retrans(s, due)
           v == c.written
           f == Peer(e)
           Again(p, q) == q.syn = p.syn /\ q.ack = p.ack /\ q.data = p.data /\ q.seqno = p.seqno
<1>1. Situation(e, o, c, g) /\ Agrees(e, o, c, g, s) /\ s \in Streams
  BY DEF Setting, Keeps, Sound
<1>2. Agrees(e, o, c, g, t) /\ Sound(t) /\ SentAgain(s, t)
  BY <1>1, RetransDoes, RetransOK
<1> HIDE DEF t
<1>3. /\ t \in Streams /\ t.state = s.state /\ t.lives = s.lives /\ t.outAcked = s.outAcked
      /\ t.inQueue = s.inQueue /\ t.outQueue = s.outQueue /\ t.inPkt = s.inPkt
  BY <1>2 DEF Sound, SentAgain, Untouched
<1>4. /\ o \in Parts /\ c \in Parts /\ g \in Seq(Nat) /\ v \in Nat /\ InOK(f, c, g, s)
      /\ Sender(e, C, l, o.written, s) /\ Receiver(e, C, D, l, v, g, s)
  BY <1>1 DEF Situation, Parts, Agrees, Keeps
<1>5. Reach(v, g, t) = Reach(v, g, s) /\ Reach(v, g, s) \in Nat /\ Reach(v, g, s) \in D
  <2>1. Reach(v, g, t) = Reach(v, g, s)
    BY <1>3 DEF Reach
  <2>2. Reach(v, g, s) \in D
    BY <1>4 DEF Receiver
  <2>3. QED
    BY <1>1, <1>4, <2>1, <2>2, ReachType
<1>6. ASSUME NEW p \in ToSet(s.outPkt), NEW q, Again(p, q),
             q.ackno = IF p.syn THEN p.ackno ELSE s.inAckno
      PROVE  Whole(e, C, q) /\ Refers(f, D, Reach(v, g, s), q)
  <2>1. Whole(e, C, p) /\ Refers(f, D, Reach(v, g, s), p)
    BY <1>4 DEF Sender, Receiver
  <2>2. Whole(e, C, q)
    BY <1>6, <2>1 DEF Whole
  <2>3. CASE p.syn
    <3>1. q.ackno = p.ackno /\ q.ack = p.ack
      BY <1>6, <2>3
    <3>2. Refers(f, D, Reach(v, g, s), q)
      BY <2>1, <3>1, Zenon DEF Refers
    <3>3. QED
      BY <2>2, <3>2
  <2>4. CASE ~p.syn
    <3>1. s.state # "syn_sent"
      BY <1>4, <2>4 DEF Sender
    <3>2. s.state \notin {"closed", "syn_sent"} /\ q.ackno = s.inAckno
      BY <1>6, <2>4, <3>1
    <3> HIDE DEF f, v
    <3>3. QED
      BY <1>1, <1>4, <1>5, <2>2, <3>2, AckRefers
  <2>5. QED
    BY <2>2, <2>3, <2>4
<1> HIDE DEF f, v
<1>7. CASE t.outPkt = s.outPkt /\ t.sent = s.sent
  <2>1. Sender(e, C, l, o.written, t)
    BY <1>3, <1>4, <1>7 DEF Sender, Connected
  <2>2. Receiver(e, C, D, l, v, g, t)
    BY <1>3, <1>4, <1>5, <1>7 DEF Receiver
  <2>3. QED
    BY <1>2, <1>5, <2>1, <2>2 DEF Keeps, v, t
<1>8. ASSUME NEW p \in ToSet(s.outPkt), NEW q \in Packets, Again(p, q),
             q.ackno = IF p.syn THEN p.ackno ELSE s.inAckno,
             t.sent = s.sent \cup {q}, ToSet(s.outPkt) \subseteq ToSet(t.outPkt) \cup {p},
             ToSet(t.outPkt) \subseteq ToSet(s.outPkt) \cup {q}, q \in ToSet(t.outPkt)
      PROVE  Keeps(e, o, c, g, C, D, l, had, t)
  <2>1. Whole(e, C, q) /\ Refers(f, D, Reach(v, g, t), q)
    BY <1>5, <1>6, <1>8
  <2>2. \A x \in ToSet(t.outPkt) \cup t.sent :
          x \in ToSet(s.outPkt) \cup s.sent \/ (Whole(e, C, x) /\ Refers(f, D, Reach(v, g, t), x))
    BY <1>8, <2>1
  <2>3. ASSUME NEW b, Holds(e, ToSet(s.outPkt), b) PROVE Holds(e, ToSet(t.outPkt), b)
    <3>1. PICK x \in ToSet(s.outPkt) : /\ ~x.syn /\ Offset(e, x.seqno) < b
                                       /\ b <= Offset(e, x.seqno) + Len(x.data)
      BY <2>3 DEF Holds
    <3>2. CASE x = p
      <4>1. ~q.syn /\ Offset(e, q.seqno) < b /\ b <= Offset(e, q.seqno) + Len(q.data)
        BY <1>8, <3>1, <3>2
      <4>2. QED
        BY <1>8, <4>1 DEF Holds
    <3>3. CASE x # p
      BY <1>8, <3>1, <3>3 DEF Holds
    <3>4. QED
      BY <3>2, <3>3
  <2>4. \/ t.state # "syn_sent"
        \/ s.state = "syn_sent" /\ \A x \in ToSet(t.outPkt) : x \in ToSet(s.outPkt) \/ x.syn
    BY <1>3, <1>4, <1>8 DEF Sender
  <2>5. Connected(t) => \E a \in C : a <= l /\ t.outAcked = Position(e, a)
    BY <1>3, <1>4 DEF Sender, Connected
  <2>6. Reach(v, g, s) <= Reach(v, g, t) /\ Reach(v, g, t) \in D
    BY <1>5
  <2>7. \A x \in ToSet(t.inPkt) : x \in ToSet(s.inPkt)
    BY <1>3
  <2>8. QED
    BY <1>1, <1>2, <1>3, <1>4, <2>2, <2>3, <2>4, <2>5, <2>6, <2>7, KeepsOn DEF f, v
<1>9. QED
  BY <1>2, <1>7, <1>8 DEF SentAgain, t

\* An acknowledgement is sent.
LEMMA SendAckKept ==
    ASSUME NEW e \in Ends, NEW o, NEW c, NEW g, NEW C, NEW D, NEW l, NEW had,
           Setting(e, o, c, g, C, D, l),
           NEW s \in Streams, Keeps(e, o, c, g, C, D, l, had, s), Connected(s)
    PROVE  Keeps(e, o, c, g, C, D, l, had, SendAck(s))
<1> DEFINE t == SendAck(s)
           v == c.written
           f == Peer(e)
<1>1. Situation(e, o, c, g) /\ Agrees(e, o, c, g, s) /\ s.state \notin {"closed", "syn_sent"}
  BY DEF Setting, Keeps, Connected
<1>2. t \in Streams /\ Untouched(s, t) /\ t.outPkt = s.outPkt
  BY SendAckDoes
<1>3. PICK q \in Packets : Acknowledges(q, s.outSeqno, s.inAckno) /\ t.sent = s.sent \cup {q}
  BY SendAckDoes
<1>4. Agrees(e, o, c, g, t)
  BY <1>1, SendAckOK
<1> HIDE DEF t
<1>5. /\ t.state = s.state /\ t.lives = s.lives /\ t.outAcked = s.outAcked
      /\ t.inQueue = s.inQueue /\ t.outQueue = s.outQueue /\ t.inPkt = s.inPkt
  BY <1>2 DEF Untouched
<1>6. /\ Sender(e, C, l, o.written, s) /\ Receiver(e, C, D, l, v, g, s)
      /\ Reach(v, g, t) = Reach(v, g, s)
  BY <1>5 DEF Keeps, Reach
<1>7. Whole(e, C, q) /\ Refers(f, D, Reach(v, g, s), q)
  <2>1. q.data = <<>> /\ q.seqno = s.outSeqno /\ q.ackno = s.inAckno
    BY <1>3 DEF Acknowledges
  <2>2. QED
    BY <1>1, <2>1, AckIsKept
<1>8. Sender(e, C, l, o.written, t)
  BY <1>2, <1>3, <1>5, <1>6, <1>7 DEF Sender, Connected
<1>9. Receiver(e, C, D, l, v, g, t)
  BY <1>2, <1>3, <1>5, <1>6, <1>7 DEF Receiver
<1>10. QED
  BY <1>4, <1>6, <1>8, <1>9 DEF Keeps, t

\* Data from the beginning of the queue are sent, as one more segment.
LEMMA GivenKept ==
    ASSUME NEW e \in Ends, NEW o, NEW c, NEW g, NEW C, NEW D, NEW l, NEW had,
           Setting(e, o, c, g, C, D, l),
           NEW s \in Streams, Keeps(e, o, c, g, C, D, l, had, s), Connected(s),
           NEW data, NEW rest, NEW fin, NEW retrans, retrans \/ Len(data) = 0, NEW t,
           Handed(e, o, s, data, rest, fin, retrans, t)
    PROVE  \E B \in SUBSET Nat : Extends(C, B) /\ Keeps(e, o, c, g, B, D, l, had, t)
<1> SUFFICES ASSUME data \in Seq(Nat), rest \in Seq(Nat), data \o rest = s.inQueue,
                    fin \in BOOLEAN, fin => s.inQueue = <<>> /\ o.written = Total[e],
                    t \in Streams, Given(s, data, rest, fin, retrans, t)
             PROVE  \E B \in SUBSET Nat : Extends(C, B) /\ Keeps(e, o, c, g, B, D, l, had, t)
  BY DEF Handed
<1> DEFINE w == o.written
           v == c.written
           f == Peer(e)
           k == w - Len(s.inQueue)
           m == Len(data)
           j == w - Len(rest)
           B == C \cup {j}
<1>1. /\ Situation(e, o, c, g) /\ Agrees(e, o, c, g, s) /\ OutOK(e, o, s) /\ InOK(f, c, g, s)
      /\ s.state \notin {"closed", "syn_sent"}
  BY DEF Setting, Keeps, Agrees, Connected
<1>2. Agrees(e, o, c, g, t)
  BY <1>1, GivenOK
<1>3. /\ w \in Nat /\ w <= Total[e] /\ Total[e] \in Nat /\ Total[e] < SeqSpace /\ SeqSpace \in Nat
      /\ v \in Nat /\ g \in Seq(Nat) /\ C \in SUBSET Nat /\ l \in Nat
  BY <1>1, ConstantTypes DEF Situation, Setting, Parts
<1>4. Len(s.inQueue) = m + Len(rest) /\ m \in Nat /\ Len(rest) \in Nat /\ Len(s.inQueue) <= w
  <2>1. Len(data \o rest) = Len(data) + Len(rest) /\ Len(data) \in Nat /\ Len(rest) \in Nat
    BY JoinType
  <2>2. data \o rest = s.inQueue
    OBVIOUS
  <2>3. Len(s.inQueue) <= w
    BY <1>1 DEF OutOK
  <2>4. QED
    BY <2>1, <2>2, <2>3
<1>5. j = k + m /\ j \in Nat /\ k \in Nat /\ k <= w /\ k < SeqSpace
  <2> DEFINE x == Len(s.inQueue)
             y == Len(rest)
  <2>1. x = m + y /\ m \in Nat /\ y \in Nat /\ x <= w /\ k = w - x /\ j = w - y
    BY <1>4
  <2>2. w \in Nat /\ w < SeqSpace /\ SeqSpace \in Nat
    BY <1>3
  <2> HIDE DEF x, y, w, m, k, j
  <2>3. QED
    BY <2>1, <2>2
<1>6. /\ C \subseteq 0..k /\ k \in C
      /\ \A b \in 1..k : b <= l \/ Holds(e, ToSet(s.outPkt), b)
      /\ \A p \in ToSet(s.outPkt) \cup s.sent : Whole(e, C, p)
      /\ \E a \in C : a <= l /\ s.outAcked = Position(e, a)
  BY <1>1 DEF Keeps, Sender
<1>7. /\ s.outSeqno = Position(e, k)
      /\ Receiver(e, C, D, l, v, g, s) /\ Reach(v, g, s) \in D /\ had \in 0..Reach(v, g, s)
  BY <1>1 DEF OutOK, Keeps, Receiver
<1>8. PICK q \in Packets :
         /\ ~q.syn /\ q.data = data /\ q.seqno = s.outSeqno /\ q.ackno = s.inAckno
         /\ t.outPkt = IF retrans THEN Append(s.outPkt, q) ELSE s.outPkt
         /\ t.sent = s.sent \cup {q}
  BY DEF Given
<1>9. /\ t.state = s.state /\ t.lives = s.lives /\ t.outAcked = s.outAcked
      /\ t.outQueue = s.outQueue /\ t.inPkt = s.inPkt /\ t.inQueue = rest
  BY DEF Given
<1>10. Offset(e, q.seqno) = k
  BY <1>5, <1>7, <1>8, OffsetOfPosition
<1>11. Reach(v, g, t) = Reach(v, g, s)
  BY <1>9 DEF Reach
<1> HIDE DEF w, v, f, k, m, j
<1>12. B \in SUBSET Nat /\ Extends(C, B)
  <2>1. \A y \in C : y <= j
    BY <1>3, <1>5, <1>4, <1>6
  <2>2. QED
    BY <1>3, <1>5, <2>1 DEF Extends
<1>13. Whole(e, B, q)
  <2>1. Offset(e, q.seqno) = k /\ Len(q.data) = m
    BY <1>8, <1>10 DEF m
  <2>2. \A x \in B : x <= k \/ k + m <= x
    BY <1>5, <1>6, <1>4
  <2>3. QED
    BY <1>5, <1>6, <2>1, <2>2 DEF Whole
<1>14. ToSet(s.outPkt) \subseteq ToSet(t.outPkt) /\ ToSet(t.outPkt) \subseteq ToSet(s.outPkt) \cup {q}
       /\ (retrans => q \in ToSet(t.outPkt))
  <2>1. ToSet(Append(s.outPkt, q)) = ToSet(s.outPkt) \cup {q}
    <3>1. s.outPkt \in Seq(Packets) /\ q \in Packets
      BY <1>8 DEF Streams
    <3>2. QED
      BY <3>1, ElementsOfAppend
  <2>2. CASE retrans
    <3>1. t.outPkt = Append(s.outPkt, q)
      BY <1>8, <2>2
    <3>2. QED
      BY <2>1, <3>1
  <2>3. CASE ~retrans
    <3>1. t.outPkt = s.outPkt
      BY <1>8, <2>3
    <3>2. QED
      BY <2>3, <3>1
  <2>4. QED
    BY <2>2, <2>3
<1>15. \A p \in ToSet(t.outPkt) \cup t.sent : Whole(e, B, p)
  <2> HIDE DEF B
  <2>1. \A p \in ToSet(s.outPkt) \cup s.sent : Whole(e, B, p)
    BY <1>6, <1>12, WholeLasts
  <2>2. QED
    BY <1>8, <1>13, <1>14, <2>1
<1>16. ASSUME NEW b \in 1..j PROVE b <= l \/ Holds(e, ToSet(t.outPkt), b)
  <2>1. CASE b <= k
    <3>1. b \in 1..k
      BY <1>5, <2>1
    <3>2. b <= l \/ Holds(e, ToSet(s.outPkt), b)
      BY <1>6, <3>1
    <3>3. QED
      BY <1>14, <3>2 DEF Holds
  <2>2. CASE k < b
    <3>1. b <= k + m /\ m # 0
      BY <1>4, <1>5, <2>2
    <3>2. q \in ToSet(t.outPkt)
      BY <1>14, <3>1 DEF m
    <3>3. Offset(e, q.seqno) < b /\ b <= Offset(e, q.seqno) + Len(q.data)
      BY <1>8, <1>10, <2>2, <3>1 DEF m
    <3>4. QED
      BY <1>8, <3>2, <3>3 DEF Holds
  <2>3. QED
    BY <1>5, <2>1, <2>2
<1>17. Sender(e, B, l, w, t)
  <2>1. B \subseteq 0..j /\ j \in B
    BY <1>4, <1>5, <1>6
  <2>2. w - Len(t.inQueue) = j
    BY <1>9 DEF j
  <2>3. \E a \in B : a <= l /\ t.outAcked = Position(e, a)
    BY <1>6, <1>9
  <2>4. t.state # "syn_sent"
    BY <1>1, <1>9
  <2> HIDE DEF B
  <2>5. QED
    BY <1>15, <1>16, <2>1, <2>2, <2>3, <2>4 DEF Sender
<1>18. Receiver(e, B, D, l, v, g, t)
  <2>1. Refers(f, D, Reach(v, g, s), q)
    <3>1. c \in Parts
      BY <1>1 DEF Situation
    <3>2. QED
      BY <1>1, <1>3, <1>7, <1>8, AckRefers
  <2>2. \A p \in ToSet(t.outPkt) \cup t.sent : Refers(f, D, Reach(v, g, t), p)
    BY <1>7, <1>8, <1>11, <1>14, <2>1 DEF Receiver, f
  <2>3. \A p \in ToSet(t.inPkt) : Whole(f, D, p) /\ Refers(e, B, l, p)
    <3>1. \A p \in ToSet(s.inPkt) : Whole(f, D, p) /\ Refers(e, C, l, p)
      BY <1>7 DEF Receiver, f
    <3>2. \A p : Refers(e, C, l, p) => Refers(e, B, l, p)
      BY DEF Refers
    <3>3. QED
      BY <1>9, <3>1, <3>2
  <2>4. QED
    BY <1>7, <1>11, <2>2, <2>3 DEF Receiver, f
<1>19. Keeps(e, o, c, g, B, D, l, had, t)
  BY <1>2, <1>7, <1>11, <1>17, <1>18 DEF Keeps, w, v
<1>20. QED
  BY <1>12, <1>19

\* send takes full segments, or the rest, from the beginning of the queue.
LEMMA SendDataKept ==
    ASSUME NEW e \in Ends, NEW o, NEW c, NEW g, NEW C, NEW D, NEW l, NEW had,
           Setting(e, o, c, g, C, D, l),
           NEW s \in Streams, Keeps(e, o, c, g, C, D, l, had, s), Connected(s),
           NEW congestWinSize \in MaxSeg..MaxWin
    PROVE  \E B \in SUBSET Nat :
             Extends(C, B) /\ Keeps(e, o, c, g, B, D, l, had, SendData(s, congestWinSize))
<1> DEFINE Fine(x) == \E B \in SUBSET Nat : Extends(C, B) /\ Keeps(e, o, c, g, B, D, l, had, x)
           T == {x \in Streams : Fine(x) /\ Connected(x)}
<1>1. T \in SUBSET Streams /\ s \in T
  <2>1. C \in SUBSET Nat /\ Extends(C, C)
    BY DEF Setting, Extends
  <2>2. Fine(s)
    BY <2>1
  <2>3. QED
    BY <2>2
<1>2. ASSUME NEW x \in T, NEW data \in Seq(Nat), NEW rest \in Seq(Nat),
             data \o rest = x.inQueue, NEW t \in Streams, Given(x, data, rest, FALSE, TRUE, t)
      PROVE  t \in T
  <2>1. PICK B \in SUBSET Nat : Extends(C, B) /\ Keeps(e, o, c, g, B, D, l, had, x)
    OBVIOUS
  <2>2. x \in Streams /\ Connected(x)
    OBVIOUS
  <2>3. Setting(e, o, c, g, B, D, l)
    BY <2>1 DEF Setting, Extends
  <2> DEFINE no == FALSE
             yes == TRUE
  <2>4. /\ no \in BOOLEAN /\ (no => x.inQueue = <<>> /\ o.written = Total[e])
        /\ (yes \/ Len(data) = 0) /\ Given(x, data, rest, no, yes, t)
    BY <1>2
  <2>5. t.state = x.state
    BY <1>2 DEF Given
  <2> HIDE DEF no, yes, T, Fine
  <2>6. Handed(e, o, x, data, rest, no, yes, t)
    BY <1>2, <2>4 DEF Handed
  <2>7. yes \/ Len(data) = 0
    BY <2>4
  <2>9. Keeps(e, o, c, g, B, D, l, had, x)
    BY <2>1
  <2>10. PICK A \in SUBSET Nat : Extends(B, A) /\ Keeps(e, o, c, g, A, D, l, had, t)
    BY <2>2, <2>3, <2>6, <2>7, <2>9, GivenKept
  <2>11. Extends(C, A)
    BY <2>1, <2>10 DEF Extends
  <2>12. QED
    BY <2>2, <2>5, <2>10, <2>11 DEF T, Fine, Connected
<1>3. ASSUME NEW x \in T, MaxSeg <= Len(x.inQueue) PROVE SendSegment(x) \in T
  <2> DEFINE q == x.inQueue
             data == SubSeq(q, 1, MaxSeg)
             rest == SubSeq(q, MaxSeg + 1, Len(q))
  <2>1. /\ SendSegment(x) \in Streams
        /\ data \in Segments /\ rest \in Seq(Nat)
        /\ Given(x, data, rest, FALSE, TRUE, SendSegment(x))
    BY <1>3, SendSegmentDoes
  <2>2. data \in Seq(Nat)
    BY <2>1 DEF Segments
  <2>3. data \o rest = q
    <3>1. q \in Seq(Nat) /\ Len(q) \in Nat /\ MaxSeg <= Len(q)
      BY <1>3, LenProperties DEF Streams
    <3> HIDE DEF q
    <3>2. QED
      BY <3>1, CutInTwo
  <2> HIDE DEF data, rest, T
  <2>4. QED
    BY <1>2, <2>1, <2>2, <2>3
<1>4. ASSUME NEW x \in T, NEW t \in Streams, x.inQueue \in Segments,
             Given(x, x.inQueue, <<>>, FALSE, TRUE, t)
      PROVE  t \in T
  <2> DEFINE data == x.inQueue
             rest == <<>>
  <2>1. data \in Seq(Nat) /\ rest \in Seq(Nat)
    BY <1>4 DEF Segments
  <2>2. data \o rest = x.inQueue
    BY <2>1, ConcatEmptySeq
  <2>3. Given(x, data, rest, FALSE, TRUE, t)
    BY <1>4
  <2> HIDE DEF data, rest, T
  <2>4. QED
    BY <1>2, <2>1, <2>2, <2>3
<1>5. MaxSend(s, congestWinSize) \in Nat
  BY MaxSendType
<1> HIDE DEF T
<1>6. SendData(s, congestWinSize) \in T
  BY <1>1, <1>3, <1>4, <1>5, SendDataKeeps
<1>7. QED
  BY <1>6 DEF T

\* A FIN, which needs no new segment, or an acknowledgement.
LEMMA SendControlKept ==
    ASSUME NEW e \in Ends, NEW o, NEW c, NEW g, NEW C, NEW D, NEW l, NEW had,
           Setting(e, o, c, g, C, D, l),
           NEW s \in Streams, Keeps(e, o, c, g, C, D, l, had, s), Connected(s), NEW keepAlive
    PROVE  \E B \in SUBSET Nat :
             Extends(C, B) /\ Keeps(e, o, c, g, B, D, l, had, SendControl(s, keepAlive))
<1> DEFINE t == SendControl(s, keepAlive)
           Fine(x) == \E B \in SUBSET Nat : Extends(C, B) /\ Keeps(e, o, c, g, B, D, l, had, x)
<1>1. /\ ControlSent(s, t) /\ t \in Streams /\ Situation(e, o, c, g) /\ Agrees(e, o, c, g, s)
      /\ C \in SUBSET Nat /\ Extends(C, C)
  BY SendControlDoes DEF Setting, Keeps, Extends
<1>2. Agrees(e, o, c, g, t)
  BY <1>1, SendControlOK
<1> HIDE DEF t
<1>3. ASSUME t = s PROVE Fine(t)
  BY <1>1, <1>3
<1>4. ASSUME t = SendAck(s) PROVE Fine(t)
  BY <1>1, <1>4, SendAckKept
<1>5. ASSUME NEW r \in Streams, ~s.outStreamActive, s.inQueue = <<>>,
             Given(s, <<>>, <<>>, TRUE, FALSE, r),
             NEW x \in {"fin_wait_1", "last_ack"}, t = [r EXCEPT !.state = x]
      PROVE  Fine(t)
  <2> DEFINE none == <<>>
             yes == TRUE
             keep == FALSE
  <2>1. none \in Seq(Nat) /\ Len(none) = 0
    OBVIOUS
  <2>2. yes \in BOOLEAN
    OBVIOUS
  <2>3. Given(s, none, none, yes, keep, r)
    BY <1>5, Zenon
  <2>4. none \o none = s.inQueue
    BY <1>5, <2>1, ConcatEmptySeq
  <2>5. yes => s.inQueue = <<>> /\ o.written = Total[e]
    BY <1>1, <1>5 DEF Agrees, OutOK
  <2>6. r.state = s.state
    BY <1>5 DEF Given
  <2> HIDE DEF none, yes, keep, Fine
  <2>7. PICK B \in SUBSET Nat : Extends(C, B) /\ Keeps(e, o, c, g, B, D, l, had, r)
    <3>1. Handed(e, o, s, none, none, yes, keep, r)
      BY <2>1, <2>2, <2>3, <2>4, <2>5 DEF Handed
    <3>2. QED
      BY <2>1, <3>1, GivenKept
  <2>8. /\ t.state = x /\ t.lives = r.lives /\ t.outAcked = r.outAcked /\ t.inQueue = r.inQueue
        /\ t.outQueue = r.outQueue /\ t.inPkt = r.inPkt /\ t.outPkt = r.outPkt /\ t.sent = r.sent
    BY <1>5 DEF Streams
  <2>9. Connected(r) /\ Connected(t) /\ t.state \notin {"closed", "syn_sent"} /\ r.state # "closed"
    BY <2>6, <2>8 DEF Connected
  <2>10. Reach(c.written, g, t) = Reach(c.written, g, r)
    BY <2>8, <2>9 DEF Reach
  <2>11. Sender(e, B, l, o.written, t)
    BY <2>7, <2>8, <2>9 DEF Keeps, Sender
  <2>12. Receiver(e, B, D, l, c.written, g, t)
    BY <2>7, <2>8, <2>9, <2>10 DEF Keeps, Receiver
  <2>13. Keeps(e, o, c, g, B, D, l, had, t)
    BY <1>2, <2>7, <2>10, <2>11, <2>12 DEF Keeps
  <2>14. QED
    BY <2>7, <2>13 DEF Fine
<1>6. QED
  BY <1>1, <1>3, <1>4, <1>5 DEF ControlSent, t

\* A tick.
LEMMA SendKept ==
    ASSUME NEW e \in Ends, NEW o, NEW c, NEW g, NEW C, NEW D, NEW l, NEW had,
           Setting(e, o, c, g, C, D, l),
           NEW s, Sound(s), Keeps(e, o, c, g, C, D, l, had, s), s.state # "closed",
           NEW congestWinSize \in MaxSeg..MaxWin, NEW due \in BOOLEAN, NEW keepAlive
    PROVE  \E B \in SUBSET Nat :
             /\ Extends(C, B)
             /\ Keeps(e, o, c, g, B, D, l, had, Send(s, congestWinSize, due, keepAlive))
<1> DEFINE a == Acknowledge(s)
           t == Retrans(a, due)
           u == SendData(t, congestWinSize)
           v == SendControl(t, keepAlive)
           Fine(x) == \E B \in SUBSET Nat : Extends(C, B) /\ Keeps(e, o, c, g, B, D, l, had, x)
<1>1. Send(s, congestWinSize, due, keepAlive) =
        IF ~Connected(t) THEN t ELSE IF u # t THEN u ELSE v
  BY DEF Send
<1>2. Sound(a) /\ Keeps(e, o, c, g, C, D, l, had, a) /\ a.state # "closed"
  BY AcknowledgeDoes, AcknowledgeKept DEF AcknowledgedUpTo
<1> HIDE DEF a
<1>3. Sound(t) /\ Keeps(e, o, c, g, C, D, l, had, t)
  BY <1>2, RetransDoes, RetransKept
<1> HIDE DEF t
<1>4. t \in Streams /\ C \in SUBSET Nat /\ Extends(C, C)
  BY <1>3 DEF Sound, Setting, Extends
<1>5. Fine(t)
  BY <1>3, <1>4
<1>6. Connected(t) => Fine(u)
  BY <1>3, <1>4, SendDataKept
<1>7. Connected(t) => Fine(v)
  BY <1>3, <1>4, SendControlKept
<1> HIDE DEF u, v
<1>8. QED
  BY <1>1, <1>5, <1>6, <1>7

-----------------------------------------------------------------------------
(* The cuts and the two streams together.                                  *)

\* How many bytes of its peer the end e has received, or will never ask for.
Limit(e) == Reach(written[Peer(e)], got[e], stream[e])

\* Both ends keep what they must, and the datagrams under way are right; cuts[e] is where
\* the segments of e begin and end.
Kept(cuts) ==
    \A e \in Ends : LET f == Peer(e) IN
      /\ 0 \in cuts[e]
      /\ Sender(e, cuts[e], Limit(f), written[e], stream[e])
      /\ Receiver(e, cuts[e], cuts[f], Limit(f), written[f], got[e], stream[e])
      /\ \A p \in net[e] : Whole(f, cuts[f], p) /\ Refers(e, cuts[e], Limit(f), p)

\* The second invariant.
KInv == \E cuts \in [Ends -> SUBSET Nat] : Kept(cuts)

\* A step of the end e, which has sent the segments B: what the peer must keep lasts.
LEMMA StepKept ==
    ASSUME TypesOK, TypesOK', NEW cuts \in [Ends -> SUBSET Nat], Kept(cuts),
           NEW e \in Ends, NEW f \in Ends, f = Peer(e),
           stream'[f] = stream[f], written'[f] = written[f], got'[f] = got[f],
           written[e] <= written'[e],
           NEW B \in SUBSET Nat, Extends(cuts[e], B),
           Sender(e, B, Limit(f), written'[e], stream'[e]),
           Receiver(e, B, cuts[f], Limit(f), written[f], got'[e], stream'[e]),
           Limit(e) <= Reach(written[f], got'[e], stream'[e]),
           net'[e] \subseteq net[e],
           \A p \in net'[f] :
             \/ p \in net[f]
             \/ /\ Whole(e, B, p)
                /\ Refers(f, cuts[f], Reach(written[f], got'[e], stream'[e]), p)
    PROVE  KInv'
<1> DEFINE later == [cuts EXCEPT ![e] = B]
           C == cuts[e]
           D == cuts[f]
           l == Limit(f)
           m == Limit(e)
           k == Reach(written'[e], got[f], stream[f])
           n == Reach(written[f], got'[e], stream'[e])
           v == written[e]
           w == written'[e]
           u == written[f]
           s == stream[f]
           t == stream'[e]
           g == got[f]
           h == got'[e]
<1>1. /\ Peer(f) = e /\ f # e /\ \A x \in Ends : x = e \/ x = f
  BY PeerIsOther
<1>2. /\ s \in Streams /\ t \in Streams /\ g \in Seq(Nat) /\ h \in Seq(Nat)
      /\ v \in Nat /\ w \in Nat /\ u \in Nat
  BY DEF TypesOK, Sound
<1>3. C \in SUBSET Nat /\ D \in SUBSET Nat /\ C \subseteq B /\ Extends(D, D)
  BY DEF Extends
<1>4. /\ later \in [Ends -> SUBSET Nat] /\ later[e] = B /\ later[f] = D
  BY <1>1
<1>5. Limit(e)' = n /\ Limit(f)' = k /\ l = Reach(v, g, s) /\ m = Reach(u, got[e], stream[e])
  BY <1>1 DEF Limit
<1>6. /\ 0 \in C /\ 0 \in D
      /\ Sender(f, D, m, u, s) /\ Receiver(f, D, C, m, v, g, s)
      /\ \A p \in net[f] : Whole(e, C, p) /\ Refers(f, D, m, p)
      /\ \A p \in net[e] : Whole(f, D, p) /\ Refers(e, C, l, p)
  BY <1>1 DEF Kept
<1>7. /\ Sender(e, B, l, w, t) /\ Receiver(e, B, D, l, u, h, t)
      /\ m <= n /\ v <= w /\ Extends(C, B)
  OBVIOUS
<1>8. \A p \in net'[f] : p \in net[f] \/ (Whole(e, B, p) /\ Refers(f, D, n, p))
  OBVIOUS
<1>9. /\ written'[f] = u /\ written'[e] = w /\ stream'[f] = s /\ stream'[e] = t
      /\ got'[f] = g /\ got'[e] = h /\ net'[e] \subseteq net[e]
  OBVIOUS
<1>10. l \in Nat /\ m \in Nat /\ n \in Nat /\ k \in Nat
  <2>1. got[e] \in Seq(Nat) /\ stream[e] \in Streams
    BY DEF TypesOK, Sound
  <2>2. Reach(v, g, s) \in Nat /\ Reach(u, got[e], stream[e]) \in Nat
    BY <1>2, <2>1, ReachType
  <2>3. n \in Nat /\ k \in Nat
    BY <1>2, ReachType
  <2>4. QED
    BY <1>5, <2>2, <2>3
<1> HIDE DEF later, C, D, l, m, k, n, v, w, u, s, t, g, h
<1>11. Sender(f, D, n, u, s)
  BY <1>3, <1>6, <1>7, <1>10, SenderLasts
<1>12. Receiver(f, D, B, n, w, g, s) /\ l <= k
  <2>1. Receiver(f, D, B, n, w, g, s) /\ Reach(v, g, s) <= Reach(w, g, s)
    <3>1. /\ C \in SUBSET Nat /\ D \in SUBSET Nat /\ B \in SUBSET Nat
          /\ Extends(C, B) /\ Extends(D, D)
      BY <1>3, <1>7
    <3>2. m \in Nat /\ n \in Nat /\ m <= n
      BY <1>7, <1>10
    <3>3. v \in Nat /\ w \in Nat /\ v <= w /\ g \in Seq(Nat) /\ s \in Streams
      BY <1>2, <1>7
    <3>4. Receiver(f, D, C, m, v, g, s)
      BY <1>6
    <3>5. QED
      BY <3>1, <3>2, <3>3, <3>4, ReceiverLasts
  <2>2. k = Reach(w, g, s)
    BY DEF k, w, g, s
  <2>3. QED
    BY <1>5, <2>1, <2>2
<1>13. Sender(e, B, k, w, t)
  BY <1>7, <1>10, <1>12, SenderLasts
<1>14. Receiver(e, B, D, k, u, h, t)
  <2>1. u <= u /\ B \subseteq B
    BY <1>2
  <2>2. QED
    BY <1>2, <1>3, <1>7, <1>10, <1>12, <2>1, ReceiverLasts
<1>15. \A p \in net'[f] : Whole(e, B, p) /\ Refers(f, D, n, p)
  <2>1. ASSUME NEW p \in net[f] PROVE Whole(e, B, p) /\ Refers(f, D, n, p)
    <3>1. Whole(e, B, p)
      BY <1>6, <1>7, WholeLasts
    <3>2. Refers(f, D, m, p) /\ D \subseteq D
      BY <1>6
    <3>3. Refers(f, D, n, p)
      BY <1>3, <1>7, <1>10, <3>2, RefersLasts
    <3>4. QED
      BY <3>1, <3>3
  <2>2. QED
    BY <1>8, <2>1
<1>16. \A p \in net'[e] : Whole(f, D, p) /\ Refers(e, B, k, p)
  <2>1. ASSUME NEW p \in net[e] PROVE Refers(e, B, k, p)
    <3>1. Refers(e, C, l, p)
      BY <1>6
    <3>2. QED
      BY <1>3, <1>10, <1>12, <3>1, RefersLasts
  <2>2. QED
    BY <1>6, <1>9, <2>1
<1>17. Kept(later)'
  <2> DEFINE Good(x) ==
        /\ 0 \in later[x]
        /\ Sender(x, later[x], Limit(Peer(x))', written'[x], stream'[x])
        /\ Receiver(x, later[x], later[Peer(x)], Limit(Peer(x))',
                    written'[Peer(x)], got'[x], stream'[x])
        /\ \A p \in net'[x] :
             Whole(Peer(x), later[Peer(x)], p) /\ Refers(x, later[x], Limit(Peer(x))', p)
  <2>1. Good(e)
    <3>1. 0 \in B
      BY <1>3, <1>6
    <3>2. Peer(e) = f
      OBVIOUS
    <3>3. QED
      BY <1>4, <1>5, <1>9, <1>13, <1>14, <1>16, <3>1, <3>2
  <2>2. Good(f)
    BY <1>1, <1>4, <1>5, <1>6, <1>9, <1>11, <1>12, <1>15
  <2>3. \A x \in Ends : Good(x)
    BY <1>1, <2>1, <2>2
  <2>4. QED
    BY <2>3 DEF Kept
<1>18. QED
  BY <1>4, <1>17 DEF KInv

\* A stream that is committed.
LEMMA CommitKept ==
    ASSUME TypesOK, TypesOK', NEW cuts \in [Ends -> SUBSET Nat], Kept(cuts),
           NEW e \in Ends, NEW f \in Ends, f = Peer(e), NEW s \in Streams,
           NEW B \in SUBSET Nat, Extends(cuts[e], B),
           Sender(e, B, Limit(f), written[e], s),
           Receiver(e, B, cuts[f], Limit(f), written[f], got[e], s),
           Limit(e) <= Reach(written[f], got[e], s),
           NEW under \in [Ends -> SUBSET Packets], \A x \in Ends : under[x] \subseteq net[x],
           NEW arriving, Committed(e, s, under, arriving), UNCHANGED <<written, got>>
    PROVE  KInv'
<1> DEFINE t == [s EXCEPT !.sent = {}]
           m == Reach(written[f], got[e], s)
<1>1. Peer(f) = e /\ f # e /\ written' = written /\ got' = got /\ written[e] \in Nat
  BY PeerIsOther DEF TypesOK
<1>2. /\ arriving \subseteq s.sent
      /\ stream' = [stream EXCEPT ![e] = t] /\ net' = [under EXCEPT ![f] = @ \cup arriving]
  BY DEF Committed
<1>3. /\ t.state = s.state /\ t.lives = s.lives /\ t.outAcked = s.outAcked
      /\ t.inQueue = s.inQueue /\ t.outQueue = s.outQueue
      /\ t.inPkt = s.inPkt /\ t.outPkt = s.outPkt /\ t.sent = {}
  BY DEF Streams
<1> HIDE DEF t
<1>4. stream'[e] = t /\ stream'[f] = stream[f] /\ net'[e] = under[e]
      /\ net'[f] = under[f] \cup arriving
  BY <1>1, <1>2 DEF TypesOK
<1>5. Reach(written[f], got[e], t) = m
  BY <1>3 DEF Reach
<1>6. Sender(e, B, Limit(f), written[e], t)
  BY <1>3 DEF Sender, Connected
<1>7. Receiver(e, B, cuts[f], Limit(f), written[f], got[e], t)
  BY <1>3, <1>5 DEF Receiver
<1>8. \A p \in s.sent : Whole(e, B, p) /\ Refers(f, cuts[f], m, p)
  BY DEF Sender, Receiver
<1>9. \A p \in net'[f] : p \in net[f] \/ (Whole(e, B, p) /\ Refers(f, cuts[f], m, p))
  BY <1>2, <1>4, <1>8
<1> HIDE DEF m
<1>10. /\ stream'[e] = t /\ got'[e] = got[e] /\ written'[e] = written[e]
       /\ got'[f] = got[f] /\ written'[f] = written[f] /\ written[e] <= written'[e]
       /\ net'[e] \subseteq net[e]
  BY <1>1, <1>4
<1>11. /\ Sender(e, B, Limit(f), written'[e], stream'[e])
       /\ Receiver(e, B, cuts[f], Limit(f), written[f], got'[e], stream'[e])
       /\ Reach(written[f], got'[e], stream'[e]) = m /\ Limit(e) <= m
  BY <1>5, <1>6, <1>7, <1>10 DEF m
<1>12. QED
  BY <1>4, <1>9, <1>10, <1>11, StepKept

\* What is given when a stream does something.
LEMMA SettingIs ==
    ASSUME TypesOK, NEW first \in [Ends -> BOOLEAN], Right(first),
           NEW cuts \in [Ends -> SUBSET Nat], Kept(cuts), \A x \in Ends : 2 * Total[x] < SeqSpace,
           NEW e \in Ends, NEW f \in Ends, f = Peer(e),
           NEW o, o = Done(e, first), NEW c, c = Done(f, first)
    PROVE  /\ Setting(e, o, c, got[e], cuts[e], cuts[f], Limit(f))
           /\ Keeps(e, o, c, got[e], cuts[e], cuts[f], Limit(f), Limit(e), stream[e])
           /\ o.written = written[e] /\ c.written = written[f]
<1>1. \A x \in Ends : Total[x] < SeqSpace
  BY ConstantTypes
<1>2. Situation(e, o, c, got[e]) /\ Agrees(e, o, c, got[e], stream[e])
  BY <1>1, SituationIs DEF Right
<1>3. o.written = written[e] /\ c.written = written[f]
  BY DoneType
<1>4. \A x \in Ends : Limit(x) \in Nat
  <2> SUFFICES ASSUME NEW x \in Ends PROVE Limit(x) \in Nat
    OBVIOUS
  <2> DEFINE v == written[Peer(x)]
             g == got[x]
             s == stream[x]
  <2>1. v \in Nat /\ g \in Seq(Nat) /\ s \in Streams
    BY PeerIsOther DEF TypesOK
  <2> HIDE DEF v, g, s
  <2>2. Reach(v, g, s) \in Nat
    BY <2>1, ReachType
  <2>3. QED
    BY <2>2 DEF Limit, v, g, s
<1>5. /\ 0 \in cuts[e] /\ 0 \in cuts[f] /\ cuts[e] \in SUBSET Nat /\ cuts[f] \in SUBSET Nat
      /\ Sender(e, cuts[e], Limit(f), written[e], stream[e])
      /\ Receiver(e, cuts[e], cuts[f], Limit(f), written[f], got[e], stream[e])
  BY DEF Kept
<1>6. Setting(e, o, c, got[e], cuts[e], cuts[f], Limit(f))
  BY <1>2, <1>4, <1>5 DEF Setting
<1>7. Limit(e) \in 0..Reach(c.written, got[e], stream[e])
  <2>1. Limit(e) = Reach(c.written, got[e], stream[e]) /\ Limit(e) \in Nat
    BY <1>3, <1>4 DEF Limit
  <2>2. QED
    BY <2>1
<1>8. Keeps(e, o, c, got[e], cuts[e], cuts[f], Limit(f), Limit(e), stream[e])
  BY <1>2, <1>3, <1>5, <1>7 DEF Keeps
<1>9. QED
  BY <1>3, <1>6, <1>8

\* A stream that keeps what it must is committed.
LEMMA KeepsCommitted ==
    ASSUME TypesOK, TypesOK', NEW cuts \in [Ends -> SUBSET Nat], Kept(cuts),
           NEW e \in Ends, NEW f \in Ends, f = Peer(e), NEW s \in Streams,
           NEW B \in SUBSET Nat, Extends(cuts[e], B), NEW o, NEW c,
           Keeps(e, o, c, got[e], B, cuts[f], Limit(f), Limit(e), s),
           o.written = written[e], c.written = written[f],
           NEW under \in [Ends -> SUBSET Packets], \A x \in Ends : under[x] \subseteq net[x],
           NEW arriving, Committed(e, s, under, arriving), UNCHANGED <<written, got>>
    PROVE  KInv'
<1>1. /\ Sender(e, B, Limit(f), written[e], s)
      /\ Receiver(e, B, cuts[f], Limit(f), written[f], got[e], s)
      /\ Limit(e) \in 0..Reach(written[f], got[e], s)
  BY DEF Keeps
<1>2. Limit(e) <= Reach(written[f], got[e], s)
  BY <1>1
<1>3. QED
  BY <1>1, <1>2, CommitKept

\* tick.
LEMMA TickKept ==
    ASSUME IInv, KInv, TypesOK', NEW e \in Ends, Tick(e),
           \A x \in Ends : 2 * Total[x] < SeqSpace
    PROVE  KInv'
<1>1. PICK first \in [Ends -> BOOLEAN] : Right(first)
  BY DEF IInv
<1>2. PICK cuts \in [Ends -> SUBSET Nat] : Kept(cuts)
  BY DEF KInv
<1>3. PICK w \in MaxSeg..MaxWin, due \in BOOLEAN, keepAlive \in BOOLEAN :
        Commit(e, Send(stream[e], w, due, keepAlive), net)
  BY DEF Tick
<1> DEFINE f == Peer(e)
           o == Done(e, first)
           c == Done(f, first)
           s == stream[e]
           t == Send(s, w, due, keepAlive)
           C == cuts[e]
           D == cuts[f]
           l == Limit(f)
           m == Limit(e)
           g == got[e]
<1>4. /\ TypesOK /\ Sound(s) /\ UNCHANGED <<written, got>> /\ s.state # "closed" /\ f \in Ends
      /\ net \in [Ends -> SUBSET Packets] /\ \A x \in Ends : net[x] \subseteq net[x]
  BY PeerIsOther DEF IInv, TypesOK, Tick
<1>5. /\ Setting(e, o, c, g, C, D, l) /\ Keeps(e, o, c, g, C, D, l, m, s)
      /\ o.written = written[e] /\ c.written = written[f]
  BY <1>1, <1>2, <1>4, SettingIs
<1> HIDE DEF f, o, c, s, C, D, l, m, g
<1>6. PICK B \in SUBSET Nat : Extends(C, B) /\ Keeps(e, o, c, g, B, D, l, m, t)
  BY <1>4, <1>5, SendKept
<1>7. Sound(t)
  BY <1>4, SendSound
<1>8. Commit(e, t, net)
  BY <1>3 DEF s
<1> HIDE DEF t
<1>9. PICK arriving : Committed(e, t, net, arriving)
  BY <1>4, <1>7, <1>8, CommitTypes
<1>10. t \in Streams
  BY <1>7 DEF Sound
<1>11. Keeps(e, o, c, got[e], B, cuts[f], Limit(f), Limit(e), t) /\ Extends(cuts[e], B)
  BY <1>6 DEF C, D, l, m, g
<1>12. f = Peer(e)
  BY DEF f
<1>13. QED
  BY <1>2, <1>4, <1>5, <1>9, <1>10, <1>11, <1>12, KeepsCommitted

\* recvPkt.
LEMMA RecvPktKept ==
    ASSUME IInv, KInv, TypesOK', NEW e \in Ends, NEW p \in net[e], RecvPkt(e, p),
           Connecting \cap Eager = {} \/ ~Overtaking, OneLife',
           \A x \in Ends : 2 * Total[x] < SeqSpace
    PROVE  KInv'
<1>1. PICK first \in [Ends -> BOOLEAN] : Right(first)
  BY DEF IInv
<1>2. PICK cuts \in [Ends -> SUBSET Nat] : Kept(cuts)
  BY DEF KInv
<1> DEFINE f == Peer(e)
           o == Done(e, first)
           c == Done(f, first)
           s == stream[e]
           t == HandleIncoming(e, s, p)
           C == cuts[e]
           D == cuts[f]
           l == Limit(f)
           m == Limit(e)
           g == got[e]
<1>3. PICK under \in {net, [net EXCEPT ![e] = @ \ {p}]} : Commit(e, t, under)
  BY DEF RecvPkt
<1>4. /\ TypesOK /\ Sound(s) /\ UNCHANGED <<written, got>> /\ f \in Ends
      /\ net \in [Ends -> SUBSET Packets]
  BY PeerIsOther DEF IInv, TypesOK, RecvPkt
<1>5. p \in Packets /\ under \in [Ends -> SUBSET Packets] /\ \A x \in Ends : under[x] \subseteq net[x]
  BY <1>4
<1>6. /\ Setting(e, o, c, g, C, D, l) /\ Keeps(e, o, c, g, C, D, l, m, s)
      /\ o.written = written[e] /\ c.written = written[f]
  BY <1>1, <1>2, <1>4, SettingIs
<1>a. Openable(e, s) /\ (Overtaking \/ ~Overtakes(s, p))
  BY DEF RecvPkt, MayOpen, Openable
<1>7. s.state = "syn_rcvd" => c.written = 0 \/ ~Overtakes(s, p)
  <2> HIDE DEF o, c, C, D, l, m, g, t
  <2>1. CASE Connecting \cap Eager = {}
    BY <1>1, <1>4, <1>6, <2>1, AnsweredFirst
  <2>2. QED
    BY <1>a, <2>1
<1>8. /\ PacketOK(Peer(e), c, p) /\ Whole(Peer(e), D, p) /\ Refers(e, C, l, p)
  <2>1. PacketOK(Peer(e), c, p)
    BY <1>1 DEF Right
  <2>2. Whole(Peer(e), D, p) /\ Refers(e, C, l, p)
    BY <1>2 DEF Kept
  <2>3. QED
    BY <2>1, <2>2
<1>9. f = Peer(e)
  OBVIOUS
<1> HIDE DEF f, o, c, s, C, D, l, m, g
<1>11. Sound(t)
  BY <1>4, <1>5, <1>a, HandleIncomingSound
<1>b. t.lives <= 1
  <2> HIDE DEF t
  <2>1. PICK arriving : Committed(e, t, under, arriving)
    BY <1>3, <1>4, <1>5, <1>11, CommitTypes
  <2>2. [t EXCEPT !.sent = {}].lives = t.lives
    BY <1>11 DEF Sound, Streams
  <2>3. QED
    BY <1>4, <2>1, <2>2, OneLifeIs DEF Committed
<1>10. PICK d \in Parts : d.written = o.written /\ Keeps(e, d, c, g, C, D, l, m, t)
  BY <1>4, <1>5, <1>6, <1>7, <1>8, <1>a, <1>b, HandleIncomingKept
<1> HIDE DEF t
<1>12. PICK arriving : Committed(e, t, under, arriving)
  BY <1>3, <1>4, <1>5, <1>11, CommitTypes
<1>13. t \in Streams
  BY <1>11 DEF Sound
<1>14. /\ Keeps(e, d, c, got[e], cuts[e], cuts[f], Limit(f), Limit(e), t)
       /\ Extends(cuts[e], cuts[e]) /\ cuts[e] \in SUBSET Nat
       /\ d.written = written[e] /\ c.written = written[f]
  BY <1>6, <1>10 DEF C, D, l, m, g, Extends
<1>15. QED
  BY <1>2, <1>4, <1>5, <1>9, <1>12, <1>13, <1>14, KeepsCommitted

\* connect sends the first SYN.
LEMMA ConnectKept ==
    ASSUME IInv, KInv, TypesOK', NEW e \in Ends, Connect(e), OneLife'
    PROVE  KInv'
<1>1. PICK first \in [Ends -> BOOLEAN] : Right(first)
  BY DEF IInv
<1>2. PICK cuts \in [Ends -> SUBSET Nat] : Kept(cuts)
  BY DEF KInv
<1> DEFINE f == Peer(e)
           s == Connects(e, stream[e])
           g == got[e]
           r == stream[e].outQueue
           v == written[f]
           C == cuts[e]
           l == Limit(f)
           z == <<>>
<1>a. /\ TypesOK /\ e \in Connecting /\ stream[e].state = "closed" /\ Openable(e, stream[e])
      /\ Commit(e, s, net) /\ UNCHANGED <<written, got>>
  BY DEF IInv, Connect, Connects, MayOpen, Openable
<1>b. /\ Sound(stream[e]) /\ stream[e] \in Streams /\ stream[e].lives \in Nat /\ f \in Ends
      /\ net \in [Ends -> SUBSET Packets] /\ \A x \in Ends : net[x] \subseteq net[x]
      /\ g \in Seq(Nat) /\ r \in Seq(Nat)
  BY <1>a, PeerIsOther DEF TypesOK, Sound, Streams
<1>4. /\ Sound(s) /\ s.state = "syn_sent" /\ s.lives = stream[e].lives + 1
      /\ s.inQueue = stream[e].inQueue /\ s.outQueue = stream[e].outQueue
      /\ s.inPkt = stream[e].inPkt
  BY <1>a, <1>b, ConnectsDoes
<1>5. PICK q \in Packets :
        /\ q.syn /\ ~q.fin /\ ~q.ack /\ q.data = <<>> /\ q.seqno = Isn[e][s.lives]
        /\ s.outPkt = Append(stream[e].outPkt, q) /\ s.sent = stream[e].sent \cup {q}
  <2>1. Sound(stream[e]) /\ stream[e].state = "closed" /\ Openable(e, stream[e])
    BY <1>a, <1>b
  <2> HIDE DEF f, g, r, v, C, l, z
  <2>2. QED
    BY <2>1, ConnectsDoes
<1> HIDE DEF s
<1>6. PICK arriving : Committed(e, s, net, arriving)
  BY <1>a, <1>b, <1>4, CommitTypes
<1>c. stream[e].lives = 0
  <2>1. [s EXCEPT !.sent = {}].lives = s.lives
    BY <1>4 DEF Sound, Streams
  <2>2. s.lives <= 1
    BY <1>a, <1>6, <2>1, OneLifeIs DEF Committed
  <2>3. QED
    BY <1>b, <1>4, <2>2
<1>3. /\ TypesOK /\ stream[e].lives = 0 /\ stream[e].state = "closed" /\ f \in Ends
      /\ Commit(e, s, net) /\ UNCHANGED <<written, got>>
      /\ net \in [Ends -> SUBSET Packets] /\ \A x \in Ends : net[x] \subseteq net[x]
      /\ g \in Seq(Nat) /\ r \in Seq(Nat)
  BY <1>a, <1>b, <1>c
<1>8. Agrees(e, Done(e, first), Done(f, first), g, stream[e])
  BY <1>1 DEF Right
<1>9. g \o r = z /\ written[e] = 0
  <2>1. Done(e, first).written = written[e]
    BY <1>3, DoneType
  <2>2. QED
    BY <1>3, <1>8, <2>1 DEF Agrees, InOK, OutOK, Connected
<1>d. s.inQueue = z /\ s.inPkt = z
  <2>1. Done(e, first).written = 0 /\ stream[e].inQueue \in Seq(Nat)
    BY <1>3, <1>9, DoneType DEF TypesOK, Streams
  <2>2. Len(stream[e].inQueue) <= 0
    BY <1>8, <2>1 DEF Agrees, OutOK
  <2>3. stream[e].inQueue = z
    BY <2>1, <2>2, LenProperties, EmptySeq
  <2>4. stream[e].inPkt = z
    BY <1>3, <1>b DEF Sound, QueueIsUsed, Connected
  <2>5. QED
    BY <1>4, <2>3, <2>4
<1>7. s \in Streams /\ ToSet(s.outPkt) \cup s.sent = {q} /\ ToSet(s.inPkt) = {}
  <2>1. Done(e, first).lives = 0 /\ OutOK(e, Done(e, first), stream[e])
    BY <1>3, <1>8, DoneType DEF Agrees
  <2>2. \A x : ~PacketOK(e, Done(e, first), x)
    BY <2>1 DEF PacketOK
  <2>3. ToSet(stream[e].outPkt) \cup stream[e].sent = {}
    BY <2>1, <2>2 DEF OutOK
  <2>4. stream[e].outPkt \in Seq(Packets)
    BY <1>b DEF Streams
  <2>5. ToSet(s.outPkt) = ToSet(stream[e].outPkt) \cup {q}
    BY <1>5, <2>4, ElementsOfAppend
  <2>6. s \in Streams
    BY <1>4 DEF Sound
  <2>7. ToSet(s.inPkt) = {}
    BY <1>d DEF ToSet
  <2>8. QED
    BY <1>5, <2>3, <2>5, <2>6, <2>7
<1>10. Len(g \o r) = 0 /\ Len(g \o s.outQueue) = 0
  <2>1. g = z
    BY <1>3, <1>9, ConcatEqualIffEmpty
  <2>2. Len(z) = 0 /\ z \o z = z
    OBVIOUS
  <2>3. QED
    BY <1>4, <1>9, <2>1, <2>2
<1>11. /\ 0 \in C /\ 0 \in cuts[f] /\ C \in SUBSET Nat
       /\ Sender(e, C, l, 0, stream[e])
  BY <1>2, <1>3, <1>9 DEF Kept
<1>12. Limit(e) = 0 /\ Reach(v, g, s) = 0
  BY <1>3, <1>4, <1>10 DEF Limit, Reach
<1> HIDE DEF f, g, r, v, l, C
<1>13. C \subseteq 0..0
  <2> DEFINE k == Len(stream[e].inQueue)
  <2>1. k \in Nat
    BY <1>3, LenProperties DEF TypesOK, Streams
  <2>2. C \subseteq 0..(0 - k)
    BY <1>11 DEF Sender
  <2> HIDE DEF k
  <2>3. QED
    BY <1>11, <2>1, <2>2
<1>14. Sender(e, C, l, written[e], s)
  <2>1. Len(s.inQueue) = 0
    BY <1>d
  <2>2. written[e] - Len(s.inQueue) = 0
    BY <1>9, <2>1
  <2>3. \A p \in ToSet(s.outPkt) \cup s.sent : Whole(e, C, p) /\ p.syn
    BY <1>5, <1>7 DEF Whole
  <2>4. ~Connected(s)
    BY <1>4 DEF Connected
  <2>5. QED
    BY <1>11, <1>13, <2>2, <2>3, <2>4 DEF Sender
<1>15. Receiver(e, C, cuts[f], l, v, g, s)
  BY <1>5, <1>7, <1>11, <1>12 DEF Receiver, Refers
<1>16. Limit(e) <= Reach(v, g, s) /\ Extends(C, C)
  BY <1>12 DEF Extends
<1>17. f = Peer(e)
  BY DEF f
<1>18. QED
  BY <1>2, <1>3, <1>6, <1>7, <1>11, <1>14, <1>15, <1>16, <1>17, CommitKept DEF v, g, l, C

\* A step of the user of e, who sends nothing.
LEMMA ChangedKept ==
    ASSUME TypesOK, TypesOK', NEW cuts \in [Ends -> SUBSET Nat], Kept(cuts),
           NEW e \in Ends, NEW f \in Ends, f = Peer(e), NEW t, Changed(e, t),
           written'[f] = written[f], got'[f] = got[f], written[e] <= written'[e],
           Sender(e, cuts[e], Limit(f), written'[e], t),
           Receiver(e, cuts[e], cuts[f], Limit(f), written[f], got'[e], t),
           Limit(e) <= Reach(written[f], got'[e], t)
    PROVE  KInv'
<1>1. f # e
  BY PeerIsOther
<1>2. stream'[e] = t /\ stream'[f] = stream[f] /\ net' = net
  BY <1>1 DEF TypesOK, Changed
<1>3. /\ net'[e] \subseteq net[e] /\ \A p \in net'[f] : p \in net[f]
      /\ Extends(cuts[e], cuts[e]) /\ cuts[e] \in SUBSET Nat
  BY <1>2 DEF Extends
<1>4. /\ Sender(e, cuts[e], Limit(f), written'[e], stream'[e])
      /\ Receiver(e, cuts[e], cuts[f], Limit(f), written[f], got'[e], stream'[e])
      /\ Limit(e) <= Reach(written[f], got'[e], stream'[e])
  BY <1>2
<1>5. QED
  BY <1>2, <1>3, <1>4, StepKept

\* write: the bytes wait in the queue.
LEMMA WriteKept ==
    ASSUME IInv, KInv, TypesOK', NEW e \in Ends, NEW n \in 1..MaxWin, Write(e, n)
    PROVE  KInv'
<1>1. PICK cuts \in [Ends -> SUBSET Nat] : Kept(cuts)
  BY DEF KInv
<1> DEFINE f == Peer(e)
           s == stream[e]
           g == got[e]
           w == written[e]
           t == Writes(s, w, n)
           C == cuts[e]
           l == Limit(f)
           x == Len(s.inQueue)
           y == Len(t.inQueue)
<1>2. /\ TypesOK /\ Sound(s) /\ s \in Streams /\ w \in Nat /\ n \in Nat /\ f \in Ends /\ f # e
      /\ written \in [Ends -> Nat]
  BY ConstantTypes, PeerIsOther DEF IInv, TypesOK, Sound
<1>3. Changed(e, t) /\ written' = [written EXCEPT ![e] = w + n] /\ got' = got
  BY DEF Write, Changed, Writes
<1>4. /\ written'[e] = w + n /\ written'[f] = written[f]
  BY <1>2, <1>3
<1>5. /\ Sender(e, C, l, w, s) /\ Receiver(e, C, cuts[f], l, written[f], g, s)
  BY <1>1 DEF Kept
<1>6. Limit(e) = Reach(written[f], g, s) /\ Limit(e) \in Nat
  <2>1. g \in Seq(Nat) /\ written[f] \in Nat
    BY <1>2 DEF TypesOK
  <2>2. Limit(e) = Reach(written[f], g, s)
    BY DEF Limit
  <2> HIDE DEF f, g, s
  <2>3. QED
    BY <1>2, <2>1, <2>2, ReachType
<1> HIDE DEF s, w
<1>7. /\ Untouched([s EXCEPT !.inQueue = t.inQueue], t)
      /\ t.inQueue = s.inQueue \o Numbers(w, n)
      /\ t.outPkt = s.outPkt /\ t.sent = s.sent
  BY <1>2, WritesDoes
<1> HIDE DEF t, l, C, f, g
<1>8. /\ t.state = s.state /\ t.lives = s.lives /\ t.outAcked = s.outAcked
      /\ t.inPkt = s.inPkt /\ t.outQueue = s.outQueue
  BY <1>2, <1>7 DEF Untouched, Streams
<1>9. written'[e] - y = w - x
  <2>1. s.inQueue \in Seq(Nat) /\ Numbers(w, n) \in Seq(Nat) /\ Len(Numbers(w, n)) = n
    BY <1>2, NumbersType DEF Streams
  <2>2. y = x + n /\ x \in Nat
    BY <1>7, <2>1, ConcatProperties, LenProperties
  <2> HIDE DEF x, y
  <2>3. QED
    BY <1>2, <1>4, <2>2
<1> HIDE DEF x, y
<1>10. Sender(e, C, l, written'[e], t)
  BY <1>5, <1>7, <1>8, <1>9 DEF Sender, Connected, x, y
<1>11. Reach(written[f], g, t) = Reach(written[f], g, s)
  BY <1>8 DEF Reach
<1>12. Receiver(e, C, cuts[f], l, written[f], g, t)
  BY <1>5, <1>7, <1>8, <1>11 DEF Receiver
<1>13. /\ got'[e] = g /\ got'[f] = got[f] /\ f = Peer(e)
       /\ Limit(e) <= Reach(written[f], g, t) /\ written[e] <= written'[e]
  BY <1>2, <1>3, <1>4, <1>6, <1>11 DEF f, g, w
<1>14. QED
  BY <1>1, <1>2, <1>3, <1>4, <1>10, <1>12, <1>13, ChangedKept DEF C, l

\* read: what was received is now with the user.
LEMMA ReadKept ==
    ASSUME IInv, KInv, TypesOK', NEW e \in Ends, NEW n \in 1..MaxWin, Read(e, n)
    PROVE  KInv'
<1>1. PICK cuts \in [Ends -> SUBSET Nat] : Kept(cuts)
  BY DEF KInv
<1> DEFINE f == Peer(e)
           s == stream[e]
           g == got[e]
           w == written[e]
           t == Reads(s, n)
           C == cuts[e]
           l == Limit(f)
           a == SubSeq(s.outQueue, 1, n)
           q == t.outQueue
<1>2. /\ TypesOK /\ Sound(s) /\ s \in Streams /\ n \in Nat /\ f \in Ends /\ f # e
      /\ g \in Seq(Nat) /\ w \in Nat /\ written[f] \in Nat
  <2>1. TypesOK /\ n \in Nat /\ f \in Ends /\ f # e
    BY ConstantTypes, PeerIsOther DEF IInv
  <2>2. Sound(s) /\ s \in Streams
    BY <2>1 DEF TypesOK, Sound
  <2>3. g \in Seq(Nat) /\ w \in Nat /\ written[f] \in Nat
    BY <2>1 DEF TypesOK
  <2>4. QED
    BY <2>1, <2>2, <2>3
<1>3. /\ Changed(e, t) /\ got' = [got EXCEPT ![e] = g \o a] /\ written' = written
      /\ Connected(s) /\ n <= Len(s.outQueue)
  BY DEF Read, Changed, Reads
<1>4. got'[e] = g \o a /\ got'[f] = got[f]
  BY <1>2, <1>3 DEF TypesOK
<1>5. /\ Sender(e, C, l, w, s) /\ Receiver(e, C, cuts[f], l, written[f], g, s)
  BY <1>1 DEF Kept
<1>6. Limit(e) = Reach(written[f], g, s)
  BY DEF Limit
<1> HIDE DEF s, w, g, f
<1>7. /\ Sound(t) /\ Untouched([s EXCEPT !.outQueue = t.outQueue], t)
      /\ a \in Seq(Nat) /\ a \o t.outQueue = s.outQueue
      /\ t.outPkt = s.outPkt /\ t.sent = s.sent
  BY <1>2, <1>3, ReadsDoes
<1> HIDE DEF t, a, l, C
<1>8. /\ t.state = s.state /\ t.lives = s.lives /\ t.outAcked = s.outAcked
      /\ t.inPkt = s.inPkt /\ t.inQueue = s.inQueue
  BY <1>2, <1>7 DEF Untouched, Streams
<1>9. Reach(written[f], g \o a, t) = Reach(written[f], g, s)
  <2>1. q \in Seq(Nat)
    BY <1>7 DEF Sound, Streams
  <2>2. a \o q = s.outQueue
    BY <1>7
  <2> HIDE DEF q
  <2>3. (g \o a) \o q = g \o (a \o q)
    BY <1>2, <1>7, <2>1, JoinAssociative
  <2>4. (g \o a) \o t.outQueue = g \o s.outQueue
    BY <2>2, <2>3 DEF q
  <2>5. s.state # "closed" /\ t.state # "closed"
    BY <1>3, <1>8 DEF Connected
  <2>6. QED
    BY <2>4, <2>5 DEF Reach
<1>10. Sender(e, C, l, w, t)
  BY <1>5, <1>7, <1>8 DEF Sender, Connected
<1>11. Receiver(e, C, cuts[f], l, written[f], g \o a, t)
  BY <1>5, <1>7, <1>8, <1>9 DEF Receiver
<1>12. Limit(e) <= Reach(written[f], g \o a, t)
  <2>1. Reach(written[f], g, s) \in Nat
    BY <1>2, ReachType
  <2>2. QED
    BY <1>6, <1>9, <2>1
<1>13. /\ written'[e] = w /\ written'[f] = written[f] /\ written[e] <= written'[e] /\ f = Peer(e)
  BY <1>2, <1>3 DEF w, f
<1>14. QED
  BY <1>1, <1>2, <1>3, <1>4, <1>10, <1>11, <1>12, <1>13, ChangedKept DEF C, l

\* closeWrite leaves all packets alone.
LEMMA CloseWriteKept ==
    ASSUME IInv, KInv, TypesOK', NEW e \in Ends, CloseWrite(e)
    PROVE  KInv'
<1>1. PICK cuts \in [Ends -> SUBSET Nat] : Kept(cuts)
  BY DEF KInv
<1> DEFINE f == Peer(e)
           s == stream[e]
           g == got[e]
           w == written[e]
           t == Closes(s)
           C == cuts[e]
           l == Limit(f)
<1>2. /\ TypesOK /\ Sound(s) /\ s \in Streams /\ f \in Ends /\ f # e
      /\ g \in Seq(Nat) /\ w \in Nat /\ written[f] \in Nat
  BY PeerIsOther DEF IInv, TypesOK, Sound
<1>3. Changed(e, t) /\ got' = got /\ written' = written
  BY DEF CloseWrite, Changed, Closes
<1>4. Sender(e, C, l, w, s) /\ Receiver(e, C, cuts[f], l, written[f], g, s)
  BY <1>1 DEF Kept
<1>5. Limit(e) = Reach(written[f], g, s)
  BY DEF Limit
<1> HIDE DEF s, w, g, f
<1>6. /\ Untouched([s EXCEPT !.outStreamActive = FALSE], t)
      /\ t.outPkt = s.outPkt /\ t.sent = s.sent
  BY <1>2, ClosesDoes
<1> HIDE DEF t, l, C
<1>7. /\ t.state = s.state /\ t.lives = s.lives /\ t.outAcked = s.outAcked
      /\ t.inPkt = s.inPkt /\ t.inQueue = s.inQueue /\ t.outQueue = s.outQueue
  BY <1>2, <1>6 DEF Untouched, Streams
<1>8. Reach(written[f], g, t) = Reach(written[f], g, s)
  BY <1>7 DEF Reach
<1>9. Sender(e, C, l, w, t)
  BY <1>4, <1>6, <1>7 DEF Sender, Connected
<1>10. Receiver(e, C, cuts[f], l, written[f], g, t)
  BY <1>4, <1>6, <1>7, <1>8 DEF Receiver
<1>11. Limit(e) <= Reach(written[f], g, t)
  <2>1. Reach(written[f], g, s) \in Nat
    BY <1>2, ReachType
  <2>2. QED
    BY <1>5, <1>8, <2>1
<1>12. /\ written'[e] = w /\ written'[f] = written[f] /\ written[e] <= written'[e] /\ f = Peer(e)
       /\ got'[e] = g /\ got'[f] = got[f]
  BY <1>2, <1>3 DEF w, f, g
<1>13. QED
  BY <1>1, <1>2, <1>3, <1>9, <1>10, <1>11, <1>12, ChangedKept DEF C, l

\* close, or a time-out: the stream asks for nothing any more.
LEMMA CloseKept ==
    ASSUME IInv, KInv, TypesOK', NEW e \in Ends, Close(e)
    PROVE  KInv'
<1>1. PICK cuts \in [Ends -> SUBSET Nat] : Kept(cuts)
  BY DEF KInv
<1>2. PICK first \in [Ends -> BOOLEAN] : Right(first)
  BY DEF IInv
<1> DEFINE f == Peer(e)
           o == Done(e, first)
           c == Done(f, first)
           s == stream[e]
           g == got[e]
           w == written[e]
           t == Cleanup(s)
           C == cuts[e]
           l == Limit(f)
           x == Len(s.inQueue)
<1>3. /\ TypesOK /\ s \in Streams /\ f \in Ends /\ f # e /\ s.sent = {}
      /\ g \in Seq(Nat) /\ w \in Nat /\ written[f] \in Nat
  BY PeerIsOther DEF IInv, TypesOK, Sound
<1>4. Changed(e, t) /\ got' = got /\ written' = written /\ s.state # "closed"
  BY DEF Close, Changed
<1>5. Sender(e, C, l, w, s)
  BY <1>1 DEF Kept
<1>6. Limit(e) = Reach(written[f], g, s)
  BY DEF Limit
<1>7. c \in Parts /\ c.written = written[f]
  BY <1>3, DoneType
<1>8. OutOK(e, o, s) /\ InOK(f, c, g, s)
  BY <1>2 DEF Right, Agrees
<1> HIDE DEF s, w, g, f, o, c
<1>9. t \in Streams /\ Emptied(s, t)
  BY <1>3, CleanupDoes
<1> HIDE DEF t, l, C
<1>10. /\ t.state = "closed" /\ t.lives # 0 /\ t.sent = {} /\ t.inQueue = <<>>
       /\ t.inPkt = <<>> /\ t.outPkt = <<>>
  BY <1>3, <1>4, <1>8, <1>9 DEF Emptied, OutOK
<1>11. ToSet(t.outPkt) \cup t.sent = {} /\ ToSet(t.outPkt) = {} /\ ToSet(t.inPkt) = {}
  BY <1>10 DEF ToSet
<1>12. C \subseteq 0..w - Len(t.inQueue)
  <2>1. C \subseteq 0..w - x /\ x \in Nat
    BY <1>3, <1>5, LenProperties DEF Sender, Streams
  <2>2. Len(t.inQueue) = 0
    BY <1>10
  <2> HIDE DEF x
  <2>3. QED
    BY <1>3, <2>1, <2>2
<1>13. Sender(e, C, l, w, t)
  BY <1>10, <1>11, <1>12 DEF Sender, Connected
<1>14. Receiver(e, C, cuts[f], l, written[f], g, t)
  BY <1>10, <1>11 DEF Receiver
<1>15. Limit(e) <= Reach(written[f], g, t)
  <2>1. Reach(c.written, g, s) <= c.written
    BY <1>3, <1>7, <1>8, ReachIsWritten
  <2>2. Reach(written[f], g, t) = written[f]
    BY <1>10 DEF Reach
  <2>3. QED
    BY <1>6, <1>7, <2>1, <2>2
<1>16. /\ written'[e] = w /\ written'[f] = written[f] /\ written[e] <= written'[e] /\ f = Peer(e)
       /\ got'[e] = g /\ got'[f] = got[f]
  BY <1>3, <1>4 DEF w, f, g
<1>17. QED
  BY <1>1, <1>3, <1>4, <1>13, <1>14, <1>15, <1>16, ChangedKept DEF C, l

\* At first there are no segments.
LEMMA KInvInit ==
    ASSUME Init
    PROVE  KInv
<1> DEFINE cuts == [x \in Ends |-> {0}]
           z == <<>>
           s == Fresh
<1>1. cuts \in [Ends -> SUBSET Nat] /\ \A e \in Ends : cuts[e] = {0}
  OBVIOUS
<1>2. ASSUME NEW e \in Ends
      PROVE  stream[e] = s /\ net[e] = {} /\ written[e] = 0 /\ got[e] = z
  BY <1>2 DEF Init
<1>3. /\ s.state = "closed" /\ s.inQueue = z /\ s.outQueue = z /\ s.lives = 0
      /\ s.inPkt = z /\ s.outPkt = z /\ s.sent = {}
  BY DEF Fresh
<1>4. ToSet(s.inPkt) = {} /\ ToSet(s.outPkt) = {}
  BY <1>3 DEF ToSet
<1> HIDE DEF cuts, s
<1>5. Len(s.inQueue) = 0 /\ Reach(0, z, s) = 0
  BY <1>3 DEF Reach
<1>6. ASSUME NEW e \in Ends, NEW l PROVE Sender(e, {0}, l, 0, s)
  <2>1. 0 - Len(s.inQueue) = 0
    BY <1>5
  <2>2. {0} \subseteq 0..0 /\ ToSet(s.outPkt) \cup s.sent = {}
    BY <1>3, <1>4
  <2>3. QED
    BY <1>3, <1>4, <2>1, <2>2 DEF Sender, Connected
<1>7. ASSUME NEW e \in Ends, NEW l PROVE Receiver(e, {0}, {0}, l, 0, z, s)
  BY <1>3, <1>4, <1>5 DEF Receiver
<1>8. Kept(cuts)
  <2> SUFFICES ASSUME NEW e \in Ends
               PROVE  /\ 0 \in cuts[e]
                      /\ Sender(e, cuts[e], Limit(Peer(e)), written[e], stream[e])
                      /\ Receiver(e, cuts[e], cuts[Peer(e)], Limit(Peer(e)),
                                  written[Peer(e)], got[e], stream[e])
                      /\ \A p \in net[e] : Whole(Peer(e), cuts[Peer(e)], p)
                                           /\ Refers(e, cuts[e], Limit(Peer(e)), p)
    BY DEF Kept
  <2>1. Peer(e) \in Ends
    BY PeerIsOther
  <2>2. QED
    BY <1>1, <1>2, <1>6, <1>7, <2>1
<1>9. QED
  BY <1>1, <1>8 DEF KInv

(* Every such step keeps the second invariant, when the numbers an end has  *)
(* to write are less than half of the sequence numbers.                     *)
LEMMA KInvNext ==
    ASSUME Connecting \cap Eager = {} \/ ~Overtaking, \A e \in Ends : 2 * Total[e] < SeqSpace,
           IInv, KInv, Next, OneLife'
    PROVE  KInv'
<1>1. TypesOK'
  BY TypesNext DEF IInv
<1>2. CASE \E e \in Ends : Connect(e)
  BY <1>1, <1>2, ConnectKept
<1>3. CASE \E e \in Ends : \E p \in net[e] : RecvPkt(e, p)
  BY <1>1, <1>3, RecvPktKept
<1>4. CASE \E e \in Ends : Tick(e)
  BY <1>1, <1>4, TickKept
<1>5. CASE \E e \in Ends, n \in 1..MaxWin : Write(e, n)
  BY <1>1, <1>5, WriteKept
<1>6. CASE \E e \in Ends, n \in 1..MaxWin : Read(e, n)
  BY <1>1, <1>6, ReadKept
<1>7. CASE \E e \in Ends : CloseWrite(e)
  BY <1>1, <1>7, CloseWriteKept
<1>8. CASE \E e \in Ends : Close(e)
  BY <1>1, <1>8, CloseKept
<1>9. QED
  BY <1>2, <1>3, <1>4, <1>5, <1>6, <1>7, <1>8 DEF Next

\* So does a step in which nothing happens.
LEMMA KInvStutter ==
    ASSUME KInv, UNCHANGED vars
    PROVE  KInv'
<1>1. PICK cuts \in [Ends -> SUBSET Nat] : Kept(cuts)
  BY DEF KInv
<1>2. Kept(cuts)'
  BY <1>1 DEF Kept, Limit, vars
<1>3. QED
  BY <1>2 DEF KInv

(* Until the other end has a byte, it waits in the queue or in a packet     *)
(* that will be sent again: acknowledge drops nothing too early, however    *)
(* late or often an acknowledgement comes.  Beyond the hypotheses of        *)
(* Integrity, an end has less to write than half of the sequence numbers:   *)
(* outAcked follows any late acknowledgement back, and isOldSequence        *)
(* compares within half of the numbers.                                     *)
THEOREM NothingIsDropped ==
    ASSUME Connecting \cap Eager = {} \/ ~Overtaking, \A e \in Ends : 2 * Total[e] < SeqSpace
    PROVE  Spec => []NothingDropped
<1> DEFINE Lasting == TypesOK /\ (OneLife => IInv /\ KInv)
<1>1. Lasting => NothingDropped
  <2> SUFFICES ASSUME IInv, KInv, NEW e \in Ends,
                      stream[e].state # "closed", stream[Peer(e)].state # "closed",
                      NEW b \in 1..written[e]
               PROVE  b \in Pending(e) \cup ToSet(Received(Peer(e)))
    BY DEF NothingDropped
  <2>1. PICK first \in [Ends -> BOOLEAN] : Right(first)
    BY DEF IInv
  <2>2. PICK cuts \in [Ends -> SUBSET Nat] : Kept(cuts)
    BY DEF KInv
  <2> DEFINE f == Peer(e)
             o == Done(e, first)
             s == stream[e]
             w == written[e]
             x == Len(s.inQueue)
             n == w - x
             l == Limit(f)
  <2>3. /\ f \in Ends /\ Peer(f) = e /\ TypesOK /\ s \in Streams /\ w \in Nat /\ o.written = w
        /\ b \in Nat /\ 0 < b /\ b <= w
    <3>1. f \in Ends /\ Peer(f) = e /\ TypesOK /\ s \in Streams /\ w \in Nat
      BY PeerIsOther DEF IInv, TypesOK
    <3>2. o.written = w
      BY <3>1, DoneType
    <3>3. b \in Nat /\ 0 < b /\ b <= w
      BY <3>1
    <3>4. QED
      BY <3>1, <3>2, <3>3
  <2>4. OutOK(e, o, s) /\ Sender(e, cuts[e], l, w, s)
    BY <2>1, <2>2 DEF Right, Agrees, Kept
  <2>5. Received(f) = Numbers(0, l) /\ l \in Nat
    <3>1. l = Len(Received(f))
      BY <2>3 DEF Limit, Reach, Received
    <3>2. QED
      BY <2>3, <3>1, ReceivedIs
  <2>6. Pending(e) = ToSet(s.inQueue) \cup UNION {ToSet(p.data) : p \in ToSet(s.outPkt)}
    BY DEF Pending
  <2>7. s.state # "closed"
    OBVIOUS
  <2> HIDE DEF f, o, s, w, l
  <2>8. s.inQueue \in Seq(Nat) /\ s.outPkt \in Seq(Packets) /\ x \in Nat /\ x <= w
        /\ s.inQueue = Numbers(n, x)
    BY <2>3, <2>4, LenProperties DEF OutOK, Streams
  <2>9. \A i \in 1..n : i <= l \/ Holds(e, ToSet(s.outPkt), i)
    BY <2>4, <2>7 DEF Sender
  <2>10. CASE n < b
    <3> HIDE DEF x
    <3>1. n \in Nat /\ n + x = w
      BY <2>3, <2>8
    <3> HIDE DEF n
    <3>2. ToSet(s.inQueue) = n + 1 .. n + x
      BY <2>8, <3>1, NumbersType
    <3>3. b \in ToSet(s.inQueue)
      BY <2>3, <2>10, <3>1, <3>2
    <3>4. QED
      BY <2>6, <3>3
  <2>11. CASE b <= l
    <3> DEFINE z == 0
    <3>1. z \in Nat /\ Received(f) = Numbers(z, l)
      BY <2>5
    <3> HIDE DEF z
    <3>2. ToSet(Received(f)) = z + 1 .. z + l
      BY <2>5, <3>1, NumbersType
    <3>3. b \in ToSet(Received(f))
      BY <2>3, <2>5, <2>11, <3>2 DEF z
    <3>4. QED
      BY <3>3 DEF f
  <2>12. CASE Holds(e, ToSet(s.outPkt), b)
    <3>1. PICK p \in ToSet(s.outPkt) : /\ ~p.syn /\ Offset(e, p.seqno) < b
                                       /\ b <= Offset(e, p.seqno) + Len(p.data)
      BY <2>12 DEF Holds
    <3> DEFINE k == Offset(e, p.seqno)
               m == Len(p.data)
    <3>2. p \in Packets /\ p.data = Numbers(k, m)
      <4>1. PacketOK(e, o, p)
        BY <2>4 DEF OutOK
      <4>2. QED
        BY <2>8, <3>1, <4>1, Elements DEF PacketOK
    <3>3. k \in Nat /\ m \in Nat
      BY <3>2, PositionOfOffset, LenProperties DEF Packets, Segments
    <3> HIDE DEF k, m
    <3>4. ToSet(p.data) = k + 1 .. k + m
      BY <3>2, <3>3, NumbersType
    <3>5. k < b /\ b <= k + m
      BY <3>1 DEF k, m
    <3>6. b \in ToSet(p.data)
      BY <2>3, <3>3, <3>4, <3>5
    <3>7. QED
      BY <2>6, <3>1, <3>6
  <2>13. n < b \/ b \in 1..n
    <3>1. n \in Nat
      BY <2>3, <2>8
    <3> HIDE DEF n
    <3>2. QED
      BY <2>3, <3>1
  <2>14. QED
    BY <2>9, <2>10, <2>11, <2>12, <2>13
<1>2. Lasting /\ [Next]_vars => Lasting'
  <2>1. \A e \in Ends : Total[e] < SeqSpace
    BY ConstantTypes
  <2>2. ASSUME Lasting, Next PROVE Lasting'
    <3>1. TypesOK'
      BY <2>2, TypesNext
    <3>2. ASSUME OneLife' PROVE IInv' /\ KInv'
      <4>1. OneLife
        BY <2>2, <3>2, OneLifeBefore
      <4>2. IInv /\ KInv
        BY <2>2, <4>1
      <4>3. QED
        BY <2>1, <2>2, <3>2, <4>2, IInvNext, KInvNext
    <3>3. QED
      BY <3>1, <3>2
  <2>3. ASSUME Lasting, UNCHANGED vars PROVE Lasting'
    <3>1. TypesOK' /\ (OneLife' => OneLife)
      BY <2>3 DEF TypesOK, OneLife, vars
    <3>2. IInv /\ KInv => IInv' /\ KInv'
      BY <2>3, IInvStutter, KInvStutter
    <3>3. QED
      BY <2>3, <3>1, <3>2
  <2>4. QED
    BY <2>2, <2>3
<1>3. Init => Lasting
  BY IInvInit, KInvInit DEF IInv
<1>4. QED
  BY <1>1, <1>2, <1>3, PTL DEF Spec
=============================================================================
