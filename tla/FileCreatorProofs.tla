------------------------- MODULE FileCreatorProofs -------------------------
(***************************************************************************)
(* A download keeps track of every piece, for every file, chunk, slice and *)
(* block size and set of sources, as long as no check is forced in its     *)
(* middle and no block reaches over the end of the part that it meets.     *)
(* The blocks of pending slices never do (AskedBlocksFit); the late blocks *)
(* of slices that were cut otherwise may.                                  *)
(***************************************************************************)
EXTENDS FileCreator, NumberFacts

-----------------------------------------------------------------------------
(* Chunks and pieces.                                                      *)

\* The number of chunks is the size of the file, rounded up.
LEMMA NumberOfChunks ==
    /\ NumChunks \in Nat \ {0}
    /\ (NumChunks - 1) * ChunkSize < FileSize /\ FileSize <= NumChunks * ChunkSize
    /\ NumChunks > 1 <=> FileSize > ChunkSize
<1> DEFINE a == FileSize + ChunkSize - 1
           q == a \div ChunkSize
<1>1. FileSize \in Nat \ {0} /\ ChunkSize \in Nat \ {0} /\ a \in Nat
  BY ChunkMapAssumption
<1>2. q \in Nat /\ q * ChunkSize <= a /\ a < q * ChunkSize + ChunkSize
  BY <1>1
<1>3. NumChunks = q
  BY DEF NumChunks
<1>4. (q - 1) * ChunkSize = q * ChunkSize - ChunkSize
  BY <1>1, <1>2
<1> HIDE DEF q
<1>5. (q - 1) * ChunkSize < FileSize /\ FileSize <= q * ChunkSize
  BY <1>1, <1>2, <1>4
<1>6. q # 0
  BY <1>1, <1>5
<1>7. q > 1 <=> FileSize > ChunkSize
  <2>1. CASE q = 1
    BY <1>1, <1>5, <2>1
  <2>2. CASE q > 1
    <3>1. (q - 1) * ChunkSize >= ChunkSize
      BY <1>1, <1>2, <2>2
    <3>2. QED
      BY <1>1, <1>2, <1>5, <2>2, <3>1
  <2>3. QED
    BY <1>2, <1>6, <2>1, <2>2
<1>8. QED
  BY <1>2, <1>3, <1>5, <1>6, <1>7

\* Chunks are not empty, not larger than ChunkSize, and lie in the file.
LEMMA ChunkBounds ==
    ASSUME NEW c \in Chunks
    PROVE  /\ Start(c) \in Nat /\ End(c) \in Nat
           /\ SizeOfChunk(c) \in 1..ChunkSize /\ End(c) = Start(c) + SizeOfChunk(c)
           /\ End(c) <= FileSize
<1>1. /\ c \in Nat /\ NumChunks \in Nat \ {0} /\ c <= NumChunks - 1
      /\ FileSize \in Nat \ {0} /\ ChunkSize \in Nat \ {0}
  BY NumberOfChunks, ChunkMapAssumption DEF Chunks
<1>2. Start(c) = c * ChunkSize /\ Start(c) \in Nat
  BY <1>1 DEF Start
<1>3. CASE c = NumChunks - 1
  <2>1. SizeOfChunk(c) = FileSize - Start(c)
    BY <1>3 DEF SizeOfChunk
  <2>2. Start(c) < FileSize /\ FileSize <= NumChunks * ChunkSize
    BY <1>2, <1>3, NumberOfChunks
  <2>3. NumChunks * ChunkSize = Start(c) + ChunkSize
    BY <1>1, <1>2, <1>3
  <2>4. QED
    BY <1>1, <1>2, <2>1, <2>2, <2>3 DEF End
<1>4. CASE c # NumChunks - 1
  <2>1. SizeOfChunk(c) = ChunkSize
    BY <1>4 DEF SizeOfChunk
  <2>2. (c + 1) * ChunkSize <= (NumChunks - 1) * ChunkSize
    BY <1>1, <1>4
  <2>3. (c + 1) * ChunkSize = Start(c) + ChunkSize
    BY <1>1, <1>2
  <2>4. (NumChunks - 1) * ChunkSize < FileSize /\ (NumChunks - 1) * ChunkSize \in Nat
    BY <1>1, NumberOfChunks
  <2>5. QED
    BY <1>1, <1>2, <2>1, <2>2, <2>3, <2>4 DEF End
<1>5. QED
  BY <1>3, <1>4

\* Every offset is in one chunk.
LEMMA PiecesOfChunk ==
    /\ \A o \in Offsets : o \in Nat /\ ChunkOf(o) \in Chunks
    /\ \A c \in Chunks : \A x : x \in Pieces(c) <=> x \in Offsets /\ ChunkOf(x) = c
<1>0. FileSize \in Nat \ {0} /\ ChunkSize \in Nat \ {0}
  BY ChunkMapAssumption
<1>1. ASSUME NEW o \in Offsets
      PROVE  /\ o \in Nat /\ ChunkOf(o) \in Chunks
             /\ Start(ChunkOf(o)) <= o /\ o < End(ChunkOf(o))
  <2> DEFINE q == o \div ChunkSize
  <2>1. o \in Nat /\ o < FileSize
    BY <1>0 DEF Offsets
  <2>2. q \in Nat /\ q * ChunkSize <= o /\ o < q * ChunkSize + ChunkSize
    BY <1>0, <2>1
  <2>3. ChunkOf(o) = q
    BY DEF ChunkOf
  <2> HIDE DEF q
  <2>4. q <= NumChunks - 1
    <3>1. q * ChunkSize < NumChunks * ChunkSize /\ NumChunks \in Nat
      BY <1>0, <2>1, <2>2, NumberOfChunks
    <3>2. QED
      BY <1>0, <2>2, <3>1
  <2>5. q \in Chunks
    BY <2>2, <2>4, NumberOfChunks DEF Chunks
  <2>6. Start(q) = q * ChunkSize
    BY DEF Start
  <2>7. SizeOfChunk(q) = FileSize - Start(q) \/ SizeOfChunk(q) = ChunkSize
    BY DEF SizeOfChunk
  <2>8. o < End(q)
    BY <1>0, <2>1, <2>2, <2>5, <2>6, <2>7, ChunkBounds
  <2>9. QED
    BY <2>1, <2>2, <2>3, <2>5, <2>6, <2>8
<1>2. ASSUME NEW c \in Chunks, NEW x \in Pieces(c)
      PROVE  x \in Offsets /\ ChunkOf(x) = c
  <2>1. /\ Start(c) \in Nat /\ End(c) <= FileSize /\ End(c) <= Start(c) + ChunkSize
        /\ x \in Start(c) .. End(c) - 1 /\ c \in Nat /\ End(c) \in Nat
    BY <1>0, <1>2, ChunkBounds, NumberOfChunks DEF Pieces, Chunks
  <2>2. x \in Offsets
    BY <1>0, <2>1 DEF Offsets
  <2>3. c * ChunkSize <= x /\ x < c * ChunkSize + ChunkSize /\ x \in Nat
    BY <1>0, <2>1 DEF Start
  <2>4. x \div ChunkSize = c
    BY <1>0, <2>1, <2>3
  <2>5. QED
    BY <2>2, <2>4 DEF ChunkOf
<1>3. ASSUME NEW c \in Chunks, NEW x \in Offsets, ChunkOf(x) = c
      PROVE  x \in Pieces(c)
  <2>1. Start(c) <= x /\ x < End(c) /\ x \in Nat /\ Start(c) \in Nat /\ End(c) \in Nat
    BY <1>1, <1>3, ChunkBounds
  <2>2. QED
    BY <2>1 DEF Pieces
<1>4. QED
  BY <1>1, <1>2, <1>3

\* A piece behind another one, but not in its chunk, is behind the chunk.
LEMMA ChunksInOrder ==
    ASSUME NEW o \in Offsets
    PROVE  /\ Start(ChunkOf(o)) <= o /\ o < End(ChunkOf(o))
           /\ \A x \in Nat : o <= x /\ x < End(ChunkOf(o)) => x \in Offsets /\ ChunkOf(x) = ChunkOf(o)
           /\ \A x \in Offsets : o < x /\ ChunkOf(x) # ChunkOf(o) => End(ChunkOf(o)) <= x
<1> DEFINE c == ChunkOf(o)
<1>1. c \in Chunks /\ o \in Nat /\ o \in Pieces(c)
  BY PiecesOfChunk
<1>2. Start(c) \in Nat /\ End(c) \in Nat
  BY <1>1, ChunkBounds
<1> HIDE DEF c
<1>3. Start(c) <= o /\ o < End(c)
  BY <1>1, <1>2 DEF Pieces
<1>4. ASSUME NEW x \in Nat, o <= x, x < End(c)
      PROVE  x \in Offsets /\ ChunkOf(x) = c
  <2>1. x \in Pieces(c)
    BY <1>1, <1>2, <1>3, <1>4 DEF Pieces
  <2>2. QED
    BY <1>1, <2>1, PiecesOfChunk
<1>5. ASSUME NEW x \in Offsets, o < x, ChunkOf(x) # c
      PROVE  End(c) <= x
  <2>1. x \in Nat
    BY PiecesOfChunk
  <2>2. QED
    BY <1>1, <1>2, <1>4, <1>5, <2>1
<1>6. QED
  BY <1>3, <1>4, <1>5 DEF c

-----------------------------------------------------------------------------
(* Sums over the chunks.                                                   *)

\* The function of which Sum takes the last value.
IsSum(f, w) == f = [n \in 0..NumChunks |-> IF n = 0 THEN 0 ELSE f[n - 1] + w[n - 1]]

Upto(w) == CHOOSE f : IsSum(f, w)

\* It exists, and its values are numbers.
LEMMA SumExists ==
    ASSUME NEW w \in [Chunks -> Int]
    PROVE  /\ Sum(w) = Upto(w)[NumChunks]
           /\ Upto(w) \in [0..NumChunks -> Int] /\ Upto(w)[0] = 0
           /\ \A n \in 1..NumChunks : Upto(w)[n] = Upto(w)[n - 1] + w[n - 1]
<1> DEFINE N == NumChunks
           Part0(f, m) == /\ f \in [0..m -> Int] /\ f[0] = 0
                          /\ \A n \in 1..m : f[n] = f[n - 1] + w[n - 1]
<1>0. N \in Nat \ {0} /\ \A n \in 1..N : w[n - 1] \in Int
  BY NumberOfChunks DEF Chunks
<1>1. Sum(w) = Upto(w)[N]
  BY DEF Sum, Upto, IsSum
<1> HIDE DEF N
<1>2. ASSUME NEW m \in 0..N PROVE \E f : Part0(f, m)
  <2> DEFINE T == {k \in 0..N : ~\E f : Part0(f, k)}
  <2> SUFFICES ASSUME T # {} PROVE FALSE
    OBVIOUS
  <2>1. T \in SUBSET Nat
    BY <1>0
  <2>2. PICK k \in T : \A j \in T : k <= j
    BY <2>1, LeastNumber
  <2>3. k \in 0..N /\ ~\E f : Part0(f, k)
    BY <2>2
  <2>4. k # 0
    <3> SUFFICES ASSUME k = 0 PROVE FALSE
      OBVIOUS
    <3>1. Part0([n \in 0..0 |-> 0], 0)
      OBVIOUS
    <3>2. QED
      BY <2>3, <3>1
  <2>5. k - 1 \in 0..N /\ k - 1 \notin T /\ k \in Nat /\ k - 1 \in Nat
    <3>1. k - 1 \in 0..N /\ k \in Nat /\ k - 1 \in Nat
      BY <1>0, <2>3, <2>4
    <3> HIDE DEF T
    <3>2. QED
      BY <2>2, <3>1
  <2>6. PICK f : Part0(f, k - 1)
    BY <2>5
  <2> DEFINE g == [n \in 0..k |-> IF n = k THEN f[k - 1] + w[k - 1] ELSE f[n]]
  <2>7. w[k - 1] \in Int /\ f[k - 1] \in Int
    BY <1>0, <2>3, <2>4, <2>5, <2>6
  <2>8. g \in [0..k -> Int] /\ g[0] = 0
    BY <2>4, <2>5, <2>6, <2>7
  <2>9. ASSUME NEW n \in 1..k PROVE g[n] = g[n - 1] + w[n - 1]
    <3>1. n - 1 \in 0..k /\ n - 1 # k /\ n \in 0..k
      BY <2>5
    <3>2. g[n - 1] = f[n - 1]
      BY <3>1
    <3>3. CASE n = k
      BY <3>1, <3>2, <3>3
    <3>4. CASE n # k
      <4>1. n \in 1 .. k - 1
        BY <2>5, <3>4
      <4>2. f[n] = f[n - 1] + w[n - 1]
        BY <2>6, <4>1
      <4>3. QED
        BY <3>1, <3>2, <3>4, <4>2
    <3>5. QED
      BY <3>3, <3>4
  <2>10. Part0(g, k)
    BY <2>8, <2>9
  <2>11. QED
    BY <2>3, <2>10
<1>3. PICK f : Part0(f, N)
  <2> HIDE DEF Part0
  <2>1. N \in 0..N
    BY <1>0
  <2>2. QED
    BY <1>2, <2>1
<1>4. IsSum(f, w)
  <2> DEFINE g == [n \in 0..N |-> IF n = 0 THEN 0 ELSE f[n - 1] + w[n - 1]]
  <2>1. \A n \in 0..N : f[n] = g[n]
    BY <1>0, <1>3
  <2>2. f = g
    BY <1>3, <2>1
  <2>3. QED
    BY <2>2 DEF IsSum, N
<1>5. IsSum(Upto(w), w)
  BY <1>4 DEF Upto
<1> DEFINE u == Upto(w)
<1>6. u = [n \in 0..N |-> IF n = 0 THEN 0 ELSE u[n - 1] + w[n - 1]]
  BY <1>5 DEF IsSum, N
<1> HIDE DEF u
<1>7. u[0] = 0 /\ \A n \in 1..N : u[n] = u[n - 1] + w[n - 1]
  BY <1>0, <1>6
<1>8. ASSUME NEW m \in 0..N PROVE u[m] \in Int
  <2> DEFINE T == {k \in 0..N : ~(u[k] \in Int)}
  <2> SUFFICES ASSUME T # {} PROVE FALSE
    OBVIOUS
  <2>1. T \in SUBSET Nat
    BY <1>0
  <2>2. PICK k \in T : \A j \in T : k <= j
    BY <2>1, LeastNumber
  <2>3. k \in 1..N /\ k - 1 \in 0..N /\ k - 1 \notin T
    BY <1>0, <1>7, <2>2
  <2>4. u[k - 1] \in Int /\ w[k - 1] \in Int
    BY <1>0, <2>3
  <2>5. u[k] \in Int
    BY <1>7, <2>3, <2>4
  <2>6. QED
    BY <2>2, <2>5
<1>9. u \in [0..N -> Int]
  BY <1>6, <1>8
<1>10. QED
  BY <1>1, <1>7, <1>9 DEF u, N

\* When one chunk counts for something else, the sum changes by the difference.
LEMMA SumChanges ==
    ASSUME NEW w \in [Chunks -> Int], NEW c \in Chunks, NEW d \in Int
    PROVE  Sum([w EXCEPT ![c] = d]) = Sum(w) + d - w[c] /\ Sum(w) \in Int
<1> DEFINE N == NumChunks
           v == [w EXCEPT ![c] = d]
           a == Upto(w)
           b == Upto(v)
           e == d - w[c]
<1>0. N \in Nat \ {0} /\ c \in 0 .. N - 1 /\ v \in [Chunks -> Int] /\ Chunks = 0 .. N - 1 /\ e \in Int
  BY NumberOfChunks DEF Chunks
<1>1. /\ Sum(w) = a[N] /\ a \in [0..N -> Int] /\ a[0] = 0
      /\ \A n \in 1..N : a[n] = a[n - 1] + w[n - 1]
  BY SumExists
<1>2. /\ Sum(v) = b[N] /\ b \in [0..N -> Int] /\ b[0] = 0
      /\ \A n \in 1..N : b[n] = b[n - 1] + v[n - 1]
  BY <1>0, SumExists
<1>3. v[c] = w[c] + e /\ \A n \in Chunks \ {c} : v[n] = w[n]
  OBVIOUS
<1>4. w[c] \in Int
  OBVIOUS
<1> HIDE DEF N, v, a, b, e
<1>5. ASSUME NEW m \in 0..N PROVE b[m] = a[m] + (IF m > c THEN e ELSE 0)
  <2> DEFINE T == {k \in 0..N : ~(b[k] = a[k] + (IF k > c THEN e ELSE 0))}
  <2> SUFFICES ASSUME T # {} PROVE FALSE
    OBVIOUS
  <2>1. T \in SUBSET Nat
    BY <1>0
  <2>2. PICK k \in T : \A j \in T : k <= j
    BY <2>1, LeastNumber
  <2>3. k \in 1..N /\ k - 1 \in 0..N /\ k - 1 \notin T
    <3>1. k \in 0..N /\ k # 0
      BY <1>0, <1>1, <1>2, <2>2
    <3>2. k \in 1..N /\ k - 1 \in 0..N /\ k \in Nat
      BY <1>0, <3>1
    <3> HIDE DEF T
    <3>3. QED
      BY <2>2, <3>2
  <2>4. b[k - 1] = a[k - 1] + (IF k - 1 > c THEN e ELSE 0)
    BY <2>3
  <2>5. k - 1 \in Chunks /\ a[k - 1] \in Int /\ w[k - 1] \in Int
    BY <1>0, <1>1, <2>3
  <2>6. b[k] = b[k - 1] + v[k - 1] /\ a[k] = a[k - 1] + w[k - 1]
    BY <1>1, <1>2, <2>3
  <2>7. v[k - 1] = w[k - 1] + (IF k - 1 = c THEN e ELSE 0)
    BY <1>0, <1>3, <2>5, SMTT(30)
  <2>8. b[k] = a[k] + (IF k > c THEN e ELSE 0)
    <3> DEFINE x == a[k - 1]
               y == w[k - 1]
    <3>1. x \in Int /\ y \in Int /\ k \in Nat /\ c \in Nat /\ e \in Int
      BY <1>0, <2>3, <2>5
    <3>2. /\ b[k] = (x + (IF k - 1 > c THEN e ELSE 0)) + (y + (IF k - 1 = c THEN e ELSE 0))
          /\ a[k] = x + y
      BY <2>4, <2>6, <2>7
    <3> HIDE DEF x, y
    <3>3. QED
      BY <3>1, <3>2
  <2>9. QED
    BY <2>2, <2>8
<1>6. b[N] = a[N] + e /\ a[N] \in Int
  BY <1>0, <1>1, <1>5
<1>7. QED
  BY <1>1, <1>2, <1>4, <1>6 DEF v, e

\* When no chunk counts for anything, the sum is 0.
LEMMA SumOfNothing ==
    ASSUME NEW w \in [Chunks -> Int], \A c \in Chunks : w[c] = 0
    PROVE  Sum(w) = 0
<1> DEFINE N == NumChunks
           a == Upto(w)
<1>1. /\ Sum(w) = a[N] /\ a[0] = 0
      /\ \A n \in 1..N : a[n] = a[n - 1] + w[n - 1]
  BY SumExists
<1>2. N \in Nat /\ \A n \in 1..N : w[n - 1] = 0
  BY NumberOfChunks DEF Chunks
<1> HIDE DEF N, a
<1> DEFINE T == {k \in 0..N : a[k] # 0}
<1>3. T = {}
  <2> SUFFICES ASSUME T # {} PROVE FALSE
    OBVIOUS
  <2>1. T \in SUBSET Nat
    BY <1>2
  <2>2. PICK k \in T : \A j \in T : k <= j
    BY <2>1, LeastNumber
  <2>3. k \in 1..N /\ k - 1 \in 0..N /\ k - 1 \notin T
    BY <1>1, <1>2, <2>2
  <2>4. a[k] = 0
    BY <1>1, <1>2, <2>3
  <2>5. QED
    BY <2>2, <2>4
<1>4. N \in 0..N
  BY <1>2
<1>5. QED
  BY <1>1, <1>3, <1>4

-----------------------------------------------------------------------------
(* The inductive invariant of the chunk map.                               *)

\* What has an entry is what is active.
ActiveOnly == \A c \in Chunks : c \in downloading <=> map[c] = "active"

\* Slices lie in active chunks, one behind the other.
SlicesOK ==
    /\ \A o \in Offsets : slices[o] # 0 =>
         ChunkOf(o) \in downloading /\ o + slices[o] <= End(ChunkOf(o))
    /\ \A o, u \in Offsets : slices[o] # 0 /\ slices[u] # 0 /\ o < u => o + slices[o] <= u

(* A peer feeds on an active chunk, as the only one, and behind all slices  *)
(* that were cut from it.                                                   *)
FeedsOK ==
    /\ \A p \in Peers : feed[p] # Nil => ChunkOf(feed[p]) \in downloading
    /\ \A p, q \in Peers :
         feed[p] # Nil /\ feed[q] # Nil /\ ChunkOf(feed[p]) = ChunkOf(feed[q]) => p = q
    /\ \A p \in Peers, o \in Offsets :
         feed[p] # Nil /\ slices[o] # 0 /\ ChunkOf(o) = ChunkOf(feed[p]) => o + slices[o] <= feed[p]

\* The pieces of chunk c that are in a slice or have yet to be asked for.
Pending(c) ==
    {x \in Pieces(c) : \/ \E o \in Pieces(c) : slices[o] # 0 /\ o <= x /\ x < o + slices[o]
                       \/ \E p \in Peers : feed[p] # Nil /\ ChunkOf(feed[p]) = c /\ feed[p] <= x}

RemainsOK == \A c \in downloading : remains[c] = Cardinality(Pending(c))

ChunksOK == ChunkMapTypeOK /\ ActiveOnly /\ SlicesOK /\ FeedsOK /\ RemainsOK

(* What getDataChunk does when it finds a slice: it is cut at the offset of *)
(* the feed of q, or at the start of a chunk that becomes active and that q *)
(* then feeds on.                                                           *)
SliceCut(o, n, q) ==
    /\ n \in 1..ChunkSize /\ o \in Offsets /\ o + n <= End(ChunkOf(o))
    /\ slices' = [slices EXCEPT ![o] = n]
    /\ feed' = [feed EXCEPT ![q] = IF o + n = End(ChunkOf(o)) THEN Nil ELSE o + n]
    /\ avail' \in [Peers -> (SUBSET Chunks) \cup {Nil}]
    /\ UNCHANGED <<total, complete, toCheck>>
    /\ \/ feed[q] = o /\ UNCHANGED <<map, downloading, remains>>
       \/ /\ feed[q] = Nil /\ o = Start(ChunkOf(o)) /\ map[ChunkOf(o)] = "outstanding"
          /\ map' = [map EXCEPT ![ChunkOf(o)] = "active"]
          /\ downloading' = downloading \cup {ChunkOf(o)}
          /\ remains' = [remains EXCEPT ![ChunkOf(o)] = SizeOfChunk(ChunkOf(o))]

\* Looking up a source leaves the type of what is known of the sources.
LEMMA KnownSources ==
    ASSUME ChunkMapTypeOK, NEW p \in Peers, KnowSource(p)
    PROVE  avail' \in [Peers -> (SUBSET Chunks) \cup {Nil}]
<1>1. avail \in [Peers -> (SUBSET Chunks) \cup {Nil}]
  BY DEF ChunkMapTypeOK
<1>2. SourceChunksInfo(p) \in (SUBSET Chunks) \cup {Nil}
  BY <1>1 DEF SourceChunksInfo
<1>3. QED
  BY <1>1, <1>2 DEF KnowSource

\* A slice is not empty, and it ends with the chunk at the latest.
LEMMA SliceFits ==
    ASSUME NEW o \in Offsets, NEW hint \in 1..ChunkSize
    PROVE  LET n == SliceSize(o, hint) IN n \in 1..ChunkSize /\ o + n <= End(ChunkOf(o))
<1> DEFINE e == End(ChunkOf(o)) - o
<1>1. o \in Nat /\ End(ChunkOf(o)) \in Nat /\ e \in Nat \ {0}
  BY PiecesOfChunk, ChunksInOrder, ChunkBounds
<1>2. hint \in Nat \ {0} /\ ChunkSize \in Nat
  BY ChunkMapAssumption
<1>3. SliceSize(o, hint) = Min({hint, e})
  BY DEF SliceSize
<1> HIDE DEF e
<1>4. Min({hint, e}) \in {hint, e} /\ Min({hint, e}) <= hint /\ Min({hint, e}) <= e
  BY <1>1, <1>2, MinIsLeast
<1>5. QED
  BY <1>1, <1>2, <1>3, <1>4 DEF e

\* The three ways in which getDataChunk finds a slice.
LEMMA SliceIsCut ==
    ASSUME ChunksOK, NEW p \in Peers, NEW o \in Offsets, NEW n \in 1..ChunkSize,
           NEW hint \in 1..ChunkSize, GetDataChunk(p, o, n, hint)
    PROVE  \E q \in Peers : SliceCut(o, n, q)
<1>0. /\ ChunkMapTypeOK /\ o # Nil /\ feed \in [Peers -> Offsets \cup {Nil}]
      /\ downloading \subseteq Chunks /\ avail \in [Peers -> (SUBSET Chunks) \cup {Nil}]
  BY PiecesOfChunk, ChunkMapAssumption DEF ChunksOK, ChunkMapTypeOK
<1>1. ASSUME NextSlice(p, o, n, hint) PROVE SliceCut(o, n, p)
  <2>1. n = SliceSize(o, hint) /\ CutSlice(p, o, n) /\ feed[p] = o
    BY <1>1 DEF NextSlice
  <2>2. o + n <= End(ChunkOf(o))
    BY <2>1, SliceFits
  <2>3. downloading' = downloading
    <3>1. ChunkOf(o) \in downloading
      BY <1>0, <2>1 DEF ChunksOK, FeedsOK
    <3>2. QED
      BY <1>1, <3>1 DEF NextSlice
  <2>4. QED
    BY <1>0, <1>1, <2>1, <2>2, <2>3 DEF NextSlice, CutSlice, SliceCut
<1>a. \A r \in Peers : feed[r] # Nil => ChunkOf(feed[r]) \in downloading
  BY DEF ChunksOK, FeedsOK
<1>2. ASSUME NEW q \in Peers, SharedSlice(p, q, o, n, hint) PROVE SliceCut(o, n, q)
  <2>1. n = SliceSize(o, hint) /\ CutSlice(q, o, n) /\ feed[q] = o /\ KnowSource(p)
    BY <1>2 DEF SharedSlice
  <2>2. o + n <= End(ChunkOf(o))
    BY <2>1, SliceFits
  <2>3. downloading' = downloading
    BY <1>2, <1>a DEF SharedSlice, Shareable
  <2>4. avail' \in [Peers -> (SUBSET Chunks) \cup {Nil}]
    BY <1>0, <2>1, KnownSources
  <2>5. QED
    BY <1>0, <1>2, <2>1, <2>2, <2>3, <2>4 DEF SharedSlice, CutSlice, SliceCut
<1>3. ASSUME NEW c \in Chunks, o = Start(c), NewChunkSlice(p, c, n, hint) PROVE SliceCut(o, n, p)
  <2>1. o \in Pieces(c)
    BY ChunkBounds, <1>3 DEF Pieces
  <2>2. ChunkOf(o) = c
    BY <2>1, PiecesOfChunk
  <2>3. n = SliceSize(o, hint) /\ CutSlice(p, o, n) /\ feed[p] = Nil /\ KnowSource(p)
    BY <1>3 DEF NewChunkSlice
  <2>4. o + n <= End(ChunkOf(o))
    BY <2>3, SliceFits
  <2>5. downloading' = downloading \cup {c}
    BY <1>3, <1>a DEF NewChunkSlice, Shareable
  <2>6. avail' \in [Peers -> (SUBSET Chunks) \cup {Nil}]
    BY <1>0, <2>3, KnownSources
  <2>7. map[c] = "outstanding"
    BY <1>3 DEF NewChunkSlice, AvailableChunks
  <2>8. QED
    BY <1>0, <1>3, <2>2, <2>3, <2>4, <2>5, <2>6, <2>7 DEF NewChunkSlice, CutSlice, SliceCut
<1>4. QED
  BY <1>1, <1>2, <1>3 DEF GetDataChunk

\* What is pending of a chunk whose slices and feed stay as they are.
LEMMA PendingStays ==
    ASSUME NEW c \in Chunks,
           \A o \in Pieces(c) : slices'[o] = slices[o],
           \A p \in Peers : /\ feed[p] # Nil /\ ChunkOf(feed[p]) = c => feed'[p] = feed[p]
                            /\ feed'[p] # Nil /\ ChunkOf(feed'[p]) = c => feed'[p] = feed[p]
    PROVE  Pending(c)' = Pending(c)
<1>1. \A x \in Pieces(c) :
        (\E o \in Pieces(c) : slices'[o] # 0 /\ o <= x /\ x < o + slices'[o])
        <=> (\E o \in Pieces(c) : slices[o] # 0 /\ o <= x /\ x < o + slices[o])
  OBVIOUS
<1>2. \A x \in Pieces(c) :
        (\E p \in Peers : feed'[p] # Nil /\ ChunkOf(feed'[p]) = c /\ feed'[p] <= x)
        <=> (\E p \in Peers : feed[p] # Nil /\ ChunkOf(feed[p]) = c /\ feed[p] <= x)
  OBVIOUS
<1>3. QED
  BY <1>1, <1>2 DEF Pending

\* The pieces that are pending, of one chunk, are finitely many.
LEMMA PendingFinite ==
    ASSUME NEW c \in Chunks
    PROVE  /\ IsFiniteSet(Pieces(c)) /\ Cardinality(Pieces(c)) = SizeOfChunk(c)
           /\ IsFiniteSet(Pending(c)) /\ Cardinality(Pending(c)) \in Nat
           /\ Cardinality(Pending(c)) <= SizeOfChunk(c)
<1>1. /\ Start(c) \in Nat /\ End(c) \in Nat /\ SizeOfChunk(c) \in 1..ChunkSize
      /\ End(c) = Start(c) + SizeOfChunk(c) /\ ChunkSize \in Nat
  BY ChunkBounds, ChunkMapAssumption
<1>2. IsFiniteSet(Pieces(c)) /\ Cardinality(Pieces(c)) = SizeOfChunk(c)
  <2> DEFINE a == Start(c)
             b == End(c) - 1
  <2>1. a \in Int /\ b \in Int /\ a <= b /\ b - a + 1 = SizeOfChunk(c)
    BY <1>1
  <2>2. Pieces(c) = a..b
    BY DEF Pieces
  <2> HIDE DEF a, b
  <2>3. IsFiniteSet(a..b) /\ Cardinality(a..b) = b - a + 1
    BY <2>1, FS_Interval
  <2>4. QED
    BY <2>1, <2>2, <2>3
<1>3. Pending(c) \in SUBSET Pieces(c)
  BY DEF Pending
<1>4. IsFiniteSet(Pending(c)) /\ Cardinality(Pending(c)) <= Cardinality(Pieces(c))
  BY <1>2, <1>3, FS_Subset
<1>5. QED
  BY <1>2, <1>4, FS_CardinalityType

\* Cutting a slice leaves a right chunk map.
LEMMA CutKeepsChunks ==
    ASSUME ChunksOK, NEW o, NEW n, NEW q \in Peers, SliceCut(o, n, q)
    PROVE  ChunksOK' /\ slices[o] = 0
<1> DEFINE c == ChunkOf(o)
           e == End(c)
<1>0. /\ feed \in [Peers -> Offsets \cup {Nil}] /\ slices \in [Offsets -> 0..ChunkSize]
      /\ map \in [Chunks -> States] /\ remains \in [Chunks -> 0 .. Word32 - 1]
      /\ downloading \subseteq Chunks /\ total \in 0 .. Word64 - 1 /\ complete \in BOOLEAN
      /\ toCheck \subseteq Chunks
  BY DEF ChunksOK, ChunkMapTypeOK
<1>1. /\ o \in Offsets /\ n \in 1..ChunkSize /\ o + n <= e /\ Nil \notin Nat /\ ChunkSize \in Nat
      /\ Word32 \in Nat /\ Word32 > ChunkSize
  BY ChunkMapAssumption DEF SliceCut
<1>2. /\ c \in Chunks /\ o \in Nat /\ e \in Nat /\ o < e /\ SizeOfChunk(c) \in 1..ChunkSize
      /\ \A x \in Nat : o <= x /\ x < e => x \in Offsets /\ ChunkOf(x) = c
      /\ \A x \in Offsets : x \in Nat
      /\ \A x \in Offsets : o < x /\ ChunkOf(x) # c => e <= x
  BY <1>1, PiecesOfChunk, ChunkBounds, ChunksInOrder
<1>3. /\ slices' = [slices EXCEPT ![o] = n]
      /\ feed' = [feed EXCEPT ![q] = IF o + n = e THEN Nil ELSE o + n]
  BY DEF SliceCut
<1> DEFINE A == feed[q] = o /\ UNCHANGED <<map, downloading, remains>>
           B == /\ feed[q] = Nil /\ o = Start(c) /\ map[c] = "outstanding"
                /\ map' = [map EXCEPT ![c] = "active"]
                /\ downloading' = downloading \cup {c}
                /\ remains' = [remains EXCEPT ![c] = SizeOfChunk(c)]
<1>4. A \/ B
  BY DEF SliceCut
<1>5. /\ ActiveOnly /\ SlicesOK /\ FeedsOK /\ RemainsOK
      /\ \A u \in Offsets : slices[u] \in Nat
      /\ \A p \in Peers : feed[p] # Nil => feed[p] \in Offsets
      /\ \A p \in Peers \ {q} : feed'[p] = feed[p]
      /\ \A u \in Offsets \ {o} : slices'[u] = slices[u]
      /\ slices'[o] = n /\ feed'[q] = IF o + n = e THEN Nil ELSE o + n
  BY <1>0, <1>1, <1>3 DEF ChunksOK
<1>6. B => c \notin downloading
  BY <1>2, <1>5 DEF ActiveOnly
<1> HIDE DEF c, e
<1>7. \A u \in Offsets : slices[u] # 0 /\ ChunkOf(u) = c => u + slices[u] <= o
  <2>1. CASE A
    BY <1>1, <1>2, <1>5, <2>1 DEF FeedsOK, c
  <2>2. CASE B
    BY <1>5, <1>6, <2>2 DEF SlicesOK
  <2>3. QED
    BY <1>4, <2>1, <2>2
<1>8. \A p \in Peers \ {q} : feed[p] # Nil => ChunkOf(feed[p]) # c
  <2>1. CASE A
    BY <1>1, <1>2, <1>5, <2>1 DEF FeedsOK, c
  <2>2. CASE B
    BY <1>5, <1>6, <2>2 DEF FeedsOK
  <2>3. QED
    BY <1>4, <2>1, <2>2
<1>9. downloading' = downloading \cup {c}
  <2>1. CASE A
    BY <1>1, <1>2, <1>5, <2>1 DEF FeedsOK, c
  <2>2. QED
    BY <1>4, <2>1
<1>10. slices[o] = 0
  BY <1>1, <1>2, <1>5, <1>7 DEF c
<1>11. ActiveOnly'
  <2>1. CASE A
    BY <1>5, <2>1 DEF ActiveOnly
  <2>2. CASE B
    BY <1>0, <1>2, <1>5, <2>2 DEF ActiveOnly
  <2>3. QED
    BY <1>4, <2>1, <2>2
<1>12. SlicesOK'
  <2>1. ASSUME NEW u \in Offsets, slices'[u] # 0
        PROVE  ChunkOf(u) \in downloading' /\ u + slices'[u] <= End(ChunkOf(u))
    <3>1. CASE u = o
      BY <1>1, <1>5, <1>9, <3>1 DEF c, e
    <3>2. CASE u # o
      BY <1>5, <1>9, <2>1, <3>2 DEF SlicesOK
    <3>3. QED
      BY <3>1, <3>2
  <2>2. ASSUME NEW u \in Offsets, NEW v \in Offsets, slices'[u] # 0, slices'[v] # 0, u < v
        PROVE  u + slices'[u] <= v
    <3>1. CASE u = o
      <4>1. v # o /\ slices[v] # 0 /\ slices[v] \in Nat /\ v \in Nat
        BY <1>2, <1>5, <2>2, <3>1
      <4>2. ChunkOf(v) # c
        BY <1>2, <1>7, <2>2, <3>1, <4>1
      <4>3. e <= v
        BY <1>2, <2>2, <3>1, <4>2
      <4>4. QED
        BY <1>1, <1>2, <1>5, <3>1, <4>1, <4>3
    <3>2. CASE v = o
      <4>1. u # o /\ slices[u] # 0 /\ slices'[u] = slices[u] /\ u \in Nat
        BY <1>2, <1>5, <2>2, <3>2
      <4>2. CASE ChunkOf(u) = c
        BY <1>7, <3>2, <4>1, <4>2
      <4>3. CASE ChunkOf(u) # c
        <5>1. End(ChunkOf(u)) <= o
          BY <1>1, <2>2, <3>2, <4>3, ChunksInOrder DEF c
        <5>2. u + slices[u] <= End(ChunkOf(u)) /\ End(ChunkOf(u)) \in Nat
          BY <1>5, <4>1, PiecesOfChunk, ChunkBounds DEF SlicesOK
        <5>3. QED
          BY <1>2, <1>5, <3>2, <4>1, <5>1, <5>2
      <4>4. QED
        BY <4>2, <4>3
    <3>3. CASE u # o /\ v # o
      BY <1>5, <2>2, <3>3 DEF SlicesOK
    <3>4. QED
      BY <3>1, <3>2, <3>3
  <2>3. QED
    BY <2>1, <2>2 DEF SlicesOK
<1>13. feed'[q] # Nil => feed'[q] = o + n /\ o + n \in Offsets /\ ChunkOf(o + n) = c
  BY <1>1, <1>2, <1>5
<1>14. FeedsOK'
  <2>1. \A p \in Peers : feed'[p] # Nil => ChunkOf(feed'[p]) \in downloading'
    BY <1>5, <1>9, <1>13 DEF FeedsOK
  <2>2. \A p, r \in Peers :
          feed'[p] # Nil /\ feed'[r] # Nil /\ ChunkOf(feed'[p]) = ChunkOf(feed'[r]) => p = r
    BY <1>5, <1>8, <1>13 DEF FeedsOK
  <2>3. ASSUME NEW p \in Peers, NEW u \in Offsets,
               feed'[p] # Nil, slices'[u] # 0, ChunkOf(u) = ChunkOf(feed'[p])
        PROVE  u + slices'[u] <= feed'[p]
    <3>1. CASE p = q
      <4>1. feed'[p] = o + n /\ ChunkOf(u) = c
        BY <1>13, <2>3, <3>1
      <4>2. CASE u = o
        BY <1>1, <1>2, <1>5, <4>1, <4>2
      <4>3. CASE u # o
        <5>1. u + slices[u] <= o /\ slices'[u] = slices[u] /\ u \in Nat /\ slices[u] \in Nat
          BY <1>2, <1>5, <1>7, <2>3, <4>1, <4>3
        <5>2. QED
          BY <1>1, <1>2, <4>1, <5>1
      <4>4. QED
        BY <4>2, <4>3
    <3>2. CASE p # q
      <4>1. feed'[p] = feed[p] /\ ChunkOf(feed[p]) # c
        BY <1>5, <1>8, <2>3, <3>2
      <4>2. u # o
        BY <2>3, <4>1 DEF c
      <4>3. QED
        BY <1>5, <2>3, <4>1, <4>2 DEF FeedsOK
    <3>3. QED
      BY <3>1, <3>2
  <2>4. QED
    BY <2>1, <2>2, <2>3 DEF FeedsOK
<1>15. ASSUME NEW d \in downloading, d # c PROVE Pending(d)' = Pending(d)
  <2>1. d \in Chunks
    BY <1>0
  <2>2. \A u \in Pieces(d) : u \in Offsets /\ ChunkOf(u) = d
    BY <2>1, PiecesOfChunk
  <2>3. \A u \in Pieces(d) : slices'[u] = slices[u]
    BY <1>5, <1>15, <2>2 DEF c
  <2>4. \A p \in Peers : /\ feed[p] # Nil /\ ChunkOf(feed[p]) = d => feed'[p] = feed[p]
                         /\ feed'[p] # Nil /\ ChunkOf(feed'[p]) = d => feed'[p] = feed[p]
    <3>1. feed[q] = Nil \/ feed[q] = o
      BY <1>4
    <3>2. QED
      BY <1>5, <1>13, <1>15, <3>1 DEF c
  <2>5. QED
    BY <2>1, <2>3, <2>4, PendingStays
<1>16. ASSUME NEW x \in Pieces(c)
       PROVE  x \in Pending(c)' <=> (A /\ x \in Pending(c)) \/ B
  <2>1. /\ x \in Offsets /\ x \in Nat /\ ChunkOf(x) = c /\ x < e /\ Start(c) <= x
        /\ o \in Pieces(c) /\ \A u \in Pieces(c) : u \in Offsets /\ ChunkOf(u) = c /\ u \in Nat
    BY <1>1, <1>2, <1>16, PiecesOfChunk, ChunksInOrder DEF c, e
  <2> DEFINE new == \/ o <= x
                    \/ \E u \in Pieces(c) : slices[u] # 0 /\ u <= x /\ x < u + slices[u]
  <2>2. ASSUME x \in Pending(c)' PROVE new
    <3>1. CASE \E u \in Pieces(c) : slices'[u] # 0 /\ u <= x /\ x < u + slices'[u]
      BY <1>5, <2>1, <3>1
    <3>2. CASE \E p \in Peers : feed'[p] # Nil /\ ChunkOf(feed'[p]) = c /\ feed'[p] <= x
      <4>1. PICK p \in Peers : feed'[p] # Nil /\ ChunkOf(feed'[p]) = c /\ feed'[p] <= x
        BY <3>2
      <4>2. p = q
        BY <1>5, <1>8, <4>1
      <4>3. o + n <= x
        BY <1>13, <4>1, <4>2
      <4>4. QED
        BY <1>1, <1>2, <2>1, <4>3
    <3>3. QED
      BY <2>2, <3>1, <3>2 DEF Pending
  <2>3. ASSUME new PROVE x \in Pending(c)'
    <3>1. CASE o <= x /\ x < o + n
      BY <1>1, <1>2, <1>5, <1>16, <2>1, <3>1 DEF Pending
    <3>2. CASE o <= x /\ ~(x < o + n)
      <4>1. o + n <= x /\ o + n # e
        BY <1>1, <1>2, <2>1, <3>2
      <4>2. feed'[q] = o + n /\ o + n # Nil
        BY <1>1, <1>2, <1>5, <4>1
      <4>3. QED
        BY <1>13, <1>16, <4>1, <4>2 DEF Pending
    <3>3. ASSUME NEW u \in Pieces(c), slices[u] # 0, u <= x, x < u + slices[u]
          PROVE  x \in Pending(c)'
      <4>1. slices'[u] = slices[u]
        BY <1>5, <1>10, <2>1, <3>3
      <4>2. QED
        BY <1>16, <3>3, <4>1 DEF Pending
    <3>4. QED
      BY <2>3, <3>1, <3>2, <3>3
  <2>4. CASE A
    <3>1. x \in Pending(c) <=> new
      <4>1. ASSUME x \in Pending(c), ~(\E u \in Pieces(c) : slices[u] # 0 /\ u <= x /\ x < u + slices[u])
            PROVE  o <= x
        <5>1. PICK p \in Peers : feed[p] # Nil /\ ChunkOf(feed[p]) = c /\ feed[p] <= x
          BY <4>1 DEF Pending
        <5>2. p = q
          BY <1>8, <5>1
        <5>3. QED
          BY <2>4, <5>1, <5>2
      <4>2. ASSUME o <= x PROVE x \in Pending(c)
        BY <1>1, <1>2, <1>16, <2>4, <4>2 DEF Pending, c
      <4>3. QED
        BY <1>16, <4>1, <4>2 DEF Pending
    <3>2. ~B
      BY <1>1, <1>2, <2>4
    <3>3. QED
      BY <2>2, <2>3, <2>4, <3>1, <3>2
  <2>5. CASE B
    BY <2>1, <2>3, <2>5
  <2>6. QED
    BY <1>4, <2>4, <2>5
<1>17. RemainsOK'
  <2> SUFFICES ASSUME NEW d \in downloading' PROVE remains'[d] = Cardinality(Pending(d)')
    BY DEF RemainsOK
  <2>1. CASE d # c
    <3>1. d \in downloading /\ remains'[d] = remains[d]
      BY <1>0, <1>4, <1>9, <2>1
    <3>2. QED
      BY <1>5, <1>15, <2>1, <3>1 DEF RemainsOK
  <2>2. CASE d = c /\ A
    <3>1. Pending(c)' = Pending(c)
      <4>1. ~B
        BY <1>1, <1>2, <2>2
      <4>2. Pending(c)' \subseteq Pieces(c) /\ Pending(c) \subseteq Pieces(c)
        BY DEF Pending
      <4>3. QED
        BY <1>16, <2>2, <4>1, <4>2
    <3>2. c \in downloading
      BY <2>2
    <3>3. QED
      BY <1>5, <2>2, <3>1, <3>2 DEF RemainsOK
  <2>3. CASE d = c /\ B
    <3>1. Pending(c)' = Pieces(c)
      <4>1. Pending(c)' \subseteq Pieces(c)
        BY DEF Pending
      <4>2. QED
        BY <1>16, <2>3, <4>1
    <3>2. remains'[c] = SizeOfChunk(c)
      BY <1>0, <1>2, <2>3
    <3>3. Cardinality(Pieces(c)) = SizeOfChunk(c)
      BY <1>2, PendingFinite
    <3>4. QED
      BY <2>3, <3>1, <3>2, <3>3
  <2>4. QED
    BY <1>4, <2>1, <2>2, <2>3
<1>18. ChunkMapTypeOK'
  <2>1. map' \in [Chunks -> States]
    BY <1>0, <1>4 DEF States
  <2>2. feed' \in [Peers -> Offsets \cup {Nil}]
    BY <1>0, <1>3, <1>5, <1>13
  <2>3. slices' \in [Offsets -> 0..ChunkSize]
    BY <1>0, <1>1, <1>3
  <2>4. remains' \in [Chunks -> 0 .. Word32 - 1]
    <3>1. SizeOfChunk(c) \in 0 .. Word32 - 1
      BY <1>1, <1>2
    <3>2. QED
      BY <1>0, <1>4, <3>1
  <2>5. downloading' \subseteq Chunks
    BY <1>0, <1>2, <1>9
  <2>6. /\ avail' \in [Peers -> (SUBSET Chunks) \cup {Nil}]
        /\ total' = total /\ complete' = complete /\ toCheck' = toCheck
    BY DEF SliceCut
  <2>7. QED
    BY <1>0, <2>1, <2>2, <2>3, <2>4, <2>5, <2>6 DEF ChunkMapTypeOK
<1>19. QED
  BY <1>10, <1>11, <1>12, <1>14, <1>17, <1>18 DEF ChunksOK

\* A chunk that is received or given up takes its slices and its feed along.
LEMMA ChunkLeaves ==
    ASSUME ChunksOK, NEW c \in downloading, NEW state \in States \ {"active"},
           map' = [map EXCEPT ![c] = state], downloading' = downloading \ {c},
           slices' = Cleared(c),
           feed' = [p \in Peers |-> IF feed[p] # Nil /\ ChunkOf(feed[p]) = c THEN Nil ELSE feed[p]],
           \A d \in downloading \ {c} : remains'[d] = remains[d]
    PROVE  /\ ActiveOnly' /\ SlicesOK' /\ FeedsOK' /\ RemainsOK'
           /\ map' \in [Chunks -> States] /\ feed' \in [Peers -> Offsets \cup {Nil}]
           /\ slices' \in [Offsets -> 0..ChunkSize] /\ downloading' \subseteq Chunks
<1>0. /\ feed \in [Peers -> Offsets \cup {Nil}] /\ slices \in [Offsets -> 0..ChunkSize]
      /\ map \in [Chunks -> States] /\ downloading \subseteq Chunks /\ c \in Chunks
      /\ ChunkSize \in Nat
      /\ ActiveOnly /\ SlicesOK /\ FeedsOK /\ RemainsOK
  BY ChunkMapAssumption DEF ChunksOK, ChunkMapTypeOK
<1>1. \A o \in Offsets : slices'[o] = IF ChunkOf(o) = c THEN 0 ELSE slices[o]
  BY <1>0, PiecesOfChunk DEF Cleared
<1>2. \A p \in Peers :
        /\ feed'[p] # Nil => feed'[p] = feed[p] /\ ChunkOf(feed[p]) # c
        /\ feed[p] # Nil /\ ChunkOf(feed[p]) # c => feed'[p] = feed[p]
  OBVIOUS
<1>3. ActiveOnly'
  BY <1>0 DEF ActiveOnly
<1>4. SlicesOK'
  <2>1. \A o \in Offsets : slices'[o] # 0 => slices'[o] = slices[o] /\ ChunkOf(o) # c
    BY <1>1
  <2>2. \A o \in Offsets : slices'[o] # 0 =>
          ChunkOf(o) \in downloading' /\ o + slices'[o] <= End(ChunkOf(o))
    BY <1>0, <2>1 DEF SlicesOK
  <2>3. \A o, u \in Offsets : slices'[o] # 0 /\ slices'[u] # 0 /\ o < u => o + slices'[o] <= u
    BY <1>0, <2>1 DEF SlicesOK
  <2>4. QED
    BY <2>2, <2>3 DEF SlicesOK
<1>5. FeedsOK'
  <2>1. \A p \in Peers : feed'[p] # Nil => ChunkOf(feed'[p]) \in downloading'
    BY <1>0, <1>2 DEF FeedsOK
  <2>2. \A p, q \in Peers :
          feed'[p] # Nil /\ feed'[q] # Nil /\ ChunkOf(feed'[p]) = ChunkOf(feed'[q]) => p = q
    BY <1>0, <1>2 DEF FeedsOK
  <2>3. \A p \in Peers, o \in Offsets :
          feed'[p] # Nil /\ slices'[o] # 0 /\ ChunkOf(o) = ChunkOf(feed'[p])
            => o + slices'[o] <= feed'[p]
    BY <1>0, <1>1, <1>2 DEF FeedsOK
  <2>4. QED
    BY <2>1, <2>2, <2>3 DEF FeedsOK
<1>6. ASSUME NEW d \in downloading' PROVE remains'[d] = Cardinality(Pending(d)')
  <2>1. d \in downloading /\ d # c /\ d \in Chunks
    BY <1>0
  <2>2. \A o \in Pieces(d) : slices'[o] = slices[o]
    BY <1>1, <2>1, PiecesOfChunk
  <2>3. \A p \in Peers : /\ feed[p] # Nil /\ ChunkOf(feed[p]) = d => feed'[p] = feed[p]
                         /\ feed'[p] # Nil /\ ChunkOf(feed'[p]) = d => feed'[p] = feed[p]
    BY <1>2, <2>1
  <2>4. Pending(d)' = Pending(d)
    BY <2>1, <2>2, <2>3, PendingStays
  <2>5. QED
    BY <1>0, <2>1, <2>4 DEF RemainsOK
<1>7. RemainsOK'
  BY <1>6 DEF RemainsOK
<1>8. feed' \in [Peers -> Offsets \cup {Nil}] /\ slices' \in [Offsets -> 0..ChunkSize]
  <2>1. \A o \in Offsets : (IF o \in Pieces(c) THEN 0 ELSE slices[o]) \in 0..ChunkSize
    BY <1>0
  <2>2. slices' \in [Offsets -> 0..ChunkSize]
    BY <2>1 DEF Cleared
  <2>3. feed' \in [Peers -> Offsets \cup {Nil}]
    BY <1>0
  <2>4. QED
    BY <2>2, <2>3
<1>9. map' \in [Chunks -> States] /\ downloading' \subseteq Chunks
  BY <1>0
<1>10. QED
  BY <1>3, <1>4, <1>5, <1>7, <1>8, <1>9

\* A slice is part of what is pending of its chunk, and the count allows for it.
LEMMA SliceIsPending ==
    ASSUME ChunksOK, NEW id \in Offsets, slices[id] # 0
    PROVE  LET c == ChunkOf(id)
               S == id .. id + slices[id] - 1
           IN /\ c \in Chunks /\ c \in downloading
              /\ S \subseteq Pending(c)
              /\ (remains[c] - slices[id]) % Word32 = remains[c] - slices[id]
              /\ remains[c] - slices[id] \in Nat
              /\ Cardinality(Pending(c) \ S) = remains[c] - slices[id]
<1> DEFINE c == ChunkOf(id)
           s == slices[id]
           S == id .. id + s - 1
<1>1. /\ c \in Chunks /\ id \in Nat /\ s \in Nat \ {0} /\ c \in downloading
      /\ id + s <= End(c) /\ End(c) \in Nat /\ remains[c] \in 0 .. Word32 - 1 /\ Word32 \in Nat
  BY PiecesOfChunk, ChunkBounds, ChunkMapAssumption DEF ChunksOK, ChunkMapTypeOK, SlicesOK
<1>2. remains[c] = Cardinality(Pending(c))
  BY <1>1 DEF ChunksOK, RemainsOK
<1>3. ASSUME NEW x \in S PROVE x \in Pending(c)
  <2>1. x \in Nat /\ id <= x /\ x < id + s /\ x < End(c)
    BY <1>1
  <2>2. x \in Pieces(c) /\ id \in Pieces(c)
    BY <1>1, <2>1, ChunksInOrder, PiecesOfChunk
  <2>3. QED
    BY <2>1, <2>2 DEF Pending
<1>4. IsFiniteSet(S) /\ Cardinality(S) = s
  <2> DEFINE b == id + s - 1
  <2>1. id \in Int /\ b \in Int /\ id <= b /\ b - id + 1 = s
    BY <1>1
  <2> HIDE DEF b
  <2>2. IsFiniteSet(id..b) /\ Cardinality(id..b) = b - id + 1
    BY <2>1, FS_Interval
  <2>3. QED
    BY <2>1, <2>2 DEF b
<1> HIDE DEF S, s, c
<1>5. S \in SUBSET Pending(c)
  BY <1>3
<1>6. IsFiniteSet(Pending(c))
  BY <1>1, PendingFinite
<1>7. Cardinality(Pending(c) \ S) = Cardinality(Pending(c)) - Cardinality(S)
  BY <1>5, <1>6, Remainder
<1>8. Cardinality(Pending(c) \ S) \in Nat
  BY <1>5, <1>6, Remainder, FS_CardinalityType
<1>9. Cardinality(Pending(c) \ S) = remains[c] - s /\ remains[c] - s \in Nat
  BY <1>2, <1>4, <1>7, <1>8
<1>10. (remains[c] - s) % Word32 = remains[c] - s
  <2> DEFINE x == remains[c] - s
  <2>1. x \in Nat /\ x < Word32 /\ Word32 \in Nat
    BY <1>1, <1>9
  <2> HIDE DEF x
  <2>2. x % Word32 = x
    BY <2>1, SmallRemainder
  <2>3. QED
    BY <2>2 DEF x
<1>11. QED
  BY <1>1, <1>3, <1>9, <1>10 DEF S, s, c

\* When nothing but slice id is pending of a chunk, there is no other and no feed.
LEMMA LastSlice ==
    ASSUME ChunksOK, NEW id \in Offsets, slices[id] # 0, remains[ChunkOf(id)] - slices[id] = 0
    PROVE  /\ \A o \in Offsets : slices[o] # 0 /\ ChunkOf(o) = ChunkOf(id) => o = id
           /\ \A p \in Peers : feed[p] # Nil => ChunkOf(feed[p]) # ChunkOf(id)
<1> DEFINE c == ChunkOf(id)
           S == id .. id + slices[id] - 1
<1>1. /\ c \in Chunks /\ S \subseteq Pending(c) /\ Cardinality(Pending(c) \ S) = 0
      /\ id \in Nat
  BY SliceIsPending, PiecesOfChunk
<1>2. Pending(c) \subseteq S
  <2>1. IsFiniteSet(Pending(c))
    BY <1>1, PendingFinite
  <2>2. IsFiniteSet(Pending(c) \ S)
    BY <1>1, <2>1, FS_Difference
  <2> HIDE DEF c, S
  <2>3. Pending(c) \ S = {}
    BY <1>1, <2>2, FS_EmptySet
  <2>4. QED
    BY <2>3
<1>3. /\ \A o \in Offsets : o \in Nat /\ slices[o] \in Nat
      /\ \A p \in Peers : feed[p] # Nil => feed[p] \in Offsets
      /\ SlicesOK /\ FeedsOK
  BY PiecesOfChunk, ChunkMapAssumption DEF ChunksOK, ChunkMapTypeOK
<1>4. ASSUME NEW o \in Offsets, slices[o] # 0, ChunkOf(o) = c PROVE o = id
  <2>1. o \in Pieces(c) /\ o \in Nat /\ slices[o] \in Nat
    BY <1>1, <1>3, <1>4, PiecesOfChunk
  <2>2. o \in Pending(c)
    BY <1>4, <2>1 DEF Pending
  <2>3. id <= o /\ o < id + slices[id]
    BY <1>1, <1>2, <1>3, <2>1, <2>2
  <2>4. ~(id < o)
    BY <1>3, <1>4, <2>1, <2>3 DEF SlicesOK
  <2>5. QED
    BY <1>1, <2>1, <2>3, <2>4
<1>5. ASSUME NEW p \in Peers, feed[p] # Nil, ChunkOf(feed[p]) = c PROVE FALSE
  <2> DEFINE x == feed[p]
  <2>1. x \in Offsets /\ x \in Pieces(c) /\ x \in Nat
    BY <1>1, <1>3, <1>5, PiecesOfChunk
  <2>2. x \in Pending(c)
    BY <1>5, <2>1 DEF Pending
  <2>3. x < id + slices[id]
    BY <1>1, <1>2, <1>3, <2>1, <2>2
  <2>4. id + slices[id] <= x
    BY <1>3, <1>5 DEF FeedsOK
  <2>5. QED
    BY <1>1, <1>3, <2>1, <2>3, <2>4
<1>6. QED
  BY <1>4, <1>5

-----------------------------------------------------------------------------
(* The progress.                                                           *)

\* The file is complete when all chunks are done.
CompleteOK == complete <=> \A c \in Chunks : map[c] = "done"

MapOK == ChunksOK /\ TotalExact /\ CompleteOK

\* Sums and remainders are numbers.
LEMMA CountedType ==
    ASSUME NEW m, NEW dl, NEW r \in [Chunks -> Int]
    PROVE  /\ Counted(m, dl, r) \in [Chunks -> Int] /\ Sum(Counted(m, dl, r)) \in Int
           /\ Recount(m, dl, r) \in 0 .. Word64 - 1
<1>1. Word32 \in Nat \ {0} /\ Word64 \in Nat \ {0}
  BY ChunkMapAssumption
<1>2. ASSUME NEW c \in Chunks
      PROVE  (IF m[c] \in {"checking", "done"} THEN SizeOfChunk(c) ELSE 0)
             + (IF c \in dl THEN ((SizeOfChunk(c) - r[c]) % Word32)
                                   - (IF m[c] = "checking" THEN SizeOfChunk(c) ELSE 0)
                ELSE 0) \in Int
  <2>1. SizeOfChunk(c) \in Int /\ r[c] \in Int
    BY ChunkBounds, ChunkMapAssumption
  <2>2. (SizeOfChunk(c) - r[c]) % Word32 \in Int
    BY <1>1, <2>1
  <2>3. QED
    BY <2>1, <2>2
<1>3. Counted(m, dl, r) \in [Chunks -> Int]
  BY <1>2 DEF Counted
<1>4. 0 \in Chunks
  BY NumberOfChunks DEF Chunks
<1>5. Sum(Counted(m, dl, r)) \in Int
  <2> DEFINE w == Counted(m, dl, r)
  <2>1. w \in [Chunks -> Int]
    BY <1>3
  <2> HIDE DEF w
  <2>2. Sum(w) \in Int
    BY <1>4, <2>1, SumChanges
  <2>3. QED
    BY <2>2 DEF w
<1>6. QED
  BY <1>1, <1>3, <1>5, RemainderType DEF Recount

\* An active chunk counts for what it has, others for all or nothing.
LEMMA CountedChunk ==
    ASSUME NEW m, NEW dl, NEW r \in [Chunks -> Int], NEW c \in Chunks
    PROVE  /\ c \notin dl /\ m[c] \in {"checking", "done"} => Counted(m, dl, r)[c] = SizeOfChunk(c)
           /\ c \notin dl /\ m[c] \notin {"checking", "done"} => Counted(m, dl, r)[c] = 0
           /\ c \in dl /\ m[c] = "active" /\ r[c] \in 0..SizeOfChunk(c)
                => Counted(m, dl, r)[c] = SizeOfChunk(c) - r[c]
<1>1. SizeOfChunk(c) \in 1..ChunkSize /\ ChunkSize \in Nat /\ Word32 \in Nat /\ Word32 > ChunkSize
  BY ChunkBounds, ChunkMapAssumption
<1>2. ASSUME r[c] \in 0..SizeOfChunk(c)
      PROVE  (SizeOfChunk(c) - r[c]) % Word32 = SizeOfChunk(c) - r[c]
  <2> DEFINE x == SizeOfChunk(c) - r[c]
  <2>1. x \in Nat /\ x < Word32
    BY <1>1, <1>2
  <2> HIDE DEF x
  <2>2. x % Word32 = x
    BY <1>1, <2>1, SmallRemainder
  <2>3. QED
    BY <2>2 DEF x
<1>3. Counted(m, dl, r)[c] =
        (IF m[c] \in {"checking", "done"} THEN SizeOfChunk(c) ELSE 0)
        + (IF c \in dl THEN ((SizeOfChunk(c) - r[c]) % Word32)
                              - (IF m[c] = "checking" THEN SizeOfChunk(c) ELSE 0)
           ELSE 0)
  BY DEF Counted
<1>4. CASE c \in dl /\ m[c] = "active" /\ r[c] \in 0..SizeOfChunk(c)
  BY <1>1, <1>2, <1>3, <1>4
<1>5. CASE c \notin dl
  BY <1>1, <1>3, <1>5
<1>6. QED
  BY <1>4, <1>5

\* Other chunks count for what they did.
LEMMA CountedElsewhere ==
    ASSUME NEW m, NEW dl, NEW r, NEW n, NEW el, NEW s, NEW c \in Chunks,
           m[c] = n[c], c \in dl <=> c \in el, c \in dl => r[c] = s[c]
    PROVE  Counted(m, dl, r)[c] = Counted(n, el, s)[c]
<1>1. CASE c \in dl
  BY <1>1 DEF Counted
<1>2. CASE c \notin dl
  BY <1>2 DEF Counted
<1>3. QED
  BY <1>1, <1>2

\* What is left to count of an active chunk is at most its size.
LEMMA RemainsBounds ==
    ASSUME ChunksOK, NEW c \in downloading
    PROVE  c \in Chunks /\ map[c] = "active" /\ remains[c] \in 0..SizeOfChunk(c)
           /\ remains \in [Chunks -> Int]
<1>1. c \in Chunks /\ map[c] = "active" /\ remains[c] = Cardinality(Pending(c))
      /\ remains \in [Chunks -> 0 .. Word32 - 1] /\ Word32 \in Nat
  BY ChunkMapAssumption DEF ChunksOK, ChunkMapTypeOK, ActiveOnly, RemainsOK
<1>2. SizeOfChunk(c) \in Nat
  BY <1>1, ChunkBounds, ChunkMapAssumption
<1>3. QED
  BY <1>1, <1>2, PendingFinite

(* The total stays exact when one chunk changes and the total by as much.   *)
LEMMA TotalFollows ==
    ASSUME TotalExact, remains \in [Chunks -> Int], remains' \in [Chunks -> Int],
           NEW c \in Chunks, NEW d \in Int,
           \A i \in Chunks \ {c} :
             Counted(map', downloading', remains')[i] = Counted(map, downloading, remains)[i],
           Counted(map', downloading', remains')[c] = Counted(map, downloading, remains)[c] + d,
           total' = (total + d) % Word64
    PROVE  TotalExact'
<1> DEFINE w == Counted(map, downloading, remains)
           v == Counted(map', downloading', remains')
<1>1. w \in [Chunks -> Int] /\ v \in [Chunks -> Int] /\ Sum(w) \in Int /\ Word64 \in Nat \ {0}
  BY CountedType, ChunkMapAssumption
<1>2. v[c] = w[c] + d /\ \A i \in Chunks \ {c} : v[i] = w[i]
  OBVIOUS
<1>3. total = Sum(w) % Word64
  BY DEF TotalExact, Recount
<1> HIDE DEF w, v
<1>4. v = [w EXCEPT ![c] = w[c] + d]
  BY <1>1, <1>2
<1>5. w[c] \in Int /\ w[c] + d \in Int
  BY <1>1
<1>6. Sum(v) = Sum(w) + (w[c] + d) - w[c]
  BY <1>1, <1>4, <1>5, SumChanges
<1>7. Sum(v) = Sum(w) + d
  BY <1>1, <1>5, <1>6
<1>8. total' = Sum(v) % Word64
  BY <1>1, <1>3, <1>7, RemainderOfSum
<1>9. QED
  BY <1>8 DEF TotalExact, Recount, v

\* The total stays exact when nothing that it counts changes.
LEMMA TotalStays ==
    ASSUME TotalExact, remains \in [Chunks -> Int], remains' \in [Chunks -> Int], total' = total,
           \A i \in Chunks :
             Counted(map', downloading', remains')[i] = Counted(map, downloading, remains)[i]
    PROVE  TotalExact'
<1> DEFINE w == Counted(map, downloading, remains)
           v == Counted(map', downloading', remains')
<1>1. w \in [Chunks -> Int] /\ v \in [Chunks -> Int]
  BY CountedType
<1>2. \A i \in Chunks : v[i] = w[i]
  OBVIOUS
<1>3. total = Sum(w) % Word64
  BY DEF TotalExact, Recount
<1> HIDE DEF w, v
<1>4. v = w
  BY <1>1, <1>2
<1>5. total' = Sum(v) % Word64
  BY <1>3, <1>4
<1>6. QED
  BY <1>5 DEF TotalExact, Recount, v

\* Steps that leave the chunks alone.
LEMMA ChunksStay ==
    ASSUME ChunksOK, UNCHANGED <<map, feed, slices, downloading, remains>>,
           avail' \in [Peers -> (SUBSET Chunks) \cup {Nil}], total' \in 0 .. Word64 - 1,
           complete' \in BOOLEAN, toCheck' \subseteq Chunks
    PROVE  ChunksOK'
<1>1. ChunkMapTypeOK'
  BY DEF ChunksOK, ChunkMapTypeOK
<1>2. ActiveOnly' /\ SlicesOK' /\ FeedsOK'
  BY DEF ChunksOK, ActiveOnly, SlicesOK, FeedsOK
<1>3. RemainsOK'
  BY DEF ChunksOK, RemainsOK, Pending
<1>4. QED
  BY <1>1, <1>2, <1>3 DEF ChunksOK

\* Steps that leave the chunks and the progress alone.
LEMMA MapStays ==
    ASSUME MapOK, UNCHANGED <<map, feed, slices, downloading, remains, total, complete>>,
           avail' \in [Peers -> (SUBSET Chunks) \cup {Nil}], toCheck' \subseteq Chunks
    PROVE  MapOK'
<1>1. ChunksOK'
  BY ChunksStay DEF MapOK, ChunksOK, ChunkMapTypeOK
<1>2. TotalExact' /\ CompleteOK'
  BY DEF MapOK, TotalExact, CompleteOK
<1>3. QED
  BY <1>1, <1>2 DEF MapOK

\* A new slice leaves the progress: a chunk counts for nothing when it starts.
LEMMA CutKeepsMap ==
    ASSUME MapOK, NEW o, NEW n, NEW q \in Peers, SliceCut(o, n, q)
    PROVE  MapOK'
<1> DEFINE c == ChunkOf(o)
<1>0. ChunksOK /\ TotalExact /\ CompleteOK /\ ChunksOK'
  BY CutKeepsChunks DEF MapOK
<1>1. /\ c \in Chunks /\ Word32 \in Nat /\ map \in [Chunks -> States]
      /\ remains \in [Chunks -> 0 .. Word32 - 1] /\ remains' \in [Chunks -> 0 .. Word32 - 1]
      /\ ActiveOnly /\ SizeOfChunk(c) \in Nat
  BY <1>0, PiecesOfChunk, ChunkBounds, ChunkMapAssumption
     DEF SliceCut, ChunksOK, ChunkMapTypeOK
<1>2. remains \in [Chunks -> Int] /\ remains' \in [Chunks -> Int]
  BY <1>1
<1>3. total' = total /\ complete' = complete
  BY DEF SliceCut
<1>4. CASE UNCHANGED <<map, downloading, remains>>
  BY <1>0, <1>3, <1>4 DEF MapOK, TotalExact, CompleteOK
<1>5. CASE /\ map[c] = "outstanding"
           /\ map' = [map EXCEPT ![c] = "active"]
           /\ downloading' = downloading \cup {c}
           /\ remains' = [remains EXCEPT ![c] = SizeOfChunk(c)]
  <2> HIDE DEF c
  <2>1. /\ map'[c] = "active" /\ remains'[c] = SizeOfChunk(c) /\ c \in downloading'
        /\ c \notin downloading
        /\ \A i \in Chunks \ {c} : /\ map[i] = map'[i] /\ remains[i] = remains'[i]
                                   /\ i \in downloading <=> i \in downloading'
    BY <1>1, <1>5 DEF ActiveOnly
  <2>2. Counted(map, downloading, remains)[c] = 0
    BY <1>1, <1>2, <1>5, <2>1, CountedChunk
  <2>3. Counted(map', downloading', remains')[c] = 0
    <3>1. remains'[c] \in 0..SizeOfChunk(c) /\ SizeOfChunk(c) - remains'[c] = 0
      BY <1>1, <2>1
    <3>2. QED
      BY <1>1, <1>2, <2>1, <3>1, CountedChunk
  <2>4. \A i \in Chunks \ {c} :
          Counted(map', downloading', remains')[i] = Counted(map, downloading, remains)[i]
    BY <2>1, CountedElsewhere
  <2>5. TotalExact'
    BY <1>0, <1>2, <1>3, <2>2, <2>3, <2>4, TotalStays
  <2>6. CompleteOK'
    BY <1>0, <1>1, <1>3, <1>5, <2>1 DEF CompleteOK
  <2>7. QED
    BY <1>0, <2>5, <2>6 DEF MapOK
<1>6. QED
  BY <1>4, <1>5 DEF SliceCut

\* dataReceived keeps the map right, whatever slice it is told of.
LEMMA ReceiveKeepsMap ==
    ASSUME MapOK, NEW id \in Offsets, DataReceived(id)
    PROVE  MapOK'
<1> DEFINE c == ChunkOf(id)
           s == slices[id]
           r == [remains EXCEPT ![c] = (remains[c] - s) % Word32]
           state == IF c > 0 \/ FileSize > ChunkSize THEN "checking" ELSE "done"
<1>0. /\ ChunksOK /\ TotalExact /\ CompleteOK /\ ChunkMapTypeOK
      /\ ActiveOnly /\ SlicesOK /\ FeedsOK /\ RemainsOK
  BY DEF MapOK, ChunksOK
<1>1. /\ c \in Chunks /\ Word32 \in Nat \ {0} /\ Word64 \in Nat \ {0} /\ map \in [Chunks -> States]
      /\ remains \in [Chunks -> 0 .. Word32 - 1] /\ s \in 0..ChunkSize
      /\ total \in 0 .. Word64 - 1 /\ ChunkSize \in Nat
      /\ slices \in [Offsets -> 0..ChunkSize] /\ feed \in [Peers -> Offsets \cup {Nil}]
      /\ avail \in [Peers -> (SUBSET Chunks) \cup {Nil}] /\ toCheck \subseteq Chunks
      /\ downloading \subseteq Chunks /\ complete \in BOOLEAN
  BY <1>0, PiecesOfChunk, ChunkMapAssumption DEF ChunkMapTypeOK
<1>2. CASE UNCHANGED chunkVars
  BY <1>1, <1>2, MapStays DEF chunkVars
<1>3. ASSUME c \in downloading, s # 0
      PROVE  /\ remains[c] - s \in Nat /\ r[c] = remains[c] - s
             /\ r \in [Chunks -> 0 .. Word32 - 1]
             /\ \A d \in Chunks \ {c} : r[d] = remains[d]
  <2>1. remains[c] - s \in Nat /\ (remains[c] - s) % Word32 = remains[c] - s
    BY <1>0, <1>3, SliceIsPending
  <2>2. remains[c] - s \in 0 .. Word32 - 1
    BY <1>1, <2>1
  <2>3. QED
    BY <1>1, <2>1, <2>2
<1> HIDE DEF r
<1>4. CASE /\ c \in downloading /\ s # 0 /\ r[c] # 0
           /\ total' = (total + s) % Word64 /\ remains' = r
           /\ slices' = [slices EXCEPT ![id] = 0]
           /\ UNCHANGED <<map, feed, downloading, avail, complete, toCheck>>
  <2> DEFINE S == id .. id + s - 1
  <2>1. S \subseteq Pending(c) /\ Cardinality(Pending(c) \ S) = remains[c] - s
    BY <1>0, <1>4, SliceIsPending
  <2>2. /\ \A o \in Offsets : slices'[o] # 0 => o # id /\ slices'[o] = slices[o]
        /\ \A o \in Offsets : o # id => slices'[o] = slices[o]
    BY <1>1, <1>4
  <2>3. SlicesOK' /\ FeedsOK' /\ ActiveOnly'
    <3>1. SlicesOK'
      BY <1>0, <1>4, <2>2 DEF SlicesOK
    <3>2. FeedsOK'
      BY <1>0, <1>4, <2>2 DEF FeedsOK
    <3>3. ActiveOnly'
      BY <1>0, <1>4 DEF ActiveOnly
    <3>4. QED
      BY <3>1, <3>2, <3>3
  <2>4. ASSUME NEW x \in Pieces(c) PROVE x \in Pending(c)' <=> x \in Pending(c) /\ x \notin S
    <3>1. /\ x \in Nat /\ id \in Nat /\ id \in Pieces(c)
          /\ \A o \in Pieces(c) : o \in Offsets /\ o \in Nat /\ slices[o] \in Nat /\ ChunkOf(o) = c
          /\ \A p \in Peers : feed[p] # Nil => feed[p] \in Offsets /\ feed[p] \in Nat
      BY <1>1, <2>4, PiecesOfChunk
    <3>2. x \in S <=> id <= x /\ x < id + s
      BY <1>1, <3>1
    <3> HIDE DEF S
    <3>3. ASSUME NEW o \in Pieces(c), slices'[o] # 0, o <= x, x < o + slices'[o]
          PROVE  x \in Pending(c) /\ x \notin S
      <4>1. o # id /\ slices'[o] = slices[o] /\ slices[o] # 0 /\ o \in Nat /\ slices[o] \in Nat /\ o \in Offsets
        BY <2>2, <3>1, <3>3
      <4>2. x \in Pending(c)
        BY <2>4, <3>3, <4>1 DEF Pending
      <4>3. CASE o < id
        <5>1. o + slices[o] <= id
          BY <1>0, <1>4, <4>1, <4>3 DEF SlicesOK
        <5>2. QED
          BY <3>1, <3>2, <3>3, <4>1, <4>2, <5>1
      <4>4. CASE id < o
        <5>1. id + s <= o
          BY <1>0, <1>4, <4>1, <4>4 DEF SlicesOK
        <5>2. QED
          BY <1>1, <3>1, <3>2, <3>3, <4>1, <4>2, <5>1
      <4>5. QED
        BY <3>1, <4>1, <4>3, <4>4
    <3>4. ASSUME NEW p \in Peers, feed[p] # Nil, ChunkOf(feed[p]) = c, feed[p] <= x
          PROVE  x \in Pending(c) /\ x \in Pending(c)' /\ x \notin S
      <4>1. id + s <= feed[p]
        BY <1>0, <1>4, <3>4 DEF FeedsOK
      <4>2. x \notin S
        BY <1>1, <3>1, <3>2, <3>4, <4>1
      <4>3. feed' = feed
        BY <1>4
      <4>4. QED
        BY <2>4, <3>4, <4>2, <4>3 DEF Pending
    <3>5. ASSUME NEW o \in Pieces(c), slices[o] # 0, o <= x, x < o + slices[o], x \notin S
          PROVE  x \in Pending(c)'
      <4>1. o # id
        BY <3>2, <3>5
      <4>2. slices'[o] = slices[o]
        BY <2>2, <3>1, <4>1
      <4>3. QED
        BY <2>4, <3>5, <4>2 DEF Pending
    <3>6. ASSUME x \in Pending(c)' PROVE x \in Pending(c) /\ x \notin S
      <4>1. feed' = feed
        BY <1>4
      <4>2. \/ \E o \in Pieces(c) : slices'[o] # 0 /\ o <= x /\ x < o + slices'[o]
            \/ \E p \in Peers : feed[p] # Nil /\ ChunkOf(feed[p]) = c /\ feed[p] <= x
        BY <3>6, <4>1 DEF Pending
      <4>3. QED
        BY <3>3, <3>4, <4>2
    <3>7. ASSUME x \in Pending(c), x \notin S PROVE x \in Pending(c)'
      <4>1. \/ \E o \in Pieces(c) : slices[o] # 0 /\ o <= x /\ x < o + slices[o]
            \/ \E p \in Peers : feed[p] # Nil /\ ChunkOf(feed[p]) = c /\ feed[p] <= x
        BY <3>7 DEF Pending
      <4>2. QED
        BY <3>4, <3>5, <3>7, <4>1
    <3>8. QED
      BY <3>6, <3>7
  <2>5. RemainsOK'
    <3> SUFFICES ASSUME NEW d \in downloading' PROVE remains'[d] = Cardinality(Pending(d)')
      BY DEF RemainsOK
    <3>1. CASE d = c
      <4>1. Pending(c)' \subseteq Pieces(c) /\ Pending(c) \subseteq Pieces(c)
        BY DEF Pending
      <4> HIDE DEF S
      <4>2. Pending(c)' = Pending(c) \ S
        BY <2>4, <4>1
      <4>3. QED
        BY <1>3, <1>4, <2>1, <3>1, <4>2
    <3>2. CASE d # c
      <4>1. d \in Chunks /\ d \in downloading /\ remains'[d] = remains[d]
        BY <1>1, <1>3, <1>4, <3>2
      <4>2. \A o \in Pieces(d) : slices'[o] = slices[o]
        BY <2>2, <3>2, <4>1, PiecesOfChunk
      <4>3. feed' = feed
        BY <1>4
      <4>4. Pending(d)' = Pending(d)
        BY <4>1, <4>2, <4>3, PendingStays
      <4>5. QED
        BY <1>0, <4>1, <4>4 DEF RemainsOK
    <3>3. QED
      BY <3>1, <3>2
  <2>6. ChunkMapTypeOK'
    <3>1. total' \in 0 .. Word64 - 1
      <4> DEFINE t == total + s
      <4>1. t \in Int /\ total' = t % Word64
        BY <1>1, <1>4
      <4> HIDE DEF t
      <4>2. QED
        BY <1>1, <4>1, RemainderType
    <3>2. slices' \in [Offsets -> 0..ChunkSize]
      BY <1>1, <1>4
    <3>3. QED
      BY <1>0, <1>3, <1>4, <3>1, <3>2 DEF ChunkMapTypeOK
  <2>7. TotalExact'
    <3>1. c \in Chunks /\ map[c] = "active" /\ remains[c] \in 0..SizeOfChunk(c) /\ remains \in [Chunks -> Int]
      BY <1>0, <1>4, RemainsBounds
    <3>2. r \in [Chunks -> Int] /\ SizeOfChunk(c) \in Nat
      BY <1>1, <1>3, <1>4, ChunkBounds
    <3>3. r[c] \in 0..SizeOfChunk(c) /\ r[c] = remains[c] - s
      BY <1>1, <1>3, <1>4, <3>1, <3>2
    <3>4. Counted(map, downloading, remains)[c] = SizeOfChunk(c) - remains[c]
      BY <1>4, <3>1, CountedChunk
    <3>5. Counted(map, downloading, r)[c] = SizeOfChunk(c) - r[c]
      BY <1>4, <3>1, <3>2, <3>3, CountedChunk
    <3>6. Counted(map, downloading, r)[c] = Counted(map, downloading, remains)[c] + s
      BY <1>1, <3>1, <3>2, <3>3, <3>4, <3>5
    <3>7. \A i \in Chunks \ {c} :
            Counted(map, downloading, r)[i] = Counted(map, downloading, remains)[i]
      BY <1>3, <1>4, CountedElsewhere
    <3>8. map' = map /\ downloading' = downloading /\ remains' = r /\ s \in Int
      BY <1>1, <1>4
    <3> HIDE DEF s
    <3>9. QED
      BY <1>0, <1>4, <3>1, <3>2, <3>6, <3>7, <3>8, TotalFollows
  <2>8. CompleteOK'
    BY <1>0, <1>4 DEF CompleteOK
  <2>9. QED
    BY <2>3, <2>5, <2>6, <2>7, <2>8 DEF MapOK, ChunksOK
<1>5. CASE /\ c \in downloading /\ s # 0 /\ r[c] = 0
           /\ map' = [map EXCEPT ![c] = state]
           /\ toCheck' = IF state = "checking" THEN toCheck \cup {c} ELSE toCheck
           /\ downloading' = downloading \ {c}
           /\ remains' = r
           /\ slices' = Cleared(c)
           /\ UpdateTotalDownloaded(map', downloading', r)
           /\ UNCHANGED <<feed, avail>>
  <2>1. state \in States \ {"active"}
    BY DEF States
  <2>2. \A p \in Peers : feed[p] # Nil => ChunkOf(feed[p]) # c
    BY <1>0, <1>3, <1>5, LastSlice
  <2>3. feed' = [p \in Peers |-> IF feed[p] # Nil /\ ChunkOf(feed[p]) = c THEN Nil ELSE feed[p]]
    BY <1>1, <1>5, <2>2
  <2> HIDE DEF state
  <2>4. \A d \in downloading \ {c} : remains'[d] = remains[d]
    BY <1>1, <1>3, <1>5
  <2>5. /\ ActiveOnly' /\ SlicesOK' /\ FeedsOK' /\ RemainsOK'
        /\ map' \in [Chunks -> States] /\ feed' \in [Peers -> Offsets \cup {Nil}]
        /\ slices' \in [Offsets -> 0..ChunkSize] /\ downloading' \subseteq Chunks
    BY <1>0, <1>5, <2>1, <2>3, <2>4, ChunkLeaves
  <2>6. total' = Recount(map', downloading', remains') /\ CompleteOK' /\ complete' \in BOOLEAN
    BY <1>5 DEF UpdateTotalDownloaded, CompleteOK
  <2>7. total' \in 0 .. Word64 - 1
    <3>1. r \in [Chunks -> Int]
      BY <1>1, <1>3, <1>5
    <3>2. QED
      BY <1>5, <2>6, <3>1, CountedType
  <2>8. ChunkMapTypeOK'
    BY <1>1, <1>3, <1>5, <2>5, <2>6, <2>7 DEF ChunkMapTypeOK
  <2>9. TotalExact'
    BY <2>6 DEF TotalExact
  <2>10. QED
    BY <2>5, <2>6, <2>8, <2>9 DEF MapOK, ChunksOK
<1>6. QED
  BY <1>2, <1>4, <1>5 DEF DataReceived, r

\* One round of removeInactiveChunks keeps the map right.
LEMMA GiveUpKeepsMap ==
    ASSUME MapOK, NEW c \in Chunks, RemoveInactiveChunk(c)
    PROVE  MapOK'
<1>0. /\ ChunksOK /\ TotalExact /\ CompleteOK /\ ChunkMapTypeOK
  BY DEF MapOK, ChunksOK
<1>1. /\ Word32 \in Nat \ {0} /\ Word64 \in Nat \ {0} /\ map \in [Chunks -> States]
      /\ remains \in [Chunks -> 0 .. Word32 - 1] /\ total \in 0 .. Word64 - 1
      /\ avail \in [Peers -> (SUBSET Chunks) \cup {Nil}] /\ toCheck \subseteq Chunks
      /\ complete \in BOOLEAN
  BY <1>0, ChunkMapAssumption DEF ChunkMapTypeOK
<1> DEFINE part == SizeOfChunk(c) - remains[c]
<1>2. /\ c \in downloading
      /\ map' = [map EXCEPT ![c] = "outstanding"]
      /\ total' = (total - (part % Word32)) % Word64
      /\ feed' = [p \in Peers |-> IF feed[p] # Nil /\ ChunkOf(feed[p]) = c THEN Nil ELSE feed[p]]
      /\ slices' = Cleared(c)
      /\ downloading' = downloading \ {c}
      /\ remains' = [remains EXCEPT ![c] = 0]
      /\ UNCHANGED <<avail, complete, toCheck>>
  BY DEF RemoveInactiveChunk
<1>3. map[c] = "active" /\ remains[c] \in 0..SizeOfChunk(c) /\ remains \in [Chunks -> Int]
  BY <1>0, <1>2, RemainsBounds
<1>4. SizeOfChunk(c) \in 1..ChunkSize /\ ChunkSize \in Nat /\ Word32 > ChunkSize
  BY ChunkBounds, ChunkMapAssumption
<1>5. part \in Nat /\ part < Word32
  BY <1>1, <1>3, <1>4
<1>6. "outstanding" \in States \ {"active"} /\ \A d \in downloading \ {c} : remains'[d] = remains[d]
  BY <1>1, <1>2 DEF States
<1>7. /\ ActiveOnly' /\ SlicesOK' /\ FeedsOK' /\ RemainsOK'
      /\ map' \in [Chunks -> States] /\ feed' \in [Peers -> Offsets \cup {Nil}]
      /\ slices' \in [Offsets -> 0..ChunkSize] /\ downloading' \subseteq Chunks
  BY <1>0, <1>2, <1>6, ChunkLeaves
<1>8. Counted(map, downloading, remains)[c] = part
  BY <1>2, <1>3, CountedChunk
<1> HIDE DEF part
<1>9. part % Word32 = part
  BY <1>1, <1>5, SmallRemainder
<1>10. remains' \in [Chunks -> Int] /\ remains' \in [Chunks -> 0 .. Word32 - 1]
  BY <1>1, <1>2
<1>11. map'[c] = "outstanding" /\ c \notin downloading'
  BY <1>1, <1>2
<1>12. Counted(map', downloading', remains')[c] = 0
  BY <1>10, <1>11, CountedChunk
<1>13. \A i \in Chunks \ {c} :
         Counted(map', downloading', remains')[i] = Counted(map, downloading, remains)[i]
  <2>1. \A i \in Chunks \ {c} : /\ map[i] = map'[i] /\ remains[i] = remains'[i]
                                /\ i \in downloading <=> i \in downloading'
    BY <1>1, <1>2
  <2>2. QED
    BY <2>1, CountedElsewhere
<1> DEFINE d == 0 - part
<1>14. d \in Int /\ total' = (total + d) % Word64 /\ 0 = part + d /\ total + d \in Int
  BY <1>1, <1>2, <1>5, <1>9
<1> HIDE DEF d
<1>15. TotalExact'
  BY <1>0, <1>3, <1>8, <1>10, <1>12, <1>13, <1>14, TotalFollows
<1>16. total' \in 0 .. Word64 - 1
  BY <1>1, <1>14, RemainderType
<1>17. CompleteOK'
  BY <1>0, <1>1, <1>2, <1>3, <1>11 DEF CompleteOK
<1>18. ChunkMapTypeOK'
  BY <1>1, <1>2, <1>7, <1>10, <1>16 DEF ChunkMapTypeOK
<1>19. QED
  BY <1>7, <1>15, <1>17, <1>18 DEF MapOK, ChunksOK

(* Chunks change their state, but none becomes active or stops to be it,    *)
(* and the total is counted again or follows.                               *)
LEMMA InactiveKeepsChunks ==
    ASSUME ChunksOK, map' \in [Chunks -> States],
           \A c \in Chunks : map'[c] = "active" <=> map[c] = "active",
           UNCHANGED <<feed, slices, downloading, remains, avail>>,
           total' \in 0 .. Word64 - 1, complete' \in BOOLEAN, toCheck' \subseteq Chunks
    PROVE  ChunksOK'
<1>1. ChunkMapTypeOK'
  BY DEF ChunksOK, ChunkMapTypeOK
<1>2. ActiveOnly'
  BY DEF ChunksOK, ActiveOnly
<1>3. SlicesOK' /\ FeedsOK'
  BY DEF ChunksOK, SlicesOK, FeedsOK
<1>4. RemainsOK'
  BY DEF ChunksOK, RemainsOK, Pending
<1>5. QED
  BY <1>1, <1>2, <1>3, <1>4 DEF ChunksOK

\* setChunkCheckingResult keeps the map right.
LEMMA CheckKeepsMap ==
    ASSUME MapOK, NEW c \in Chunks, NEW succeeded \in BOOLEAN, SetChunkCheckingResult(c, succeeded)
    PROVE  MapOK'
<1>0. /\ ChunksOK /\ TotalExact /\ CompleteOK /\ ChunkMapTypeOK
  BY DEF MapOK, ChunksOK
<1>1. /\ Word64 \in Nat \ {0} /\ map \in [Chunks -> States] /\ Word32 \in Nat
      /\ remains \in [Chunks -> 0 .. Word32 - 1] /\ total \in 0 .. Word64 - 1
      /\ toCheck \subseteq Chunks /\ complete \in BOOLEAN
  BY <1>0, ChunkMapAssumption DEF ChunkMapTypeOK
<1>2. /\ map[c] = "checking" /\ UNCHANGED <<feed, slices, downloading, remains, avail, toCheck>>
      /\ c \notin downloading /\ remains \in [Chunks -> Int] /\ remains' \in [Chunks -> Int]
  BY <1>0, <1>1 DEF SetChunkCheckingResult, ChunksOK, ActiveOnly
<1>3. SizeOfChunk(c) \in Nat
  BY ChunkBounds, ChunkMapAssumption
<1>4. Counted(map, downloading, remains)[c] = SizeOfChunk(c)
  BY <1>2, CountedChunk
<1>5. CASE /\ map' = [map EXCEPT ![c] = "done"]
           /\ complete' = \A i \in Chunks : map'[i] = "done"
           /\ UNCHANGED total
  <2>1. /\ map' \in [Chunks -> States] /\ map'[c] = "done"
        /\ \A i \in Chunks : map'[i] = "active" <=> map[i] = "active"
        /\ \A i \in Chunks \ {c} : map'[i] = map[i]
    BY <1>1, <1>2, <1>5 DEF States
  <2>2. Counted(map', downloading', remains')[c] = SizeOfChunk(c)
    BY <1>2, <2>1, CountedChunk
  <2>3. \A i \in Chunks \ {c} :
          Counted(map', downloading', remains')[i] = Counted(map, downloading, remains)[i]
    <3>1. downloading' = downloading /\ remains' = remains
      BY <1>2
    <3>2. ASSUME NEW i \in Chunks \ {c}
          PROVE  Counted(map', downloading, remains)[i] = Counted(map, downloading, remains)[i]
      <4>1. map'[i] = map[i] /\ i \in Chunks
        BY <2>1
      <4>2. QED
        BY ONLY <4>1, CountedElsewhere
    <3>3. QED
      BY <3>1, <3>2
  <2>4. TotalExact'
    BY <1>0, <1>2, <1>4, <1>5, <2>2, <2>3, TotalStays
  <2>5. CompleteOK' /\ complete' \in BOOLEAN
    BY <1>5 DEF CompleteOK
  <2>6. ChunksOK'
    BY <1>0, <1>1, <1>2, <1>5, <2>1, <2>5, InactiveKeepsChunks
  <2>7. QED
    BY <2>4, <2>5, <2>6 DEF MapOK
<1>6. CASE /\ map' = [map EXCEPT ![c] = "outstanding"]
           /\ total' = (total - SizeOfChunk(c)) % Word64
           /\ UNCHANGED complete
  <2>1. /\ map' \in [Chunks -> States] /\ map'[c] = "outstanding"
        /\ \A i \in Chunks : map'[i] = "active" <=> map[i] = "active"
        /\ \A i \in Chunks \ {c} : map'[i] = map[i]
    BY <1>1, <1>2, <1>6 DEF States
  <2>2. Counted(map', downloading', remains')[c] = 0
    BY <1>2, <2>1, CountedChunk
  <2>3. \A i \in Chunks \ {c} :
          Counted(map', downloading', remains')[i] = Counted(map, downloading, remains)[i]
    <3>1. downloading' = downloading /\ remains' = remains
      BY <1>2
    <3>2. ASSUME NEW i \in Chunks \ {c}
          PROVE  Counted(map', downloading, remains)[i] = Counted(map, downloading, remains)[i]
      <4>1. map'[i] = map[i] /\ i \in Chunks
        BY <2>1
      <4>2. QED
        BY ONLY <4>1, CountedElsewhere
    <3>3. QED
      BY <3>1, <3>2
  <2> DEFINE d == 0 - SizeOfChunk(c)
  <2>4. /\ d \in Int /\ total' = (total + d) % Word64 /\ 0 = SizeOfChunk(c) + d
        /\ total + d \in Int
    BY <1>1, <1>3, <1>6
  <2> HIDE DEF d
  <2>5. TotalExact'
    BY <1>0, <1>2, <1>4, <2>2, <2>3, <2>4, TotalFollows
  <2>6. total' \in 0 .. Word64 - 1
    BY <1>1, <2>4, RemainderType
  <2>7. CompleteOK'
    BY <1>0, <1>2, <1>6, <2>1 DEF CompleteOK
  <2>8. ChunksOK'
    BY <1>0, <1>1, <1>2, <1>6, <2>1, <2>6, InactiveKeepsChunks
  <2>9. QED
    BY <2>5, <2>7, <2>8 DEF MapOK
<1>7. QED
  BY <1>5, <1>6 DEF SetChunkCheckingResult

\* forceCheck between downloads of chunks keeps the map right.
LEMMA ForceKeepsMap ==
    ASSUME MapOK, downloading = {}, ForceCheckChunks
    PROVE  MapOK'
<1>0. /\ ChunksOK /\ ChunkMapTypeOK /\ remains \in [Chunks -> 0 .. Word32 - 1] /\ Word32 \in Nat
  BY ChunkMapAssumption DEF MapOK, ChunksOK, ChunkMapTypeOK
<1>1. /\ map' = [c \in Chunks |-> "checking"] /\ toCheck' = Chunks
      /\ total' = Recount(map', downloading, remains)
      /\ complete' = \A c \in Chunks : map'[c] = "done"
      /\ UNCHANGED <<feed, slices, downloading, remains, avail>>
  BY DEF ForceCheckChunks, UpdateTotalDownloaded
<1>2. /\ map' \in [Chunks -> States] /\ complete' \in BOOLEAN
      /\ \A c \in Chunks : map'[c] # "active" /\ map[c] # "active"
  BY <1>0, <1>1 DEF States, ChunksOK, ActiveOnly
<1>3. remains \in [Chunks -> Int]
  BY <1>0
<1>4. total' \in 0 .. Word64 - 1
  BY <1>1, <1>3, CountedType
<1>5. ChunksOK'
  BY <1>0, <1>1, <1>2, <1>4, InactiveKeepsChunks
<1>6. TotalExact' /\ CompleteOK'
  BY <1>1 DEF TotalExact, CompleteOK
<1>7. QED
  BY <1>5, <1>6 DEF MapOK

\* A map that is loaded is right: no chunk is active.
LEMMA LoadKeepsMap ==
    ASSUME NEW D \in SUBSET Chunks, Load(D)
    PROVE  MapOK'
<1>1. /\ map' = [c \in Chunks |-> IF c \in D THEN "done" ELSE "outstanding"]
      /\ feed' = [p \in Peers |-> Nil] /\ slices' = [o \in Offsets |-> 0]
      /\ downloading' = {} /\ remains' = [c \in Chunks |-> 0] /\ avail' = [p \in Peers |-> Nil]
      /\ total' = Sum([c \in Chunks |-> IF c \in D THEN SizeOfChunk(c) ELSE 0]) % Word64
      /\ complete' = (D = Chunks) /\ toCheck' = {}
  BY DEF Load
<1>2. Word32 \in Nat \ {0} /\ Word64 \in Nat \ {0} /\ ChunkSize \in Nat
  BY ChunkMapAssumption
<1>3. remains' \in [Chunks -> Int] /\ remains' \in [Chunks -> 0 .. Word32 - 1]
  BY <1>1, <1>2
<1>4. total' = Recount(map', downloading', remains')
  <2> DEFINE w == [c \in Chunks |-> IF c \in D THEN SizeOfChunk(c) ELSE 0]
             v == Counted(map', downloading', remains')
  <2>1. v \in [Chunks -> Int]
    BY <1>3, CountedType
  <2>2. ASSUME NEW c \in Chunks PROVE v[c] = w[c]
    <3>1. c \notin downloading'
      BY <1>1
    <3>2. map'[c] = IF c \in D THEN "done" ELSE "outstanding"
      BY <1>1
    <3>3. w[c] = IF c \in D THEN SizeOfChunk(c) ELSE 0
      OBVIOUS
    <3>4. QED
      BY <1>3, <3>1, <3>2, <3>3, CountedChunk
  <2>3. DOMAIN w = Chunks /\ w = [c \in Chunks |-> w[c]]
    OBVIOUS
  <2>4. total' = Sum(w) % Word64
    BY <1>1
  <2> HIDE DEF w, v
  <2>5. v = w
    BY <2>1, <2>2, <2>3
  <2>6. QED
    BY <2>4, <2>5 DEF Recount, v
<1>5. TotalExact'
  BY <1>4 DEF TotalExact
<1>6. CompleteOK'
  BY <1>1 DEF CompleteOK
<1>7. total' \in 0 .. Word64 - 1
  BY <1>3, <1>4, CountedType
<1>8. ChunkMapTypeOK'
  BY <1>1, <1>2, <1>3, <1>7 DEF ChunkMapTypeOK, States
<1>9. ActiveOnly' /\ SlicesOK' /\ FeedsOK' /\ RemainsOK'
  BY <1>1 DEF ActiveOnly, SlicesOK, FeedsOK, RemainsOK
<1>10. QED
  BY <1>5, <1>6, <1>8, <1>9 DEF MapOK, ChunksOK

(* dataReceived for a pending slice: it is the only one that goes, and the  *)
(* chunk leaves the active ones when nothing else of it is pending.         *)
LEMMA ReceivedSlice ==
    ASSUME ChunksOK, NEW id \in Offsets, slices[id] # 0, DataReceived(id)
    PROVE  /\ \A v \in Offsets : slices'[v] = IF v = id THEN 0 ELSE slices[v]
           /\ feed' = feed
           /\ map[ChunkOf(id)] = "active"
           /\ \/ map' = map
              \/ /\ remains[ChunkOf(id)] - slices[id] = 0
                 /\ \/ map' = [map EXCEPT ![ChunkOf(id)] = "checking"]
                    \/ NumChunks = 1 /\ map' = [map EXCEPT ![ChunkOf(id)] = "done"]
<1> DEFINE c == ChunkOf(id)
           r == [remains EXCEPT ![c] = (remains[c] - slices[id]) % Word32]
           state == IF c > 0 \/ FileSize > ChunkSize THEN "checking" ELSE "done"
<1>1. /\ c \in Chunks /\ c \in downloading /\ map[c] = "active" /\ remains[c] - slices[id] \in Nat
      /\ remains \in [Chunks -> 0 .. Word32 - 1] /\ slices \in [Offsets -> 0..ChunkSize]
      /\ (remains[c] - slices[id]) % Word32 = remains[c] - slices[id]
  BY SliceIsPending DEF ChunksOK, ChunkMapTypeOK, ActiveOnly
<1>2. r[c] = remains[c] - slices[id]
  BY <1>1
<1> HIDE DEF r
<1>3. CASE r[c] # 0 /\ slices' = [slices EXCEPT ![id] = 0] /\ UNCHANGED <<map, feed>>
  BY <1>1, <1>3
<1>4. CASE r[c] = 0 /\ map' = [map EXCEPT ![c] = state] /\ slices' = Cleared(c) /\ feed' = feed
  <2>1. \A o \in Offsets : slices[o] # 0 /\ ChunkOf(o) = c => o = id
    BY <1>2, <1>4, LastSlice
  <2>2. \A v \in Offsets : slices'[v] = IF ChunkOf(v) = c THEN 0 ELSE slices[v]
    BY <1>1, <1>4, PiecesOfChunk DEF Cleared
  <2>3. \A v \in Offsets : slices'[v] = IF v = id THEN 0 ELSE slices[v]
    BY <2>1, <2>2
  <2>4. state = "checking" \/ (state = "done" /\ NumChunks = 1)
    <3>1. /\ NumChunks > 1 <=> FileSize > ChunkSize
          /\ NumChunks \in Nat \ {0}
      BY NumberOfChunks
    <3>2. QED
      BY <3>1
  <2>5. QED
    BY <1>1, <1>2, <1>4, <2>3, <2>4
<1>5. QED
  BY <1>1, <1>3, <1>4 DEF DataReceived, r, chunkVars

\* A new map is right.
LEMMA NewMapIsRight ==
    ASSUME NewChunkMap
    PROVE  MapOK
<1>1. /\ map = [c \in Chunks |-> "outstanding"] /\ feed = [p \in Peers |-> Nil]
      /\ slices = [o \in Offsets |-> 0] /\ downloading = {} /\ remains = [c \in Chunks |-> 0]
      /\ avail = [p \in Peers |-> Nil] /\ total = 0 /\ complete = FALSE /\ toCheck = {}
  BY DEF NewChunkMap
<1>2. Word32 \in Nat \ {0} /\ Word64 \in Nat \ {0} /\ ChunkSize \in Nat
  BY ChunkMapAssumption
<1>3. remains \in [Chunks -> Int] /\ remains \in [Chunks -> 0 .. Word32 - 1]
  BY <1>1, <1>2
<1>4. TotalExact
  <2> DEFINE v == Counted(map, downloading, remains)
  <2>1. v \in [Chunks -> Int]
    BY <1>3, CountedType
  <2>2. ASSUME NEW c \in Chunks PROVE v[c] = 0
    BY <1>1, <1>3, CountedChunk
  <2> HIDE DEF v
  <2>3. Sum(v) = 0
    BY <2>1, <2>2, SumOfNothing
  <2>4. 0 % Word64 = 0
    BY <1>2, SmallRemainder
  <2>5. QED
    BY <1>1, <2>3, <2>4 DEF TotalExact, Recount, v
<1>5. CompleteOK
  <2>1. 0 \in Chunks
    BY NumberOfChunks DEF Chunks
  <2>2. QED
    BY <1>1, <2>1 DEF CompleteOK
<1>6. ChunkMapTypeOK
  <2>1. 0 \in 0 .. Word64 - 1 /\ 0 \in 0..ChunkSize
    BY <1>2
  <2>2. map \in [Chunks -> States] /\ slices \in [Offsets -> 0..ChunkSize]
    BY <1>1, <2>1 DEF States
  <2>3. QED
    BY <1>1, <1>3, <2>1, <2>2 DEF ChunkMapTypeOK
<1>7. ActiveOnly /\ SlicesOK /\ FeedsOK /\ RemainsOK
  BY <1>1 DEF ActiveOnly, SlicesOK, FeedsOK, RemainsOK
<1>8. QED
  BY <1>4, <1>5, <1>6, <1>7 DEF MapOK, ChunksOK

-----------------------------------------------------------------------------
(* The inductive invariant of the creator.                                 *)

\* Parts lie in their slices, one behind the other, and share counters by slice.
PartsOK ==
    /\ \A o \in Places : parts[o] # Nil =>
         /\ slices[parts[o].id] # 0
         /\ parts[o].id <= o /\ o + parts[o].size <= parts[o].id + slices[parts[o].id]
    /\ \A o, u \in Places : parts[o] # Nil /\ parts[u] # Nil =>
         /\ o < u => o + parts[o].size <= u
         /\ parts[o].ref = parts[u].ref <=> parts[o].id = parts[u].id

\* x is where a block of the slice at id may start.
IsCut(id, x) == \E k \in Nat : x = id + k * BlockSize

\* As long as only blocks of pending slices arrive, parts are whole blocks.
AlignedOK ==
    Blocks = "pending" => \A o \in Places : parts[o] # Nil =>
        /\ IsCut(parts[o].id, o)
        /\ \/ IsCut(parts[o].id, o + parts[o].size)
           \/ o + parts[o].size = parts[o].id + slices[parts[o].id]

\* A slice that is not received has parts, and their counter is their number.
CountersOK ==
    /\ \A id \in Offsets : slices[id] # 0 => PartsOf(id) # {}
    /\ \A o \in Places, id \in Offsets :
         parts[o] # Nil /\ parts[o].id = id => refCnt[parts[o].ref] = Cardinality(PartsOf(id))

\* A piece of an active chunk is written, in a part, or behind the feed.
PiecesOK ==
    \A x \in Offsets : map[ChunkOf(x)] = "active" /\ x \notin written =>
        \/ \E p \in Peers : feed[p] # Nil /\ ChunkOf(feed[p]) = ChunkOf(x) /\ feed[p] <= x
        \/ \E o \in Places : parts[o] # Nil /\ o <= x /\ x < o + parts[o].size

\* What is received and not forced is written; what is done, or saved as done, is checked.
DoneOK ==
    \A c \in Chunks :
        /\ (map[c] \in {"checking", "done"} \/ c \in saved) /\ c \notin forced => Pieces(c) \subseteq written
        /\ (map[c] = "done" \/ c \in saved) /\ NumChunks > 1 => c \in verified

\* Types of what the creator itself keeps.
CreatorTypes ==
    /\ parts \in [Places -> Part \cup {Nil}]
    /\ refCnt \in [Refs -> 0..ChunkSize]
    /\ perPeer \in [Peers -> 0 .. Word32 - 1]
    /\ written \subseteq Offsets
    /\ saved \subseteq Chunks
    /\ verified \subseteq Chunks
    /\ forced \subseteq Chunks

CreatorOK == MapOK /\ CreatorTypes /\ PartsOK /\ AlignedOK /\ CountersOK /\ PiecesOK /\ DoneOK

\* Places are offsets, or the end of the file.
LEMMA PlacesType ==
    /\ \A o \in Places : o \in Nat
    /\ Offsets \subseteq Places
    /\ \A x \in Nat : x <= FileSize => x \in Places
    /\ Places = 0..FileSize /\ FileSize \in Nat \ {0}
BY ChunkMapAssumption DEF Places, Offsets

\* The fields of a part.
LEMMA PartFields ==
    ASSUME CreatorTypes, NEW o \in Places, parts[o] # Nil
    PROVE  /\ parts[o] \in Part /\ o \in Nat
           /\ parts[o].size \in 1..ChunkSize /\ parts[o].size \in Nat \ {0}
           /\ parts[o].id \in Offsets /\ parts[o].id \in Nat
           /\ parts[o].peer \in Peers /\ parts[o].ref \in Refs
<1>1. parts[o] \in Part
  BY DEF CreatorTypes
<1>2. ChunkSize \in Nat
  BY ChunkMapAssumption
<1>3. parts[o].size \in 1..ChunkSize /\ parts[o].id \in Offsets /\ parts[o].peer \in Peers /\ parts[o].ref \in Refs
  BY <1>1 DEF Part
<1>4. QED
  <2>1. o \in Nat
    BY PlacesType
  <2>2. parts[o].id \in Nat
    BY <1>3, PiecesOfChunk
  <2>3. parts[o].size \in Nat \ {0}
    BY <1>2, <1>3
  <2>4. QED
    BY <1>1, <1>3, <2>1, <2>2, <2>3

\* The pieces of a part are in the chunk of its slice.
LEMMA PartInChunk ==
    ASSUME MapOK, CreatorTypes, PartsOK, NEW v \in Places, parts[v] # Nil,
           NEW x \in Nat, v <= x, x < v + parts[v].size
    PROVE  /\ x \in Offsets /\ ChunkOf(x) = ChunkOf(parts[v].id)
           /\ parts[v].id <= x /\ x < parts[v].id + slices[parts[v].id]
<1> DEFINE id == parts[v].id
<1>1. /\ id \in Offsets /\ id \in Nat /\ v \in Nat /\ parts[v].size \in Nat
      /\ slices[id] # 0 /\ slices[id] \in Nat
      /\ id <= v /\ v + parts[v].size <= id + slices[id]
  BY PartFields, ChunkMapAssumption DEF PartsOK, MapOK, ChunksOK, ChunkMapTypeOK
<1>2. id + slices[id] <= End(ChunkOf(id)) /\ End(ChunkOf(id)) \in Nat
  BY <1>1, PiecesOfChunk, ChunkBounds DEF MapOK, ChunksOK, SlicesOK
<1>3. id <= x /\ x < id + slices[id] /\ x < End(ChunkOf(id))
  BY <1>1, <1>2
<1>4. QED
  BY <1>1, <1>3, ChunksInOrder

\* A piece is in one slice at most, and so is a part.
LEMMA OneSlice ==
    ASSUME MapOK, CreatorTypes, PartsOK, NEW id \in Offsets, slices[id] # 0, NEW x \in Nat,
           id <= x, x < id + slices[id]
    PROVE  /\ \A j \in Offsets : slices[j] # 0 /\ j <= x /\ x < j + slices[j] => j = id
           /\ \A v \in Places : parts[v] # Nil /\ v <= x /\ x < v + parts[v].size => parts[v].id = id
<1>1. \A j \in Offsets : j \in Nat /\ slices[j] \in Nat
  BY PiecesOfChunk, ChunkMapAssumption DEF MapOK, ChunksOK, ChunkMapTypeOK
<1>2. ASSUME NEW j \in Offsets, slices[j] # 0, j <= x, x < j + slices[j]
      PROVE  j = id
  <2>1. /\ j < id => j + slices[j] <= id
        /\ id < j => id + slices[id] <= j
    BY <1>2 DEF MapOK, ChunksOK, SlicesOK
  <2>2. QED
    BY <1>1, <1>2, <2>1
<1>3. ASSUME NEW v \in Places, parts[v] # Nil, v <= x, x < v + parts[v].size
      PROVE  parts[v].id = id
  <2>1. parts[v].id \in Offsets /\ slices[parts[v].id] # 0
    BY <1>3, PartFields DEF PartsOK
  <2>2. parts[v].id <= x /\ x < parts[v].id + slices[parts[v].id]
    BY <1>3, PartInChunk
  <2>3. QED
    BY <1>2, <2>1, <2>2
<1>4. QED
  BY <1>2, <1>3

\* The parts of a slice are finitely many, and no more than its pieces.
LEMMA PartsOfSlice ==
    ASSUME NEW id \in Offsets
    PROVE  /\ IsFiniteSet(PartsOf(id)) /\ Cardinality(PartsOf(id)) \in Nat
           /\ IsFiniteSet(Places)
           /\ PartsOf(id) \subseteq Places
<1>1. IsFiniteSet(0..FileSize)
  BY PlacesType, FS_Interval
<1>2. IsFiniteSet(Places)
  BY <1>1, PlacesType
<1>3. PartsOf(id) \in SUBSET Places
  BY DEF PartsOf
<1>4. IsFiniteSet(PartsOf(id))
  BY <1>2, <1>3, FS_Subset
<1>5. QED
  BY <1>2, <1>3, <1>4, FS_CardinalityType

\* Steps that leave parts, slices and counters alone.
LEMMA PartsStay ==
    ASSUME PartsOK, AlignedOK, CountersOK, UNCHANGED <<parts, refCnt, slices>>
    PROVE  PartsOK' /\ AlignedOK' /\ CountersOK'
BY DEF PartsOK, AlignedOK, CountersOK, PartsOf, IsCut

\* getMissingChunk gives a slice out: it has one part, with a counter of its own.
LEMMA GetKeepsCreator ==
    ASSUME CreatorOK, NEW p \in Peers, NEW hint \in 1..ChunkSize, NEW r \in Refs, NEW o \in Offsets,
           NEW n \in 1..ChunkSize, GetMissingChunk(p, o, n, hint, r)
    PROVE  CreatorOK'
<1> DEFINE new == [size |-> n, id |-> o, peer |-> p, ref |-> r]
           c == ChunkOf(o)
<1>0. /\ MapOK /\ ChunksOK /\ CreatorTypes /\ PartsOK /\ AlignedOK /\ CountersOK /\ PiecesOK /\ DoneOK
      /\ slices \in [Offsets -> 0..ChunkSize] /\ ChunkSize \in Nat \ {0} /\ Word32 \in Nat
      /\ feed \in [Peers -> Offsets \cup {Nil}] /\ map \in [Chunks -> States]
      /\ ActiveOnly /\ FeedsOK
  BY ChunkMapAssumption DEF CreatorOK, MapOK, ChunksOK, ChunkMapTypeOK
<1>1. PICK q \in Peers : SliceCut(o, n, q)
  BY <1>0, SliceIsCut DEF GetMissingChunk
<1>2. MapOK' /\ slices[o] = 0 /\ SlicesOK'
  BY <1>0, <1>1, CutKeepsMap, CutKeepsChunks DEF MapOK, ChunksOK
<1>3. /\ parts' = [parts EXCEPT ![o] = new] /\ refCnt' = [refCnt EXCEPT ![r] = 1]
      /\ perPeer' = [perPeer EXCEPT ![p] = perPeer[p] + 1] /\ perPeer[p] < MaxPerPeer
      /\ UNCHANGED <<written, saved, verified, forced>> /\ FreeRef(r)
  BY DEF GetMissingChunk
<1>4. new \in Part /\ new # Nil /\ new.size = n /\ new.id = o /\ new.ref = r
  BY FileCreatorAssumption DEF Part
<1>5. /\ slices' = [slices EXCEPT ![o] = n]
      /\ feed' = [feed EXCEPT ![q] = IF o + n = End(c) THEN Nil ELSE o + n]
      /\ o \in Nat /\ n \in Nat \ {0} /\ o + n <= End(c) /\ End(c) \in Nat /\ c \in Chunks
      /\ o \in Places
  BY <1>0, <1>1, PiecesOfChunk, ChunkBounds, PlacesType DEF SliceCut
<1> HIDE DEF new, c
<1>6. /\ parts \in [Places -> Part \cup {Nil}] /\ refCnt \in [Refs -> 0..ChunkSize]
      /\ parts'[o] = new /\ \A v \in Places \ {o} : parts'[v] = parts[v]
      /\ slices'[o] = n /\ \A v \in Offsets \ {o} : slices'[v] = slices[v]
  BY <1>0, <1>3, <1>4, <1>5 DEF CreatorTypes
<1>7. ASSUME NEW v \in Places, parts[v] # Nil
      PROVE  /\ parts[v].id # o /\ parts[v].ref # r
             /\ v < o => v + parts[v].size <= o
             /\ v >= o => o + n <= v
  <2> DEFINE id == parts[v].id
  <2>1. /\ id \in Offsets /\ id \in Nat /\ v \in Nat /\ parts[v].size \in Nat \ {0}
        /\ slices[id] # 0 /\ slices[id] \in Nat
        /\ id <= v /\ v + parts[v].size <= id + slices[id]
    BY <1>0, <1>7, PartFields DEF PartsOK
  <2>2. id # o /\ slices'[id] = slices[id]
    BY <1>2, <1>6, <2>1
  <2>3. parts[v].ref # r
    BY <1>3, <1>7 DEF FreeRef
  <2>4. id < o => id + slices[id] <= o
    BY <1>2, <1>5, <1>6, <2>1, <2>2 DEF SlicesOK
  <2>5. o < id => o + n <= id
    BY <1>2, <1>5, <1>6, <2>1, <2>2 DEF SlicesOK
  <2>6. QED
    BY <1>5, <2>1, <2>2, <2>3, <2>4, <2>5
<1>8. parts[o] = Nil
  BY <1>5, <1>7
<1>9. CreatorTypes'
  <2>1. parts' \in [Places -> Part \cup {Nil}]
    BY <1>3, <1>4, <1>6
  <2>2. refCnt' \in [Refs -> 0..ChunkSize]
    BY <1>0, <1>3, <1>6
  <2>3. perPeer' \in [Peers -> 0 .. Word32 - 1]
    <3>1. /\ perPeer \in [Peers -> 0 .. Word32 - 1]
          /\ MaxPerPeer \in Nat /\ MaxPerPeer < Word32
      BY <1>0, FileCreatorAssumption DEF CreatorTypes
    <3>2. perPeer[p] + 1 \in 0 .. Word32 - 1
      BY <1>0, <1>3, <3>1
    <3>3. QED
      BY <1>3, <3>1, <3>2
  <2>4. QED
    BY <1>0, <1>3, <2>1, <2>2, <2>3 DEF CreatorTypes
<1>10. PartsOK'
  <2>1. ASSUME NEW v \in Places, parts'[v] # Nil
        PROVE  /\ slices'[parts'[v].id] # 0
               /\ parts'[v].id <= v /\ v + parts'[v].size <= parts'[v].id + slices'[parts'[v].id]
    <3>1. CASE v = o
      BY <1>4, <1>5, <1>6, <3>1
    <3>2. CASE v # o
      <4>1. parts'[v] = parts[v] /\ parts[v].id # o /\ parts[v].id \in Offsets
        BY <1>0, <1>6, <1>7, <2>1, <3>2, PartFields
      <4>2. slices'[parts[v].id] = slices[parts[v].id]
        BY <1>6, <4>1
      <4>3. QED
        BY <1>0, <2>1, <4>1, <4>2 DEF PartsOK
    <3>3. QED
      BY <3>1, <3>2
  <2>2. ASSUME NEW v \in Places, NEW u \in Places, parts'[v] # Nil, parts'[u] # Nil
        PROVE  /\ v < u => v + parts'[v].size <= u
               /\ parts'[v].ref = parts'[u].ref <=> parts'[v].id = parts'[u].id
    <3>0. v \in Nat /\ u \in Nat
      BY PlacesType
    <3>1. CASE v = o /\ u = o
      BY <3>0, <3>1
    <3>2. CASE v = o /\ u # o
      BY <1>4, <1>5, <1>6, <1>7, <2>2, <3>0, <3>2
    <3>3. CASE v # o /\ u = o
      BY <1>4, <1>5, <1>6, <1>7, <2>2, <3>0, <3>3
    <3>4. CASE v # o /\ u # o
      BY <1>0, <1>6, <2>2, <3>4 DEF PartsOK
    <3>5. QED
      BY <3>1, <3>2, <3>3, <3>4
  <2>3. QED
    BY <2>1, <2>2 DEF PartsOK
<1>a. AlignedOK'
  <2> SUFFICES ASSUME Blocks = "pending", NEW v \in Places, parts'[v] # Nil
               PROVE  /\ IsCut(parts'[v].id, v)
                      /\ \/ IsCut(parts'[v].id, v + parts'[v].size)
                         \/ v + parts'[v].size = parts'[v].id + slices'[parts'[v].id]
    BY DEF AlignedOK, IsCut
  <2>1. CASE v = o
    <3>1. o = o + 0 * BlockSize /\ 0 \in Nat
      BY <1>5, FileCreatorAssumption
    <3>2. IsCut(o, o)
      BY <3>1 DEF IsCut
    <3>3. QED
      BY <1>4, <1>6, <2>1, <3>2
  <2>2. CASE v # o
    <3>1. parts'[v] = parts[v] /\ parts[v].id # o /\ parts[v].id \in Offsets
      BY <1>0, <1>6, <1>7, <2>2, PartFields
    <3>2. slices'[parts[v].id] = slices[parts[v].id]
      BY <1>6, <3>1
    <3>3. QED
      BY <1>0, <3>1, <3>2 DEF AlignedOK
  <2>3. QED
    BY <2>1, <2>2
<1>11. ASSUME NEW id \in Offsets PROVE PartsOf(id)' = IF id = o THEN {o} ELSE PartsOf(id)
  <2>1. CASE id = o
    <3>1. o \in Places
      BY PlacesType
    <3>2. ASSUME NEW v \in Places PROVE (parts'[v] # Nil /\ parts'[v].id = o) <=> v = o
      BY <1>4, <1>6, <1>7, <3>1
    <3>3. QED
      BY <2>1, <3>1, <3>2 DEF PartsOf
  <2>2. CASE id # o
    BY <1>4, <1>6, <1>8, <2>2 DEF PartsOf
  <2>3. QED
    BY <2>1, <2>2
<1>12. CountersOK'
  <2>1. ASSUME NEW id \in Offsets, slices'[id] # 0 PROVE PartsOf(id)' # {}
    BY <1>0, <1>6, <1>11, <2>1 DEF CountersOK
  <2>2. ASSUME NEW v \in Places, NEW id \in Offsets, parts'[v] # Nil, parts'[v].id = id
        PROVE  refCnt'[parts'[v].ref] = Cardinality(PartsOf(id)')
    <3>1. CASE v = o
      <4>1. PartsOf(id)' = {o} /\ Cardinality({o}) = 1
        BY <1>4, <1>6, <1>11, <2>2, <3>1, FS_Singleton
      <4>2. refCnt'[parts'[v].ref] = 1
        BY <1>3, <1>4, <1>6, <3>1
      <4>3. QED
        BY <4>1, <4>2
    <3>2. CASE v # o
      <4>1. /\ parts'[v] = parts[v] /\ parts[v].id = id /\ id # o /\ parts[v].ref # r
            /\ parts[v].ref \in Refs
        BY <1>0, <1>6, <1>7, <2>2, <3>2, PartFields
      <4>2. PartsOf(id)' = PartsOf(id)
        BY <1>11, <4>1
      <4>3. refCnt'[parts[v].ref] = refCnt[parts[v].ref]
        BY <1>3, <1>6, <4>1
      <4>4. QED
        BY <1>0, <2>2, <4>1, <4>2, <4>3 DEF CountersOK
    <3>3. QED
      BY <3>1, <3>2
  <2>3. QED
    BY <2>1, <2>2 DEF CountersOK
<1>13. /\ \A d \in Chunks \ {c} : map'[d] = map[d]
       /\ \A d \in Chunks : map'[d] \in {"checking", "done"} => map'[d] = map[d]
       /\ \/ feed[q] = o /\ map' = map
          \/ feed[q] = Nil /\ o = Start(c)
  BY <1>0, <1>1, <1>5 DEF SliceCut, c
<1>14. PiecesOK'
  <2> SUFFICES ASSUME NEW x \in Offsets, map'[ChunkOf(x)] = "active", x \notin written'
               PROVE  \/ \E s \in Peers : feed'[s] # Nil /\ ChunkOf(feed'[s]) = ChunkOf(x) /\ feed'[s] <= x
                      \/ \E v \in Places : parts'[v] # Nil /\ v <= x /\ x < v + parts'[v].size
    BY DEF PiecesOK
  <2>0. x \notin written /\ x \in Nat /\ ChunkOf(x) \in Chunks
    BY <1>3, PiecesOfChunk
  <2>1. ASSUME NEW v \in Places, parts[v] # Nil, v <= x, x < v + parts[v].size
        PROVE  \E w \in Places : parts'[w] # Nil /\ w <= x /\ x < w + parts'[w].size
    BY <1>6, <1>8, <2>1
  <2>2. CASE ChunkOf(x) # c
    <3>1. map[ChunkOf(x)] = "active"
      BY <1>13, <2>0, <2>2
    <3>2. ASSUME NEW s \in Peers, feed[s] # Nil, ChunkOf(feed[s]) = ChunkOf(x), feed[s] <= x
          PROVE  feed'[s] = feed[s]
      <4>1. s # q
        BY <1>13, <2>2, <3>2 DEF c
      <4>2. QED
        BY <1>0, <1>5, <4>1
    <3>3. QED
      BY <1>0, <2>0, <2>1, <3>1, <3>2 DEF PiecesOK
  <2>3. CASE ChunkOf(x) = c
    <3>1. x < End(c) /\ Start(c) <= x
      BY <2>3, ChunksInOrder
    <3>2. ASSUME o <= x
          PROVE  \/ \E s \in Peers : feed'[s] # Nil /\ ChunkOf(feed'[s]) = c /\ feed'[s] <= x
                 \/ \E v \in Places : parts'[v] # Nil /\ v <= x /\ x < v + parts'[v].size
      <4>1. CASE x < o + n
        <5>1. o \in Places /\ parts'[o].size = n /\ parts'[o] # Nil
          BY <1>4, <1>6, PlacesType
        <5>2. QED
          BY <3>2, <4>1, <5>1
      <4>2. CASE ~(x < o + n)
        <5>1. o + n <= x /\ o + n < End(c) /\ o + n \in Nat /\ o <= o + n
          BY <1>5, <2>0, <3>1, <4>2
        <5>2. ChunkOf(o + n) = c
          BY <1>5, <5>1, ChunksInOrder DEF c
        <5>3. feed'[q] = o + n /\ o + n # Nil
          BY <1>0, <1>5, <5>1, ChunkMapAssumption
        <5>4. QED
          BY <5>1, <5>2, <5>3
      <4>3. QED
        BY <4>1, <4>2
    <3>3. CASE feed[q] = Nil /\ o = Start(c)
      BY <2>3, <3>1, <3>2, <3>3
    <3>4. CASE feed[q] = o /\ map' = map
      <4>1. \/ \E s \in Peers : feed[s] # Nil /\ ChunkOf(feed[s]) = ChunkOf(x) /\ feed[s] <= x
            \/ \E v \in Places : parts[v] # Nil /\ v <= x /\ x < v + parts[v].size
        BY <1>0, <2>0, <3>4 DEF PiecesOK
      <4>2. ASSUME NEW s \in Peers, feed[s] # Nil, ChunkOf(feed[s]) = ChunkOf(x), feed[s] <= x
            PROVE  o <= x
        <5>1. o # Nil
          BY <1>5, ChunkMapAssumption
        <5>2. s = q
          BY <1>0, <2>3, <3>4, <4>2, <5>1 DEF FeedsOK, c
        <5>3. QED
          BY <3>4, <4>2, <5>2
      <4>3. QED
        BY <2>1, <2>3, <3>2, <4>1, <4>2
    <3>5. QED
      BY <1>13, <3>3, <3>4
  <2>4. QED
    BY <2>2, <2>3
<1>15. DoneOK'
  BY <1>0, <1>3, <1>13 DEF DoneOK
<1>16. QED
  BY <1>2, <1>9, <1>10, <1>a, <1>12, <1>14, <1>15 DEF CreatorOK

(* locked_notifyReceived takes a block of n pieces at o out of the part at  *)
(* u.  Every part that is left lies in an old one of the same slice, off    *)
(* the block; the parts are still in order, and no other piece is lost.     *)
LEMMA SplitParts ==
    ASSUME MapOK, CreatorTypes, PartsOK, NEW o \in Offsets, NEW n \in Nat \ {0}, NEW u \in Places,
           parts[u] # Nil, u <= o, o + n <= u + parts[u].size, parts' = Split(u, o, n)
    PROVE  /\ parts' \in [Places -> Part \cup {Nil}]
           /\ \A v \in Places : parts'[v] # Nil =>
                \E w \in Places :
                  /\ parts[w] # Nil /\ w <= v /\ v + parts'[v].size <= w + parts[w].size
                  /\ parts'[v].id = parts[w].id /\ parts'[v].ref = parts[w].ref
                  /\ parts'[v].id # parts[u].id => w = v
           /\ \A v, w \in Places : parts'[v] # Nil /\ parts'[w] # Nil /\ v < w =>
                v + parts'[v].size <= w
           /\ \A v \in Places : \A x \in Nat :
                parts[v] # Nil /\ v <= x /\ x < v + parts[v].size /\ ~(o <= x /\ x < o + n) =>
                  \E w \in Places : parts'[w] # Nil /\ w <= x /\ x < w + parts'[w].size
           /\ \A id \in Offsets : id # parts[u].id => PartsOf(id)' = PartsOf(id)
           /\ u + parts[u].size = o + n =>
                \A id \in Offsets : id = parts[u].id => PartsOf(id)' = PartsOf(id) \ {o}
           /\ u + parts[u].size # o + n =>
                \A id \in Offsets : id = parts[u].id => PartsOf(id)' = (PartsOf(id) \ {o}) \cup {o + n}
           /\ \A v \in Places : parts'[v] # Nil =>
                \/ parts'[v] = parts[v]
                \/ v = u /\ u < o /\ v + parts'[v].size = o /\ parts'[v].id = parts[u].id
                \/ parts'[v].id = parts[u].id /\ v = o + n /\ o + n < u + parts[u].size /\ v + parts'[v].size = u + parts[u].size
           /\ u < o => parts[o] = Nil
           /\ u + parts[u].size # o + n => parts[o + n] = Nil
<1> DEFINE P == parts[u]
           e == u + P.size
           head == [P EXCEPT !.size = o - u]
           tail == [P EXCEPT !.size = e - (o + n)]
<1>0. /\ o \in Nat /\ u \in Nat /\ e \in Nat /\ ChunkSize \in Nat /\ n \in Nat \ {0}
      /\ parts \in [Places -> Part \cup {Nil}]
      /\ P \in Part /\ P.size \in 1..ChunkSize /\ P.id \in Offsets
      /\ Nil \notin Part /\ o \in Places /\ o + n <= e
  <2>1. o \in Nat /\ o \in Places /\ u \in Nat /\ ChunkSize \in Nat /\ Nil \notin Part
    BY PiecesOfChunk, PlacesType, ChunkMapAssumption, FileCreatorAssumption
  <2>2. parts \in [Places -> Part \cup {Nil}]
    BY DEF CreatorTypes
  <2>3. P \in Part
    BY <2>2
  <2>4. P.size \in 1..ChunkSize /\ P.id \in Offsets
    BY <2>3, PartFields
  <2> HIDE DEF P
  <2>5. e \in Nat /\ n \in Nat \ {0}
    BY <2>1, <2>4
  <2>6. o + n <= e
    BY DEF P
  <2>7. QED
    BY <2>1, <2>2, <2>3, <2>4, <2>5, <2>6
<1>r. Rest(u, o, n) = e - (o + n) /\ e - (o + n) \in Nat
  <2> DEFINE x == P.size - (o - u) - n
  <2>1. x \in Nat /\ x = e - (o + n) /\ x < Word64 /\ Word64 \in Nat
    BY <1>0, ChunkMapAssumption
  <2> HIDE DEF x
  <2>2. x % Word64 = x
    BY <2>1, SmallRemainder
  <2>3. Rest(u, o, n) = x % Word64
    BY DEF Rest, x
  <2>4. QED
    BY <2>1, <2>2, <2>3
<1>s. Rest(u, o, n) # 0 <=> o + n < e
  BY <1>0, <1>r
<1>1. \A v \in Places :
        parts'[v] = IF v = o + n /\ o + n < e THEN tail
                    ELSE IF v = u /\ u < o THEN head
                    ELSE IF v = o THEN Nil ELSE parts[v]
  BY <1>r, <1>s DEF Split
<1>2. ASSUME u < o
      PROVE  head \in Part /\ head # Nil /\ head.size = o - u /\ head.id = P.id /\ head.ref = P.ref
             /\ parts[o] = Nil
  <2>1. o - u \in 1..ChunkSize
    BY <1>0, <1>2
  <2>2. head \in Part /\ head.size = o - u /\ head.id = P.id /\ head.ref = P.ref
    BY <1>0, <2>1 DEF Part
  <2>3. parts[o] = Nil
    BY <1>0, <1>2 DEF PartsOK
  <2>4. QED
    BY <1>0, <2>2, <2>3
<1>3. ASSUME o + n < e
      PROVE  /\ tail \in Part /\ tail # Nil /\ tail.size = e - (o + n) /\ tail.id = P.id /\ tail.ref = P.ref
             /\ o + n \in Places /\ parts[o + n] = Nil /\ parts'[o + n] = tail
  <2>1. e - (o + n) \in 1..ChunkSize
    BY <1>0, <1>3
  <2>2. tail \in Part /\ tail.size = e - (o + n) /\ tail.id = P.id /\ tail.ref = P.ref
    BY <1>0, <2>1 DEF Part
  <2>3. o + n \in Nat /\ u <= o + n /\ u < o + n
    BY <1>0
  <2>4. o + n \in Places
    BY <1>3, <2>3, PartInChunk, PlacesType
  <2>5. parts[o + n] = Nil
    BY <1>0, <1>3, <2>3, <2>4 DEF PartsOK
  <2>6. QED
    BY <1>0, <1>1, <1>3, <2>2, <2>4, <2>5
<1>a. u # o + n \/ ~(u < o)
  BY <1>0
<1>b. o # o + n
  BY <1>0
<1>4. u < o => parts'[u] = head /\ parts'[o] = Nil
  <2>1. u < o => o # u
    BY <1>0
  <2> HIDE DEF head, e, P
  <2>2. QED
    BY <1>0, <1>1, <1>a, <1>b, <2>1
<1>5. u = o => parts'[o] = Nil
  <2>1. u = o => ~(u < o)
    BY <1>0
  <2> HIDE DEF head, e, P
  <2>2. QED
    BY <1>1, <1>b, <2>1
<1>6. \A v \in Places : v # u /\ v # o /\ (o + n < e => v # o + n) => parts'[v] = parts[v]
  BY <1>0, <1>1
<1>7. ASSUME NEW v \in Places, parts'[v] # Nil
      PROVE  \/ v = u /\ u < o /\ parts'[v] = head
             \/ v = o + n /\ o + n < e /\ parts'[v] = tail
             \/ v # u /\ v # o /\ (o + n < e => v # o + n) /\ parts'[v] = parts[v]
  BY <1>0, <1>3, <1>4, <1>5, <1>6, <1>7
<1> HIDE DEF head, tail
<1>8. parts' \in [Places -> Part \cup {Nil}]
  <2>1. \A v \in Places : parts'[v] \in Part \cup {Nil}
    BY <1>0, <1>2, <1>3, <1>7
  <2>2. DOMAIN parts' = Places /\ parts' = [v \in Places |-> parts'[v]]
    BY DEF Split
  <2>3. QED
    BY <2>1, <2>2
<1>9. ASSUME NEW v \in Places, parts'[v] # Nil
      PROVE  \E w \in Places :
               /\ parts[w] # Nil /\ w <= v /\ v + parts'[v].size <= w + parts[w].size
               /\ parts'[v].id = parts[w].id /\ parts'[v].ref = parts[w].ref
               /\ parts'[v].id # parts[u].id => w = v
  <2>1. CASE v = u /\ u < o /\ parts'[v] = head
    BY <1>0, <1>2, <2>1
  <2>2. CASE v = o + n /\ o + n < e /\ parts'[v] = tail
    BY <1>0, <1>3, <2>2
  <2>3. CASE parts'[v] = parts[v]
    <3>1. v + parts[v].size \in Nat /\ v \in Nat
      BY <1>9, <2>3, PartFields
    <3>2. QED
      BY <1>9, <2>3, <3>1
  <2>4. QED
    BY <1>7, <1>9, <2>1, <2>2, <2>3
<1>10. ASSUME NEW v \in Places, NEW w \in Places, parts'[v] # Nil, parts'[w] # Nil, v < w
       PROVE  v + parts'[v].size <= w
  <2>0. /\ v \in Nat /\ w \in Nat
        /\ parts[v] # Nil => parts[v].size \in Nat \ {0}
        /\ parts[w] # Nil => parts[w].size \in Nat \ {0}
    BY PlacesType, PartFields
  <2>1. \A a, b \in Places : parts[a] # Nil /\ parts[b] # Nil /\ a < b => a + parts[a].size <= b
    BY DEF PartsOK
  <2>2. CASE v = u /\ u < o /\ parts'[v] = head
    <3>1. CASE w = o + n
      BY <1>0, <1>2, <2>2, <3>1
    <3>2. CASE w # o + n
      <4>1. parts'[w] = parts[w]
        <5>1. w # u
          BY <1>10, <2>0, <2>2
        <5>2. QED
          BY <1>7, <1>10, <3>2, <5>1
      <4>2. e <= w
        BY <1>10, <2>1, <2>2, <4>1
      <4>3. QED
        BY <1>0, <1>2, <2>0, <2>2, <4>2
    <3>3. QED
      BY <3>1, <3>2
  <2>3. CASE v = o + n /\ o + n < e /\ parts'[v] = tail
    <3>1. parts'[w] = parts[w] /\ u < w
      BY <1>0, <1>7, <1>10, <2>0, <2>3
    <3>2. e <= w
      BY <1>10, <2>1, <3>1
    <3>3. QED
      BY <1>0, <1>3, <2>0, <2>3, <3>2
  <2>4. CASE parts'[v] = parts[v] /\ v # u
    <3>1. CASE parts'[w] = parts[w]
      BY <1>10, <2>1, <2>4, <3>1
    <3>2. CASE w = u
      BY <1>10, <2>1, <2>4, <3>2
    <3>3. CASE w = o + n /\ o + n < e
      <4>1. v < u
        <5>1. ~(u < v)
          BY <1>0, <1>10, <2>0, <2>1, <2>4, <3>3
        <5>2. QED
          BY <1>0, <2>0, <2>4, <5>1
      <4>2. v + parts[v].size <= u
        BY <1>10, <2>1, <2>4, <4>1
      <4>3. QED
        BY <1>0, <1>10, <2>0, <2>4, <3>3, <4>2
    <3>4. QED
      BY <1>7, <1>10, <3>1, <3>2, <3>3
  <2>5. QED
    BY <1>7, <1>10, <2>2, <2>3, <2>4
<1>11. ASSUME NEW v \in Places, NEW x \in Nat, parts[v] # Nil, v <= x, x < v + parts[v].size, ~(o <= x /\ x < o + n)
       PROVE  \E w \in Places : parts'[w] # Nil /\ w <= x /\ x < w + parts'[w].size
  <2>1. CASE v # u
    <3>1. v # o
      BY <1>0, <1>2, <1>11, <2>1
    <3>2. parts'[v] = parts[v]
      BY <1>3, <1>6, <1>11, <2>1, <3>1
    <3>3. QED
      BY <1>11, <3>2
  <2>2. CASE v = u /\ x < o
    BY <1>0, <1>2, <1>4, <1>11, <2>2
  <2>3. CASE v = u /\ x >= o + n
    <3>1. o + n < e /\ o + n <= x
      BY <1>0, <1>11, <2>3
    <3>2. parts'[o + n] = tail /\ x < o + n + tail.size
      BY <1>0, <1>3, <1>11, <2>3, <3>1
    <3>3. QED
      BY <1>3, <3>1, <3>2
  <2>4. x < o \/ x >= o + n
    BY <1>0, <1>11
  <2>5. QED
    BY <2>1, <2>2, <2>3, <2>4
<1>12. ASSUME NEW id \in Offsets, id # P.id
       PROVE  PartsOf(id)' = PartsOf(id)
  <2>1. ASSUME NEW v \in Places
        PROVE  parts'[v] # Nil /\ parts'[v].id = id <=> parts[v] # Nil /\ parts[v].id = id
    <3>1. CASE v = u
      BY <1>0, <1>2, <1>4, <1>5, <1>12, <3>1
    <3>2. CASE v = o /\ u < o
      BY <1>2, <1>4, <3>2
    <3>3. CASE v = o + n /\ o + n < e
      BY <1>3, <1>12, <3>3
    <3>4. CASE v # u /\ v # o /\ (o + n < e => v # o + n)
      BY <1>6, <3>4
    <3>5. QED
      BY <1>0, <3>1, <3>2, <3>3, <3>4
  <2>2. QED
    BY <2>1 DEF PartsOf
<1>13. ASSUME NEW id \in Offsets, id = P.id
       PROVE  PartsOf(id)' = (PartsOf(id) \ {o}) \cup (IF e = o + n THEN {} ELSE {o + n})
  <2>0. e # o + n => o + n < e
    BY <1>0
  <2>1. ASSUME NEW v \in Places
        PROVE  parts'[v] # Nil /\ parts'[v].id = id
               <=> (parts[v] # Nil /\ parts[v].id = id /\ v # o) \/ (e # o + n /\ v = o + n)
    <3>1. CASE v = u /\ u < o
      BY <1>0, <1>2, <1>4, <1>13, <3>1
    <3>2. CASE v = o
      BY <1>0, <1>4, <1>5, <3>2
    <3>3. CASE v = o + n /\ o + n < e
      BY <1>0, <1>3, <1>13, <3>3
    <3>4. CASE v # u /\ v # o /\ (o + n < e => v # o + n)
      BY <1>0, <1>6, <2>0, <3>4
    <3>5. QED
      BY <1>0, <3>1, <3>2, <3>3, <3>4
  <2>2. e # o + n => o + n \in Places
    BY <1>3, <2>0
  <2>3. QED
    BY <2>1, <2>2 DEF PartsOf
<1>14. e # o + n => parts[o + n] = Nil
  BY <1>0, <1>3
<1>p. ASSUME NEW v \in Places, parts'[v] # Nil
      PROVE  \/ parts'[v] = parts[v]
             \/ v = u /\ u < o /\ v + parts'[v].size = o /\ parts'[v].id = P.id
             \/ parts'[v].id = P.id /\ v = o + n /\ o + n < e /\ v + parts'[v].size = e
  <2>1. CASE v = u /\ u < o /\ parts'[v] = head
    BY <1>0, <1>2, <2>1
  <2>2. CASE v = o + n /\ o + n < e /\ parts'[v] = tail
    BY <1>0, <1>3, <2>2
  <2>3. QED
    BY <1>7, <1>p, <2>1, <2>2
<1>15. QED
  BY <1>2, <1>p, <1>8, <1>9, <1>10, <1>11, <1>12, <1>13, <1>14

(* The blocks of pending slices do not reach over the part at their offset, *)
(* which is of the same slice and consists of whole blocks.                 *)
LEMMA PendingBlockFits ==
    ASSUME CreatorOK, Blocks = "pending", NEW o \in Offsets, NEW n \in 1..BlockSize, PendingBlock(o, n)
    PROVE  /\ Fits(o, n)
           /\ \E id \in Offsets :
                /\ slices[id] # 0 /\ id <= o /\ o + n <= id + slices[id]
                /\ IsCut(id, o)
                /\ IsCut(id, o + n) \/ o + n = id + slices[id]
<1>0. /\ MapOK /\ CreatorTypes /\ PartsOK /\ AlignedOK /\ BlockSize \in Nat \ {0}
      /\ o \in Nat /\ n \in Nat \ {0} /\ \A j \in Offsets : slices[j] \in Nat /\ j \in Nat
  BY FileCreatorAssumption, ChunkMapAssumption, PiecesOfChunk
     DEF CreatorOK, MapOK, ChunksOK, ChunkMapTypeOK
<1>1. PICK id \in Offsets : slices[id] # 0 /\ <<o, n>> \in BlocksOf(id, slices[id])
  BY DEF PendingBlock
<1> DEFINE s == slices[id]
<1>2. PICK k \in 0 .. (s - 1) \div BlockSize :
        o = id + k * BlockSize /\ n = Min({BlockSize, s - k * BlockSize})
  BY <1>1 DEF BlocksOf
<1>3. s \in Nat \ {0} /\ id \in Nat
  BY <1>0, <1>1
<1>4. k \in Nat /\ k * BlockSize \in Nat /\ k * BlockSize <= s - 1
  <2> DEFINE q == (s - 1) \div BlockSize
  <2>1. q \in Nat /\ q * BlockSize <= s - 1
    BY <1>0, <1>3
  <2>2. k \in Nat /\ k <= q
    BY <1>2, <2>1
  <2> HIDE DEF q
  <2>3. k * BlockSize \in Nat /\ k * BlockSize <= q * BlockSize
    BY <1>0, <2>1, <2>2
  <2> DEFINE x == k * BlockSize
             y == q * BlockSize
  <2>4. x \in Nat /\ x <= y /\ y <= s - 1 /\ s \in Nat /\ y \in Nat
    BY <1>0, <1>3, <2>1, <2>3
  <2> HIDE DEF x, y, s
  <2>5. x <= s - 1
    BY <2>4
  <2>6. QED
    BY <2>2, <2>4, <2>5 DEF x
<1> DEFINE m == k * BlockSize
<1> HIDE DEF s
<1>5. m \in Nat /\ m <= s - 1 /\ o = id + m /\ n = Min({BlockSize, s - m})
  BY <1>2, <1>4
<1>6. (k + 1) * BlockSize = m + BlockSize
  BY <1>0, <1>4
<1>7. \A j \in Nat : j * BlockSize \in Nat /\ (j * BlockSize > m => j * BlockSize >= m + BlockSize)
  <2> SUFFICES ASSUME NEW j \in Nat
               PROVE  j * BlockSize \in Nat /\ (j * BlockSize > m => j * BlockSize >= m + BlockSize)
    OBVIOUS
  <2>1. j * BlockSize \in Nat
    BY <1>0
  <2>2. j <= k => j * BlockSize <= k * BlockSize
    BY <1>0, <1>4
  <2>3. j >= k + 1 => j * BlockSize >= (k + 1) * BlockSize
    BY <1>0, <1>4
  <2> HIDE DEF m
  <2>4. CASE j <= k
    BY <1>5, <2>1, <2>2, <2>4 DEF m
  <2>5. CASE j >= k + 1
    BY <1>6, <2>1, <2>3, <2>5
  <2>6. QED
    BY <1>4, <2>4, <2>5
<1>8. IsCut(id, o) /\ IsCut(id, id + m + BlockSize)
  <2>1. id + (k + 1) * BlockSize = id + m + BlockSize
    BY <1>0, <1>3, <1>5, <1>6
  <2>2. k \in Nat /\ k + 1 \in Nat
    BY <1>4
  <2>3. QED
    BY <1>5, <2>1, <2>2 DEF IsCut
<1> HIDE DEF m
<1>9. n <= BlockSize /\ n <= s - m /\ (n = BlockSize \/ n = s - m)
  <2>1. {BlockSize, s - m} \in SUBSET Nat /\ {BlockSize, s - m} # {}
    BY <1>0, <1>3, <1>5
  <2>2. n \in {BlockSize, s - m} /\ \A y \in {BlockSize, s - m} : n <= y
    BY <1>5, <2>1, MinIsLeast
  <2>3. QED
    BY <2>2
<1>10. id <= o /\ o < id + s /\ o + n <= id + s
  BY <1>0, <1>3, <1>5, <1>9
<1>11. IsCut(id, o + n) \/ o + n = id + s
  <2>1. n = BlockSize => o + n = id + m + BlockSize
    BY <1>0, <1>3, <1>5
  <2>2. n = s - m => o + n = id + s
    BY <1>0, <1>3, <1>5
  <2>3. QED
    BY <1>8, <1>9, <2>1, <2>2
<1>12. Fits(o, n)
  <2> SUFFICES ASSUME parts[o] # Nil PROVE n <= parts[o].size
    BY DEF Fits
  <2>1. o \in Places /\ parts[o].size \in Nat \ {0}
    BY <1>0, PlacesType, PartFields
  <2>2. parts[o].id = id
    BY <1>0, <1>1, <1>10, <2>1, OneSlice DEF s
  <2>3. CASE o + parts[o].size = id + s
    BY <1>0, <1>3, <1>5, <1>9, <2>1, <2>3
  <2>4. CASE IsCut(id, o + parts[o].size)
    <3>1. PICK j \in Nat : o + parts[o].size = id + j * BlockSize
      BY <2>4 DEF IsCut
    <3>2. j * BlockSize \in Nat /\ (j * BlockSize > m => j * BlockSize >= m + BlockSize)
      BY <1>7
    <3> DEFINE y == j * BlockSize
    <3>3. /\ o + parts[o].size = id + y /\ y \in Nat
          /\ y > m => y >= m + BlockSize
      BY <3>1, <3>2
    <3> HIDE DEF y
    <3>4. QED
      BY <1>0, <1>3, <1>5, <1>9, <2>1, <3>3
  <2>5. QED
    BY <1>0, <2>1, <2>2, <2>3, <2>4 DEF AlignedOK, s
<1>13. QED
  BY <1>1, <1>8, <1>10, <1>11, <1>12 DEF s

(* A block arrives that a part waits for: the counter of the slice follows  *)
(* the number of its parts, and the chunk map hears of the slice when the   *)
(* last one is gone.                                                        *)
LEMMA TakeOutKeepsCreator ==
    ASSUME CreatorOK, Blocks # "late", NEW o \in Offsets, NEW n \in 1..BlockSize,
           AddFileData(o, n), Holding(o, n) # {}
    PROVE  CreatorOK'
<1> DEFINE u == Min(Holding(o, n))
           id == parts[u].id
           ref == parts[u].ref
           last == u + parts[u].size = o + n
           cnt == refCnt[ref] + (IF u < o THEN 1 ELSE 0) - (IF last THEN 1 ELSE 0)
<1>0. /\ MapOK /\ ChunksOK /\ CreatorTypes /\ PartsOK /\ AlignedOK /\ CountersOK /\ PiecesOK /\ DoneOK
      /\ slices \in [Offsets -> 0..ChunkSize] /\ ChunkSize \in Nat \ {0} /\ Word32 \in Nat \ {0}
      /\ refCnt \in [Refs -> 0..ChunkSize] /\ perPeer \in [Peers -> 0 .. Word32 - 1]
      /\ o \in Nat /\ o \in Places /\ n \in Nat \ {0} /\ BlockSize \in Nat \ {0} /\ o + n <= FileSize
      /\ FileSize \in Nat
  <2>1. MapOK /\ ChunksOK /\ CreatorTypes /\ PartsOK /\ AlignedOK /\ CountersOK /\ PiecesOK /\ DoneOK
    BY DEF CreatorOK, MapOK
  <2>2. slices \in [Offsets -> 0..ChunkSize]
    BY <2>1 DEF MapOK, ChunksOK, ChunkMapTypeOK
  <2>3. refCnt \in [Refs -> 0..ChunkSize] /\ perPeer \in [Peers -> 0 .. Word32 - 1]
    BY <2>1 DEF CreatorTypes
  <2>4. o + n <= FileSize
    BY DEF AddFileData, Arrives
  <2>5. o \in Nat /\ o \in Places
    BY PiecesOfChunk, PlacesType
  <2>6. ChunkSize \in Nat \ {0} /\ Word32 \in Nat \ {0} /\ FileSize \in Nat /\ BlockSize \in Nat \ {0}
    BY ChunkMapAssumption, FileCreatorAssumption
  <2>7. n \in Nat \ {0}
    BY <2>6
  <2>8. QED
    BY <2>1, <2>2, <2>3, <2>4, <2>5, <2>6, <2>7
<1>b. \A x \in Offsets : x \in Nat
  BY PiecesOfChunk
<1>c. Fits(o, n)
  <2>1. Blocks = "fitting" \/ (Blocks = "pending" /\ PendingBlock(o, n))
    BY FileCreatorAssumption DEF AddFileData, Arrives
  <2>2. QED
    BY <2>1, PendingBlockFits DEF AddFileData, Arrives
<1>1. u \in Holding(o, n)
  <2>1. Holding(o, n) \in SUBSET Nat
    BY <1>0, PlacesType DEF Holding
  <2>2. QED
    BY <2>1, MinIsLeast
<1>d. /\ written' = written \cup (o .. o + n - 1) /\ TakeOut(u, o, n)
      /\ forced' = {d \in forced : map'[d] = map[d]} /\ UNCHANGED <<saved, verified>>
  BY DEF AddFileData
<1> HIDE DEF u
<1>3. u \in Places /\ parts[u] # Nil /\ u \in Nat
  BY <1>0, <1>1, PlacesType DEF Holding
<1>4. /\ parts[u].size \in Nat \ {0} /\ id \in Offsets /\ id \in Nat /\ ref \in Refs
      /\ parts[u].peer \in Peers /\ refCnt[ref] = Cardinality(PartsOf(id))
      /\ slices[id] # 0 /\ slices[id] \in 1..ChunkSize
      /\ id <= u /\ u + parts[u].size <= id + slices[id]
  BY <1>0, <1>3, PartFields DEF CountersOK, PartsOK
<1>5. u <= o /\ o + n <= u + parts[u].size
  <2>1. CASE parts[o] # Nil
    BY <1>0, <1>1, <1>c, <1>4, <2>1 DEF Holding, Fits
  <2>2. CASE parts[o] = Nil
    <3> DEFINE e == u + parts[u].size
    <3>1. u < o /\ e % Word64 >= o + n
      BY <1>1, <2>2 DEF Holding
    <3>2. e \in Nat /\ e < Word64 /\ Word64 \in Nat
      <4>1. id + slices[id] <= End(ChunkOf(id)) /\ End(ChunkOf(id)) \in Nat /\ End(ChunkOf(id)) <= FileSize
        BY <1>0, <1>4, PiecesOfChunk, ChunkBounds DEF ChunksOK, SlicesOK
      <4>2. QED
        BY <1>0, <1>3, <1>4, <4>1, ChunkMapAssumption
    <3> HIDE DEF e
    <3>3. e % Word64 = e
      BY <3>2, SmallRemainder
    <3>4. QED
      BY <1>0, <1>3, <3>1, <3>3 DEF e
  <2>3. QED
    BY <2>1, <2>2
<1>e. Rest(u, o, n) = 0 <=> last
  <2> DEFINE x == parts[u].size - (o - u) - n
  <2>1. x \in Nat /\ x = u + parts[u].size - (o + n) /\ x < Word64 /\ Word64 \in Nat
    <3>1. parts[u].size <= ChunkSize
      BY <1>0, <1>3, PartFields
    <3>2. QED
      BY <1>0, <1>3, <1>4, <1>5, <3>1, ChunkMapAssumption
  <2>2. x = 0 <=> last
    BY <1>0, <1>3, <1>4
  <2> HIDE DEF x, last
  <2>3. x % Word64 = x
    BY <2>1, SmallRemainder
  <2>4. QED
    BY <2>2, <2>3 DEF Rest, x
<1>2. /\ parts' = Split(u, o, n)
      /\ refCnt' = [refCnt EXCEPT ![ref] = cnt]
      /\ \/ /\ last /\ cnt = 0 /\ DataReceived(id)
            /\ perPeer' = [perPeer EXCEPT ![parts[u].peer] = (perPeer[parts[u].peer] - 1) % Word32]
         \/ ~(last /\ cnt = 0) /\ UNCHANGED <<chunkVars, perPeer>>
  BY <1>d, <1>e DEF TakeOut
<1>6. /\ parts' \in [Places -> Part \cup {Nil}]
      /\ \A v \in Places : parts'[v] # Nil =>
           \E w \in Places :
             /\ parts[w] # Nil /\ w <= v /\ v + parts'[v].size <= w + parts[w].size
             /\ parts'[v].id = parts[w].id /\ parts'[v].ref = parts[w].ref
             /\ parts'[v].id # parts[u].id => w = v
      /\ \A v, w \in Places : parts'[v] # Nil /\ parts'[w] # Nil /\ v < w =>
           v + parts'[v].size <= w
      /\ \A v \in Places : \A x \in Nat :
           parts[v] # Nil /\ v <= x /\ x < v + parts[v].size /\ ~(o <= x /\ x < o + n) =>
             \E w \in Places : parts'[w] # Nil /\ w <= x /\ x < w + parts'[w].size
      /\ \A j \in Offsets : j # id => PartsOf(j)' = PartsOf(j)
      /\ u < o => parts[o] = Nil
      /\ ~last => parts[o + n] = Nil
  BY <1>0, <1>2, <1>3, <1>5, SplitParts
<1>7. \A j \in Offsets : j = id => PartsOf(j)' = (PartsOf(j) \ {o}) \cup (IF last THEN {} ELSE {o + n})
  <2>1. last => \A j \in Offsets : j = id => PartsOf(j)' = PartsOf(j) \ {o}
    BY <1>0, <1>2, <1>3, <1>5, SplitParts
  <2>2. ~last => \A j \in Offsets : j = id => PartsOf(j)' = (PartsOf(j) \ {o}) \cup {o + n}
    BY <1>0, <1>2, <1>3, <1>5, SplitParts
  <2> HIDE DEF last, id
  <2>3. QED
    BY <2>1, <2>2
<1>q. \A v \in Places : parts'[v] # Nil =>
        \/ parts'[v] = parts[v]
        \/ v = u /\ u < o /\ v + parts'[v].size = o /\ parts'[v].id = parts[u].id
        \/ parts'[v].id = parts[u].id /\ v = o + n /\ o + n < u + parts[u].size /\ v + parts'[v].size = u + parts[u].size
  BY <1>0, <1>2, <1>3, <1>5, SplitParts
<1>8. cnt = Cardinality((PartsOf(id) \ {o}) \cup (IF last THEN {} ELSE {o + n}))
  <2> DEFINE S == PartsOf(id)
             D == IF u < o THEN {} ELSE {o}
             T == IF last THEN {} ELSE {o + n}
  <2>1. IsFiniteSet(S) /\ Cardinality(S) \in Nat
    BY <1>4, PartsOfSlice
  <2>2. S \ {o} = S \ D
    BY <1>6 DEF PartsOf
  <2>3. D \in SUBSET S /\ Cardinality(D) = IF u < o THEN 0 ELSE 1
    <3>1. u < o \/ u = o
      BY <1>0, <1>3, <1>5
    <3>2. u \in S
      BY <1>3 DEF PartsOf
    <3>3. D \in SUBSET S
      BY <3>1, <3>2
    <3>4. QED
      BY <3>3, FS_EmptySet, FS_Singleton
  <2>4. (S \ D) \cap T = {}
    BY <1>6 DEF PartsOf
  <2>5. IsFiniteSet(T) /\ Cardinality(T) = IF last THEN 0 ELSE 1
    BY FS_EmptySet, FS_Singleton
  <2> HIDE DEF S, D, T
  <2>6. IsFiniteSet(S \ D) /\ Cardinality(S \ D) = Cardinality(S) - Cardinality(D)
    BY <2>1, <2>3, Remainder
  <2>7. Cardinality((S \ D) \cup T) = Cardinality(S \ D) + Cardinality(T)
    BY <2>4, <2>5, <2>6, DisjointUnion
  <2>8. Cardinality((S \ D) \cup T) = Cardinality(S) - (IF u < o THEN 0 ELSE 1) + (IF last THEN 0 ELSE 1)
    BY <2>3, <2>5, <2>6, <2>7
  <2>9. Cardinality((S \ D) \cup T) = cnt
    BY <1>4, <2>1, <2>8 DEF S
  <2>10. QED
    BY <2>2, <2>9 DEF S, T
<1> HIDE DEF id, ref, last, cnt
<1>9. \A j \in Offsets : j = id => cnt = Cardinality(PartsOf(j)')
  BY <1>7, <1>8
<1>10. \A j \in Offsets : j = id => PartsOf(j)' \subseteq j .. j + slices[j] - 1
  <2> SUFFICES ASSUME NEW j \in Offsets, j = id, NEW v \in PartsOf(j)'
               PROVE  v \in j .. j + slices[j] - 1
    OBVIOUS
  <2>1. v \in Places /\ parts'[v] # Nil /\ parts'[v].id = j /\ v \in Nat
    <3>1. v \in Places /\ parts'[v] # Nil /\ parts'[v].id = j
      BY DEF PartsOf
    <3>2. QED
      BY <3>1, PlacesType
  <2>2. PICK w \in Places : /\ parts[w] # Nil /\ w <= v /\ v + parts'[v].size <= w + parts[w].size
                             /\ parts'[v].id = parts[w].id
    BY <1>6, <2>1
  <2>3. parts'[v].size \in 1..ChunkSize
    BY <1>6, <2>1 DEF Part
  <2>a. w \in Nat /\ parts[w].size \in Nat
    BY <1>0, <2>2, PartFields
  <2>4. v < w + parts[w].size
    BY <1>0, <2>1, <2>2, <2>3, <2>a
  <2>5. j <= v /\ v < j + slices[j]
    BY <1>0, <2>1, <2>2, <2>4, PartInChunk
  <2>6. QED
    BY <1>0, <1>4, <2>1, <2>5
<1>11. cnt \in 0..ChunkSize
  <2> DEFINE a == id
             b == id + slices[id] - 1
  <2>1. a \in Int /\ b \in Int /\ a <= b /\ b - a + 1 = slices[id]
    BY <1>4
  <2>2. ASSUME NEW j \in Offsets, j = id PROVE cnt \in Nat /\ cnt <= slices[id]
    <3>1. PartsOf(j)' \in SUBSET (a..b) /\ cnt = Cardinality(PartsOf(j)')
      BY <1>9, <1>10, <2>2
    <3> HIDE DEF a, b
    <3>2. IsFiniteSet(a..b) /\ Cardinality(a..b) = b - a + 1
      BY <2>1, FS_Interval
    <3>3. IsFiniteSet(PartsOf(j)') /\ Cardinality(PartsOf(j)') <= Cardinality(a..b)
      BY <3>1, <3>2, FS_Subset
    <3>4. Cardinality(PartsOf(j)') \in Nat
      BY <3>3, FS_CardinalityType
    <3>5. QED
      BY <2>1, <3>1, <3>2, <3>3, <3>4
  <2>3. QED
    BY <1>0, <1>4, <2>2
<1>12. MapOK'
  <2>1. CASE DataReceived(id)
    BY <1>0, <1>4, <2>1, ReceiveKeepsMap
  <2>2. CASE UNCHANGED chunkVars
    BY <1>0, <2>2, MapStays DEF chunkVars, MapOK, ChunksOK, ChunkMapTypeOK
  <2>3. QED
    BY <1>2, <2>1, <2>2
<1>13. CreatorTypes'
  <2>1. refCnt' \in [Refs -> 0..ChunkSize]
    BY <1>0, <1>2, <1>4, <1>11
  <2>2. perPeer' \in [Peers -> 0 .. Word32 - 1]
    <3>1. (perPeer[parts[u].peer] - 1) % Word32 \in 0 .. Word32 - 1
      <4> DEFINE x == perPeer[parts[u].peer] - 1
      <4>1. x \in Int
        BY <1>0, <1>4
      <4> HIDE DEF x
      <4>2. x % Word32 \in 0 .. Word32 - 1
        BY <1>0, <4>1, RemainderType
      <4>3. QED
        BY <4>2 DEF x
    <3>2. CASE perPeer' = [perPeer EXCEPT ![parts[u].peer] = (perPeer[parts[u].peer] - 1) % Word32]
      BY <1>0, <1>4, <3>1, <3>2
    <3>3. QED
      BY <1>0, <1>2, <3>2
  <2>4. written' \subseteq Offsets
    <3>1. \A x \in o .. o + n - 1 : x \in Offsets
      BY <1>0 DEF Offsets
    <3>2. QED
      BY <1>0, <1>d, <3>1 DEF CreatorTypes
  <2>3. QED
    BY <1>0, <1>d, <1>6, <2>1, <2>2, <2>4 DEF CreatorTypes
<1>14. ASSUME NEW v \in Places, NEW j \in Offsets, parts'[v] # Nil, parts'[v].id = j
       PROVE  slices'[j] = slices[j]
  <2>1. CASE last /\ cnt = 0 /\ DataReceived(id)
    <3>1. v \in PartsOf(j)'
      BY <1>14 DEF PartsOf
    <3>2. j # id
      <4> SUFFICES ASSUME j = id PROVE FALSE
        OBVIOUS
      <4>1. Cardinality(PartsOf(j)') = 0 /\ PartsOf(j)' \subseteq Places
        BY <1>9, <2>1 DEF PartsOf
      <4>2. IsFiniteSet(PartsOf(j)')
        BY <1>4, <4>1, PartsOfSlice, FS_Subset
      <4>3. PartsOf(j)' = {}
        BY <4>1, <4>2, FS_EmptySet
      <4>4. QED
        BY <3>1, <4>3
    <3>3. QED
      BY <1>0, <1>4, <2>1, <3>2, ReceivedSlice
  <2>2. CASE UNCHANGED chunkVars
    BY <2>2 DEF chunkVars
  <2>3. QED
    BY <1>2, <2>1, <2>2
<1>15. PartsOK'
  <2>1. ASSUME NEW v \in Places, parts'[v] # Nil
        PROVE  /\ slices'[parts'[v].id] # 0
               /\ parts'[v].id <= v /\ v + parts'[v].size <= parts'[v].id + slices'[parts'[v].id]
    <3>0. parts'[v] \in Part
      BY <1>6, <2>1
    <3>1. PICK w \in Places : /\ parts[w] # Nil /\ w <= v /\ v + parts'[v].size <= w + parts[w].size
                               /\ parts'[v].id = parts[w].id
      BY <1>6, <2>1
    <3>2. /\ slices[parts[w].id] # 0 /\ parts[w].id <= w
          /\ w + parts[w].size <= parts[w].id + slices[parts[w].id]
      BY <1>0, <3>1 DEF PartsOK
    <3>3. /\ w \in Nat /\ parts[w].id \in Nat /\ parts[w].id \in Offsets /\ parts[w].size \in Nat
      BY <1>0, <3>1, PartFields
    <3>4. slices[parts[w].id] \in Nat /\ v \in Nat /\ parts'[v].size \in Nat
      <4>1. v \in Nat
        BY PlacesType
      <4>2. parts'[v].size \in 1..ChunkSize
        BY <3>0 DEF Part
      <4>3. QED
        BY <1>0, <3>3, <4>1, <4>2
    <3>5. slices'[parts[w].id] = slices[parts[w].id]
      BY <1>14, <2>1, <3>1, <3>3
    <3>6. QED
      BY <3>1, <3>2, <3>3, <3>4, <3>5
  <2>2. ASSUME NEW v \in Places, NEW w \in Places, parts'[v] # Nil, parts'[w] # Nil
        PROVE  /\ v < w => v + parts'[v].size <= w
               /\ parts'[v].ref = parts'[w].ref <=> parts'[v].id = parts'[w].id
    <3>1. v < w => v + parts'[v].size <= w
      BY <1>6, <2>2
    <3>2. PICK a \in Places : parts[a] # Nil /\ parts'[v].id = parts[a].id /\ parts'[v].ref = parts[a].ref
      BY <1>6, <2>2
    <3>3. PICK b \in Places : parts[b] # Nil /\ parts'[w].id = parts[b].id /\ parts'[w].ref = parts[b].ref
      BY <1>6, <2>2
    <3>4. parts[a].ref = parts[b].ref <=> parts[a].id = parts[b].id
      BY <1>0, <3>2, <3>3 DEF PartsOK
    <3>5. QED
      BY <3>1, <3>2, <3>3, <3>4
  <2>3. QED
    BY <2>1, <2>2 DEF PartsOK
<1>16. CountersOK'
  <2>1. ASSUME NEW j \in Offsets, slices'[j] # 0 PROVE PartsOf(j)' # {}
    <3>1. CASE last /\ cnt = 0 /\ DataReceived(id)
      <4>1. j # id /\ slices'[j] = slices[j]
        BY <1>0, <1>4, <2>1, <3>1, ReceivedSlice
      <4>2. QED
        BY <1>0, <1>6, <2>1, <4>1 DEF CountersOK
    <3>2. CASE ~(last /\ cnt = 0) /\ UNCHANGED chunkVars
      <4>1. slices'[j] = slices[j]
        BY <3>2 DEF chunkVars
      <4>2. CASE j # id
        BY <1>0, <1>6, <2>1, <4>1, <4>2 DEF CountersOK
      <4>3. CASE j = id /\ last
        <5>1. Cardinality(PartsOf(j)') # 0
          BY <1>9, <3>2, <4>3
        <5>2. Cardinality({}) = 0
          BY FS_EmptySet
        <5>3. QED
          BY <5>1, <5>2
      <4>4. CASE j = id /\ ~last
        BY <1>7, <4>4
      <4>5. QED
        BY <4>2, <4>3, <4>4
    <3>3. QED
      BY <1>2, <3>1, <3>2
  <2>2. ASSUME NEW v \in Places, NEW j \in Offsets, parts'[v] # Nil, parts'[v].id = j
        PROVE  refCnt'[parts'[v].ref] = Cardinality(PartsOf(j)')
    <3>1. PICK w \in Places : /\ parts[w] # Nil /\ j = parts[w].id /\ parts'[v].ref = parts[w].ref
      BY <1>6, <2>2
    <3>2. parts[w].ref = ref <=> j = id
      BY <1>0, <1>3, <3>1 DEF PartsOK, ref, id
    <3>3. CASE j = id
      BY <1>0, <1>2, <1>4, <1>9, <3>1, <3>2, <3>3
    <3>4. CASE j # id
      <4>1. PartsOf(j)' = PartsOf(j)
        BY <1>6, <3>4
      <4>2. parts[w].ref \in Refs
        BY <1>0, <3>1, PartFields
      <4>3. refCnt'[parts[w].ref] = refCnt[parts[w].ref]
        BY <1>0, <1>2, <3>2, <3>4, <4>2
      <4>4. refCnt[parts[w].ref] = Cardinality(PartsOf(j))
        BY <1>0, <3>1 DEF CountersOK
      <4>5. QED
        BY <3>1, <4>1, <4>3, <4>4
    <3>5. QED
      BY <3>3, <3>4
  <2>3. QED
    BY <2>1, <2>2 DEF CountersOK
<1>17. ASSUME NEW x \in Offsets, map[ChunkOf(x)] = "active", x \notin written'
       PROVE  \/ \E p \in Peers : feed[p] # Nil /\ ChunkOf(feed[p]) = ChunkOf(x) /\ feed[p] <= x
              \/ \E w \in Places : parts'[w] # Nil /\ w <= x /\ x < w + parts'[w].size
  <2>1. x \notin written /\ ~(o <= x /\ x < o + n) /\ x \in Nat
    BY <1>0, <1>d, <1>17, <1>b
  <2>2. CASE \E v \in Places : parts[v] # Nil /\ v <= x /\ x < v + parts[v].size
    BY <1>6, <2>1, <2>2
  <2>3. QED
    BY <1>0, <1>17, <2>1, <2>2 DEF PiecesOK
<1>18. /\ feed' = feed
       /\ \/ map' = map
          \/ /\ DataReceived(id) /\ remains[ChunkOf(id)] - slices[id] = 0 /\ map[ChunkOf(id)] = "active"
             /\ \/ map' = [map EXCEPT ![ChunkOf(id)] = "checking"]
                \/ NumChunks = 1 /\ map' = [map EXCEPT ![ChunkOf(id)] = "done"]
  <2>1. CASE DataReceived(id)
    BY <1>0, <1>4, <2>1, ReceivedSlice
  <2>2. CASE UNCHANGED chunkVars
    BY <2>2 DEF chunkVars
  <2>3. QED
    BY <1>2, <2>1, <2>2
<1>19. map \in [Chunks -> States] /\ ChunkOf(id) \in Chunks
  BY <1>0, <1>4, PiecesOfChunk DEF ChunksOK, ChunkMapTypeOK
<1>20. PiecesOK'
  <2>1. \A d \in Chunks : map'[d] = "active" => map[d] = "active"
    BY <1>18, <1>19
  <2>2. QED
    BY <1>17, <1>18, <2>1, PiecesOfChunk DEF PiecesOK
<1>21. DoneOK'
  <2> DEFINE d == ChunkOf(id)
  <2>1. ASSUME DataReceived(id), remains[d] - slices[id] = 0, map[d] = "active",
               NEW x \in Pieces(d), x \notin written'
        PROVE  FALSE
    <3>1. x \in Offsets /\ ChunkOf(x) = d /\ x \in Nat
      BY <1>19, <2>1, PiecesOfChunk
    <3>2. \A p \in Peers : feed[p] # Nil => ChunkOf(feed[p]) # d
      BY <1>0, <1>4, <2>1, LastSlice
    <3>3. PICK w \in Places : parts'[w] # Nil /\ w <= x /\ x < w + parts'[w].size
      BY <1>17, <2>1, <3>1, <3>2
    <3>4. PICK v \in Places : /\ parts[v] # Nil /\ v <= w /\ w + parts'[w].size <= v + parts[v].size
                              /\ parts'[w].id = parts[v].id
      BY <1>6, <3>3
    <3>5. /\ v \in Nat /\ parts[v].size \in Nat /\ w \in Nat /\ parts[v].id \in Offsets
      BY <1>0, <3>4, PartFields, PlacesType
    <3>6. parts'[w].size \in Nat
      BY <1>0, <1>6, <3>3 DEF Part
    <3>7. v <= x /\ x < v + parts[v].size
      BY <3>1, <3>3, <3>4, <3>5, <3>6
    <3>8. ChunkOf(parts[v].id) = d
      BY <1>0, <3>1, <3>4, <3>7, PartInChunk
    <3>9. slices[parts[v].id] # 0
      BY <1>0, <3>4 DEF PartsOK
    <3>10. parts[v].id = id
      BY <1>0, <1>4, <2>1, <3>5, <3>8, <3>9, LastSlice
    <3>11. slices'[id] = slices[id]
      BY <1>4, <1>14, <3>3, <3>4, <3>10
    <3>12. slices'[id] = 0
      BY <1>0, <1>4, <2>1, ReceivedSlice
    <3>13. QED
      BY <1>4, <3>11, <3>12
  <2>2. /\ \A c \in Chunks : map'[c] # map[c] => c = d /\ Pieces(d) \subseteq written'
        /\ \A c \in Chunks : map'[c] = "done" => map[c] = "done" \/ NumChunks = 1
    BY <1>18, <1>19, <2>1
  <2>3. written \subseteq written' /\ saved' = saved /\ verified' = verified
    BY <1>d
  <2>4. ASSUME NEW c \in Chunks, map'[c] \in {"checking", "done"} \/ c \in saved', c \notin forced'
        PROVE  Pieces(c) \subseteq written'
    <3>1. CASE map'[c] # map[c]
      BY <2>2, <3>1
    <3>2. CASE map'[c] = map[c]
      <4>1. c \notin forced /\ (map[c] \in {"checking", "done"} \/ c \in saved)
        BY <1>d, <2>3, <2>4, <3>2
      <4>2. QED
        BY <1>0, <2>3, <4>1 DEF DoneOK
    <3>3. QED
      BY <3>1, <3>2
  <2>5. ASSUME NEW c \in Chunks, map'[c] = "done" \/ c \in saved', NumChunks > 1
        PROVE  c \in verified'
    <3>1. map[c] = "done" \/ c \in saved
      BY <2>2, <2>3, <2>5, NumberOfChunks
    <3>2. QED
      BY <1>0, <2>3, <2>5, <3>1 DEF DoneOK
  <2>6. QED
    BY <2>4, <2>5 DEF DoneOK
<1>a. AlignedOK'
  <2> SUFFICES ASSUME Blocks = "pending", NEW v \in Places, parts'[v] # Nil
               PROVE  /\ IsCut(parts'[v].id, v)
                      /\ \/ IsCut(parts'[v].id, v + parts'[v].size)
                         \/ v + parts'[v].size = parts'[v].id + slices'[parts'[v].id]
    BY DEF AlignedOK, IsCut
  <2>1. PICK j \in Offsets : /\ slices[j] # 0 /\ j <= o /\ o + n <= j + slices[j] /\ IsCut(j, o)
                             /\ IsCut(j, o + n) \/ o + n = j + slices[j]
    BY PendingBlockFits DEF AddFileData, Arrives
  <2>2. j = id
    <3>1. o < j + slices[j] /\ o < u + parts[u].size
      BY <1>0, <1>b, <1>3, <1>4, <1>5, <2>1
    <3>2. parts[u].id = j
      BY <1>0, <1>3, <1>5, <2>1, <3>1, OneSlice
    <3>3. QED
      BY <3>2 DEF id
  <2>3. parts'[v].id \in Offsets /\ slices'[parts'[v].id] = slices[parts'[v].id]
    BY <1>6, <1>14 DEF Part
  <2>4. \/ parts'[v] = parts[v]
        \/ v = u /\ u < o /\ v + parts'[v].size = o /\ parts'[v].id = parts[u].id
        \/ parts'[v].id = parts[u].id /\ v = o + n /\ o + n < u + parts[u].size /\ v + parts'[v].size = u + parts[u].size
    BY <1>q
  <2>5. CASE parts'[v] = parts[v]
    BY <1>0, <2>3, <2>5 DEF AlignedOK
  <2>6. CASE ~(parts'[v] = parts[v])
    <3>1. parts'[v].id = id
      BY <2>4, <2>6 DEF id
    <3>2. CASE v = u /\ u < o /\ v + parts'[v].size = o
      BY <1>0, <1>3, <2>1, <2>2, <3>1, <3>2 DEF AlignedOK, id
    <3>3. CASE v = o + n /\ o + n < u + parts[u].size /\ v + parts'[v].size = u + parts[u].size
      <4>1. o + n < id + slices[id]
        BY <1>0, <1>3, <1>4, <3>3
      <4>2. IsCut(id, o + n)
        BY <1>0, <1>4, <2>1, <2>2, <4>1
      <4>3. IsCut(id, u + parts[u].size) \/ u + parts[u].size = id + slices[id]
        BY <1>0, <1>3 DEF AlignedOK, id
      <4>4. QED
        BY <2>3, <3>1, <3>3, <4>2, <4>3
    <3>4. QED
      BY <2>4, <2>6, <3>2, <3>3
  <2>7. QED
    BY <2>5, <2>6
<1>22. QED
  BY <1>12, <1>13, <1>15, <1>a, <1>16, <1>20, <1>21 DEF CreatorOK

\* Steps that leave the chunk map's slices and the creator's parts alone.
LEMMA CreatorStays ==
    ASSUME CreatorOK, MapOK', UNCHANGED <<map, feed, slices, parts, refCnt, perPeer, saved, verified, forced>>,
           written \subseteq written', written' \subseteq Offsets
    PROVE  CreatorOK'
<1>1. CreatorTypes'
  BY DEF CreatorOK, CreatorTypes
<1>2. PartsOK' /\ AlignedOK' /\ CountersOK'
  BY PartsStay DEF CreatorOK
<1>3. PiecesOK'
  BY DEF CreatorOK, PiecesOK
<1>4. DoneOK'
  BY DEF CreatorOK, DoneOK
<1>5. QED
  BY <1>1, <1>2, <1>3, <1>4 DEF CreatorOK

\* A block arrives, whether or not a part waits for it.
LEMMA AddKeepsCreator ==
    ASSUME CreatorOK, Blocks # "late", NEW o \in Offsets, NEW n \in 1..BlockSize, AddFileData(o, n)
    PROVE  CreatorOK'
<1>1. CASE Holding(o, n) = {}
  <2>1. /\ UNCHANGED <<chunkVars, parts, refCnt, perPeer, saved, verified>>
        /\ written' = written \cup (o .. o + n - 1) /\ o + n <= FileSize
        /\ forced' = {d \in forced : map'[d] = map[d]}
    BY <1>1 DEF AddFileData, Arrives
  <2>2. UNCHANGED chunkVars /\ UNCHANGED <<map, feed, slices>> /\ forced' = forced
    BY <2>1 DEF chunkVars
  <2>3. MapOK'
    BY <2>2, MapStays DEF chunkVars, CreatorOK, MapOK, ChunksOK, ChunkMapTypeOK
  <2>4. \A x \in o .. o + n - 1 : x \in Offsets
    <3>1. o \in Nat /\ n \in Nat /\ FileSize \in Nat
      BY PiecesOfChunk, FileCreatorAssumption, ChunkMapAssumption
    <3>2. QED
      BY <2>1, <3>1 DEF Offsets
  <2>5. written \subseteq written' /\ written' \subseteq Offsets
    BY <2>1, <2>4 DEF CreatorOK, CreatorTypes
  <2>6. QED
    BY <2>1, <2>2, <2>3, <2>5, CreatorStays
<1>2. CASE Holding(o, n) # {}
  BY <1>2, TakeOutKeepsCreator
<1>3. QED
  BY <1>1, <1>2

\* removeInactiveChunks takes the parts of the chunk along, and no others.
LEMMA RemoveKeepsCreator ==
    ASSUME CreatorOK, NEW c \in Chunks, RemoveInactive(c)
    PROVE  CreatorOK'
<1> DEFINE gone == UNION {PartsOf(id) : id \in SlicesOf(c)}
           of(r) == {o \in gone : parts[o].ref = r}
<1>0. /\ MapOK /\ CreatorTypes /\ PartsOK /\ AlignedOK /\ CountersOK /\ PiecesOK /\ DoneOK
      /\ slices \in [Offsets -> 0..ChunkSize] /\ ChunkSize \in Nat \ {0} /\ Word32 \in Nat \ {0}
      /\ refCnt \in [Refs -> 0..ChunkSize] /\ perPeer \in [Peers -> 0 .. Word32 - 1]
      /\ parts \in [Places -> Part \cup {Nil}] /\ map \in [Chunks -> States]
  BY ChunkMapAssumption DEF CreatorOK, MapOK, ChunksOK, ChunkMapTypeOK, CreatorTypes
<1>1. /\ RemoveInactiveChunk(c) /\ UNCHANGED <<written, saved, verified, forced>>
      /\ parts' = [o \in Places |-> IF o \in gone THEN Nil ELSE parts[o]]
      /\ refCnt' = [r \in Refs |-> refCnt[r] - Cardinality(of(r))]
      /\ perPeer' = [p \in Peers |-> (perPeer[p] - Cardinality({o \in gone : parts[o].peer = p})) % Word32]
  BY DEF RemoveInactive
<1>2. MapOK'
  BY <1>0, <1>1, GiveUpKeepsMap
<1>3. ASSUME NEW v PROVE v \in gone <=> v \in Places /\ parts[v] # Nil /\ ChunkOf(parts[v].id) = c
  <2>1. ASSUME v \in gone PROVE v \in Places /\ parts[v] # Nil /\ ChunkOf(parts[v].id) = c
    <3>1. PICK id \in SlicesOf(c) : v \in PartsOf(id)
      BY <2>1
    <3>2. id \in Pieces(c)
      BY DEF SlicesOf
    <3>3. QED
      BY <3>1, <3>2, PiecesOfChunk DEF PartsOf
  <2>2. ASSUME v \in Places, parts[v] # Nil, ChunkOf(parts[v].id) = c PROVE v \in gone
    <3>1. parts[v].id \in Offsets /\ slices[parts[v].id] # 0
      BY <1>0, <2>2, PartFields DEF PartsOK
    <3>2. parts[v].id \in SlicesOf(c)
      BY <2>2, <3>1, PiecesOfChunk DEF SlicesOf
    <3>3. QED
      BY <2>2, <3>2 DEF PartsOf
  <2>3. QED
    BY <2>1, <2>2
<1> HIDE DEF gone
<1>4. IsFiniteSet(gone)
  <2>1. IsFiniteSet(Places)
    <3>1. 0 \in Offsets
      BY ChunkMapAssumption DEF Offsets
    <3>2. QED
      BY <3>1, PartsOfSlice
  <2>2. gone \in SUBSET Places
    BY <1>3
  <2>3. QED
    BY <2>1, <2>2, FS_Subset
<1>5. ASSUME NEW v \in Places, parts[v] # Nil
      PROVE  of(parts[v].ref) = IF v \in gone THEN PartsOf(parts[v].id) ELSE {}
  <2>1. ASSUME NEW w \in of(parts[v].ref) PROVE v \in gone /\ w \in PartsOf(parts[v].id)
    <3>1. w \in Places /\ parts[w] # Nil /\ ChunkOf(parts[w].id) = c /\ parts[w].ref = parts[v].ref
      BY <1>3, <2>1
    <3>2. parts[w].id = parts[v].id
      BY <1>0, <1>5, <3>1 DEF PartsOK
    <3>3. QED
      BY <1>3, <1>5, <3>1, <3>2 DEF PartsOf
  <2>2. ASSUME v \in gone, NEW w \in PartsOf(parts[v].id) PROVE w \in of(parts[v].ref)
    <3>1. w \in Places /\ parts[w] # Nil /\ parts[w].id = parts[v].id /\ ChunkOf(parts[v].id) = c
      BY <1>3, <2>2 DEF PartsOf
    <3>2. parts[w].ref = parts[v].ref
      BY <1>0, <1>5, <3>1 DEF PartsOK
    <3>3. QED
      BY <1>3, <3>1, <3>2
  <2>3. QED
    BY <2>1, <2>2
<1>6. ASSUME NEW r \in Refs PROVE refCnt'[r] \in 0..ChunkSize
  <2>1. refCnt'[r] = refCnt[r] - Cardinality(of(r))
    BY <1>1
  <2>2. CASE of(r) = {}
    <3>1. Cardinality(of(r)) = 0
      BY <2>2, FS_EmptySet
    <3>2. QED
      BY <1>0, <2>1, <3>1
  <2>3. CASE of(r) # {}
    <3>1. PICK v : v \in of(r)
      BY <2>3
    <3>2. v \in Places /\ parts[v] # Nil /\ parts[v].ref = r /\ v \in gone
      BY <1>3, <3>1
    <3>3. of(r) = PartsOf(parts[v].id)
      BY <1>5, <3>2
    <3>4. refCnt[r] = Cardinality(of(r))
      BY <1>0, <3>2, <3>3, PartFields DEF CountersOK
    <3>5. QED
      BY <1>0, <2>1, <3>4
  <2>4. QED
    BY <2>2, <2>3
<1>7. CreatorTypes'
  <2>1. refCnt' \in [Refs -> 0..ChunkSize]
    BY <1>1, <1>6
  <2>2. parts' \in [Places -> Part \cup {Nil}]
    BY <1>0, <1>1
  <2>3. ASSUME NEW p \in Peers PROVE perPeer'[p] \in 0 .. Word32 - 1
    <3> DEFINE S == {o \in gone : parts[o].peer = p}
               x == perPeer[p] - Cardinality(S)
    <3>1. S \in SUBSET gone /\ perPeer'[p] = x % Word32
      BY <1>1
    <3> HIDE DEF S
    <3>2. Cardinality(S) \in Nat
      BY <1>4, <3>1, FS_Subset, FS_CardinalityType
    <3>3. x \in Int
      BY <1>0, <3>2
    <3> HIDE DEF x
    <3>4. QED
      BY <1>0, <3>1, <3>3, RemainderType
  <2>4. perPeer' \in [Peers -> 0 .. Word32 - 1]
    BY <1>1, <2>3
  <2>5. QED
    BY <1>0, <1>1, <2>1, <2>2, <2>4 DEF CreatorTypes
<1>a. \A r \in Refs : refCnt'[r] = refCnt[r] - Cardinality(of(r)) /\ refCnt[r] \in Int
  BY <1>0, <1>1
<1> HIDE DEF of
<1>8. /\ \A v \in Places : parts'[v] # Nil =>
           /\ parts'[v] = parts[v] /\ parts[v] # Nil /\ v \notin gone
           /\ ChunkOf(parts[v].id) # c /\ parts[v].id \in Offsets
      /\ \A v \in Places : parts[v] # Nil /\ ChunkOf(parts[v].id) # c => parts'[v] = parts[v]
  <2>1. \A v \in Places : parts'[v] = IF v \in gone THEN Nil ELSE parts[v]
    BY <1>1
  <2>2. \A v \in Places : parts[v] # Nil => parts[v].id \in Offsets
    BY <1>0, PartFields
  <2>3. QED
    BY <1>3, <2>1, <2>2
<1>9. \A j \in Offsets : slices'[j] = IF ChunkOf(j) = c THEN 0 ELSE slices[j]
  BY <1>1, PiecesOfChunk DEF RemoveInactiveChunk, Cleared
<1>10. PartsOK'
  <2>1. ASSUME NEW v \in Places, parts'[v] # Nil
        PROVE  /\ slices'[parts'[v].id] # 0
               /\ parts'[v].id <= v /\ v + parts'[v].size <= parts'[v].id + slices'[parts'[v].id]
    <3>1. /\ parts'[v] = parts[v] /\ parts[v] # Nil
          /\ ChunkOf(parts[v].id) # c /\ parts[v].id \in Offsets
      BY <1>8, <2>1
    <3>2. slices'[parts[v].id] = slices[parts[v].id]
      BY <1>9, <3>1
    <3>3. QED
      BY <1>0, <3>1, <3>2 DEF PartsOK
  <2>2. ASSUME NEW v \in Places, NEW w \in Places, parts'[v] # Nil, parts'[w] # Nil
        PROVE  /\ v < w => v + parts'[v].size <= w
               /\ parts'[v].ref = parts'[w].ref <=> parts'[v].id = parts'[w].id
    BY <1>0, <1>8, <2>2 DEF PartsOK
  <2>3. QED
    BY <2>1, <2>2 DEF PartsOK
<1>b. AlignedOK'
  <2> SUFFICES ASSUME Blocks = "pending", NEW v \in Places, parts'[v] # Nil
               PROVE  /\ IsCut(parts'[v].id, v)
                      /\ \/ IsCut(parts'[v].id, v + parts'[v].size)
                         \/ v + parts'[v].size = parts'[v].id + slices'[parts'[v].id]
    BY DEF AlignedOK, IsCut
  <2>1. /\ parts'[v] = parts[v] /\ parts[v] # Nil
        /\ ChunkOf(parts[v].id) # c /\ parts[v].id \in Offsets
    BY <1>8
  <2>2. slices'[parts[v].id] = slices[parts[v].id]
    BY <1>9, <2>1
  <2>3. QED
    BY <1>0, <2>1, <2>2 DEF AlignedOK
<1>11. \A j \in Offsets : ChunkOf(j) # c => PartsOf(j)' = PartsOf(j)
  BY <1>8 DEF PartsOf
<1>12. CountersOK'
  <2>1. ASSUME NEW j \in Offsets, slices'[j] # 0 PROVE PartsOf(j)' # {}
    BY <1>0, <1>9, <1>11, <2>1 DEF CountersOK
  <2>2. ASSUME NEW v \in Places, NEW j \in Offsets, parts'[v] # Nil, parts'[v].id = j
        PROVE  refCnt'[parts'[v].ref] = Cardinality(PartsOf(j)')
    <3>1. /\ parts'[v] = parts[v] /\ parts[v] # Nil /\ v \notin gone
          /\ ChunkOf(j) # c /\ parts[v].id = j
      BY <1>8, <2>2
    <3>2. of(parts[v].ref) = {} /\ parts[v].ref \in Refs
      BY <1>0, <1>5, <3>1, PartFields DEF of
    <3>3. Cardinality(of(parts[v].ref)) = 0
      BY <3>2, FS_EmptySet
    <3> DEFINE r == parts[v].ref
    <3>a. r \in Refs /\ Cardinality(of(r)) = 0
      BY <3>2, <3>3
    <3> HIDE DEF r
    <3>b. refCnt'[r] = refCnt[r] - Cardinality(of(r)) /\ refCnt[r] \in Int
      BY <1>a, <3>a
    <3>4. refCnt'[parts[v].ref] = refCnt[parts[v].ref]
      BY <3>a, <3>b DEF r
    <3>5. refCnt[parts[v].ref] = Cardinality(PartsOf(j))
      BY <1>0, <3>1 DEF CountersOK
    <3>6. QED
      BY <1>11, <3>1, <3>4, <3>5
  <2>3. QED
    BY <2>1, <2>2 DEF CountersOK
<1>13. /\ map' = [map EXCEPT ![c] = "outstanding"]
       /\ \A p \in Peers : feed[p] # Nil /\ ChunkOf(feed[p]) # c => feed'[p] = feed[p]
  BY <1>1 DEF RemoveInactiveChunk
<1>14. PiecesOK'
  <2> SUFFICES ASSUME NEW x \in Offsets, map'[ChunkOf(x)] = "active", x \notin written'
               PROVE  \/ \E p \in Peers : feed'[p] # Nil /\ ChunkOf(feed'[p]) = ChunkOf(x) /\ feed'[p] <= x
                      \/ \E v \in Places : parts'[v] # Nil /\ v <= x /\ x < v + parts'[v].size
    BY DEF PiecesOK
  <2>1. ChunkOf(x) # c /\ map[ChunkOf(x)] = "active" /\ x \notin written /\ x \in Nat
    BY <1>0, <1>1, <1>13, PiecesOfChunk
  <2>2. CASE \E v \in Places : parts[v] # Nil /\ v <= x /\ x < v + parts[v].size
    <3>1. PICK v \in Places : parts[v] # Nil /\ v <= x /\ x < v + parts[v].size
      BY <2>2
    <3>2. ChunkOf(parts[v].id) # c
      BY <1>0, <2>1, <3>1, PartInChunk
    <3>3. parts'[v] = parts[v]
      BY <1>8, <3>1, <3>2
    <3>4. QED
      BY <3>1, <3>3
  <2>3. CASE \E p \in Peers : feed[p] # Nil /\ ChunkOf(feed[p]) = ChunkOf(x) /\ feed[p] <= x
    BY <1>13, <2>1, <2>3
  <2>4. QED
    BY <1>0, <2>1, <2>2, <2>3 DEF PiecesOK
<1>15. DoneOK'
  <2>1. \A d \in Chunks : map'[d] \in {"checking", "done"} => map'[d] = map[d]
    BY <1>0, <1>13
  <2>2. QED
    BY <1>0, <1>1, <2>1 DEF DoneOK
<1>16. QED
  BY <1>2, <1>7, <1>10, <1>b, <1>12, <1>14, <1>15 DEF CreatorOK

(* A check leaves the creator right: a chunk that was received is on the    *)
(* disk, whatever the checksum says.                                        *)
LEMMA VerifyKeepsCreator ==
    ASSUME CreatorOK, NEW c \in Chunks, NEW succeeded \in BOOLEAN, VerifyChunk(c, succeeded)
    PROVE  CreatorOK'
<1>1. /\ SetChunkCheckingResult(c, succeeded)
      /\ verified' = IF succeeded THEN verified \cup {c} ELSE verified
      /\ UNCHANGED <<parts, refCnt, perPeer, written, saved, forced>>
  BY DEF VerifyChunk
<1>2. MapOK' /\ MapOK /\ map \in [Chunks -> States]
  BY <1>1, CheckKeepsMap DEF CreatorOK, MapOK, ChunksOK, ChunkMapTypeOK
<1>3. /\ UNCHANGED <<feed, slices>> /\ map[c] = "checking"
      /\ map' = [map EXCEPT ![c] = IF succeeded THEN "done" ELSE "outstanding"]
  BY <1>1 DEF SetChunkCheckingResult
<1>4. CreatorTypes'
  BY <1>1 DEF CreatorOK, CreatorTypes
<1>5. PartsOK' /\ AlignedOK' /\ CountersOK'
  BY <1>1, <1>3, PartsStay DEF CreatorOK
<1>6. PiecesOK'
  <2>1. \A d \in Chunks : map'[d] = "active" => map[d] = "active"
    BY <1>2, <1>3
  <2>2. QED
    BY <1>1, <1>3, <2>1, PiecesOfChunk DEF CreatorOK, PiecesOK
<1>7. DoneOK'
  <2>1. \A d \in Chunks : map'[d] # map[d] =>
          d = c /\ map[c] = "checking" /\ (map'[c] = "done" => succeeded) /\ map'[c] # "checking"
    BY <1>2, <1>3
  <2>2. ASSUME NEW d \in Chunks, map'[d] \in {"checking", "done"} \/ d \in saved', d \notin forced'
        PROVE  Pieces(d) \subseteq written'
    BY <1>1, <2>1, <2>2 DEF CreatorOK, DoneOK
  <2>3. ASSUME NEW d \in Chunks, map'[d] = "done" \/ d \in saved', NumChunks > 1
        PROVE  d \in verified'
    BY <1>1, <2>1, <2>3 DEF CreatorOK, DoneOK
  <2>4. QED
    BY <2>2, <2>3 DEF DoneOK
<1>8. QED
  BY <1>2, <1>4, <1>5, <1>6, <1>7 DEF CreatorOK

\* forceCheck between downloads of chunks.
LEMMA ForceKeepsCreator ==
    ASSUME CreatorOK, downloading = {}, ForceCheck
    PROVE  CreatorOK'
<1>1. ForceCheckChunks /\ forced' = Chunks /\ UNCHANGED <<parts, refCnt, perPeer, written, saved, verified>>
  BY DEF ForceCheck
<1>2. MapOK'
  BY <1>1, ForceKeepsMap DEF CreatorOK
<1>3. UNCHANGED <<feed, slices>> /\ map' = [c \in Chunks |-> "checking"]
  BY <1>1 DEF ForceCheckChunks
<1>4. CreatorTypes'
  BY <1>1 DEF CreatorOK, CreatorTypes
<1>5. PartsOK' /\ AlignedOK' /\ CountersOK'
  BY <1>1, <1>3, PartsStay DEF CreatorOK
<1>6. PiecesOK'
  BY <1>3, PiecesOfChunk DEF PiecesOK
<1>7. DoneOK'
  BY <1>1, <1>3 DEF CreatorOK, DoneOK
<1>8. QED
  BY <1>2, <1>4, <1>5, <1>6, <1>7 DEF CreatorOK

\* Saving the list, and starting again from it.
LEMMA SaveKeepsCreator ==
    ASSUME CreatorOK, SaveList \/ Restart
    PROVE  CreatorOK'
<1>1. CASE SaveList
  <2>1. /\ UNCHANGED chunkVars /\ UNCHANGED <<parts, refCnt, perPeer, written, verified, forced>>
        /\ saved' = {c \in Chunks : map[c] = "done"}
    BY <1>1 DEF SaveList
  <2>2. MapOK'
    BY <2>1, MapStays DEF chunkVars, CreatorOK, MapOK, ChunksOK, ChunkMapTypeOK
  <2>3. CreatorTypes'
    BY <2>1 DEF CreatorOK, CreatorTypes
  <2>4. PartsOK' /\ AlignedOK' /\ CountersOK'
    BY <2>1, PartsStay DEF CreatorOK, chunkVars
  <2>5. PiecesOK'
    BY <2>1 DEF CreatorOK, PiecesOK, chunkVars
  <2>6. DoneOK'
    BY <2>1 DEF CreatorOK, DoneOK, chunkVars
  <2>7. QED
    BY <2>2, <2>3, <2>4, <2>5, <2>6 DEF CreatorOK
<1>2. CASE Restart
  <2>1. /\ Load(saved) /\ UNCHANGED <<written, saved, verified, forced>>
        /\ parts' = [o \in Places |-> Nil] /\ refCnt' = [r \in Refs |-> 0]
        /\ perPeer' = [p \in Peers |-> 0]
    BY <1>2 DEF Restart
  <2>2. MapOK'
    BY <2>1, LoadKeepsMap DEF CreatorOK, CreatorTypes
  <2>3. /\ map' = [c \in Chunks |-> IF c \in saved THEN "done" ELSE "outstanding"]
        /\ slices' = [o \in Offsets |-> 0]
    BY <2>1 DEF Load
  <2>4. CreatorTypes'
    <3>1. Word32 \in Nat \ {0} /\ ChunkSize \in Nat
      BY ChunkMapAssumption
    <3>2. 0 \in 0 .. Word32 - 1 /\ 0 \in 0..ChunkSize
      BY <3>1
    <3>3. QED
      BY <2>1, <3>2 DEF CreatorOK, CreatorTypes
  <2>5. PartsOK' /\ AlignedOK' /\ CountersOK'
    BY <2>1, <2>3 DEF PartsOK, AlignedOK, CountersOK
  <2>6. PiecesOK'
    BY <2>3, PiecesOfChunk DEF PiecesOK
  <2>7. DoneOK'
    BY <2>1, <2>3 DEF CreatorOK, DoneOK
  <2>8. QED
    BY <2>2, <2>4, <2>5, <2>6, <2>7 DEF CreatorOK
<1>3. QED
  BY <1>1, <1>2

\* A new creator is right.
LEMMA NewCreatorIsRight ==
    ASSUME Init
    PROVE  CreatorOK
<1>1. /\ NewChunkMap /\ parts = [o \in Places |-> Nil] /\ refCnt = [r \in Refs |-> 0]
      /\ perPeer = [p \in Peers |-> 0] /\ written = {} /\ saved = {} /\ verified = {} /\ forced = {}
  BY DEF Init
<1>2. MapOK
  BY <1>1, NewMapIsRight
<1>3. map = [c \in Chunks |-> "outstanding"] /\ slices = [o \in Offsets |-> 0]
  BY <1>1 DEF NewChunkMap
<1>4. CreatorTypes
  <2>1. Word32 \in Nat \ {0} /\ ChunkSize \in Nat
    BY ChunkMapAssumption
  <2>2. 0 \in 0 .. Word32 - 1 /\ 0 \in 0..ChunkSize
    BY <2>1
  <2>3. QED
    BY <1>1, <2>2 DEF CreatorTypes
<1>5. PartsOK /\ AlignedOK /\ CountersOK
  BY <1>1, <1>3 DEF PartsOK, AlignedOK, CountersOK
<1>6. PiecesOK
  BY <1>3, PiecesOfChunk DEF PiecesOK
<1>7. DoneOK
  BY <1>1, <1>3 DEF DoneOK
<1>8. QED
  BY <1>2, <1>4, <1>5, <1>6, <1>7 DEF CreatorOK

-----------------------------------------------------------------------------
(* The theorems.                                                           *)

\* Every step keeps the invariant, unless a check is forced amid a download
\* or blocks reach over the parts that they meet.
LEMMA NextKeepsCreator ==
    ASSUME ForceInDownload = FALSE, Blocks # "late", CreatorOK, [Next]_vars
    PROVE  CreatorOK'
<1>0. MapOK /\ ChunkMapTypeOK /\ written \subseteq Offsets /\ Nil \notin Nat
  BY ChunkMapAssumption DEF CreatorOK, MapOK, ChunksOK, CreatorTypes
<1>a. ASSUME UNCHANGED <<map, feed, slices, downloading, remains, total, complete>>,
             UNCHANGED <<parts, refCnt, perPeer, saved, verified, forced>>,
             avail' \in [Peers -> (SUBSET Chunks) \cup {Nil}], toCheck' \subseteq Chunks,
             written \subseteq written', written' \subseteq Offsets
      PROVE  CreatorOK'
  <2>1. MapOK'
    BY <1>0, <1>a, MapStays
  <2>2. QED
    BY <1>a, <2>1, CreatorStays
<1>b. avail \in [Peers -> (SUBSET Chunks) \cup {Nil}] /\ toCheck \subseteq Chunks
  BY <1>0 DEF ChunkMapTypeOK
<1>1. ASSUME NEW p \in Peers, NEW hint \in 1..ChunkSize, NEW r \in Refs, NEW o \in Offsets,
             NEW n \in 1..ChunkSize, GetMissingChunk(p, o, n, hint, r)
      PROVE  CreatorOK'
  BY <1>1, GetKeepsCreator
<1>2. ASSUME NEW p \in Peers, NEW hint \in 1..ChunkSize, NothingMissing(p, hint)
      PROVE  CreatorOK'
  <2>1. KnowSource(p)
    BY <1>2 DEF NothingMissing, NoDataChunk
  <2>2. avail' \in [Peers -> (SUBSET Chunks) \cup {Nil}]
    BY <1>0, <2>1, KnownSources
  <2>3. QED
    BY <1>0, <1>2, <1>a, <1>b, <2>2 DEF NothingMissing, NoDataChunk
<1>3. ASSUME NEW p \in Peers, ReAsk(p) PROVE CreatorOK'
  <2>1. KnowSource(p)
    BY <1>3 DEF ReAsk
  <2>2. avail' \in [Peers -> (SUBSET Chunks) \cup {Nil}]
    BY <1>0, <2>1, KnownSources
  <2>3. QED
    BY <1>0, <1>3, <1>a, <1>b, <2>2 DEF ReAsk
<1>4. ASSUME NEW o \in Offsets, NEW n \in 1..BlockSize, AddFileData(o, n) PROVE CreatorOK'
  BY <1>4, AddKeepsCreator
<1>6. ASSUME NEW c \in Chunks, RemoveInactive(c) PROVE CreatorOK'
  BY <1>6, RemoveKeepsCreator
<1>7. ASSUME NEW c \in Chunks, NEW succeeded \in BOOLEAN, VerifyChunk(c, succeeded) PROVE CreatorOK'
  BY <1>7, VerifyKeepsCreator
<1>8. CASE QueryInactive
  BY <1>0, <1>8, <1>a, <1>b DEF QueryInactive, GetChunksToCheck
<1>9. CASE ForceCheck
  BY <1>9, ForceKeepsCreator DEF ForceCheck
<1>10. ASSUME NEW p \in Peers, NEW S \in (SUBSET Chunks) \cup {Nil}, SetSourceMap(p, S) PROVE CreatorOK'
  BY <1>0, <1>10, <1>a, <1>b DEF SetSourceMap, SetPeerAvailabilityMap
<1>11. CASE SaveList \/ Restart
  BY <1>11, SaveKeepsCreator
<1>12. CASE UNCHANGED vars
  BY <1>0, <1>12, <1>a, <1>b DEF vars
<1>13. QED
  <2>1. SourceMaps \subseteq SUBSET Chunks
    BY FileCreatorAssumption
  <2>2. QED
    BY <1>1, <1>2, <1>3, <1>4, <1>6, <1>7, <1>8, <1>9, <1>10, <1>11, <1>12, <2>1
       DEF Next, RemoveFileSource

\* The invariant holds.
LEMMA CreatorAlwaysOK ==
    ASSUME ForceInDownload = FALSE, Blocks # "late"
    PROVE  Spec => []CreatorOK
<1>1. Init => CreatorOK
  BY NewCreatorIsRight
<1>2. CreatorOK /\ [Next]_vars => CreatorOK'
  BY NextKeepsCreator
<1>3. QED
  BY <1>1, <1>2, PTL DEF Spec

(* Every variable of the creator and of its chunk map stays in its range:   *)
(* in particular neither remains nor a counter of parts ever wraps.         *)
THEOREM TypesAreRight ==
    ASSUME ForceInDownload = FALSE, Blocks # "late"
    PROVE  Spec => []TypeOK
<1>1. CreatorOK => TypeOK
  BY DEF CreatorOK, MapOK, ChunksOK, CreatorTypes, TypeOK
<1>2. QED
  BY <1>1, CreatorAlwaysOK, PTL

(* Entries of _slices_to_download are the active chunks, slices and feeds   *)
(* are only of those, and no two peers feed on one chunk, although a peer   *)
(* may take slices from the feed of another.                                *)
THEOREM ActiveAreDownloading ==
    ASSUME ForceInDownload = FALSE, Blocks # "late"
    PROVE  Spec => []ActiveIsDownloading
<1>1. CreatorOK => ActiveIsDownloading
  <2> SUFFICES ASSUME CreatorOK, NEW c \in Chunks
               PROVE  /\ c \in downloading <=> map[c] = "active"
                      /\ SlicesOf(c) # {} \/ Feeders(c) # {} => c \in downloading
                      /\ Cardinality(Feeders(c)) <= 1
    BY DEF ActiveIsDownloading
  <2>0. ActiveOnly /\ SlicesOK /\ FeedsOK
    BY DEF CreatorOK, MapOK, ChunksOK
  <2>1. c \in downloading <=> map[c] = "active"
    BY <2>0 DEF ActiveOnly
  <2>2. SlicesOf(c) # {} => c \in downloading
    BY <2>0, PiecesOfChunk DEF SlicesOK, SlicesOf
  <2>3. Feeders(c) # {} => c \in downloading
    BY <2>0 DEF FeedsOK, Feeders
  <2>4. \A p, q \in Feeders(c) : p = q
    BY <2>0 DEF FeedsOK, Feeders
  <2>5. CASE Feeders(c) = {}
    <3>1. Cardinality(Feeders(c)) = 0
      BY <2>5, FS_EmptySet
    <3>2. QED
      BY <2>1, <2>2, <2>3, <3>1
  <2>6. CASE Feeders(c) # {}
    <3>1. PICK p : p \in Feeders(c)
      BY <2>6
    <3>2. Feeders(c) = {p}
      BY <2>4, <3>1
    <3>3. Cardinality(Feeders(c)) = 1
      BY <3>2, FS_Singleton
    <3>4. QED
      BY <2>1, <2>2, <2>3, <3>3
  <2>7. QED
    BY <2>5, <2>6
<1>2. QED
  BY <1>1, CreatorAlwaysOK, PTL

(* The slices of a chunk do not overlap, nor does what nobody has asked     *)
(* for, and _remains is the number of pieces in all of them: the chunk is   *)
(* finished by the last piece of its last slice.                            *)
THEOREM RemainsAreExact ==
    ASSUME ForceInDownload = FALSE, Blocks # "late"
    PROVE  Spec => []RemainsExact
<1>1. CreatorOK => RemainsExact
  <2> SUFFICES ASSUME CreatorOK, NEW c \in downloading
               PROVE  /\ \A o, u \in SlicesOf(c) : o # u => SlicePieces(o) \cap SlicePieces(u) = {}
                      /\ \A o \in SlicesOf(c) : SlicePieces(o) \cap Unasked(c) = {}
                      /\ remains[c] = Cardinality((UNION {SlicePieces(o) : o \in SlicesOf(c)}) \cup Unasked(c))
    BY DEF RemainsExact
  <2>0. /\ SlicesOK /\ FeedsOK /\ RemainsOK /\ c \in Chunks
        /\ \A o \in Offsets : o \in Nat /\ slices[o] \in Nat
        /\ \A p \in Peers : feed[p] # Nil => feed[p] \in Offsets
    BY PiecesOfChunk, ChunkMapAssumption DEF CreatorOK, MapOK, ChunksOK, ChunkMapTypeOK
  <2>1. \A o \in SlicesOf(c) : o \in Offsets /\ slices[o] # 0 /\ ChunkOf(o) = c /\ o \in Pieces(c)
    BY <2>0, PiecesOfChunk DEF SlicesOf
  <2>2. \A o \in Offsets : \A x : x \in SlicePieces(o) <=> x \in Int /\ o <= x /\ x < o + slices[o]
    BY <2>0 DEF SlicePieces
  <2>3. /\ Start(c) \in Nat /\ End(c) \in Nat
        /\ \A x : x \in Pieces(c) <=> x \in Int /\ Start(c) <= x /\ x < End(c)
    BY <2>0, ChunkBounds DEF Pieces
  <2>4. \A x : x \in Unasked(c) <=>
           \E p \in Peers : /\ feed[p] # Nil /\ ChunkOf(feed[p]) = c
                            /\ x \in Int /\ feed[p] <= x /\ x < End(c)
    <3>1. \A p \in Feeders(c) : feed[p] \in Nat
      BY <2>0 DEF Feeders
    <3>2. \A p \in Feeders(c) : \A x : x \in feed[p] .. End(c) - 1 <=> x \in Int /\ feed[p] <= x /\ x < End(c)
      BY <2>3, <3>1
    <3>3. QED
      BY <3>2 DEF Unasked, Feeders
  <2>5. ASSUME NEW o \in SlicesOf(c), NEW u \in SlicesOf(c), o # u
        PROVE  SlicePieces(o) \cap SlicePieces(u) = {}
    <3>1. /\ o \in Offsets /\ u \in Offsets /\ slices[o] # 0 /\ slices[u] # 0
          /\ o \in Nat /\ u \in Nat /\ slices[o] \in Nat /\ slices[u] \in Nat
      BY <2>0, <2>1
    <3>2. o + slices[o] <= u \/ u + slices[u] <= o
      BY <2>0, <2>5, <3>1 DEF SlicesOK
    <3>3. QED
      BY <2>2, <3>1, <3>2
  <2>6. ASSUME NEW o \in SlicesOf(c) PROVE SlicePieces(o) \cap Unasked(c) = {}
    <3> SUFFICES ASSUME NEW x \in SlicePieces(o), x \in Unasked(c) PROVE FALSE
      OBVIOUS
    <3>1. PICK p \in Peers : feed[p] # Nil /\ ChunkOf(feed[p]) = c /\ x \in Int /\ feed[p] <= x
      BY <2>4
    <3>2. /\ o \in Offsets /\ o \in Nat /\ slices[o] \in Nat /\ feed[p] \in Nat
          /\ o <= x /\ x < o + slices[o]
      BY <2>0, <2>1, <2>2, <3>1
    <3>3. o + slices[o] <= feed[p]
      BY <2>0, <2>1, <3>1 DEF FeedsOK
    <3>4. QED
      BY <3>1, <3>2, <3>3
  <2>7. (UNION {SlicePieces(o) : o \in SlicesOf(c)}) \cup Unasked(c) = Pending(c)
    <3>1. ASSUME NEW x \in Pending(c)
          PROVE  (\E o \in SlicesOf(c) : x \in SlicePieces(o)) \/ x \in Unasked(c)
      <4>1. x \in Pieces(c) /\ x \in Int /\ x < End(c)
        BY <2>3, <3>1 DEF Pending
      <4>2. CASE \E o \in Pieces(c) : slices[o] # 0 /\ o <= x /\ x < o + slices[o]
        BY <2>0, <2>2, <4>1, <4>2, PiecesOfChunk DEF SlicesOf
      <4>3. CASE \E p \in Peers : feed[p] # Nil /\ ChunkOf(feed[p]) = c /\ feed[p] <= x
        BY <2>4, <4>1, <4>3
      <4>4. QED
        BY <3>1, <4>2, <4>3 DEF Pending
    <3>2. ASSUME NEW o \in SlicesOf(c), NEW x \in SlicePieces(o) PROVE x \in Pending(c)
      <4>1. /\ o \in Offsets /\ o \in Nat /\ slices[o] \in Nat /\ x \in Int /\ o <= x
            /\ x < o + slices[o] /\ o + slices[o] <= End(c)
        BY <2>0, <2>1, <2>2, <3>2 DEF SlicesOK
      <4>2. x \in Nat /\ x < End(ChunkOf(o)) /\ ChunkOf(o) = c
        BY <2>1, <2>3, <4>1
      <4>3. x \in Pieces(c)
        BY <2>0, <4>1, <4>2, ChunksInOrder, PiecesOfChunk
      <4>4. QED
        BY <2>1, <4>1, <4>3 DEF Pending
    <3>3. ASSUME NEW x \in Unasked(c) PROVE x \in Pending(c)
      <4>1. PICK p \in Peers : /\ feed[p] # Nil /\ ChunkOf(feed[p]) = c
                               /\ x \in Int /\ feed[p] <= x /\ x < End(c)
        BY <2>4, <3>3
      <4>2. feed[p] \in Offsets /\ feed[p] \in Nat
        BY <2>0, <4>1
      <4>3. x \in Nat
        BY <4>1, <4>2
      <4>4. x \in Pieces(c)
        BY <2>0, <4>1, <4>2, <4>3, ChunksInOrder, PiecesOfChunk
      <4>5. QED
        BY <4>1, <4>4 DEF Pending
    <3>4. QED
      BY <3>1, <3>2, <3>3
  <2>8. QED
    BY <2>0, <2>5, <2>6, <2>7 DEF RemainsOK
<1>2. QED
  BY <1>1, CreatorAlwaysOK, PTL

(* The parts of a slice lie in it, one behind the other, and their shared   *)
(* counter is their number: dataReceived is called exactly when the last    *)
(* piece of the slice has arrived, in whatever order the pieces came.       *)
THEOREM PartsAlwaysMatchSlices ==
    ASSUME ForceInDownload = FALSE, Blocks # "late"
    PROVE  Spec => []PartsMatchSlices
<1>1. CreatorOK => PartsMatchSlices
  <2> SUFFICES ASSUME CreatorOK PROVE PartsMatchSlices
    OBVIOUS
  <2>0. /\ CreatorTypes /\ PartsOK /\ CountersOK /\ MapOK
        /\ \A o \in Offsets : o \in Nat /\ slices[o] \in Nat
        /\ \A o \in Places : o \in Nat
    BY PiecesOfChunk, PlacesType, ChunkMapAssumption DEF CreatorOK, MapOK, ChunksOK, ChunkMapTypeOK
  <2>1. ASSUME NEW id \in Offsets PROVE slices[id] # 0 <=> PartsOf(id) # {}
    BY <2>0 DEF PartsOK, CountersOK, PartsOf
  <2>2. ASSUME NEW o \in Places, parts[o] # Nil
        PROVE  /\ parts[o].size \in Nat /\ parts[o].id \in Offsets /\ parts[o].id \in Nat /\ o \in Nat
               /\ slices[parts[o].id] \in Nat
               /\ \A x : x \in PartPieces(o) <=> x \in Int /\ o <= x /\ x < o + parts[o].size
    <3>1. /\ parts[o].size \in Nat /\ parts[o].id \in Offsets /\ parts[o].id \in Nat /\ o \in Nat
          /\ slices[parts[o].id] \in Nat
      BY <2>0, <2>2, PartFields
    <3>2. QED
      BY <3>1 DEF PartPieces
  <2>3. ASSUME NEW o \in Places, parts[o] # Nil
        PROVE  PartPieces(o) \subseteq SlicePieces(parts[o].id)
    <3>1. parts[o].id <= o /\ o + parts[o].size <= parts[o].id + slices[parts[o].id]
      BY <2>0, <2>3 DEF PartsOK
    <3>2. QED
      BY <2>2, <2>3, <3>1 DEF SlicePieces
  <2>4. ASSUME NEW o \in Places, parts[o] # Nil
        PROVE  refCnt[parts[o].ref] = Cardinality(PartsOf(parts[o].id))
    BY <2>0, <2>2, <2>4 DEF CountersOK
  <2>5. ASSUME NEW o \in Places, NEW u \in Places \ {o}, parts[o] # Nil, parts[u] # Nil
        PROVE  /\ PartPieces(o) \cap PartPieces(u) = {}
               /\ parts[o].ref = parts[u].ref => parts[o].id = parts[u].id
    <3>1. parts[o].ref = parts[u].ref => parts[o].id = parts[u].id
      BY <2>0, <2>5 DEF PartsOK
    <3>2. o + parts[o].size <= u \/ u + parts[u].size <= o
      BY <2>0, <2>5 DEF PartsOK
    <3>3. QED
      BY <2>2, <2>5, <3>1, <3>2
  <2>6. QED
    BY <2>1, <2>3, <2>4, <2>5 DEF PartsMatchSlices
<1>2. QED
  BY <1>1, CreatorAlwaysOK, PTL

(* No piece of an active chunk is lost from sight by splits, late or double *)
(* data, shared feeds or chunks that are given up.                          *)
THEOREM NothingIsLost ==
    ASSUME ForceInDownload = FALSE, Blocks # "late"
    PROVE  Spec => []NothingLost
<1>1. CreatorOK => NothingLost
  <2> SUFFICES ASSUME CreatorOK, NEW c \in Chunks, map[c] = "active", NEW x \in Pieces(c) \ written
               PROVE  x \in Unasked(c) \/ \E o \in Places : parts[o] # Nil /\ x \in PartPieces(o)
    BY DEF NothingLost
  <2>1. x \in Offsets /\ ChunkOf(x) = c /\ x \in Nat /\ x < End(c) /\ End(c) \in Nat
    BY PiecesOfChunk, ChunksInOrder, ChunkBounds
  <2>2. CASE \E p \in Peers : feed[p] # Nil /\ ChunkOf(feed[p]) = ChunkOf(x) /\ feed[p] <= x
    <3>1. PICK p \in Peers : feed[p] # Nil /\ ChunkOf(feed[p]) = c /\ feed[p] <= x
      BY <2>1, <2>2
    <3>2. feed[p] \in Nat
      BY <3>1, PiecesOfChunk DEF CreatorOK, MapOK, ChunksOK, ChunkMapTypeOK
    <3>3. x \in feed[p] .. End(c) - 1
      BY <2>1, <3>1, <3>2
    <3>4. QED
      BY <3>1, <3>3 DEF Unasked, Feeders
  <2>3. CASE \E o \in Places : parts[o] # Nil /\ o <= x /\ x < o + parts[o].size
    <3>1. PICK o \in Places : parts[o] # Nil /\ o <= x /\ x < o + parts[o].size
      BY <2>3
    <3>2. o \in Nat /\ parts[o].size \in Nat
      BY <3>1, PartFields DEF CreatorOK
    <3>3. x \in PartPieces(o)
      BY <2>1, <3>1, <3>2 DEF PartPieces
    <3>4. QED
      BY <3>1, <3>3
  <2>4. QED
    BY <2>1, <2>2, <2>3 DEF CreatorOK, PiecesOK
<1>2. QED
  BY <1>1, CreatorAlwaysOK, PTL

(* The progress that is kept by adding and subtracting, modulo 2^64, never  *)
(* drifts from what the chunks add up to.                                   *)
THEOREM TotalIsExact ==
    ASSUME ForceInDownload = FALSE, Blocks # "late"
    PROVE  Spec => []TotalExact
<1>1. CreatorOK => TotalExact
  BY DEF CreatorOK, MapOK
<1>2. QED
  BY <1>1, CreatorAlwaysOK, PTL

(* A chunk is only checked, and done, and so served to others, when all of  *)
(* it is on the disk, except by a forced check of what was not received;    *)
(* and what is done has passed a check, also after any number of restarts.  *)
THEOREM DoneIsOnDisk ==
    ASSUME ForceInDownload = FALSE, Blocks # "late"
    PROVE  Spec => []DoneIsThere
<1>1. CreatorOK => DoneIsThere
  BY DEF CreatorOK, DoneOK, DoneIsThere
<1>2. QED
  BY <1>1, CreatorAlwaysOK, PTL

\* The blocks of pending slices that may be under way.
PendingBlocksFit == \A o \in Offsets, n \in 1..BlockSize : PendingBlock(o, n) => Fits(o, n)

(* When only blocks of pending slices arrive, as often and in whatever      *)
(* order, no block reaches over the end of the part at its offset: what     *)
(* the other theorems ask of the blocks then holds by itself.               *)
THEOREM AskedBlocksFit ==
    ASSUME ForceInDownload = FALSE, Blocks = "pending"
    PROVE  Spec => []PendingBlocksFit
<1>1. CreatorOK => PendingBlocksFit
  BY PendingBlockFits DEF PendingBlocksFit
<1>2. Blocks # "late"
  OBVIOUS
<1>3. Spec => []CreatorOK
  BY <1>2, CreatorAlwaysOK
<1>4. QED
  BY <1>1, <1>3, PTL

-----------------------------------------------------------------------------
(* The creator implements the life cycle of chunks.                        *)

\* complete says what the states say, so a change of one chunk is a Become.
LEMMA OneBecomes ==
    ASSUME MapOK, MapOK', NEW c \in Chunks, NEW s \in States, map' = [map EXCEPT ![c] = s]
    PROVE  Life!Become({c}, s)
<1>1. map \in [Chunks -> States] /\ complete' \in BOOLEAN /\ (complete' <=> \A d \in Chunks : map'[d] = "done")
  BY DEF MapOK, ChunksOK, ChunkMapTypeOK, CompleteOK
<1>2. map' = [d \in Chunks |-> IF d \in {c} THEN s ELSE map[d]]
  BY <1>1
<1>3. complete' = \A d \in Chunks : map'[d] = "done"
  BY <1>1
<1>4. QED
  BY <1>2, <1>3 DEF Life!Become

\* Giving a slice out takes its chunk up, if it was not.
LEMMA GetRefines ==
    ASSUME CreatorOK, CreatorOK', NEW p \in Peers, NEW hint \in 1..ChunkSize, NEW r \in Refs,
           NEW o \in Offsets, NEW n \in 1..ChunkSize, GetMissingChunk(p, o, n, hint, r)
    PROVE  [Life!LifeNext]_(Life!lifeVars)
<1>0. MapOK /\ MapOK' /\ ChunksOK
  BY DEF CreatorOK, MapOK
<1>1. PICK q \in Peers : SliceCut(o, n, q)
  BY <1>0, SliceIsCut DEF GetMissingChunk
<1>2. UNCHANGED <<complete, toCheck, saved>>
  BY <1>1 DEF SliceCut, GetMissingChunk
<1>3. CASE map' = map
  BY <1>2, <1>3 DEF Life!lifeVars
<1>4. ASSUME map[ChunkOf(o)] = "outstanding", map' = [map EXCEPT ![ChunkOf(o)] = "active"]
      PROVE  \E c \in Chunks : Life!TakeUp({c})
  <2>1. ChunkOf(o) \in Chunks
    BY PiecesOfChunk
  <2>2. Life!Become({ChunkOf(o)}, "active")
    BY <1>0, <1>4, <2>1, OneBecomes DEF States
  <2>3. {ChunkOf(o)} \subseteq Life!ChunksIn("outstanding")
    BY <1>4, <2>1 DEF Life!ChunksIn
  <2>4. QED
    BY <1>2, <2>1, <2>2, <2>3 DEF Life!TakeUp
<1>5. QED
  BY <1>1, <1>3, <1>4 DEF SliceCut, Life!LifeNext

\* The last block of the last slice receives the chunk; other blocks do not show.
LEMMA AddRefines ==
    ASSUME CreatorOK, CreatorOK', NEW o \in Offsets, NEW n \in 1..BlockSize, AddFileData(o, n)
    PROVE  [Life!LifeNext]_(Life!lifeVars)
<1> DEFINE id == parts[Min(Holding(o, n))].id
           c == ChunkOf(id)
           state == IF c > 0 \/ FileSize > ChunkSize THEN "checking" ELSE "done"
<1>0. MapOK /\ MapOK' /\ ActiveOnly /\ CreatorTypes /\ UNCHANGED saved
  BY DEF CreatorOK, MapOK, ChunksOK, AddFileData
<1>1. CASE UNCHANGED chunkVars
  BY <1>0, <1>1 DEF Life!lifeVars, chunkVars
<1>2. CASE Holding(o, n) # {} /\ DataReceived(id)
  <2>a. id \in Offsets
    <3>1. Holding(o, n) \in SUBSET Nat
      BY PlacesType, PiecesOfChunk DEF Holding
    <3>2. Min(Holding(o, n)) \in Holding(o, n)
      BY <1>2, <3>1, MinIsLeast
    <3>3. Min(Holding(o, n)) \in Places /\ parts[Min(Holding(o, n))] # Nil
      BY <3>2, PlacesType DEF Holding
    <3>4. QED
      BY <1>0, <3>3, PartFields
  <2> HIDE DEF id
  <2>b. CASE UNCHANGED <<map, toCheck, complete>>
    BY <1>0, <2>b DEF Life!lifeVars
  <2>c. CASE /\ c \in downloading /\ map' = [map EXCEPT ![c] = state]
             /\ toCheck' = IF state = "checking" THEN toCheck \cup {c} ELSE toCheck
    <3>1. c \in Chunks /\ map[c] = "active"
      BY <1>0, <2>a, <2>c, PiecesOfChunk DEF ActiveOnly
    <3>2. state \in States
      BY DEF States
    <3>3. Life!Become({c}, state)
      <4> HIDE DEF state, c
      <4>1. QED
        BY <1>0, <2>c, <3>1, <3>2, OneBecomes
    <3>4. Chunks # {c} <=> state = "checking"
      <4>1. /\ NumChunks \in Nat \ {0} /\ (NumChunks > 1 <=> FileSize > ChunkSize)
            /\ Chunks = 0 .. NumChunks - 1 /\ c \in 0 .. NumChunks - 1
        BY <3>1, NumberOfChunks DEF Chunks
      <4> HIDE DEF c
      <4>2. CASE NumChunks > 1
        <5>1. 0 \in Chunks /\ 1 \in Chunks /\ FileSize > ChunkSize
          BY <4>1, <4>2
        <5>2. QED
          BY <5>1
      <4>3. CASE NumChunks = 1
        BY <4>1, <4>3
      <4>4. QED
        BY <4>1, <4>2, <4>3
    <3>5. state = "checking" \/ state = "done"
      OBVIOUS
    <3> HIDE DEF state, c
    <3>6. Life!Receive(c)
      BY <1>0, <2>c, <3>1, <3>3, <3>4, <3>5 DEF Life!Receive
    <3>7. QED
      BY <3>1, <3>6 DEF Life!LifeNext
  <2>d. QED
    BY <1>2, <2>b, <2>c DEF DataReceived, chunkVars
<1>3. QED
  BY <1>1, <1>2 DEF AddFileData, TakeOut

\* Every step is one of the life cycle, or does not show there.
LEMMA NextRefines ==
    ASSUME ForceInDownload = FALSE, Blocks # "late", CreatorOK, CreatorOK', [Next]_vars
    PROVE  [Life!LifeNext]_(Life!lifeVars)
<1>0. /\ MapOK /\ MapOK' /\ ActiveOnly /\ map \in [Chunks -> States]
      /\ complete' \in BOOLEAN /\ (complete' <=> \A d \in Chunks : map'[d] = "done")
  BY DEF CreatorOK, MapOK, ChunksOK, ChunkMapTypeOK, CompleteOK
<1>a. complete' = \A d \in Chunks : map'[d] = "done"
  BY <1>0
<1>b. UNCHANGED <<map, toCheck, complete, saved>> => UNCHANGED Life!lifeVars
  BY DEF Life!lifeVars
<1>1. ASSUME NEW p \in Peers, NEW hint \in 1..ChunkSize, NEW r \in Refs, NEW o \in Offsets,
             NEW n \in 1..ChunkSize, GetMissingChunk(p, o, n, hint, r)
      PROVE  [Life!LifeNext]_(Life!lifeVars)
  BY <1>1, GetRefines
<1>2. ASSUME NEW p \in Peers, NEW hint \in 1..ChunkSize, NothingMissing(p, hint)
      PROVE  UNCHANGED Life!lifeVars
  BY <1>2, <1>b DEF NothingMissing, NoDataChunk
<1>3. ASSUME NEW p \in Peers, ReAsk(p) PROVE UNCHANGED Life!lifeVars
  BY <1>3, <1>b DEF ReAsk
<1>4. ASSUME NEW o \in Offsets, NEW n \in 1..BlockSize, AddFileData(o, n) PROVE [Life!LifeNext]_(Life!lifeVars)
  BY <1>4, AddRefines
<1>6. ASSUME NEW c \in Chunks, RemoveInactive(c) PROVE Life!GiveUp(c)
  <2>1. /\ c \in downloading /\ map' = [map EXCEPT ![c] = "outstanding"]
        /\ UNCHANGED <<toCheck, saved>>
    BY <1>6 DEF RemoveInactive, RemoveInactiveChunk
  <2>2. Life!Become({c}, "outstanding")
    BY <1>0, <2>1, OneBecomes DEF States
  <2>3. map[c] = "active"
    BY <1>0, <2>1 DEF ActiveOnly
  <2>4. QED
    BY <2>1, <2>2, <2>3 DEF Life!GiveUp
<1>7. ASSUME NEW c \in Chunks, NEW succeeded \in BOOLEAN, VerifyChunk(c, succeeded)
      PROVE  Life!Checked(c, succeeded)
  <2>1. /\ map[c] = "checking" /\ UNCHANGED <<toCheck, saved>>
        /\ map' = [map EXCEPT ![c] = IF succeeded THEN "done" ELSE "outstanding"]
    BY <1>7 DEF VerifyChunk, SetChunkCheckingResult
  <2>2. Life!Become({c}, IF succeeded THEN "done" ELSE "outstanding")
    BY <1>0, <2>1, OneBecomes DEF States
  <2>3. QED
    BY <2>1, <2>2 DEF Life!Checked
<1>8. CASE QueryInactive
  <2>1. Life!FetchToCheck
    BY <1>8 DEF QueryInactive, GetChunksToCheck, Life!FetchToCheck
  <2>2. QED
    BY <2>1 DEF Life!LifeNext
<1>9. CASE ForceCheck
  <2>1. map' = [c \in Chunks |-> "checking"] /\ toCheck' = Chunks /\ UNCHANGED saved
    BY <1>9 DEF ForceCheck, ForceCheckChunks
  <2>2. map' = [c \in Chunks |-> IF c \in Chunks THEN "checking" ELSE map[c]]
    BY <2>1
  <2>3. Life!CheckAgain
    BY <1>a, <2>1, <2>2 DEF Life!CheckAgain, Life!Become
  <2>4. QED
    BY <2>3 DEF Life!LifeNext
<1>10. ASSUME NEW p \in Peers, NEW S, SetSourceMap(p, S) PROVE UNCHANGED Life!lifeVars
  BY <1>10, <1>b DEF SetSourceMap, SetPeerAvailabilityMap
<1>11. CASE SaveList
  <2>1. Life!Save
    BY <1>11 DEF SaveList, chunkVars, Life!Save, Life!ChunksIn
  <2>2. QED
    BY <2>1 DEF Life!LifeNext
<1>12. CASE Restart
  <2>1. Life!Reload
    BY <1>12 DEF Restart, Load, Life!Reload
  <2>2. QED
    BY <2>1 DEF Life!LifeNext
<1>13. CASE UNCHANGED vars
  BY <1>13, <1>b DEF vars
<1>14. QED
  BY <1>1, <1>2, <1>3, <1>4, <1>6, <1>7, <1>8, <1>9, <1>10, <1>11, <1>12, <1>13
     DEF Next, RemoveFileSource, Life!LifeNext

(* Whatever arrives, in which order and how often: a chunk is only done     *)
(* after a check, is checked only when it was received, and isComplete()    *)
(* answers what the states of all chunks say.                               *)
THEOREM CreatorImplementsChunkLife ==
    ASSUME ForceInDownload = FALSE, Blocks # "late"
    PROVE  Spec => ImplementsChunkLife
<1>1. Init => Life!LifeInit
  BY DEF Init, NewChunkMap, Life!LifeInit
<1>2. CreatorOK /\ CreatorOK' /\ [Next]_vars => [Life!LifeNext]_(Life!lifeVars)
  BY NextRefines
<1>3. QED
  BY <1>1, <1>2, CreatorAlwaysOK, PTL DEF Spec, ImplementsChunkLife, Life!LifeSpec
=============================================================================
