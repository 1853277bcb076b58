----------------------- MODULE CrossValidation_proofs -----------------------
(* What every call of cv() keeps, whatever the data, the folds, the metrics  *)
(* and the bounds: the folds it builds hold every row out once and are even, *)
(* a score is out of sample, and the history it returns is the history of    *)
(* the rounds it names.                                                      *)
EXTENDS CrossValidation, FiniteSetTheorems, FunctionTheorems, SequenceTheorems,
        WellFoundedInduction, TLAPS

\* While there are splits, the training set they were made of is there.
DataHeld == pc \in {"split", "generated", "given"} => data \in Datasets

SplitInv == DataHeld /\ OutOfSample

\* A dataset numbers its rows from one and knows the query of each.
LEMMA DatasetShape ==
  ASSUME NEW d \in Datasets
  PROVE  /\ d.task \in {"classes", "values", "ranking"}
         /\ d.task # "ranking" => \A r \in Rows(d) : d.owner[r] = r
<1>1. PICK n \in 1 .. MaxRows : d \in DatasetsOf(n)
  BY DEF Datasets
<1>2. DOMAIN d.label = 1 .. n
  BY <1>1 DEF DatasetsOf
<1>3. d.task # "ranking" => d.owner = [r \in 1 .. n |-> r]
  BY <1>1 DEF DatasetsOf
<1>4. d.task \in {"classes", "values", "ranking"}
  BY <1>1 DEF DatasetsOf
<1>5. QED BY <1>2, <1>3, <1>4 DEF Rows

\* Folds that cv() builds and that pass the check are out of sample: outside a
\* ranking a row is its own query, in one the held-out rows are whole queries.
LEMMA GeneratedOutOfSample ==
  ASSUME NEW d \in Datasets, NEW stratified \in BOOLEAN, NEW order, NEW k,
         NEW f \in 1 .. k,
         SplitChecks(d, GeneratedSplits(d, stratified, order, k)[f]),
         NEW r \in GeneratedSplits(d, stratified, order, k)[f].train,
         NEW t \in GeneratedSplits(d, stratified, order, k)[f].test
  PROVE  d.owner[r] # d.owner[t]
<1> DEFINE held == HeldOut(d, stratified, order, k)
           s == GeneratedSplits(d, stratified, order, k)[f]
<1>1. s = [train |-> Rows(d) \ held[f], test |-> held[f]]
  BY DEF GeneratedSplits
<1>2. r \in Rows(d) \ held[f] /\ t \in held[f] /\ t \in Rows(d)
  BY <1>1 DEF SplitChecks
<1>3. CASE d.task # "ranking"
  BY <1>2, <1>3, DatasetShape
<1>4. CASE d.task = "ranking"
  <2>1. held = [g \in 1 .. k |-> RowsOf(d, ChunkFolds(order, k)[g])]
    BY <1>4 DEF HeldOut
  <2>2. held[f] = RowsOf(d, ChunkFolds(order, k)[f])
    BY <2>1
  <2>3. QED BY <1>2, <2>2 DEF RowsOf
<1>5. QED BY <1>3, <1>4

\* Folds that cv() was given and accepted are out of sample.
LEMMA GivenOutOfSample ==
  ASSUME NEW d \in Datasets, NEW s,
         GivenAccepted(d, s), SplitChecks(d, s),
         NEW r \in s.train, NEW t \in s.test
  PROVE  d.owner[r] # d.owner[t]
<1>1. r \in Rows(d) /\ t \in Rows(d) /\ r # t
  BY DEF SplitChecks
<1>2. CASE d.task # "ranking"
  BY <1>1, <1>2, DatasetShape
<1>3. CASE d.task = "ranking"
  BY <1>3 DEF GivenAccepted, WholeQueries
<1>4. QED BY <1>2, <1>3

LEMMA SplitInit == Init => SplitInv
BY DEF Init, SplitInv, DataHeld, OutOfSample

LEMMA SplitStep == SplitInv /\ [Next]_vars => SplitInv'
<1> SUFFICES ASSUME SplitInv, [Next]_vars PROVE SplitInv'
  OBVIOUS
<1> USE DEF SplitInv, DataHeld
<1>1. CASE Generate
  <2>1. DataHeld' BY <1>1 DEF Generate
  <2>2. ASSUME pc' = "generated" PROVE OutOfSample'
    <3>1. PICK k \in FoldCounts, stratified \in BOOLEAN,
               order \in Orders(Items(data)) :
            /\ splits' = GeneratedSplits(data, stratified, order, k)
            /\ \A s \in Range(splits') : SplitChecks(data, s)
      BY <1>1, <2>2 DEF Generate
    <3>2. data \in Datasets /\ data' = data
      BY <1>1 DEF Generate
    <3>3. ASSUME NEW s \in Range(splits')
          PROVE  /\ SplitChecks(data, s)
                 /\ \A r \in s.train, t \in s.test :
                      data.owner[r] # data.owner[t]
      <4>1. PICK f \in 1 .. k :
              s = GeneratedSplits(data, stratified, order, k)[f]
        BY <3>1, <3>3 DEF Range, GeneratedSplits
      <4>2. SplitChecks(data, s) BY <3>1, <3>3
      <4>3. QED BY <3>2, <4>1, <4>2, GeneratedOutOfSample
    <3>4. QED BY <3>2, <3>3 DEF OutOfSample, SplitChecks, Rows
  <2>3. pc' \in {"generated", "raised"}
    BY <1>1 DEF Generate
  <2>4. QED BY <2>1, <2>2, <2>3 DEF OutOfSample
<1>2. CASE Given
  <2>1. DataHeld' BY <1>2 DEF Given
  <2>2. ASSUME pc' = "given" PROVE OutOfSample'
    <3>1. data \in Datasets /\ data' = data
      BY <1>2 DEF Given
    <3>2. \A s \in Range(splits') : GivenAccepted(data, s)
                                    /\ SplitChecks(data, s)
      BY <1>2, <2>2 DEF Given
    <3>3. ASSUME NEW s \in Range(splits')
          PROVE  \A r \in s.train, t \in s.test :
                   data.owner[r] # data.owner[t]
      BY <3>1, <3>2, GivenOutOfSample
    <3>4. QED BY <3>1, <3>2, <3>3 DEF OutOfSample, SplitChecks, Rows
  <2>3. pc' \in {"given", "raised"}
    BY <1>2 DEF Given
  <2>4. QED BY <2>1, <2>2, <2>3 DEF OutOfSample
<1>3. CASE BuildFolds
  BY <1>3 DEF BuildFolds, OutOfSample
<1>4. CASE Before \/ StopBefore \/ GrowAndScore \/ StopAfter \/ Observe
           \/ RunOut \/ Raise
  <2>1. pc' \in {"before", "grow", "after", "done", "raised"}
    BY <1>4 DEF Before, StopBefore, GrowAndScore, StopAfter, Observe, RunOut,
                Raise, End
  <2>2. QED BY <2>1 DEF OutOfSample
<1>5. CASE UNCHANGED vars
  BY <1>5 DEF vars, OutOfSample, Rows
<1>6. QED BY <1>1, <1>2, <1>3, <1>4, <1>5 DEF Next

\* No fold cv() trains is scored on a row it trained on, nor, in a ranking, on
\* a row of a query it trained on.
THEOREM ScoresAreOutOfSample == Spec => []OutOfSample
<1>1. SplitInv => OutOfSample
  BY DEF SplitInv
<1>2. QED BY SplitInit, SplitStep, <1>1, PTL DEF Spec

----------------------------------------------------------------------------
(* The folds cv() builds: every row is in one of them, and they are even.    *)

\* What division leaves is less than the divisor.
LEMMA Division ==
  ASSUME NEW n \in Int, NEW k \in Nat \ {0}
  PROVE  /\ n \div k \in Int /\ n % k \in 0 .. k - 1
         /\ n = k * (n \div k) + (n % k)
  OBVIOUS

\* The quotient of a natural number is one.
LEMMA DivisionOfNat ==
  ASSUME NEW n \in Nat, NEW k \in Nat \ {0}
  PROVE  n \div k \in Nat
<1>1. n \div k \in Int /\ n % k \in 0 .. k - 1 /\ n = k * (n \div k) + (n % k)
  BY Division
<1>2. ASSUME NEW a \in Int, a < 0 PROVE k * a <= -k
  BY <1>2
<1> QED  BY <1>1, <1>2

\* A remainder is what is left of the number in one class.
LEMMA Remainder ==
  ASSUME NEW q \in Int, NEW c \in Nat, NEW k \in Nat \ {0}, c < k
  PROVE  (k * q + c) % k = c
<1> DEFINE n == k * q + c
<1>1. n \in Int  OBVIOUS
<1>2. n \div k \in Int /\ n % k \in 0 .. k - 1 /\ n = k * (n \div k) + (n % k)
  BY <1>1, Division
<1> QED  BY <1>2

\* A product grows with its factor.
LEMMA Monotone ==
  ASSUME NEW a \in Nat, NEW x \in Int, NEW y \in Int, x <= y
  PROVE  x * a <= y * a
  OBVIOUS

\* A product is one factor more than the product before it.
LEMMA Distribute ==
  ASSUME NEW a \in Int, NEW x \in Int
  PROVE  x * a = (x - 1) * a + a
  OBVIOUS

\* A set of natural numbers has a least one.
LEMMA LeastNatural ==
  ASSUME NEW S \in SUBSET Nat, S # {}
  PROVE  \E m \in S : \A n \in S : m <= n
<1> DEFINE R == {p \in Nat \X Nat : p[1] < p[2]}
<1>1. IsWellFoundedOn(R, Nat)  BY NatLessThanWellFounded DEF OpToRel
<1> HIDE DEF R
<1>2. PICK m \in S : \A n \in S : ~(<<n, m>> \in R)
  BY <1>1, WFMin
<1>3. \A n \in S : ~(n < m)
  BY <1>2 DEF R
<1> QED  BY <1>3

\* The places of a list of n items that fold f takes.
Start(n, k, f) == (f - 1) * (n \div k) + Least(f - 1, n % k)
Size(n, k, f) == n \div k + IF f <= n % k THEN 1 ELSE 0
ChunkPlaces(n, k, f) == Start(n, k, f) + 1 .. Start(n, k, f) + Size(n, k, f)

\* The chunks follow one another from the first item to the last, and their
\* sizes differ by one at most.
LEMMA ChunksFollow ==
  ASSUME NEW n \in Nat, NEW k \in Nat \ {0}
  PROVE  /\ \A f \in 1 .. k + 1 : Start(n, k, f) \in Nat
         /\ \A f \in 1 .. k : /\ Size(n, k, f) \in Nat
                              /\ Start(n, k, f) + Size(n, k, f) = Start(n, k, f + 1)
         /\ Start(n, k, 1) = 0 /\ Start(n, k, k + 1) = n
         /\ \A f, g \in 1 .. k + 1 : f <= g => Start(n, k, f) <= Start(n, k, g)
         /\ \A f, g \in 1 .. k : Size(n, k, f) <= Size(n, k, g) + 1
<1> DEFINE a == n \div k
           b == n % k
<1>1. a \in Nat /\ b \in 0 .. k - 1 /\ n = k * a + b
  <2>1. n \in Int  OBVIOUS
  <2>2. n \div k \in Int /\ n % k \in 0 .. k - 1 /\ n = k * (n \div k) + (n % k)
    BY <2>1, Division
  <2>3. n \div k \in Nat
    BY DivisionOfNat
  <2> QED  BY <2>2, <2>3, Zenon
<1>2. \A f \in 1 .. k + 1 : Start(n, k, f) = (f - 1) * a + Least(f - 1, b)
  BY <1>1 DEF Start
<1>3. \A f \in 1 .. k : Size(n, k, f) = a + IF f <= b THEN 1 ELSE 0
  BY <1>1 DEF Size
<1> HIDE DEF a, b
<1>4. \A f \in 1 .. k + 1 : Least(f - 1, b) \in Nat /\ (f - 1) * a \in Nat
  BY <1>1, Monotone DEF Least
<1>5. ASSUME NEW f \in 1 .. k
      PROVE  /\ Size(n, k, f) \in Nat
             /\ Start(n, k, f) + Size(n, k, f) = Start(n, k, f + 1)
  <2>1. Least(f, b) = Least(f - 1, b) + IF f <= b THEN 1 ELSE 0
    BY <1>1 DEF Least
  <2>2. f * a = (f - 1) * a + a
    BY <1>1, Distribute
  <2>3. Start(n, k, f + 1) = f * a + Least(f, b)
    <3>1. f + 1 \in 1 .. k + 1 /\ (f + 1) - 1 = f  OBVIOUS
    <3> QED  BY <1>2, <3>1
  <2>4. Start(n, k, f) = (f - 1) * a + Least(f - 1, b)
    BY <1>2
  <2>5. (f - 1) * a \in Nat /\ Least(f - 1, b) \in Nat
    BY <1>4
  <2> DEFINE x == (f - 1) * a
             y == Least(f - 1, b)
  <2> HIDE DEF x, y
  <2>6. Start(n, k, f) = x + y /\ x \in Nat /\ y \in Nat
    BY <2>4, <2>5 DEF x, y
  <2>7. Start(n, k, f + 1) = x + a + (y + IF f <= b THEN 1 ELSE 0)
    BY <2>1, <2>2, <2>3 DEF x, y
  <2> QED  BY <1>1, <1>3, <2>6, <2>7
<1>6. Start(n, k, 1) = 0
  BY <1>1, <1>2 DEF Least
<1>7. Start(n, k, k + 1) = n
  BY <1>1, <1>2 DEF Least
<1>8. ASSUME NEW f \in 1 .. k + 1, NEW g \in 1 .. k + 1, f <= g
      PROVE  Start(n, k, f) <= Start(n, k, g)
  <2>1. (f - 1) * a <= (g - 1) * a
    BY <1>1, <1>8, Monotone
  <2>2. Least(f - 1, b) <= Least(g - 1, b)
    BY <1>1, <1>8 DEF Least
  <2> DEFINE x == (f - 1) * a
             y == (g - 1) * a
  <2>3. Start(n, k, f) = x + Least(f - 1, b) /\ Start(n, k, g) = y + Least(g - 1, b)
    BY <1>2
  <2>4. x \in Nat /\ y \in Nat /\ Least(f - 1, b) \in Nat /\ Least(g - 1, b) \in Nat
    BY <1>4
  <2> HIDE DEF x, y
  <2> QED  BY <2>1, <2>2, <2>3, <2>4 DEF x, y
<1>9. \A f, g \in 1 .. k : Size(n, k, f) <= Size(n, k, g) + 1
  BY <1>1, <1>3
<1>10. \A f \in 1 .. k + 1 : Start(n, k, f) \in Nat
  BY <1>2, <1>4
<1> QED  BY <1>5, <1>6, <1>7, <1>8, <1>9, <1>10

\* Every place is one fold's, and no other's.
LEMMA ChunksPartition ==
  ASSUME NEW n \in Nat, NEW k \in Nat \ {0}, NEW i \in 1 .. n
  PROVE  \E f \in 1 .. k : \A g \in 1 .. k : i \in ChunkPlaces(n, k, g) <=> g = f
<1> DEFINE S == {f \in Nat : f \in 1 .. k /\ i <= Start(n, k, f + 1)}
<1>1. k \in S
  BY ChunksFollow
<1>2. PICK f \in S : \A g \in S : f <= g
  BY <1>1, LeastNatural
<1>3. f \in 1 .. k /\ i <= Start(n, k, f + 1)
  OBVIOUS
<1>4. Start(n, k, f) < i
  <2>1. CASE f = 1
    BY <2>1, ChunksFollow
  <2>2. CASE f # 1
    <3>1. f - 1 \in 1 .. k /\ f - 1 \notin S /\ (f - 1) + 1 = f
      BY <1>2, <1>3, <2>2
    <3>2. ~(i <= Start(n, k, f))
      BY <3>1
    <3> QED  BY <3>2, <1>3, ChunksFollow
  <2> QED  BY <2>1, <2>2
<1> HIDE DEF S
<1>5. i \in ChunkPlaces(n, k, f)
  BY <1>3, <1>4, ChunksFollow DEF ChunkPlaces
<1>6. ASSUME NEW g \in 1 .. k, i \in ChunkPlaces(n, k, g) PROVE g = f
  <2>1. Start(n, k, g) < i /\ i <= Start(n, k, g + 1) /\ Start(n, k, g) \in Nat
        /\ Start(n, k, g + 1) \in Nat
    <3>1. g \in 1 .. k + 1 /\ g + 1 \in 1 .. k + 1  OBVIOUS
    <3>2. Start(n, k, g) \in Nat /\ Start(n, k, g + 1) \in Nat
      BY <3>1, ChunksFollow
    <3>3. Start(n, k, g) + Size(n, k, g) = Start(n, k, g + 1)
      BY ChunksFollow
    <3> QED  BY <1>6, <3>2, <3>3 DEF ChunkPlaces
  <2>2. CASE g < f
    <3>1. Start(n, k, g + 1) <= Start(n, k, f)  BY <1>3, <2>2, ChunksFollow
    <3> QED  BY <1>3, <1>4, <2>1, <3>1, ChunksFollow
  <2>3. CASE f < g
    <3>1. Start(n, k, f + 1) <= Start(n, k, g)  BY <1>3, <2>3, ChunksFollow
    <3> QED  BY <1>3, <1>4, <2>1, <3>1, ChunksFollow
  <2> QED  BY <1>3, <2>2, <2>3
<1> QED  BY <1>3, <1>5, <1>6

\* A shuffle of n items leaves each of them at one place.
LEMMA Permutation ==
  ASSUME NEW n \in Nat, NEW order \in Orders(n)
  PROVE  /\ order \in [1 .. n -> 1 .. n] /\ Len(order) = n
         /\ \A i, j \in 1 .. n : order[i] = order[j] => i = j
         /\ \A x \in 1 .. n : \E i \in 1 .. n : order[i] = x
<1>1. order \in [1 .. n -> 1 .. n] /\ IsInjective(order)
  BY DEF Orders
<1>2. order \in Injection(1 .. n, 1 .. n)
  BY <1>1 DEF Injection
<1>3. IsFiniteSet(1 .. n)
  BY FS_Interval
<1>4. order \in Surjection(1 .. n, 1 .. n)
  BY <1>2, <1>3, FS_Injection
<1>5. order \in Seq(1 .. n) /\ Len(order) = n
  BY <1>1
<1> QED  BY <1>1, <1>4, <1>5 DEF IsInjective, Surjection

\* LabelPlaces the items, held gives each to one of k folds.
Partitions(held, k, items) ==
  \A x \in items : \E f \in 1 .. k : \A g \in 1 .. k : x \in held[g] <=> g = f

\* The chunks deal every item to one fold, and are as large as each other but
\* for one item.
LEMMA ChunksDeal ==
  ASSUME NEW n \in Nat, NEW k \in Nat \ {0}, NEW order \in Orders(n)
  PROVE  /\ Partitions(ChunkFolds(order, k), k, 1 .. n)
         /\ \A f \in 1 .. k : /\ ChunkFolds(order, k)[f] \subseteq 1 .. n
                              /\ IsFiniteSet(ChunkFolds(order, k)[f])
                              /\ Cardinality(ChunkFolds(order, k)[f]) = Size(n, k, f)
<1> DEFINE held == ChunkFolds(order, k)
<1>1. ASSUME NEW f \in 1 .. k PROVE held[f] = {order[i] : i \in ChunkPlaces(n, k, f)}
  BY Permutation DEF ChunkFolds, ChunkPlaces, Start, Size
<1> HIDE DEF held
<1>2. ASSUME NEW f \in 1 .. k
      PROVE  ChunkPlaces(n, k, f) \subseteq 1 .. n /\ Size(n, k, f) \in Nat
             /\ Start(n, k, f) \in Nat
  <2>1. f \in 1 .. k + 1 /\ f + 1 \in 1 .. k + 1 /\ k + 1 \in 1 .. k + 1 /\ f + 1 <= k + 1
    OBVIOUS
  <2>2. Start(n, k, f) \in Nat /\ Size(n, k, f) \in Nat
        /\ Start(n, k, f) + Size(n, k, f) = Start(n, k, f + 1)
    BY <2>1, ChunksFollow
  <2>3. Start(n, k, f + 1) <= n
    BY <2>1, ChunksFollow
  <2> QED  BY <2>2, <2>3 DEF ChunkPlaces
<1>0. /\ order \in [1 .. n -> 1 .. n]
      /\ \A i, j \in 1 .. n : order[i] = order[j] => i = j
      /\ \A x \in 1 .. n : \E i \in 1 .. n : order[i] = x
  BY Permutation
<1>3. Partitions(held, k, 1 .. n)
  <2> SUFFICES ASSUME NEW x \in 1 .. n
               PROVE  \E f \in 1 .. k : \A g \in 1 .. k : x \in held[g] <=> g = f
    BY DEF Partitions
  <2>1. PICK i \in 1 .. n : order[i] = x
    BY <1>0
  <2>2. ASSUME NEW g \in 1 .. k PROVE x \in held[g] <=> i \in ChunkPlaces(n, k, g)
    <3>1. held[g] = {order[j] : j \in ChunkPlaces(n, k, g)} /\ ChunkPlaces(n, k, g) \subseteq 1 .. n
      BY <1>1, <1>2
    <3> QED  BY <1>0, <2>1, <3>1
  <2>3. PICK f \in 1 .. k : \A g \in 1 .. k : i \in ChunkPlaces(n, k, g) <=> g = f
    BY ChunksPartition
  <2> QED  BY <2>2, <2>3
<1>4. ASSUME NEW f \in 1 .. k
      PROVE  /\ held[f] \subseteq 1 .. n /\ IsFiniteSet(held[f])
             /\ Cardinality(held[f]) = Size(n, k, f)
  <2> DEFINE P == ChunkPlaces(n, k, f)
             image == [i \in P |-> order[i]]
  <2>1. held[f] = {order[i] : i \in P} /\ P \subseteq 1 .. n
    BY <1>1, <1>2
  <2>2. held[f] \subseteq 1 .. n
    BY <1>0, <2>1
  <2>3. image \in Bijection(P, held[f])
    <3>1. image \in [P -> held[f]]  BY <2>1
    <3>2. \A i, j \in P : image[i] = image[j] => i = j  BY <1>0, <2>1
    <3>3. \A x \in held[f] : \E i \in P : image[i] = x  BY <2>1
    <3> HIDE DEF image
    <3> QED  BY <3>1, <3>2, <3>3, Fun_IsBij
  <2>4. IsFiniteSet(P) /\ Cardinality(P) = Size(n, k, f)
    <3>1. Start(n, k, f) \in Nat /\ Size(n, k, f) \in Nat  BY <1>2
    <3> DEFINE s == Start(n, k, f)
               z == Size(n, k, f)
    <3> HIDE DEF s, z
    <3>2. s \in Nat /\ z \in Nat /\ P = s + 1 .. s + z  BY <3>1 DEF s, z, ChunkPlaces
    <3>3. IsFiniteSet(s + 1 .. s + z) /\ Cardinality(s + 1 .. s + z) = z
      BY <3>2, FS_Interval
    <3> QED  BY <3>2, <3>3 DEF z
  <2>5. ExistsBijection(P, held[f])
    BY <2>3 DEF ExistsBijection
  <2> HIDE DEF P
  <2>6. IsFiniteSet(held[f]) /\ Cardinality(held[f]) = Cardinality(P)
    BY <2>4, <2>5, FS_Bijection
  <2> QED  BY <2>2, <2>4, <2>6
<1> QED  BY <1>3, <1>4 DEF held

\* Queries are numbered from one without a gap.
LEMMA QueriesAreNumbered ==
  ASSUME NEW n \in Nat \ {0}, NEW o \in Owners(n)
  PROVE  \E m \in 1 .. n : Range(o) = 1 .. m
<1>1. /\ o \in [1 .. n -> 1 .. n] /\ o[1] = 1
      /\ \A r \in 2 .. n : o[r] \in {o[r - 1], o[r - 1] + 1}
  BY DEF Owners
<1>2. ASSUME NEW r \in 1 .. n, NEW q \in 1 .. o[r] PROVE q \in Range(o)
  <2> DEFINE S == {s \in Nat : s \in 1 .. n /\ \E p \in 1 .. o[s] : p \notin Range(o)}
  <2> SUFFICES ASSUME S # {} PROVE FALSE
    BY <1>2
  <2>1. PICK s \in S : \A t \in S : s <= t
    BY LeastNatural
  <2>2. PICK p \in 1 .. o[s] : s \in 1 .. n /\ p \notin Range(o)
    OBVIOUS
  <2>3. o[s] \in Range(o) /\ p # o[s]
    BY <1>1, <2>2 DEF Range
  <2>4. s # 1
    BY <1>1, <2>2, <2>3
  <2>5. s - 1 \in 1 .. n /\ s \in 2 .. n
    BY <2>2, <2>4
  <2>6. p \in 1 .. o[s - 1]
    <3>1. o[s] \in {o[s - 1], o[s - 1] + 1} /\ o[s - 1] \in 1 .. n  BY <1>1, <2>5
    <3> QED  BY <2>2, <2>3, <3>1
  <2>7. s - 1 \in S
    BY <2>2, <2>5, <2>6
  <2> QED  BY <2>1, <2>5, <2>7
<1>3. Range(o) \subseteq 1 .. n /\ 1 \in Range(o)
  BY <1>1 DEF Range
<1>4. PICK m \in Range(o) : \A q \in Range(o) : q <= m
  <2> DEFINE S == {s \in Nat : s <= n /\ n - s \in Range(o)}
  <2>1. n - 1 \in S
    <3>1. n - 1 \in Nat /\ n - (n - 1) = 1 /\ n - 1 <= n  OBVIOUS
    <3> QED  BY <1>3, <3>1
  <2>2. PICK s \in S : \A t \in S : s <= t
    BY <2>1, LeastNatural
  <2>3. n - s \in Range(o)  OBVIOUS
  <2>4. ASSUME NEW q \in Range(o) PROVE q <= n - s
    <3>1. q \in 1 .. n  BY <1>3
    <3>2. n - q \in Nat /\ n - q <= n /\ n - (n - q) = q  BY <3>1
    <3>3. n - q \in S  BY <3>2
    <3> QED  BY <2>2, <3>1, <3>3
  <2> QED  BY <2>3, <2>4
<1>5. m \in 1 .. n
  BY <1>3
<1>6. PICK r \in 1 .. n : o[r] = m
  BY <1>1 DEF Range
<1>7. Range(o) = 1 .. m
  <2>1. ASSUME NEW q \in Range(o) PROVE q \in 1 .. m
    <3>1. q \in 1 .. n /\ q <= m  BY <1>3, <1>4
    <3> QED  BY <1>5, <3>1
  <2>2. ASSUME NEW q \in 1 .. m PROVE q \in Range(o)
    BY <1>2, <1>6
  <2> QED  BY <2>1, <2>2
<1> QED  BY <1>5, <1>7

\* A dataset has its rows, and as many items to deal as there are.
LEMMA DatasetItems ==
  ASSUME NEW d \in Datasets
  PROVE  \E n \in Nat \ {0} :
           /\ Rows(d) = 1 .. n /\ DOMAIN d.owner = 1 .. n
           /\ d.task # "ranking" => Items(d) = n /\ \A r \in 1 .. n : d.owner[r] = r
           /\ d.task = "ranking" =>
                /\ Items(d) \in Nat /\ Queries(d) = 1 .. Items(d)
                /\ \A r \in 1 .. n : d.owner[r] \in 1 .. Items(d)
<1>1. PICK n \in 1 .. MaxRows : d \in DatasetsOf(n)
  BY DEF Datasets
<1>2. n \in Nat \ {0}
  BY CvAssumption
<1>3. Rows(d) = 1 .. n
  BY <1>1 DEF DatasetsOf, Rows
<1>4. IsFiniteSet(1 .. n) /\ Cardinality(1 .. n) = n
  BY <1>2, FS_Interval
<1>5. CASE d.task # "ranking"
  <2>1. d.owner = [r \in 1 .. n |-> r]
    BY <1>1, <1>5 DEF DatasetsOf
  <2>2. DOMAIN d.owner = 1 .. n
    BY <2>1
  <2> QED  BY <1>2, <1>3, <1>4, <1>5, <2>1, <2>2 DEF Items
<1>6. CASE d.task = "ranking"
  <2>1. d.owner \in Owners(n)
    BY <1>1, <1>6 DEF DatasetsOf
  <2>2. PICK m \in 1 .. n : Range(d.owner) = 1 .. m
    BY <1>2, <2>1, QueriesAreNumbered
  <2>3. Items(d) = m
    <3>1. m \in Nat /\ Cardinality(1 .. m) = m  BY <2>2, FS_Interval
    <3> QED  BY <1>6, <2>2, <3>1 DEF Items, Queries
  <2>4. DOMAIN d.owner = 1 .. n /\ \A r \in 1 .. n : d.owner[r] \in 1 .. m
    <3>1. DOMAIN d.owner = 1 .. n  BY <2>1 DEF Owners
    <3> QED  BY <2>2, <3>1 DEF Range
  <2> QED  BY <1>2, <1>3, <1>6, <2>2, <2>3, <2>4 DEF Queries
<1> QED  BY <1>5, <1>6

\* The numbers below m that leave c.
Residues(m, k, c) == {p \in 0 .. m - 1 : p % k = c}

\* What is dealt round-robin is dealt evenly.
LEMMA ResiduesAreEven ==
  ASSUME NEW m \in Nat, NEW k \in Nat \ {0}, NEW c \in 0 .. k - 1, NEW e \in 0 .. k - 1
  PROVE  /\ IsFiniteSet(Residues(m, k, c))
         /\ Cardinality(Residues(m, k, c)) <= Cardinality(Residues(m, k, e)) + 1
<1>1. \A b \in 0 .. k - 1 : IsFiniteSet(Residues(m, k, b)) /\ Cardinality(Residues(m, k, b)) \in Nat
  <2> TAKE b \in 0 .. k - 1
  <2>1. IsFiniteSet(0 .. m - 1)  BY FS_Interval
  <2>2. Residues(m, k, b) \subseteq 0 .. m - 1  BY DEF Residues
  <2>3. IsFiniteSet(Residues(m, k, b))  BY <2>1, <2>2, FS_Subset
  <2> QED  BY <2>3, FS_CardinalityType
<1>2. ASSUME NEW p \in Residues(m, k, c)
      PROVE  /\ p \in Nat /\ p < m /\ p \div k \in Nat
             /\ p = k * (p \div k) + c
  <2>1. p \in Nat /\ p < m /\ p % k = c  BY DEF Residues
  <2>2. p \in Int  BY <2>1
  <2>3. p = k * (p \div k) + (p % k)  BY <2>2, Division
  <2> QED  BY <2>1, <2>3, DivisionOfNat
<1>3. CASE e <= c
  <2> DEFINE shift == [p \in Residues(m, k, c) |-> p - (c - e)]
  <2>1. ASSUME NEW p \in Residues(m, k, c) PROVE shift[p] \in Residues(m, k, e)
    <3>1. PICK q \in Nat : p = k * q + c  BY <1>2
    <3>2. p \in Nat /\ p < m  BY <1>2
    <3>3. shift[p] = k * q + e /\ (k * q + e) % k = e
      BY <3>1, Remainder
    <3>4. k * q \in Nat  BY <3>1, Monotone
    <3>5. k * q + e \in 0 .. m - 1  BY <1>3, <3>1, <3>2, <3>4
    <3> QED  BY <3>3, <3>5 DEF Residues
  <2>2. \A p, q \in Residues(m, k, c) : shift[p] = shift[q] => p = q
    BY <1>2
  <2>3. shift \in [Residues(m, k, c) -> Residues(m, k, e)]
    BY <2>1
  <2> HIDE DEF shift
  <2>4. shift \in Injection(Residues(m, k, c), Residues(m, k, e))
    BY <2>2, <2>3, Fun_IsInj
  <2>5. Cardinality(Residues(m, k, c)) <= Cardinality(Residues(m, k, e))
    BY <1>1, <2>4, FS_Injection
  <2> QED  BY <1>1, <2>5
<1>4. CASE c < e
  <2> DEFINE tail == Residues(m, k, c) \ {c}
             shift == [p \in tail |-> p + (e - c) - k]
  <2>1. ASSUME NEW p \in tail PROVE shift[p] \in Residues(m, k, e)
    <3>1. PICK q \in Nat : p = k * q + c  BY <1>2
    <3>2. p \in Nat /\ p < m  BY <1>2
    <3>3. q # 0  BY <3>1
    <3>4. q - 1 \in Nat  BY <3>3
    <3>5. k * q = k * (q - 1) + k  BY Distribute
    <3>6. k * (q - 1) \in Nat  BY <3>4, Monotone
    <3> DEFINE w == k * (q - 1)
    <3>7. (w + e) % k = e  BY <3>4, Remainder
    <3>8. k * q = w + k /\ w \in Nat  BY <3>5, <3>6
    <3> HIDE DEF w
    <3>9. p = w + k + c  BY <3>1, <3>8
    <3>10. shift[p] = w + e /\ w + e \in 0 .. m - 1  BY <3>2, <3>8, <3>9
    <3> QED  BY <3>7, <3>10 DEF Residues
  <2>2. \A p, q \in tail : shift[p] = shift[q] => p = q
    <3> TAKE p \in tail, q \in tail
    <3>1. p \in Int /\ q \in Int  BY <1>2
    <3> QED  BY <3>1
  <2>3. shift \in [tail -> Residues(m, k, e)]
    BY <2>1
  <2> HIDE DEF shift
  <2>4. shift \in Injection(tail, Residues(m, k, e))
    BY <2>2, <2>3, Fun_IsInj
  <2>5. Cardinality(tail) <= Cardinality(Residues(m, k, e))
    BY <1>1, <2>4, FS_Injection
  <2>6. Cardinality(Residues(m, k, c)) <= Cardinality(tail) + 1
    BY <1>1, FS_RemoveElement
  <2>7. IsFiniteSet(tail) /\ Cardinality(tail) \in Nat
    BY <1>1, FS_RemoveElement, FS_CardinalityType
  <2> HIDE DEF tail
  <2> QED  BY <1>1, <2>5, <2>6, <2>7
<1> QED  BY <1>1, <1>3, <1>4

\* How many of the label's rows come before the one at place i.
Position(order, label, i) == Cardinality({j \in 1 .. i - 1 : label[order[j]] = label[order[i]]})

\* The places of the label's rows, and the position of each among them.
LabelPlaces(n, order, label, v) == {i \in 1 .. n : label[order[i]] = v}
Positions(n, order, label, v) ==
  [i \in LabelPlaces(n, order, label, v) |-> Position(order, label, i)]

\* The places of a label's rows are the positions below their number.
LEMMA PositionsCount ==
  ASSUME NEW n \in Nat, NEW order \in [1 .. n -> 1 .. n], NEW label, NEW v
  PROVE  /\ Cardinality(LabelPlaces(n, order, label, v)) \in Nat
         /\ Positions(n, order, label, v)
              \in Bijection(LabelPlaces(n, order, label, v), 0 .. Cardinality(LabelPlaces(n, order, label, v)) - 1)
<1> DEFINE I == LabelPlaces(n, order, label, v)
           pos == Positions(n, order, label, v)
           m == Cardinality(I)
           Smaller(i) == {j \in 1 .. i - 1 : label[order[j]] = label[order[i]]}
<1>1. I \subseteq 1 .. n /\ IsFiniteSet(I) /\ m \in Nat
  <2>1. IsFiniteSet(1 .. n) /\ I \subseteq 1 .. n  BY FS_Interval DEF LabelPlaces
  <2>2. IsFiniteSet(I)  BY <2>1, FS_Subset
  <2> QED  BY <2>1, <2>2, FS_CardinalityType
<1>2. ASSUME NEW i \in I
      PROVE  /\ Smaller(i) = {j \in I : j < i}
             /\ IsFiniteSet(Smaller(i)) /\ Cardinality(Smaller(i)) \in Nat
             /\ pos[i] = Cardinality(Smaller(i))
  <2>1. i \in 1 .. n /\ label[order[i]] = v  BY DEF LabelPlaces
  <2>2. Smaller(i) = {j \in I : j < i}  BY <2>1 DEF LabelPlaces
  <2>3. IsFiniteSet(Smaller(i))  BY <1>1, <2>2, FS_Subset
  <2> QED  BY <2>2, <2>3, FS_CardinalityType DEF Position, Positions
<1> HIDE DEF Smaller, I, pos, m
<1>3. ASSUME NEW i \in I PROVE pos[i] \in 0 .. m - 1
  <2>1. IsFiniteSet(I \ {i}) /\ Cardinality(I \ {i}) = m - 1
    BY <1>1, FS_RemoveElement DEF m
  <2>2. Smaller(i) \subseteq I \ {i}
    BY <1>1, <1>2
  <2>3. Cardinality(Smaller(i)) <= m - 1
    BY <2>1, <2>2, FS_Subset
  <2> QED  BY <1>1, <1>2, <2>3
<1>4. ASSUME NEW i \in I, NEW j \in I, i < j PROVE pos[i] < pos[j]
  <2>1. i \notin Smaller(i) /\ Smaller(i) \cup {i} \subseteq Smaller(j)
    <3>1. Smaller(i) = {h \in I : h < i} /\ Smaller(j) = {h \in I : h < j}
      BY <1>2
    <3>2. \A h \in I : h \in Int
      BY <1>1
    <3>3. \A h \in I : h < i => h < j
      BY <1>4, <3>2
    <3>4. ~(i < i)
      BY <3>2
    <3> QED  BY <1>4, <3>1, <3>3, <3>4
  <2>2. Cardinality(Smaller(i) \cup {i}) = Cardinality(Smaller(i)) + 1
    BY <1>2, <2>1, FS_AddElement
  <2>3. Cardinality(Smaller(i) \cup {i}) <= Cardinality(Smaller(j))
    BY <1>2, <2>1, FS_Subset
  <2> QED  BY <1>2, <2>2, <2>3
<1>5. \A i, j \in I : pos[i] = pos[j] => i = j
  <2> TAKE i \in I, j \in I
  <2>1. i \in Nat /\ j \in Nat  BY <1>1
  <2>2. pos[i] \in Nat /\ pos[j] \in Nat  BY <1>3
  <2>3. i < j \/ j < i \/ i = j  BY <2>1
  <2> QED  BY <1>4, <2>2, <2>3
<1>6. pos \in Injection(I, 0 .. m - 1)
  <2>1. pos \in [I -> 0 .. m - 1]
    <3>1. pos = [i \in I |-> Position(order, label, i)]  BY DEF pos, Positions, I
    <3> QED  BY <1>3, <3>1
  <2> QED  BY <1>5, <2>1, Fun_IsInj
<1>7. IsFiniteSet(0 .. m - 1) /\ Cardinality(0 .. m - 1) = m
  BY <1>1, FS_Interval
<1>8. pos \in Surjection(I, 0 .. m - 1)
  BY <1>1, <1>6, <1>7, FS_Injection DEF m
<1> QED  BY <1>1, <1>6, <1>8 DEF Bijection, m, I, pos

\* How many of a label's rows a fold holds.
HeldOf(fold, label, v) == Cardinality({r \in fold : label[r] = v})

\* Dealt label by label, every row is in one fold, and no fold has two more
\* rows of a label than another.
LEMMA StratifiedDeals ==
  ASSUME NEW n \in Nat, NEW k \in Nat \ {0}, NEW order \in Orders(n), NEW label
  PROVE  /\ Partitions(StratifiedFolds(order, label, k), k, 1 .. n)
         /\ \A f \in 1 .. k : StratifiedFolds(order, label, k)[f] \subseteq 1 .. n
         /\ \A v : \A f, g \in 1 .. k :
              HeldOf(StratifiedFolds(order, label, k)[f], label, v)
                <= HeldOf(StratifiedFolds(order, label, k)[g], label, v) + 1
<1> DEFINE held == StratifiedFolds(order, label, k)
<1>1. /\ order \in [1 .. n -> 1 .. n] /\ DOMAIN order = 1 .. n
      /\ \A i, j \in 1 .. n : order[i] = order[j] => i = j
      /\ \A x \in 1 .. n : \E i \in 1 .. n : order[i] = x
  BY Permutation
<1>2. ASSUME NEW f \in 1 .. k
      PROVE  held[f] = {order[i] : i \in {j \in 1 .. n : Position(order, label, j) % k = f - 1}}
  BY <1>1 DEF StratifiedFolds, Position
<1> HIDE DEF held
<1>3. ASSUME NEW i \in 1 .. n PROVE Position(order, label, i) \in Nat
  <2> DEFINE B == {j \in 1 .. i - 1 : label[order[j]] = label[order[i]]}
  <2>1. IsFiniteSet(1 .. i - 1)  BY FS_Interval
  <2>2. IsFiniteSet(B)  BY <2>1, FS_Subset
  <2> QED  BY <2>2, FS_CardinalityType DEF Position
<1>4. Partitions(held, k, 1 .. n)
  <2> SUFFICES ASSUME NEW x \in 1 .. n
               PROVE  \E f \in 1 .. k : \A g \in 1 .. k : x \in held[g] <=> g = f
    BY DEF Partitions
  <2>1. PICK i \in 1 .. n : order[i] = x
    BY <1>1
  <2>2. ASSUME NEW g \in 1 .. k
        PROVE  x \in held[g] <=> Position(order, label, i) % k = g - 1
    <3>1. \A j \in 1 .. n : order[j] = x <=> j = i
      BY <1>1, <2>1
    <3>2. held[g] = {order[j] : j \in {h \in 1 .. n : Position(order, label, h) % k = g - 1}}
      BY <1>2
    <3> QED  BY <3>1, <3>2
  <2>3. Position(order, label, i) \in Int  BY <1>3
  <2>4. Position(order, label, i) % k \in 0 .. k - 1  BY <2>3, Division
  <2>5. PICK f \in 1 .. k : f = (Position(order, label, i) % k) + 1
    BY <2>4
  <2> QED  BY <2>2, <2>4, <2>5
<1>5. ASSUME NEW f \in 1 .. k PROVE held[f] \subseteq 1 .. n
  BY <1>1, <1>2
<1>6. ASSUME NEW v, NEW f \in 1 .. k, NEW g \in 1 .. k
      PROVE  HeldOf(held[f], label, v) <= HeldOf(held[g], label, v) + 1
  <2> DEFINE I == LabelPlaces(n, order, label, v)
             pos == Positions(n, order, label, v)
             m == Cardinality(I)
  <2>1. m \in Nat /\ pos \in Bijection(I, 0 .. m - 1)
    BY <1>1, PositionsCount
  <2>2. /\ I \subseteq 1 .. n /\ \A i \in 1 .. n : i \in I <=> label[order[i]] = v
        /\ \A i \in I : pos[i] = Position(order, label, i)
    BY DEF LabelPlaces, Positions
  <2> HIDE DEF I, pos, m
  <2>3. /\ pos \in [I -> 0 .. m - 1]
        /\ \A i, j \in I : pos[i] = pos[j] => i = j
        /\ \A t \in 0 .. m - 1 : \E i \in I : pos[i] = t
    BY <2>1 DEF Bijection, Injection, Surjection, IsInjective
  <2>4. ASSUME NEW h \in 1 .. k
        PROVE  HeldOf(held[h], label, v) = Cardinality(Residues(m, k, h - 1))
    <3> DEFINE J == {i \in I : pos[i] % k = h - 1}
               rows == {r \in held[h] : label[r] = v}
               row == [i \in J |-> order[i]]
               nth == [i \in J |-> pos[i]]
    <3>1. rows = {order[i] : i \in J}
      <4>1. held[h] = {order[i] : i \in {j \in 1 .. n : Position(order, label, j) % k = h - 1}}
        BY <1>2
      <4>2. ASSUME NEW i \in J PROVE order[i] \in rows
        <5>1. i \in I /\ i \in 1 .. n /\ label[order[i]] = v  BY <2>2
        <5>2. Position(order, label, i) % k = h - 1  BY <2>2, <5>1
        <5> QED  BY <4>1, <5>1, <5>2
      <4>3. ASSUME NEW r \in rows PROVE \E i \in J : order[i] = r
        <5>1. PICK i \in 1 .. n : Position(order, label, i) % k = h - 1 /\ order[i] = r
          BY <4>1
        <5>2. i \in I  BY <2>2, <5>1
        <5>3. pos[i] % k = h - 1  BY <2>2, <5>1, <5>2
        <5> QED  BY <5>1, <5>2, <5>3
      <4> HIDE DEF J, rows
      <4> QED  BY <4>2, <4>3
    <3>2. nth \in Bijection(J, Residues(m, k, h - 1))
      <4>1. nth \in [J -> Residues(m, k, h - 1)]  BY <2>3 DEF Residues
      <4>2. \A i, j \in J : nth[i] = nth[j] => i = j  BY <2>3
      <4>3. \A t \in Residues(m, k, h - 1) : \E i \in J : nth[i] = t  BY <2>3 DEF Residues
      <4> HIDE DEF nth, J
      <4> QED  BY <4>1, <4>2, <4>3, Fun_IsBij
    <3>3. row \in Bijection(J, rows)
      <4>1. row \in [J -> rows]  BY <3>1
      <4>2. \A i, j \in J : row[i] = row[j] => i = j  BY <1>1, <2>2
      <4>3. \A r \in rows : \E i \in J : row[i] = r  BY <3>1
      <4> HIDE DEF row, J, rows
      <4> QED  BY <4>1, <4>2, <4>3, Fun_IsBij
    <3>4. IsFiniteSet(J)
      <4>1. IsFiniteSet(1 .. n)  BY FS_Interval
      <4>2. J \subseteq 1 .. n  BY <2>2
      <4> QED  BY <4>1, <4>2, FS_Subset
    <3> HIDE DEF J, rows, row, nth
    <3>5. Cardinality(rows) = Cardinality(J)
      BY <3>3, <3>4, FS_Bijection DEF ExistsBijection
    <3>6. Cardinality(Residues(m, k, h - 1)) = Cardinality(J)
      BY <3>2, <3>4, FS_Bijection DEF ExistsBijection
    <3> QED  BY <3>5, <3>6 DEF rows, HeldOf
  <2>5. f - 1 \in 0 .. k - 1 /\ g - 1 \in 0 .. k - 1
    OBVIOUS
  <2>6. Cardinality(Residues(m, k, f - 1)) <= Cardinality(Residues(m, k, g - 1)) + 1
    BY <2>1, <2>5, ResiduesAreEven
  <2> QED  BY <2>4, <2>6
<1> QED  BY <1>4, <1>5, <1>6 DEF held

\* One fold, of those that take x.
LEMMA OneFold ==
  ASSUME NEW held, NEW k \in Nat, NEW items, NEW x \in items, Partitions(held, k, items)
  PROVE  Cardinality({f \in 1 .. k : x \in held[f]}) = 1
<1>1. PICK f \in 1 .. k : \A g \in 1 .. k : x \in held[g] <=> g = f
  BY DEF Partitions
<1>2. {g \in 1 .. k : x \in held[g]} = {f}
  BY <1>1
<1> QED  BY <1>2, FS_Singleton

\* How many items of these rows a split holds out.
ItemsHeld(d, split, rows) == Cardinality({d.owner[r] : r \in split.test \cap rows})
LabelRows(d, v) == {r \in Rows(d) : d.label[r] = v}

\* Every row is held out once and trained on in the other folds, and the folds
\* are even: in items, or label by label.
FairSplits(d, s, k) ==
  /\ DOMAIN s = 1 .. k
  /\ \A r \in Rows(d) : Cardinality({f \in 1 .. k : r \in s[f].test}) = 1
  /\ \A f \in 1 .. k : s[f].train = Rows(d) \ s[f].test
  /\ \/ \A f, g \in 1 .. k :
          ItemsHeld(d, s[f], Rows(d)) <= ItemsHeld(d, s[g], Rows(d)) + 1
     \/ \A v : \A f, g \in 1 .. k :
          ItemsHeld(d, s[f], LabelRows(d, v)) <= ItemsHeld(d, s[g], LabelRows(d, v)) + 1

\* What cv() generates holds every row out once, and evenly.
LEMMA GeneratedHoldOutOnce ==
  ASSUME NEW d \in Datasets, NEW stratified \in BOOLEAN, NEW k \in Nat \ {0},
         NEW order \in Orders(Items(d)),
         NEW s, s = GeneratedSplits(d, stratified, order, k)
  PROVE  FairSplits(d, s, k)
<1> DEFINE held == HeldOut(d, stratified, order, k)
<1>1. /\ DOMAIN s = 1 .. k
      /\ \A f \in 1 .. k : s[f].test = held[f] /\ s[f].train = Rows(d) \ held[f]
  BY DEF GeneratedSplits
<1>2. PICK n \in Nat \ {0} :
        /\ Rows(d) = 1 .. n /\ DOMAIN d.owner = 1 .. n
        /\ d.task # "ranking" => Items(d) = n /\ \A r \in 1 .. n : d.owner[r] = r
        /\ d.task = "ranking" =>
             /\ Items(d) \in Nat /\ Queries(d) = 1 .. Items(d)
             /\ \A r \in 1 .. n : d.owner[r] \in 1 .. Items(d)
  BY DatasetItems
<1>3. ASSUME Partitions(held, k, 1 .. n), NEW r \in Rows(d)
      PROVE  Cardinality({f \in 1 .. k : r \in s[f].test}) = 1
  <2>1. {f \in 1 .. k : r \in s[f].test} = {f \in 1 .. k : r \in held[f]}
    BY <1>1
  <2>2. r \in 1 .. n /\ k \in Nat
    BY <1>2
  <2> HIDE DEF held
  <2>3. Cardinality({f \in 1 .. k : r \in held[f]}) = 1
    BY <1>3, <2>2, OneFold
  <2> QED  BY <2>1, <2>3
<1>4. \A f \in 1 .. k : s[f].train = Rows(d) \ s[f].test
  BY <1>1
<1>5. CASE d.task = "ranking"
  <2> DEFINE m == Items(d)
             chunk == ChunkFolds(order, k)
  <2>1. /\ m \in Nat /\ Partitions(chunk, k, 1 .. m)
        /\ \A f \in 1 .. k : chunk[f] \subseteq 1 .. m /\ Cardinality(chunk[f]) = Size(m, k, f)
    BY <1>2, <1>5, ChunksDeal
  <2>2. /\ \A r \in 1 .. n : d.owner[r] \in 1 .. m
        /\ \A q \in 1 .. m : \E r \in 1 .. n : d.owner[r] = q
    <3>1. Queries(d) = {d.owner[r] : r \in 1 .. n}  BY <1>2 DEF Queries, Range
    <3> HIDE DEF m
    <3>2. Queries(d) = 1 .. m  BY <1>2, <1>5 DEF m
    <3> QED  BY <3>1, <3>2
  <2> HIDE DEF m, chunk
  <2>3. ASSUME NEW f \in 1 .. k PROVE held[f] = {r \in 1 .. n : d.owner[r] \in chunk[f]}
    BY <1>2, <1>5 DEF HeldOut, RowsOf, chunk
  <2> HIDE DEF held
  <2>4. Partitions(held, k, 1 .. n)
    <3> SUFFICES ASSUME NEW r \in 1 .. n
                 PROVE  \E f \in 1 .. k : \A g \in 1 .. k : r \in held[g] <=> g = f
      BY DEF Partitions
    <3>1. PICK f \in 1 .. k : \A g \in 1 .. k : d.owner[r] \in chunk[g] <=> g = f
      BY <2>1, <2>2 DEF Partitions
    <3>2. \A g \in 1 .. k : r \in held[g] <=> d.owner[r] \in chunk[g]
      BY <2>3
    <3> QED  BY <3>1, <3>2
  <2>5. ASSUME NEW f \in 1 .. k PROVE ItemsHeld(d, s[f], Rows(d)) = Size(m, k, f)
    <3>1. s[f].test \cap Rows(d) = {r \in 1 .. n : d.owner[r] \in chunk[f]}
      BY <1>1, <1>2, <2>3 DEF held
    <3>2. {d.owner[r] : r \in {t \in 1 .. n : d.owner[t] \in chunk[f]}} = chunk[f]
      BY <2>1, <2>2
    <3> QED  BY <2>1, <3>1, <3>2 DEF ItemsHeld
  <2>6. \A f, g \in 1 .. k : Size(m, k, f) <= Size(m, k, g) + 1
    BY <2>1, ChunksFollow
  <2> QED  BY <1>1, <1>3, <1>4, <2>4, <2>5, <2>6 DEF FairSplits
<1>6. CASE d.task # "ranking" /\ ~(d.task = "classes" /\ stratified)
  <2>1. held = ChunkFolds(order, k)
    BY <1>6 DEF HeldOut
  <2> HIDE DEF held
  <2>2. /\ Partitions(held, k, 1 .. n)
        /\ \A f \in 1 .. k : held[f] \subseteq 1 .. n /\ Cardinality(held[f]) = Size(n, k, f)
    BY <1>2, <1>6, <2>1, ChunksDeal
  <2>3. ASSUME NEW f \in 1 .. k PROVE ItemsHeld(d, s[f], Rows(d)) = Size(n, k, f)
    <3>1. s[f].test \cap Rows(d) = held[f]
      BY <1>1, <1>2, <2>2 DEF held
    <3>2. {d.owner[r] : r \in held[f]} = held[f]
      BY <1>2, <1>6, <2>2
    <3> QED  BY <2>2, <3>1, <3>2 DEF ItemsHeld
  <2>4. \A f, g \in 1 .. k : Size(n, k, f) <= Size(n, k, g) + 1
    BY ChunksFollow
  <2> QED  BY <1>1, <1>3, <1>4, <2>2, <2>3, <2>4 DEF FairSplits
<1>7. CASE d.task = "classes" /\ stratified
  <2>1. held = StratifiedFolds(order, d.label, k)
    BY <1>7 DEF HeldOut
  <2> HIDE DEF held
  <2>2. order \in Orders(n) /\ n \in Nat /\ d.task # "ranking"
    BY <1>2, <1>7
  <2>3. /\ Partitions(held, k, 1 .. n)
        /\ \A f \in 1 .. k : held[f] \subseteq 1 .. n
    BY <2>1, <2>2, StratifiedDeals
  <2>4. \A v : \A f, g \in 1 .. k :
          HeldOf(held[f], d.label, v) <= HeldOf(held[g], d.label, v) + 1
    BY <2>1, <2>2, StratifiedDeals
  <2>5. ASSUME NEW v, NEW f \in 1 .. k
        PROVE  ItemsHeld(d, s[f], LabelRows(d, v)) = HeldOf(held[f], d.label, v)
    <3>1. s[f].test \cap LabelRows(d, v) = {r \in held[f] : d.label[r] = v}
      BY <1>1, <1>2, <2>3 DEF held, LabelRows
    <3>2. {d.owner[r] : r \in {t \in held[f] : d.label[t] = v}} = {r \in held[f] : d.label[r] = v}
      BY <1>2, <2>2, <2>3
    <3> QED  BY <3>1, <3>2 DEF ItemsHeld, HeldOf
  <2>6. \A v : \A f, g \in 1 .. k :
          ItemsHeld(d, s[f], LabelRows(d, v)) <= ItemsHeld(d, s[g], LabelRows(d, v)) + 1
    BY <2>4, <2>5
  <2> QED  BY <1>1, <1>3, <1>4, <2>3, <2>6 DEF FairSplits
<1> QED  BY <1>5, <1>6, <1>7

\* Folds that cv() generates hold every row out exactly once and evenly, for
\* every number of rows, queries, labels and folds and every shuffle.
THEOREM FoldsAreFair == Spec => []HeldOutOnce
<1>1. Init => HeldOutOnce
  BY DEF Init, HeldOutOnce
<1>2. DataHeld /\ [Next]_vars /\ HeldOutOnce => HeldOutOnce'
  <2> SUFFICES ASSUME DataHeld, [Next]_vars, HeldOutOnce PROVE HeldOutOnce'
    OBVIOUS
  <2>1. CASE Generate /\ pc' = "generated"
    <3>1. PICK k \in FoldCounts, stratified \in BOOLEAN, order \in Orders(Items(data)) :
            splits' = GeneratedSplits(data, stratified, order, k)
      BY <2>1 DEF Generate
    <3>2. data \in Datasets /\ data' = data /\ k \in Nat \ {0}
      BY <2>1, CvAssumption DEF Generate, DataHeld
    <3> DEFINE s == splits'
    <3>3. FairSplits(data, s, k)
      <4>1. k \in Nat \ {0} /\ s = GeneratedSplits(data, stratified, order, k)
        BY <3>1, <3>2
      <4> HIDE DEF s
      <4> QED  BY <3>2, <4>1, GeneratedHoldOutOnce
    <3> HIDE DEF s
    <3>4. \A t \in Range(s) : t.train = Rows(data) \ t.test
      BY <3>3 DEF FairSplits, Range
    <3>5. CASE \A f, g \in 1 .. k :
                 ItemsHeld(data, s[f], Rows(data)) <= ItemsHeld(data, s[g], Rows(data)) + 1
      <4>1. Even(Rows(data))'
        BY <3>2, <3>3, <3>5 DEF FairSplits, s, Even, ItemsHeld, Rows
      <4> QED  BY <3>2, <3>3, <3>4, <4>1 DEF FairSplits, s, HeldOutOnce, Rows
    <3>6. CASE \A v : \A f, g \in 1 .. k :
                 ItemsHeld(data, s[f], LabelRows(data, v))
                   <= ItemsHeld(data, s[g], LabelRows(data, v)) + 1
      <4>1. ASSUME NEW v PROVE Even({r \in Rows(data) : data.label[r] = v})'
        <5> DEFINE rows == {r \in Rows(data) : data.label[r] = v}
        <5>1. rows' = rows /\ rows = LabelRows(data, v)
          BY <3>2 DEF LabelRows, Rows
        <5>2. \A f, g \in 1 .. k : ItemsHeld(data, s[f], rows) <= ItemsHeld(data, s[g], rows) + 1
          BY <3>6, <5>1
        <5> HIDE DEF rows
        <5>3. Even(rows)'
          BY <3>2, <3>3, <5>1, <5>2 DEF FairSplits, s, Even, ItemsHeld
        <5> QED  BY <5>3 DEF rows
      <4> QED  BY <3>2, <3>3, <3>4, <4>1 DEF FairSplits, s, HeldOutOnce, Rows
    <3> QED  BY <3>3, <3>5, <3>6 DEF FairSplits
  <2>2. CASE ~(Generate /\ pc' = "generated")
    <3>1. pc' # "generated" \/ UNCHANGED vars
      BY <2>2 DEF Next, Given, BuildFolds, Before, StopBefore, GrowAndScore, StopAfter, Observe,
         RunOut, Raise, End
    <3>2. CASE UNCHANGED vars
      BY <3>2 DEF vars, HeldOutOnce, Even, Rows
    <3> QED  BY <3>1, <3>2 DEF HeldOutOnce
  <2> QED  BY <2>1, <2>2
<1>3. SplitInv => DataHeld
  BY DEF SplitInv
<1> QED  BY <1>1, <1>2, <1>3, SplitInit, SplitStep, PTL DEF Spec

----------------------------------------------------------------------------
(* The history: how long it is at every point of the loop, how far the folds *)
(* have grown, and where the consensus can send the end of it.               *)

Entries(K) == [round : Nat, means : [DOMAIN Metrics -> Scores],
               folds : [K -> [grown : Nat, finished : BOOLEAN]]]

LoopInv ==
  /\ config.rounds \in Nat \ {0} /\ config.incremental \in BOOLEAN
  /\ index \in Nat \ {0}
  /\ folds \in [DOMAIN folds -> [grown : Nat, finished : BOOLEAN]]
  /\ history \in Seq(Entries(DOMAIN folds))
  /\ Len(history) = IF pc = "after" THEN index ELSE index - 1
  /\ index <= Len(Checkpoints) + IF pc = "before" THEN 1 ELSE 0
  /\ index <= Len(Checkpoints) =>
       \A f \in DOMAIN folds :
         \/ folds[f].grown < Checkpoints[index]
         \/ pc = "after" /\ folds[f].grown = Checkpoints[index]
  /\ \A w \in DOMAIN best :
       best[w].score # None => best[w].index \in 1 .. Len(history)

HistoryInv ==
  /\ HistoryIsWhole
  /\ outcome.how = "running" <=> pc # "done"
  /\ pc \in {"split", "generated", "given"} => history = <<>> /\ index = 1
  /\ pc \in {"before", "grow", "after"} => LoopInv

\* The rounds a run evaluates are numbered upwards.
LEMMA CheckpointFacts ==
  ASSUME config.rounds \in Nat \ {0}, config.incremental \in BOOLEAN
  PROVE  /\ Len(Checkpoints) \in Nat \ {0}
         /\ DOMAIN Checkpoints = 1 .. Len(Checkpoints)
         /\ \A i \in 1 .. Len(Checkpoints) : Checkpoints[i] \in Nat \ {0}
         /\ \A i, j \in 1 .. Len(Checkpoints) :
              i < j => Checkpoints[i] < Checkpoints[j]
<1>1. CASE config.incremental
  <2>1. Checkpoints = [i \in 1 .. config.rounds |-> i]
    BY <1>1 DEF Checkpoints
  <2>2. Checkpoints \in Seq(Nat) /\ Len(Checkpoints) = config.rounds
    BY <2>1
  <2>3. QED BY <2>1, <2>2
<1>2. CASE ~config.incremental
  <2>1. Checkpoints = <<config.rounds>>
    BY <1>2 DEF Checkpoints
  <2>2. QED BY <2>1
<1>3. QED BY <1>1, <1>2

\* What ending a run at position i of the checkpoints makes of its history.
LEMMA EndIsWhole ==
  ASSUME HistoryInv, LoopInv, UNCHANGED <<config, folds, index>>,
         NEW how, how # "running", NEW metric, NEW i \in 1 .. Len(Checkpoints),
         End(how, i, metric), history # <<>>,
         i <= Len(history) \/ (how = "after" /\ Len(history) = index)
  PROVE  HistoryInv'
<1> DEFINE n == Least(i, Len(history))
<1>0. /\ Len(Checkpoints) \in Nat \ {0}
      /\ \A k \in 1 .. Len(Checkpoints) : Checkpoints[k] \in Nat \ {0}
      /\ \A k, l \in 1 .. Len(Checkpoints) :
              k < l => Checkpoints[k] < Checkpoints[l]
  BY CheckpointFacts DEF LoopInv
<1>1. history \in Seq(Entries(DOMAIN folds)) /\ Len(history) \in Nat \ {0}
  BY EmptySeq DEF LoopInv
<1>2. n \in 1 .. Len(history) /\ n = Least(i, Len(history))
  BY <1>1 DEF Least
<1>3. i # None
  BY CvAssumption
<1>4. /\ history' = SubSeq(history, 1, n)
      /\ pc' = "done"
      /\ outcome' = [how |-> how, metric |-> metric, best |-> Checkpoints[i]]
  BY <1>3 DEF End
<1>5. /\ Len(history') = n /\ DOMAIN history' = 1 .. n
      /\ \A k \in 1 .. n : history'[k] = history[k]
  BY <1>1, <1>2, <1>4
<1>6. Checkpoints' = Checkpoints
  BY DEF Checkpoints
<1>7. n <= Len(Checkpoints) /\ history[n].round = Checkpoints[n]
  BY <1>0, <1>1, <1>2 DEF HistoryInv, HistoryIsWhole, Least
<1>8. \/ Checkpoints[i] = history'[n].round
      \/ /\ how = "after" /\ Checkpoints[i] > history'[n].round
         /\ n = index
  BY <1>0, <1>1, <1>2, <1>5, <1>7 DEF Least
<1>9. HistoryIsWhole'
  BY <1>0, <1>1, <1>2, <1>4, <1>5, <1>6, <1>8
  DEF HistoryInv, HistoryIsWhole
<1>10. QED BY <1>4, <1>9 DEF HistoryInv

LEMMA HistoryInit == Init => HistoryInv
BY DEF Init, HistoryInv, HistoryIsWhole, Nowhere

\* What growing a fold to a round leaves it at.
LEMMA AdvancedReaches ==
  ASSUME NEW m \in [grown : Nat, finished : BOOLEAN], NEW round \in Nat,
         m.grown < round, NEW r \in Advanced(m, round)
  PROVE  /\ r \in [grown : Nat, finished : BOOLEAN]
         /\ r.grown <= round
         /\ r.grown < round => r.finished
         /\ m.finished => r = m
<1>1. CASE m.finished
  BY <1>1 DEF Advanced
<1>2. CASE ~m.finished
  <2>1. \/ r = [grown |-> round, finished |-> FALSE]
        \/ \E g \in m.grown .. round - 1 :
             r = [grown |-> g, finished |-> TRUE]
    BY <1>2 DEF Advanced
  <2>2. CASE r = [grown |-> round, finished |-> FALSE]
    BY <1>2, <2>2
  <2>3. CASE r # [grown |-> round, finished |-> FALSE]
    <3>1. PICK g \in m.grown .. round - 1 :
            r = [grown |-> g, finished |-> TRUE]
      BY <2>1, <2>3
    <3>2. m.grown \in Nat
      OBVIOUS
    <3>3. g \in Nat /\ g < round
      BY <3>1, <3>2
    <3>4. QED BY <1>2, <3>1, <3>3
  <2>4. QED BY <2>2, <2>3
<1>3. QED BY <1>1, <1>2

LEMMA HistoryGrow ==
  ASSUME HistoryInv, GrowAndScore
  PROVE  HistoryInv'
<1> DEFINE round == Checkpoints[index]
           entry == history'[index]
<1>0. /\ LoopInv /\ pc' = "after"
      /\ UNCHANGED <<config, index, best, outcome>>
  BY DEF HistoryInv, GrowAndScore
<1>1. /\ Len(Checkpoints) \in Nat \ {0}
      /\ index \in 1 .. Len(Checkpoints) /\ round \in Nat \ {0}
      /\ Len(history) = index - 1 /\ pc = "grow"
      /\ \A f \in DOMAIN folds : folds[f].grown < round
  BY <1>0, CheckpointFacts DEF LoopInv, GrowAndScore
<1>2. /\ DOMAIN folds' = DOMAIN folds
      /\ \A f \in DOMAIN folds : folds'[f] \in Advanced(folds[f], round)
      /\ folds' = [f \in DOMAIN folds |-> folds'[f]]
  BY DEF GrowAndScore
<1>3. \A f \in DOMAIN folds :
         /\ folds'[f] \in [grown : Nat, finished : BOOLEAN]
         /\ folds'[f].grown <= round
         /\ folds'[f].grown < round => folds'[f].finished
         /\ folds[f].finished => folds'[f] = folds[f]
  BY <1>0, <1>1, <1>2, AdvancedReaches DEF LoopInv
<1>4. folds' \in [DOMAIN folds -> [grown : Nat, finished : BOOLEAN]]
  BY <1>2, <1>3
<1>5. PICK means \in [DOMAIN Metrics -> Scores] :
        history' = Append(history, [round |-> round, means |-> means,
                                    folds |-> folds'])
  BY DEF GrowAndScore
<1>6. [round |-> round, means |-> means, folds |-> folds']
        \in Entries(DOMAIN folds)
  BY <1>1, <1>4 DEF Entries
<1>7. history \in Seq(Entries(DOMAIN folds))
  BY <1>0 DEF LoopInv
<1>8. /\ history' \in Seq(Entries(DOMAIN folds))
      /\ Len(history') = index /\ DOMAIN history' = 1 .. index
      /\ DOMAIN history = 1 .. index - 1
      /\ \A i \in 1 .. index - 1 : history'[i] = history[i]
      /\ entry = [round |-> round, means |-> means, folds |-> folds']
  BY <1>1, <1>5, <1>6, <1>7
<1>9. Checkpoints' = Checkpoints
  BY <1>0 DEF Checkpoints
<1>10. LoopInv'
  <2>1. \A f \in DOMAIN folds : folds'[f].grown < round
                                \/ folds'[f].grown = round
    BY <1>1, <1>3
  <2>2. \A w \in DOMAIN best :
          best[w].score # None => best[w].index \in 1 .. index
    BY <1>0, <1>1 DEF LoopInv
  <2>3. QED
    BY <1>0, <1>1, <1>2, <1>4, <1>8, <1>9, <2>1, <2>2 DEF LoopInv
<1>11. HistoryIsWhole'
  <2>1. ASSUME NEW i \in 1 .. index
        PROVE  /\ history'[i].round = Checkpoints[i]
               /\ \A f \in DOMAIN folds :
                    \/ history'[i].folds[f].grown = history'[i].round
                    \/ /\ history'[i].folds[f].finished
                       /\ history'[i].folds[f].grown < history'[i].round
                       /\ history'[i].folds[f] = folds'[f]
    <3>1. CASE i = index
      BY <1>1, <1>3, <1>8, <3>1
    <3>2. CASE i # index
      <4>1. i \in 1 .. index - 1 /\ history'[i] = history[i]
        BY <1>1, <1>8, <3>2
      <4>2. i \in DOMAIN history
        BY <1>8, <4>1
      <4>3. QED BY <1>3, <4>1, <4>2 DEF HistoryInv, HistoryIsWhole
    <3>3. QED BY <3>1, <3>2
  <2>2. outcome'.how = "running"
    BY <1>0, <1>1 DEF HistoryInv
  <2>3. QED BY <1>2, <1>8, <1>9, <2>1, <2>2 DEF HistoryIsWhole
<1>12. QED BY <1>0, <1>1, <1>10, <1>11 DEF HistoryInv

\* A round that exhausts a metric's patience is not the metric's first.
LEMMA HistoryObserve ==
  ASSUME HistoryInv, Observe
  PROVE  HistoryInv'
<1> DEFINE means == history[index].means
           stop == OutOfPatience(means)
<1>0. /\ LoopInv /\ pc = "after"
      /\ UNCHANGED <<data, splits, config, folds>>
      /\ best' = Observed(means)
  BY DEF HistoryInv, Observe
<1>1. /\ Len(Checkpoints) \in Nat \ {0}
      /\ index \in 1 .. Len(Checkpoints)
      /\ Len(history) = index
      /\ history \in Seq(Entries(DOMAIN folds))
      /\ \A i, j \in 1 .. Len(Checkpoints) :
              i < j => Checkpoints[i] < Checkpoints[j]
      /\ \A i \in 1 .. Len(Checkpoints) : Checkpoints[i] \in Nat \ {0}
  BY <1>0, CheckpointFacts DEF LoopInv
<1>2. CASE stop = {}
  <2>1. /\ pc' = "before" /\ index' = index + 1
        /\ UNCHANGED <<history, outcome>>
    BY <1>2 DEF Observe
  <2>2. Checkpoints' = Checkpoints
    BY <1>0 DEF Checkpoints
  <2>3. ASSUME NEW w \in DOMAIN best', best'[w].score # None
        PROVE  best'[w].index \in 1 .. Len(history')
    <3>1. w \in DOMAIN best
          /\ \/ best'[w] = [score |-> means[w], index |-> index]
             \/ best'[w] = best[w]
      BY <1>0, <2>3 DEF Observed, Watched
    <3>2. QED BY <1>0, <1>1, <2>1, <2>3, <3>1 DEF LoopInv
  <2>4. ASSUME NEW f \in DOMAIN folds, index + 1 <= Len(Checkpoints)
        PROVE  folds[f].grown < Checkpoints[index + 1]
    <3>1. folds[f].grown <= Checkpoints[index] /\ folds[f].grown \in Nat
      BY <1>0, <1>1 DEF LoopInv
    <3>2. Checkpoints[index] < Checkpoints[index + 1]
      BY <1>1, <2>4
    <3>3. QED BY <1>1, <2>4, <3>1, <3>2
  <2>5. LoopInv'
    BY <1>0, <1>1, <2>1, <2>2, <2>3, <2>4 DEF LoopInv
  <2>6. HistoryIsWhole'
    BY <1>0, <2>1, <2>2 DEF HistoryInv, HistoryIsWhole
  <2>7. QED BY <1>0, <2>1, <2>5, <2>6 DEF HistoryInv
<1>3. CASE stop # {}
  <2>1. PICK w : End("consensus", best[w].index, w) /\ w \in stop
                 /\ UNCHANGED index
    BY <1>3 DEF Observe
  <2>2. w \in DOMAIN best /\ best[w].score # None
    BY <2>1 DEF OutOfPatience, NewBest, Watched
  <2>3. best[w].index \in 1 .. Len(history)
    BY <1>0, <2>2 DEF LoopInv
  <2>4. history # <<>> /\ best[w].index \in 1 .. Len(Checkpoints)
        /\ best[w].index <= Len(history)
    BY <1>1, <2>3
  <2>5. QED BY <1>0, <2>1, <2>4, EndIsWhole
<1>4. QED BY <1>2, <1>3

LEMMA HistoryStep == HistoryInv /\ [Next]_vars => HistoryInv'
<1> SUFFICES ASSUME HistoryInv, [Next]_vars PROVE HistoryInv'
  OBVIOUS
<1>1. CASE Generate \/ Given
  <2>1. pc = "split" /\ pc' \in {"generated", "given", "raised"}
        /\ UNCHANGED <<config, index, folds, history, best, outcome>>
    BY <1>1 DEF Generate, Given
  <2>2. QED BY <2>1 DEF HistoryInv, HistoryIsWhole, Checkpoints
<1>2. CASE BuildFolds
  <2>1. /\ pc \in {"generated", "given"} /\ pc' = "before"
        /\ UNCHANGED <<index, history, outcome>>
        /\ folds' = [f \in DOMAIN splits |-> NewFold]
    BY <1>2 DEF BuildFolds
  <2>2. history = <<>> /\ index = 1
    BY <2>1 DEF HistoryInv
  <2>3. /\ config'.rounds \in Nat \ {0} /\ config'.incremental \in BOOLEAN
        /\ \A w \in DOMAIN best' : best'[w].score = None
    <3>1. PICK rounds \in 1 .. MaxRounds, patience \in Patiences,
               delta \in Deltas, watched \in {1, Len(Metrics)} :
            /\ config' = [incremental |-> data.task # "ranking",
                          rounds |-> rounds, patience |-> patience,
                          delta |-> delta]
            /\ best' = [w \in 1 .. IF patience = 0 THEN 0 ELSE watched |->
                          [score |-> None, index |-> 0]]
      BY <1>2 DEF BuildFolds
    <3>2. config'.rounds \in Nat \ {0}
      <4>1. config'.rounds = rounds
        BY <3>1
      <4>2. MaxRounds \in Nat
        BY CvAssumption
      <4>3. rounds \in Nat \ {0}
        BY <4>2
      <4>4. QED BY <4>1, <4>3
    <3>3. config'.incremental = (data.task # "ranking")
      BY <3>1
    <3>4. config'.incremental \in BOOLEAN
      BY <3>3
    <3>5. \A w \in DOMAIN best' : best'[w].score = None
      BY <3>1
    <3>6. QED BY <3>2, <3>4, <3>5
  <2>4. /\ Len(Checkpoints') \in Nat \ {0}
        /\ \A i \in 1 .. Len(Checkpoints') : Checkpoints'[i] \in Nat \ {0}
    <3>1. CASE config'.incremental
      BY <2>3, <3>1 DEF Checkpoints
    <3>2. CASE ~config'.incremental
      BY <2>3, <3>2 DEF Checkpoints
    <3>3. QED BY <2>3, <3>1, <3>2
  <2>5. folds' \in [DOMAIN folds' -> [grown : Nat, finished : BOOLEAN]]
        /\ \A f \in DOMAIN folds' : folds'[f].grown = 0
    BY <2>1 DEF NewFold
  <2>6. history' \in Seq(Entries(DOMAIN folds')) /\ Len(history') = 0
    BY <2>1, <2>2
  <2>7. LoopInv'
    BY <2>1, <2>2, <2>3, <2>4, <2>5, <2>6 DEF LoopInv
  <2>8. HistoryIsWhole'
    BY <2>1, <2>2 DEF HistoryInv, HistoryIsWhole
  <2>9. QED BY <2>1, <2>7, <2>8 DEF HistoryInv
<1>3. CASE Before
  <2>1. /\ pc = "before" /\ pc' = "grow" /\ index <= Len(Checkpoints)
        /\ UNCHANGED <<config, index, folds, history, best, outcome>>
    BY <1>3 DEF Before
  <2>2. LoopInv /\ Checkpoints' = Checkpoints
    BY <2>1 DEF HistoryInv, Checkpoints
  <2>3. LoopInv'
    BY <2>1, <2>2, CheckpointFacts DEF LoopInv
  <2>4. QED BY <2>1, <2>2, <2>3 DEF HistoryInv, HistoryIsWhole
<1>4. CASE StopBefore
  <2>1. /\ pc = "before" /\ UNCHANGED <<config, index, folds>> /\ LoopInv
        /\ index <= Len(Checkpoints)
    BY <1>4 DEF StopBefore, HistoryInv
  <2>2. CASE index = 1
    <3>1. Len(history) = 0
      BY <2>1, <2>2 DEF LoopInv
    <3>2. End("before", None, None)
      BY <1>4, <2>2 DEF StopBefore
    <3>3. QED BY <2>1, <3>1, <3>2 DEF End, HistoryInv, HistoryIsWhole,
                                      Checkpoints
  <2>3. CASE index # 1
    <3>1. End("before", index - 1, None)
      BY <1>4, <2>3 DEF StopBefore
    <3>2. /\ index - 1 \in 1 .. Len(Checkpoints) /\ index - 1 <= Len(history)
          /\ history # <<>>
      BY <2>1, <2>3, CheckpointFacts DEF LoopInv
    <3>3. QED BY <2>1, <3>1, <3>2, EndIsWhole
  <2>4. QED BY <2>2, <2>3
<1>5. CASE GrowAndScore
  BY <1>5, HistoryGrow
<1>6. CASE StopAfter
  <2>1. /\ pc = "after" /\ UNCHANGED <<config, index, folds>> /\ LoopInv
    BY <1>6 DEF StopAfter, HistoryInv
  <2>2. PICK named : End("after", ExceptionIndex(named), None)
    BY <1>6 DEF StopAfter
  <2>3. ExceptionIndex(named) \in 1 .. Len(Checkpoints)
    BY <2>1, CheckpointFacts DEF ExceptionIndex, LoopInv, Range
  <2>4. Len(history) = index /\ history # <<>>
    BY <2>1 DEF LoopInv
  <2>5. QED BY <2>1, <2>2, <2>3, <2>4, EndIsWhole
<1>7. CASE Observe
  BY <1>7, HistoryObserve
<1>8. CASE RunOut
  <2>1. /\ pc = "before" /\ index > Len(Checkpoints) /\ LoopInv
        /\ End("rounds", None, None)
        /\ UNCHANGED <<config, index, folds>>
    BY <1>8 DEF RunOut, HistoryInv
  <2>2. Len(history) = Len(Checkpoints)
    BY <2>1, CheckpointFacts DEF LoopInv
  <2>3. QED BY <2>1, <2>2 DEF End, HistoryInv, HistoryIsWhole, Checkpoints
<1>9. CASE Raise
  <2>1. pc' = "raised" /\ pc # "done"
        /\ UNCHANGED <<config, folds, history, outcome, index>>
    BY <1>9 DEF Raise
  <2>2. QED BY <2>1 DEF HistoryInv, HistoryIsWhole, Checkpoints
<1>10. CASE UNCHANGED vars
  <2>1. /\ UNCHANGED <<pc, config, index, folds, history, best, outcome>>
        /\ Checkpoints' = Checkpoints
    BY <1>10 DEF vars, Checkpoints
  <2>2. HistoryIsWhole'
    BY <2>1 DEF HistoryInv, HistoryIsWhole
  <2>3. LoopInv => LoopInv'
    BY <2>1 DEF LoopInv
  <2>4. QED BY <2>1, <2>2, <2>3 DEF HistoryInv
<1>11. QED
  BY <1>1, <1>2, <1>3, <1>4, <1>5, <1>6, <1>7, <1>8, <1>9, <1>10 DEF Next

\* Every entry of the returned history scores all the folds at the round it is
\* labelled with, none is missing, and the history ends at best_iteration
\* unless a callback named a round that was never grown.
THEOREM HistoryIsOfItsRounds == Spec => []HistoryIsWhole
<1>1. HistoryInv => HistoryIsWhole
  BY DEF HistoryInv
<1>2. QED BY HistoryInit, HistoryStep, <1>1, PTL DEF Spec

----------------------------------------------------------------------------
(* The consensus: of the rounds it has seen, each watched metric's best is a *)
(* record, no other beats it by more than min_delta, and it is younger than  *)
(* the patience.                                                             *)

BestOf(w) ==
  \E i \in 1 .. index - 1 :
    /\ best[w] = [score |-> Value(w, i), index |-> i]
    /\ index - 1 - i < config.patience
    /\ Record(w, i)
    /\ \A j \in 1 .. index - 1 :
         ~Improves(Metrics[w], Value(w, j), Value(w, i), config.delta)

ConsensusInv ==
  pc \in {"before", "grow", "after"} =>
    /\ config.patience \in Nat /\ config.delta \in Nat
    /\ best # <<>> => config.patience > 0
    /\ Watched \subseteq DOMAIN Metrics
    /\ \A w \in Watched : IF index = 1 THEN best[w].score = None
                                       ELSE BestOf(w)

CvInv == HistoryInv /\ ConsensusInv

\* A score that improves on one another does not improve on, beats the other.
LEMMA Chained ==
  ASSUME NEW m, NEW a \in Scores, NEW b \in Scores, NEW v \in Scores,
         NEW d \in Nat, Improves(m, v, b, d), ~Improves(m, a, b, d)
  PROVE  /\ ~Improves(m, a, v, d)
         /\ ~Improves(m, a, v, 0)
         /\ ~(a = v /\ a # NaN)
<1>1. v \in Int /\ b \in Int /\ a \in Int \cup {NaN} /\ NaN \notin Int
  BY CvAssumption DEF Improves, Exceeds, Plus
<1>2. CASE a = NaN
  BY <1>1, <1>2 DEF Improves, Exceeds, Plus
<1>3. CASE a # NaN /\ m \in Higher
  BY <1>1, <1>3 DEF Improves, Exceeds, Plus
<1>4. CASE a # NaN /\ m \notin Higher
  BY <1>1, <1>4 DEF Improves, Exceeds, Plus
<1>5. QED BY <1>2, <1>3, <1>4

\* No score improves on itself.
LEMMA NotOnItself ==
  ASSUME NEW m, NEW a \in Scores, NEW d \in Nat
  PROVE  ~Improves(m, a, a, d)
<1>1. CASE a = NaN
  BY <1>1 DEF Improves, Exceeds, Plus
<1>2. CASE a # NaN
  <2>1. a \in Int BY <1>2, CvAssumption
  <2>2. QED BY <2>1 DEF Improves, Exceeds, Plus
<1>3. QED BY <1>1, <1>2

\* Every entry of the history has a score for every watched metric.
LEMMA ValueIsScore ==
  ASSUME LoopInv, Watched \subseteq DOMAIN Metrics, NEW w \in Watched,
         NEW i \in 1 .. Len(history)
  PROVE  Value(w, i) \in Scores
<1>1. history[i] \in Entries(DOMAIN folds)
  BY DEF LoopInv
<1>2. QED BY <1>1 DEF Entries, Value

LEMMA SameScores ==
  ASSUME UNCHANGED history, NEW w, NEW i
  PROVE  Value(w, i)' = Value(w, i) /\ Record(w, i)' = Record(w, i)
<1>1. \A j : Value(w, j)' = Value(w, j)
  BY DEF Value
<1>2. QED BY <1>1 DEF Record, NotWorse

\* A metric whose score is the new best: every round before it did worse.
LEMMA NewBestIsRecord ==
  ASSUME CvInv, pc = "after", NEW w \in Watched,
         NewBest(w, Value(w, index))
  PROVE  /\ Record(w, index)
         /\ \A j \in 1 .. index :
              ~Improves(Metrics[w], Value(w, j), Value(w, index), config.delta)
<1>1. /\ index \in Nat \ {0} /\ Len(history) = index /\ LoopInv
      /\ config.delta \in Nat /\ Watched \subseteq DOMAIN Metrics
  BY DEF CvInv, HistoryInv, ConsensusInv, LoopInv
<1>2. \A i \in 1 .. index : Value(w, i) \in Scores
  BY <1>1, ValueIsScore
<1>3. ~Improves(Metrics[w], Value(w, index), Value(w, index), config.delta)
  BY <1>1, <1>2, NotOnItself
<1>4. ASSUME NEW j \in 1 .. index - 1
      PROVE  /\ ~Improves(Metrics[w], Value(w, j), Value(w, index),
                          config.delta)
             /\ ~NotWorse(w, j, index)
  <2>1. index # 1 /\ j \in 1 .. index
    BY <1>1
  <2>2. PICK i \in 1 .. index - 1 :
          /\ best[w] = [score |-> Value(w, i), index |-> i]
          /\ ~Improves(Metrics[w], Value(w, j), Value(w, i), config.delta)
    BY <2>1 DEF CvInv, ConsensusInv, BestOf
  <2>3. Value(w, i) \in Scores /\ Value(w, i) # None
    BY <1>1, <1>2, CvAssumption
  <2>4. Improves(Metrics[w], Value(w, index), Value(w, i), config.delta)
    BY <2>2, <2>3 DEF NewBest
  <2>5. Value(w, j) \in Scores /\ Value(w, index) \in Scores
    BY <1>1, <1>2, <2>1
  <2>6. QED BY <1>1, <2>2, <2>3, <2>4, <2>5, Chained DEF NotWorse
<1>5. QED BY <1>1, <1>3, <1>4 DEF Record

LEMMA ConsensusObserve ==
  ASSUME CvInv, Observe, pc' = "before"
  PROVE  ConsensusInv'
<1> DEFINE means == history[index].means
<1>0. /\ LoopInv /\ pc = "after" /\ index' = index + 1
      /\ UNCHANGED <<config, history>>
      /\ best' = Observed(means) /\ OutOfPatience(means) = {}
  BY DEF CvInv, HistoryInv, Observe, End
<1>1. index \in Nat \ {0} /\ Len(history) = index
  BY <1>0 DEF LoopInv
<1>2. /\ config.patience \in Nat /\ config.delta \in Nat
      /\ Watched \subseteq DOMAIN Metrics
      /\ best # <<>> => config.patience > 0
  BY <1>0 DEF CvInv, ConsensusInv
<1>3. DOMAIN best' = DOMAIN best /\ Watched' = Watched
  BY <1>0 DEF Observed, Watched
<1>4. ASSUME NEW w \in Watched PROVE BestOf(w)'
  <2>1. means[w] = Value(w, index)
    BY DEF Value
  <2>2. \E i \in 1 .. index :
          /\ best'[w] = [score |-> Value(w, i), index |-> i]
          /\ index - i < config.patience
          /\ Record(w, i)
          /\ \A j \in 1 .. index :
               ~Improves(Metrics[w], Value(w, j), Value(w, i), config.delta)
    <3>1. CASE NewBest(w, means[w])
      <4>1. best'[w] = [score |-> Value(w, index), index |-> index]
        BY <1>0, <2>1, <3>1 DEF Observed
      <4>2. config.patience > 0
        BY <1>2 DEF Watched
      <4>3. QED BY <1>0, <1>1, <1>2, <2>1, <3>1, <4>1, <4>2, NewBestIsRecord
    <3>2. CASE ~NewBest(w, means[w])
      <4>1. best'[w] = best[w]
        BY <1>0, <3>2 DEF Observed
      <4>2. best[w].score # None
            /\ ~Improves(Metrics[w], means[w], best[w].score, config.delta)
        BY <3>2 DEF NewBest
      <4>3. PICK i \in 1 .. index - 1 :
              /\ best[w] = [score |-> Value(w, i), index |-> i]
              /\ Record(w, i)
              /\ \A j \in 1 .. index - 1 :
                   ~Improves(Metrics[w], Value(w, j), Value(w, i),
                             config.delta)
        BY <1>0, <4>2 DEF CvInv, ConsensusInv, BestOf
      <4>4. ~(index - i >= config.patience)
        BY <1>0, <3>2, <4>3 DEF OutOfPatience
      <4>5. i \in 1 .. index /\ index - i < config.patience
        BY <1>1, <1>2, <4>4
      <4>6. \A j \in 1 .. index :
              ~Improves(Metrics[w], Value(w, j), Value(w, i), config.delta)
        BY <1>1, <2>1, <4>2, <4>3
      <4>7. QED BY <4>1, <4>3, <4>5, <4>6
    <3>3. QED BY <3>1, <3>2
  <2>3. PICK i \in 1 .. index :
          /\ best'[w] = [score |-> Value(w, i), index |-> i]
          /\ index - i < config.patience
          /\ Record(w, i)
          /\ \A j \in 1 .. index :
               ~Improves(Metrics[w], Value(w, j), Value(w, i), config.delta)
    BY <2>2
  <2>4. /\ Record(w, i)'
        /\ best'[w] = [score |-> Value(w, i)', index |-> i]
        /\ \A j \in 1 .. index :
             ~Improves(Metrics[w], Value(w, j)', Value(w, i)', config'.delta)
    BY <1>0, <2>3, SameScores
  <2>5. i \in 1 .. index' - 1 /\ index' - 1 - i < config'.patience
        /\ index' - 1 = index
    BY <1>0, <1>1, <2>3
  <2>6. QED BY <2>4, <2>5 DEF BestOf
<1>5. best' # <<>> => config.patience > 0
  BY <1>2, <1>3
<1>6. QED BY <1>0, <1>1, <1>2, <1>3, <1>4, <1>5 DEF ConsensusInv

LEMMA CvInit == Init => CvInv
BY HistoryInit DEF Init, CvInv, ConsensusInv

LEMMA CvStep == CvInv /\ [Next]_vars => CvInv'
<1> SUFFICES ASSUME CvInv, [Next]_vars PROVE CvInv'
  OBVIOUS
<1>1. HistoryInv'
  BY HistoryStep DEF CvInv
<1>2. CASE Generate \/ Given
  <2>1. pc' \in {"generated", "given", "raised"}
    BY <1>2 DEF Generate, Given
  <2>2. QED BY <1>1, <2>1 DEF CvInv, ConsensusInv
<1>3. CASE BuildFolds
  <2>1. index' = 1
    BY <1>3 DEF BuildFolds, CvInv, HistoryInv
  <2>2. PICK rounds \in 1 .. MaxRounds, patience \in Patiences,
             delta \in Deltas, watched \in {1, Len(Metrics)} :
          /\ config' = [incremental |-> data.task # "ranking",
                        rounds |-> rounds, patience |-> patience,
                        delta |-> delta]
          /\ best' = [w \in 1 .. IF patience = 0 THEN 0 ELSE watched |->
                        [score |-> None, index |-> 0]]
    BY <1>3 DEF BuildFolds
  <2>3. config'.patience = patience /\ config'.delta = delta
        /\ patience \in Nat /\ delta \in Nat
    BY <2>2, CvAssumption
  <2>4. /\ Watched' = 1 .. IF patience = 0 THEN 0 ELSE watched
        /\ \A w \in Watched' : best'[w].score = None
    BY <2>2 DEF Watched
  <2>5. Watched' \subseteq DOMAIN Metrics
    <3>1. Len(Metrics) \in Nat \ {0}
      BY CvAssumption
    <3>2. Watched' \subseteq 1 .. Len(Metrics)
      BY <2>4, <3>1
    <3>3. QED BY <3>2, CvAssumption
  <2>6. best' # <<>> => patience > 0
    BY <2>2, <2>3
  <2>7. QED BY <1>1, <2>1, <2>3, <2>4, <2>5, <2>6 DEF CvInv, ConsensusInv
<1>4. CASE Before \/ GrowAndScore
  <2>1. /\ pc \in {"before", "grow"} /\ UNCHANGED <<config, index, best>>
        /\ LoopInv
    BY <1>4 DEF Before, GrowAndScore, CvInv, HistoryInv
  <2>2. ASSUME NEW i \in 1 .. index - 1, NEW w \in Watched
        PROVE  Value(w, i)' = Value(w, i)
    <3>1. history'[i] = history[i]
      <4>1. CASE Before BY <4>1 DEF Before
      <4>2. CASE GrowAndScore
        <5>1. /\ history \in Seq(Entries(DOMAIN folds))
              /\ i \in 1 .. Len(history)
          BY <2>1, <4>2 DEF LoopInv, GrowAndScore
        <5>2. \E e : history' = Append(history, e)
          BY <4>2 DEF GrowAndScore
        <5>3. QED BY <5>1, <5>2
      <4>3. QED BY <1>4, <4>1, <4>2
    <3>2. QED BY <3>1 DEF Value
  <2>3. ASSUME NEW w \in Watched, BestOf(w) PROVE BestOf(w)'
    <3>1. PICK i \in 1 .. index - 1 :
            /\ best[w] = [score |-> Value(w, i), index |-> i]
            /\ index - 1 - i < config.patience
            /\ Record(w, i)
            /\ \A j \in 1 .. index - 1 :
                 ~Improves(Metrics[w], Value(w, j), Value(w, i), config.delta)
      BY <2>3 DEF BestOf
    <3>2. index \in Nat \ {0}
      BY <2>1 DEF LoopInv
    <3>3. \A j \in 1 .. i - 1 : j \in 1 .. index - 1
      BY <3>2
    <3>4. Record(w, i)'
      BY <2>2, <3>1, <3>3 DEF Record, NotWorse
    <3>5. QED BY <2>1, <2>2, <3>1, <3>4 DEF BestOf
  <2>4. QED BY <1>1, <2>1, <2>3 DEF CvInv, ConsensusInv, Watched
<1>5. CASE StopBefore \/ StopAfter \/ RunOut \/ Raise
  <2>1. pc' \in {"done", "raised"}
    BY <1>5 DEF StopBefore, StopAfter, RunOut, Raise, End
  <2>2. QED BY <1>1, <2>1 DEF CvInv, ConsensusInv
<1>6. CASE Observe
  <2>1. CASE pc' = "before"
    BY <1>1, <1>6, <2>1, ConsensusObserve DEF CvInv
  <2>2. CASE pc' # "before"
    <3>1. pc' = "done"
      BY <1>6, <2>2 DEF Observe, End
    <3>2. QED BY <1>1, <3>1 DEF CvInv, ConsensusInv
  <2>3. QED BY <2>1, <2>2
<1>7. CASE UNCHANGED vars
  <2>1. UNCHANGED <<pc, config, index, history, best>>
    BY <1>7 DEF vars
  <2>2. \A w \in Watched : BestOf(w) => BestOf(w)'
    BY <2>1, SameScores DEF BestOf
  <2>3. QED BY <1>1, <2>1, <2>2 DEF CvInv, ConsensusInv, Watched
<1>8. QED BY <1>2, <1>3, <1>4, <1>5, <1>6, <1>7 DEF Next

\* A run under early stopping goes on only while every metric it watches set a
\* record within its last early_stopping_rounds rounds.
THEOREM PatienceHolds == Spec => []PatienceIsKept
<1>1. CvInv => PatienceIsKept
  <2> SUFFICES ASSUME CvInv, pc = "before", config.patience > 0,
                      index > config.patience, NEW w \in Watched
               PROVE  \E i \in index - config.patience .. index - 1 :
                        Record(w, i)
    BY DEF PatienceIsKept
  <2>1. config.patience \in Nat /\ index \in Nat \ {0} /\ index # 1
    BY DEF CvInv, ConsensusInv, HistoryInv, LoopInv
  <2>2. PICK i \in 1 .. index - 1 : /\ Record(w, i)
                                   /\ index - 1 - i < config.patience
    BY <2>1 DEF CvInv, ConsensusInv, BestOf
  <2>3. i \in index - config.patience .. index - 1
    BY <2>1, <2>2
  <2>4. QED BY <2>2, <2>3
<1>2. QED BY CvInit, CvStep, <1>1, PTL DEF Spec

\* What the consensus stops, it stops on the best round it saw, after exactly
\* early_stopping_rounds more.
THEOREM ConsensusStopsOnTheBest == Spec => StopsOnTheBest
<1> DEFINE Best ==
      outcome'.how = "consensus" /\ outcome.how = "running" =>
        LET w == outcome'.metric
            won == Len(history')
        IN  /\ outcome'.best = history[won].round
            /\ Len(history) = won + config.patience
            /\ \A j \in DOMAIN history :
                 ~Improves(Metrics[w], Value(w, j), Value(w, won),
                           config.delta)
<1>1. CvInv /\ [Next]_vars => [Best]_vars
  <2> SUFFICES ASSUME CvInv, Next, outcome'.how = "consensus",
                      outcome.how = "running"
               PROVE  Best
    OBVIOUS
  <2>1. Observe /\ pc' = "done"
    BY DEF Next, Generate, Given, BuildFolds, Before, StopBefore, GrowAndScore,
           StopAfter, Observe, RunOut, Raise, End
  <2> DEFINE means == history[index].means
  <2>2. PICK w \in OutOfPatience(means) : End("consensus", best[w].index, w)
    BY <2>1 DEF Observe
  <2>3. /\ LoopInv /\ pc = "after" /\ config.patience \in Nat
        /\ index \in Nat \ {0} /\ Len(history) = index
        /\ DOMAIN history = 1 .. index
    BY <2>1 DEF CvInv, ConsensusInv, HistoryInv, LoopInv, Observe
  <2>4. /\ w \in Watched /\ best[w].score # None
        /\ ~Improves(Metrics[w], means[w], best[w].score, config.delta)
        /\ index - best[w].index >= config.patience
    BY <2>2 DEF OutOfPatience, NewBest
  <2>5. PICK i \in 1 .. index - 1 :
          /\ best[w] = [score |-> Value(w, i), index |-> i]
          /\ index - 1 - i < config.patience
          /\ \A j \in 1 .. index - 1 :
               ~Improves(Metrics[w], Value(w, j), Value(w, i), config.delta)
    BY <2>3, <2>4 DEF CvInv, ConsensusInv, BestOf
  <2>6. index = i + config.patience
    BY <2>3, <2>4, <2>5
  <2>7. \A j \in 1 .. index :
          ~Improves(Metrics[w], Value(w, j), Value(w, i), config.delta)
    <3>1. Value(w, index) = means[w]
      BY DEF Value
    <3>2. QED BY <2>3, <2>4, <2>5, <3>1
  <2>8. i # None /\ Least(i, Len(history)) = i
    BY <2>3, CvAssumption DEF Least
  <2>9. /\ history' = SubSeq(history, 1, i)
        /\ outcome' = [how |-> "consensus", metric |-> w,
                       best |-> Checkpoints[i]]
    BY <2>2, <2>5, <2>8 DEF End
  <2>10. Len(history') = i
    BY <2>3, <2>9 DEF LoopInv
  <2>11. history[i].round = Checkpoints[i]
    BY <2>3 DEF CvInv, HistoryInv, HistoryIsWhole
  <2>12. QED BY <2>3, <2>6, <2>7, <2>9, <2>10, <2>11
<1>2. QED BY CvInit, CvStep, <1>1, PTL DEF Spec, StopsOnTheBest
=============================================================================
