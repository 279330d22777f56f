-------------------------------- MODULE Sums --------------------------------
(***************************************************************************)
(* Sums over finite sets, as MapThenSumSet defines them, and what the      *)
(* proofs about stock and money need to know of them; and the orders of    *)
(* finite sets, for the proofs about lists.  MapThenSumSet takes a         *)
(* recursive function over the subsets of its set; that this function      *)
(* exists, and every fact below, is proved on a smallest subset for which  *)
(* it would fail.                                                          *)
(***************************************************************************)
EXTENDS Integers, Ordering, FiniteSetsExt, FiniteSetTheorems, WellFoundedInduction, TLAPS

\* The sum of f[x] for the x in S.
SumOver(f, S) == MapThenSumSet(LAMBDA x : f[x], S)

\* The element that MapThenSumSet takes first.
Pick(s) == CHOOSE x \in s : TRUE

\* g holds the sums of f over the subsets of S.
SumTable(g, f, S) ==
    g = [s \in SUBSET S |-> IF s = {} THEN 0 ELSE f[Pick(s)] + g[s \ {Pick(s)}]]

\* It is one of the set.
LEMMA PickIn == \A s : s # {} => Pick(s) \in s
BY DEF Pick

\* A set of subsets of a finite set has one that contains no other.
LEMMA Smallest ==
    ASSUME NEW S, IsFiniteSet(S), NEW B, B \subseteq SUBSET S, B # {}
    PROVE  \E T \in B : \A U \in B : U \subseteq T => U = T
<1>1. IsWellFoundedOn(StrictSubsetOrdering(S), SUBSET S)
  BY FS_StrictSubsetOrderingWellFounded, FS_FiniteSubsetsOfFinite
<1>2. PICK T \in B : \A U \in B : ~(<<U, T>> \in StrictSubsetOrdering(S))
  BY <1>1, WFMin
<1>3. ASSUME NEW U \in B, U \subseteq T, U # T
      PROVE  FALSE
  <2>1. <<U, T>> \in StrictSubsetOrdering(S)
    BY <1>3 DEF StrictSubsetOrdering
  <2>. QED
    BY <1>2, <2>1
<1>. QED
  BY <1>3

\* Two tables of sums agree where they overlap.
LEMMA Agree ==
    ASSUME NEW f, NEW g, NEW h, NEW S, NEW R, IsFiniteSet(S),
           SumTable(g, f, S), SumTable(h, f, R), NEW T \in SUBSET S, T \in SUBSET R
    PROVE  g[T] = h[T]
<1> SUFFICES ASSUME g[T] # h[T] PROVE FALSE
  OBVIOUS
<1> DEFINE B == {U \in SUBSET S : U \in SUBSET R /\ g[U] # h[U]}
<1>1. PICK U \in B : \A V \in B : V \subseteq U => V = U
  <2>1. B # {} /\ B \subseteq SUBSET S
    OBVIOUS
  <2> HIDE DEF B
  <2>. QED
    BY <2>1, Smallest
<1>2. g[U] = IF U = {} THEN 0 ELSE f[Pick(U)] + g[U \ {Pick(U)}]
  BY DEF SumTable
<1>3. h[U] = IF U = {} THEN 0 ELSE f[Pick(U)] + h[U \ {Pick(U)}]
  BY DEF SumTable
<1>4. U # {}
  BY <1>2, <1>3
<1>5. Pick(U) \in U
  BY <1>4, PickIn
<1>6. U \ {Pick(U)} \notin B
  BY <1>1, <1>5
<1>. QED
  BY <1>2, <1>3, <1>6

\* The sums over the subsets of a finite set exist.
LEMMA Exist ==
    ASSUME NEW f, NEW S, IsFiniteSet(S)
    PROVE  \E g : SumTable(g, f, S)
<1> SUFFICES ASSUME ~ \E g : SumTable(g, f, S) PROVE FALSE
  OBVIOUS
<1> DEFINE B == {T \in SUBSET S : ~ \E g : SumTable(g, f, T)}
<1>1. PICK T \in B : \A U \in B : U \subseteq T => U = T
  <2>1. B # {} /\ B \subseteq SUBSET S
    OBVIOUS
  <2> HIDE DEF B
  <2>. QED
    BY <2>1, Smallest
<1> DEFINE table(U) == CHOOSE g : SumTable(g, f, U)
           all == [s \in SUBSET T |-> IF s = {} THEN 0
                                       ELSE f[Pick(s)] + table(s \ {Pick(s)})[s \ {Pick(s)}]]
<1>2. ASSUME NEW U \in SUBSET T, U # T
      PROVE  SumTable(table(U), f, U)
  BY <1>1, <1>2
<1>3. ASSUME NEW s \in SUBSET T, s # {}
      PROVE  table(s \ {Pick(s)})[s \ {Pick(s)}] = all[s \ {Pick(s)}]
  <2> DEFINE u == s \ {Pick(s)}
  <2>1. Pick(s) \in s /\ u \in SUBSET T /\ u # T
    BY <1>3, PickIn
  <2>2. SumTable(table(u), f, u)
    BY <1>2, <2>1
  <2>3. table(u)[u] = IF u = {} THEN 0 ELSE f[Pick(u)] + table(u)[u \ {Pick(u)}]
    BY <2>2 DEF SumTable
  <2>4. CASE u = {}
    BY <2>1, <2>3, <2>4
  <2>5. CASE u # {}
    <3> DEFINE v == u \ {Pick(u)}
    <3>1. Pick(u) \in u /\ v \in SUBSET T /\ v # T /\ v \in SUBSET u
      BY <2>1, <2>5, PickIn
    <3>2. SumTable(table(v), f, v)
      BY <1>2, <3>1
    <3>3. IsFiniteSet(v)
      <4>1. v \in SUBSET S
        BY <3>1
      <4>. QED
        BY <4>1, FS_Subset
    <3>4. table(v)[v] = table(u)[v]
      <4> HIDE DEF table, v, u
      <4>1. v \in SUBSET v
        OBVIOUS
      <4>. QED
        BY <2>2, <3>1, <3>2, <3>3, <4>1, Agree
    <3>5. all[u] = f[Pick(u)] + table(v)[v]
      BY <2>1, <2>5
    <3>. QED
      BY <2>3, <2>5, <3>4, <3>5
  <2>. QED
    BY <2>4, <2>5
<1>4. SumTable(all, f, T)
  <2> HIDE DEF table
  <2>1. all = [s \in SUBSET T |-> IF s = {} THEN 0 ELSE f[Pick(s)] + all[s \ {Pick(s)}]]
    BY <1>3
  <2>. QED
    BY <2>1 DEF SumTable
<1>. QED
  BY <1>1, <1>4

\* The sum is what such a table says of the whole set.
LEMMA SumIs ==
    ASSUME NEW f, NEW S, IsFiniteSet(S)
    PROVE  \E g : SumTable(g, f, S) /\ SumOver(f, S) = g[S]
<1> DEFINE it == CHOOSE g : SumTable(g, f, S)
<1>1. SumTable(it, f, S)
  BY Exist
<1>2. SumOver(f, S) = it[S]
  BY DEF SumOver, MapThenSumSet, MapThenFoldSet, SumTable, Pick
<1>. QED
  BY <1>1, <1>2

----------------------------------------------------------------------------

\* The sum over a subset is in every table of the sums over a set.
LEMMA SumOf ==
    ASSUME NEW f, NEW S, IsFiniteSet(S), NEW g, SumTable(g, f, S), NEW T \in SUBSET S
    PROVE  SumOver(f, T) = g[T]
<1>1. IsFiniteSet(T)
  BY FS_Subset
<1>2. PICK h : SumTable(h, f, T) /\ SumOver(f, T) = h[T]
  BY <1>1, SumIs
<1>3. T \in SUBSET T
  OBVIOUS
<1>. QED
  BY <1>1, <1>2, <1>3, Agree

\* Nothing adds up to zero.
LEMMA SumEmpty == ASSUME NEW f PROVE SumOver(f, {}) = 0
<1>1. IsFiniteSet({})
  BY FS_EmptySet
<1>2. PICK g : SumTable(g, f, {}) /\ SumOver(f, {}) = g[{}]
  BY <1>1, SumIs
<1>. QED
  BY <1>2 DEF SumTable

\* The sum of a set, from that of the set without its first element.
LEMMA SumStep ==
    ASSUME NEW f, NEW S, IsFiniteSet(S), S # {}
    PROVE  SumOver(f, S) = f[Pick(S)] + SumOver(f, S \ {Pick(S)})
<1>1. PICK g : SumTable(g, f, S)
  BY Exist
<1>2. SumOver(f, S) = g[S] /\ SumOver(f, S \ {Pick(S)}) = g[S \ {Pick(S)}]
  BY <1>1, SumOf
<1>3. g[S] = f[Pick(S)] + g[S \ {Pick(S)}]
  BY <1>1 DEF SumTable
<1>. QED
  BY <1>2, <1>3

\* A sum of integers is an integer.
LEMMA SumType ==
    ASSUME NEW f, NEW S, IsFiniteSet(S), \A x \in S : f[x] \in Int
    PROVE  SumOver(f, S) \in Int
<1> SUFFICES ASSUME SumOver(f, S) \notin Int PROVE FALSE
  OBVIOUS
<1> DEFINE B == {T \in SUBSET S : SumOver(f, T) \notin Int}
<1>1. PICK T \in B : \A U \in B : U \subseteq T => U = T
  <2>1. B # {} /\ B \subseteq SUBSET S
    OBVIOUS
  <2> HIDE DEF B
  <2>. QED
    BY <2>1, Smallest
<1>2. T # {}
  BY SumEmpty
<1>3. Pick(T) \in T /\ IsFiniteSet(T)
  BY <1>2, PickIn, FS_Subset
<1>4. SumOver(f, T) = f[Pick(T)] + SumOver(f, T \ {Pick(T)})
  BY <1>2, <1>3, SumStep
<1>5. SumOver(f, T \ {Pick(T)}) \in Int
  BY <1>1, <1>3
<1>. QED
  BY <1>3, <1>4, <1>5

\* Any element may be taken out first.
LEMMA SumTake ==
    ASSUME NEW f, NEW S, IsFiniteSet(S), \A x \in S : f[x] \in Int, NEW x \in S
    PROVE  SumOver(f, S) = f[x] + SumOver(f, S \ {x})
<1> SUFFICES ASSUME SumOver(f, S) # f[x] + SumOver(f, S \ {x}) PROVE FALSE
  OBVIOUS
<1> DEFINE B == {T \in SUBSET S : \E y \in T : SumOver(f, T) # f[y] + SumOver(f, T \ {y})}
<1>1. PICK T \in B : \A U \in B : U \subseteq T => U = T
  <2>1. B # {} /\ B \subseteq SUBSET S
    OBVIOUS
  <2> HIDE DEF B
  <2>. QED
    BY <2>1, Smallest
<1>2. PICK y \in T : SumOver(f, T) # f[y] + SumOver(f, T \ {y})
  OBVIOUS
<1> DEFINE z == Pick(T)
<1>3. z \in T /\ IsFiniteSet(T)
  BY PickIn, FS_Subset
<1>4. SumOver(f, T) = f[z] + SumOver(f, T \ {z})
  BY <1>3, SumStep
<1>5. y # z
  BY <1>2, <1>4
<1>6. \A U \in SUBSET T : U # T => \A w \in U : SumOver(f, U) = f[w] + SumOver(f, U \ {w})
  BY <1>1
<1> DEFINE Y == T \ {y}
           Z == T \ {z}
           R == Z \ {y}
<1>7. SumOver(f, Z) = f[y] + SumOver(f, R)
  BY <1>3, <1>5, <1>6
<1>8. SumOver(f, Y) = f[z] + SumOver(f, R)
  <2>1. Y \ {z} = R /\ z \in Y /\ Y \in SUBSET T /\ Y # T
    BY <1>3, <1>5
  <2> HIDE DEF Y, R, z
  <2>. QED
    BY <1>6, <2>1
<1>9. SumOver(f, R) \in Int /\ f[y] \in Int /\ f[z] \in Int
  <2>1. IsFiniteSet(R) /\ R \subseteq S
    BY <1>3, FS_Subset
  <2> HIDE DEF R
  <2>. QED
    BY <1>3, <2>1, SumType
<1> HIDE DEF Y, Z, R, z
<1>10. SumOver(f, T) = f[z] + SumOver(f, Z) /\ SumOver(f, T) # f[y] + SumOver(f, Y)
  BY <1>2, <1>4 DEF Y, Z
<1>. QED
  BY <1>7, <1>8, <1>9, <1>10

\* Functions that agree on the set have the same sum.
LEMMA SumSame ==
    ASSUME NEW f, NEW h, NEW S, IsFiniteSet(S), \A x \in S : f[x] = h[x]
    PROVE  SumOver(f, S) = SumOver(h, S)
<1> SUFFICES ASSUME SumOver(f, S) # SumOver(h, S) PROVE FALSE
  OBVIOUS
<1> DEFINE B == {T \in SUBSET S : SumOver(f, T) # SumOver(h, T)}
<1>1. PICK T \in B : \A U \in B : U \subseteq T => U = T
  <2>1. B # {} /\ B \subseteq SUBSET S
    OBVIOUS
  <2> HIDE DEF B
  <2>. QED
    BY <2>1, Smallest
<1>2. T # {}
  BY SumEmpty
<1>3. Pick(T) \in T /\ IsFiniteSet(T)
  BY <1>2, PickIn, FS_Subset
<1>4. /\ SumOver(f, T) = f[Pick(T)] + SumOver(f, T \ {Pick(T)})
      /\ SumOver(h, T) = h[Pick(T)] + SumOver(h, T \ {Pick(T)})
  BY <1>2, <1>3, SumStep
<1>5. SumOver(f, T \ {Pick(T)}) = SumOver(h, T \ {Pick(T)})
  BY <1>1, <1>3
<1>. QED
  BY <1>3, <1>4, <1>5

\* The sum of what two functions add up to is the sum of their sums.
LEMMA SumPlus ==
    ASSUME NEW f, NEW g, NEW h, NEW S, IsFiniteSet(S),
           \A x \in S : f[x] \in Int /\ g[x] \in Int /\ h[x] = f[x] + g[x]
    PROVE  SumOver(h, S) = SumOver(f, S) + SumOver(g, S)
<1> SUFFICES ASSUME SumOver(h, S) # SumOver(f, S) + SumOver(g, S) PROVE FALSE
  OBVIOUS
<1> DEFINE B == {T \in SUBSET S : SumOver(h, T) # SumOver(f, T) + SumOver(g, T)}
<1>1. PICK T \in B : \A U \in B : U \subseteq T => U = T
  <2>1. B # {} /\ B \subseteq SUBSET S
    OBVIOUS
  <2> HIDE DEF B
  <2>. QED
    BY <2>1, Smallest
<1>2. T # {}
  BY SumEmpty
<1> DEFINE R == T \ {Pick(T)}
<1>3. Pick(T) \in T /\ IsFiniteSet(T) /\ R \subseteq S /\ IsFiniteSet(R)
  BY <1>2, PickIn, FS_Subset
<1>4. /\ SumOver(f, T) = f[Pick(T)] + SumOver(f, R)
      /\ SumOver(g, T) = g[Pick(T)] + SumOver(g, R)
      /\ SumOver(h, T) = h[Pick(T)] + SumOver(h, R)
  BY <1>2, <1>3, SumStep
<1>5. SumOver(h, R) = SumOver(f, R) + SumOver(g, R)
  BY <1>1, <1>3
<1>6. SumOver(f, R) \in Int /\ SumOver(g, R) \in Int
  <2> HIDE DEF R
  <2>. QED
    BY <1>3, SumType
<1>. QED
  BY <1>3, <1>4, <1>5, <1>6

\* Zeros add up to zero.
LEMMA SumZero ==
    ASSUME NEW f, NEW S, IsFiniteSet(S), \A x \in S : f[x] = 0
    PROVE  SumOver(f, S) = 0
<1>1. \A x \in S : f[x] \in Int /\ f[x] = f[x] + f[x]
  OBVIOUS
<1> DEFINE n == SumOver(f, S)
<1>2. n \in Int /\ n = n + n
  BY <1>1, SumType, SumPlus
<1> HIDE DEF n
<1>3. n = 0
  BY <1>2
<1>. QED
  BY <1>3 DEF n

\* The sum of two sets with nothing in common is the sum of their sums.
LEMMA SumUnion ==
    ASSUME NEW f, NEW S, NEW T, IsFiniteSet(S), IsFiniteSet(T), S \cap T = {},
           \A x \in S \cup T : f[x] \in Int
    PROVE  SumOver(f, S \cup T) = SumOver(f, S) + SumOver(f, T)
<1> SUFFICES ASSUME SumOver(f, S \cup T) # SumOver(f, S) + SumOver(f, T) PROVE FALSE
  OBVIOUS
<1> DEFINE B == {U \in SUBSET T : SumOver(f, S \cup U) # SumOver(f, S) + SumOver(f, U)}
<1>1. PICK U \in B : \A V \in B : V \subseteq U => V = U
  <2>1. B # {} /\ B \subseteq SUBSET T
    OBVIOUS
  <2> HIDE DEF B
  <2>. QED
    BY <2>1, Smallest
<1>2. SumOver(f, S) \in Int
  BY SumType
<1>3. U # {}
  BY <1>2, SumEmpty
<1> DEFINE x == Pick(U)
           R == U \ {x}
           W == S \cup U
           V == S \cup R
<1>4. /\ x \in U /\ x \in W /\ W \ {x} = V
      /\ IsFiniteSet(U) /\ IsFiniteSet(W) /\ IsFiniteSet(R)
      /\ \A y \in W : f[y] \in Int
  BY <1>3, PickIn, FS_Subset, FS_Union
<1>5. SumOver(f, V) = SumOver(f, S) + SumOver(f, R)
  BY <1>1, <1>4
<1>6. SumOver(f, W) # SumOver(f, S) + SumOver(f, U)
  OBVIOUS
<1>7. \A y \in U : f[y] \in Int
  OBVIOUS
<1>8. \A y \in R : f[y] \in Int
  OBVIOUS
<1>9. W \ {x} = V /\ U \ {x} = R
  BY <1>4
<1> HIDE DEF x, R, W, V
<1>10. SumOver(f, W) = f[x] + SumOver(f, V) /\ SumOver(f, U) = f[x] + SumOver(f, R)
  BY <1>4, <1>7, <1>9, SumTake
<1>11. SumOver(f, R) \in Int /\ f[x] \in Int
  BY <1>4, <1>7, <1>8, SumType
<1>. QED
  BY <1>2, <1>5, <1>6, <1>10, <1>11

\* What is zero outside a subset adds up to the sum of the subset.
LEMMA SumPart ==
    ASSUME NEW f, NEW S, NEW R, IsFiniteSet(S), R \subseteq S,
           \A x \in S : f[x] \in Int, \A x \in S \ R : f[x] = 0
    PROVE  SumOver(f, S) = SumOver(f, R)
<1> DEFINE T == S \ R
<1>1. /\ IsFiniteSet(R) /\ IsFiniteSet(T) /\ R \cap T = {} /\ R \cup T = S
      /\ \A x \in T : f[x] = 0
      /\ \A x \in R : f[x] \in Int
  BY FS_Subset
<1> HIDE DEF T
<1>2. SumOver(f, R \cup T) = SumOver(f, R) + SumOver(f, T)
  BY <1>1, SumUnion
<1>3. SumOver(f, T) = 0 /\ SumOver(f, R) \in Int
  BY <1>1, SumZero, SumType
<1>4. SumOver(f, R \cup T) = SumOver(f, S)
  BY <1>1, Zenon
<1>. QED
  BY <1>2, <1>3, <1>4

\* The image of a finite set is finite.
LEMMA FiniteImage ==
    ASSUME NEW b, NEW S, IsFiniteSet(S)
    PROVE  IsFiniteSet({b[x] : x \in S})
<1> DEFINE T == {b[x] : x \in S}
           c == [x \in S |-> b[x]]
<1>1. c \in Surjection(S, T)
  BY DEF Surjection
<1>. QED
  BY <1>1, FS_Surjection

\* A sum over the images of a set, each the image of one element.
LEMMA SumImage ==
    ASSUME NEW f, NEW g, NEW b, NEW S, IsFiniteSet(S),
           \A x, y \in S : b[x] = b[y] => x = y,
           \A x \in S : g[x] \in Int /\ f[b[x]] = g[x]
    PROVE  SumOver(f, {b[x] : x \in S}) = SumOver(g, S)
<1> DEFINE I(U) == {b[x] : x \in U}
<1> SUFFICES ASSUME SumOver(f, I(S)) # SumOver(g, S) PROVE FALSE
  OBVIOUS
<1> DEFINE B == {U \in SUBSET S : SumOver(f, I(U)) # SumOver(g, U)}
<1>1. PICK U \in B : \A V \in B : V \subseteq U => V = U
  <2>1. B # {} /\ B \subseteq SUBSET S
    OBVIOUS
  <2> HIDE DEF B
  <2>. QED
    BY <2>1, Smallest
<1>2. U # {}
  <2>1. I({}) = {}
    OBVIOUS
  <2> HIDE DEF I
  <2>. QED
    BY <2>1, SumEmpty
<1> DEFINE x == Pick(U)
           R == U \ {x}
<1>3. x \in U /\ IsFiniteSet(U) /\ x \in S /\ U \subseteq S
  BY <1>2, PickIn, FS_Subset
<1>4. SumOver(f, I(R)) = SumOver(g, R)
  BY <1>1, <1>3
<1>5. SumOver(f, I(U)) # SumOver(g, U)
  OBVIOUS
<1>6. /\ b[x] \in I(U) /\ I(U) \ {b[x]} = I(R)
      /\ \A y \in I(U) : f[y] \in Int
      /\ \A y \in U : g[y] \in Int
      /\ f[b[x]] = g[x]
  BY <1>3
<1>7. IsFiniteSet(I(U))
  <2>1. IsFiniteSet({b[y] : y \in U})
    BY <1>3, FiniteImage
  <2>. QED
    BY <2>1
<1> HIDE DEF I, R, x
<1>8. SumOver(f, I(U)) = f[b[x]] + SumOver(f, I(U) \ {b[x]})
  BY <1>6, <1>7, SumTake
<1>9. SumOver(g, U) = g[x] + SumOver(g, R)
  BY <1>3, <1>6, SumTake DEF R
<1>. QED
  BY <1>4, <1>5, <1>6, <1>8, <1>9

\* g[k] is the sum of f over the elements with the key k.
ByKey(f, g, key, S, K) ==
    /\ \A x \in S : f[x] \in Int /\ key[x] \in K
    /\ \A k \in K : g[k] = SumOver(f, {x \in S : key[x] = k})

\* A sum, added up key by key.
LEMMA SumByKey ==
    ASSUME NEW f, NEW g, NEW key, NEW S, NEW K, IsFiniteSet(S), IsFiniteSet(K),
           ByKey(f, g, key, S, K)
    PROVE  SumOver(f, S) = SumOver(g, K)
<1>0. /\ \A x \in S : f[x] \in Int /\ key[x] \in K
      /\ \A k \in K : g[k] = SumOver(f, {x \in S : key[x] = k})
  BY DEF ByKey
<1> DEFINE Of(U) == {x \in S : key[x] \in U}
           At(k) == {x \in S : key[x] = k}
<1>1. Of(K) = S
  BY <1>0
<1> SUFFICES ASSUME SumOver(f, Of(K)) # SumOver(g, K) PROVE FALSE
  BY <1>1
<1> DEFINE B == {U \in SUBSET K : SumOver(f, Of(U)) # SumOver(g, U)}
<1>2. PICK U \in B : \A V \in B : V \subseteq U => V = U
  <2>1. B # {} /\ B \subseteq SUBSET K
    OBVIOUS
  <2> HIDE DEF B
  <2>. QED
    BY <2>1, Smallest
<1>3. U # {}
  <2>1. Of({}) = {}
    OBVIOUS
  <2> HIDE DEF Of
  <2>. QED
    BY <2>1, SumEmpty
<1> DEFINE k == Pick(U)
           R == U \ {k}
<1>4. k \in U /\ IsFiniteSet(U) /\ k \in K
  BY <1>3, PickIn, FS_Subset
<1>5. SumOver(f, Of(R)) = SumOver(g, R)
  BY <1>2, <1>4
<1>6. SumOver(f, Of(U)) # SumOver(g, U)
  OBVIOUS
<1>7. /\ IsFiniteSet(Of(R)) /\ IsFiniteSet(At(k))
      /\ Of(R) \cap At(k) = {} /\ Of(R) \cup At(k) = Of(U)
      /\ \A x \in Of(R) \cup At(k) : f[x] \in Int
      /\ \A x \in At(k) : f[x] \in Int
      /\ g[k] = SumOver(f, At(k))
  BY <1>0, <1>4, FS_Subset
<1>8. \A j \in K : g[j] \in Int
  <2> SUFFICES ASSUME NEW j \in K PROVE g[j] \in Int
    OBVIOUS
  <2>1. IsFiniteSet(At(j)) /\ (\A x \in At(j) : f[x] \in Int) /\ g[j] = SumOver(f, At(j))
    BY <1>0, FS_Subset
  <2> HIDE DEF At
  <2>. QED
    BY <2>1, SumType
<1>9. \A j \in U : g[j] \in Int
  BY <1>8
<1> HIDE DEF Of, At
<1>10. SumOver(f, Of(U)) = SumOver(f, Of(R)) + SumOver(f, At(k))
  <2>1. SumOver(f, Of(R) \cup At(k)) = SumOver(f, Of(R)) + SumOver(f, At(k))
    BY <1>7, SumUnion
  <2>2. SumOver(f, Of(R) \cup At(k)) = SumOver(f, Of(U))
    BY <1>7, Zenon
  <2>. QED
    BY <2>1, <2>2
<1>11. SumOver(g, U) = g[k] + SumOver(g, R)
  BY <1>4, <1>9, SumTake
<1>12. SumOver(f, Of(R)) \in Int /\ g[k] \in Int
  <2>1. \A x \in Of(R) : f[x] \in Int
    BY <1>7
  <2>. QED
    BY <1>4, <1>7, <1>8, <2>1, SumType
<1>. QED
  BY <1>5, <1>6, <1>7, <1>10, <1>11, <1>12
----------------------------------------------------------------------------
(* Orders. *)

\* R is a strict order of all of S.
TotalOrder(R, S) ==
    /\ \A x, y \in S : <<x, y>> \in R => <<y, x>> \notin R
    /\ \A x, y \in S : x # y => <<x, y>> \in R \/ <<y, x>> \in R
    /\ \A x, y, z \in S : <<x, y>> \in R /\ <<y, z>> \in R => <<x, z>> \in R

\* q goes through S in that order.
Enumerates(q, R, S) ==
    /\ q \in [1 .. Cardinality(S) -> S]
    /\ \A x \in S : \E i \in 1 .. Cardinality(S) : x = q[i]
    /\ \A i, j \in 1 .. Cardinality(S) : i < j => <<q[i], q[j]>> \in R

\* A finite set has a last element.
LEMMA LastOf ==
    ASSUME NEW R, NEW S, IsFiniteSet(S), S # {}, TotalOrder(R, S)
    PROVE  \E x \in S : \A y \in S : y # x => <<y, x>> \in R
<1> DEFINE HasLast(T) == \E x \in T : \A y \in T : y # x => <<y, x>> \in R
           B == {T \in SUBSET S : T # {} /\ ~HasLast(T)}
<1> SUFFICES ASSUME B # {} PROVE FALSE
  OBVIOUS
<1>1. PICK T \in B : \A U \in B : U \subseteq T => U = T
  <2>1. B # {} /\ B \subseteq SUBSET S
    OBVIOUS
  <2>2. IsFiniteSet(S)
    OBVIOUS
  <2> HIDE DEF B
  <2>. QED
    BY ONLY <2>1, <2>2, Smallest
<1>2. PICK x \in T : TRUE
  OBVIOUS
<1>3. PICK y \in T \ {x} : \A z \in T \ {x} : z # y => <<z, y>> \in R
  <2>1. T \ {x} \notin B /\ T # {x}
    BY <1>1, <1>2
  <2>. QED
    BY <1>1, <1>2, <2>1
<1>4. CASE <<x, y>> \in R
  BY <1>1, <1>3, <1>4
<1>5. CASE <<y, x>> \in R
  <2>1. \A z \in T : z # x => <<z, x>> \in R
    BY <1>2, <1>3, <1>5 DEF TotalOrder
  <2>. QED
    BY <1>1, <1>2, <2>1
<1>. QED
  BY <1>2, <1>3, <1>4, <1>5 DEF TotalOrder

\* A finite set can be gone through in order.
LEMMA Enumerated ==
    ASSUME NEW R, NEW S, IsFiniteSet(S), TotalOrder(R, S)
    PROVE  \E q : Enumerates(q, R, S)
<1> DEFINE B == {T \in SUBSET S : ~ \E q : Enumerates(q, R, T)}
<1> SUFFICES ASSUME B # {} PROVE FALSE
  OBVIOUS
<1>1. PICK T \in B : \A U \in B : U \subseteq T => U = T
  <2>1. B # {} /\ B \subseteq SUBSET S
    OBVIOUS
  <2>2. IsFiniteSet(S)
    OBVIOUS
  <2> HIDE DEF B
  <2>. QED
    BY ONLY <2>1, <2>2, Smallest
<1>2. IsFiniteSet(T) /\ T \subseteq S /\ TotalOrder(R, T)
  BY FS_Subset DEF TotalOrder
<1>3. T # {}
  <2>1. ASSUME T = {} PROVE Enumerates([i \in 1 .. 0 |-> 0], R, T)
    BY <2>1, FS_EmptySet DEF Enumerates
  <2>. QED
    BY <2>1
<1>4. PICK x \in T : \A y \in T : y # x => <<y, x>> \in R
  BY <1>2, <1>3, LastOf
<1>5. PICK n : n = Cardinality(T)
  OBVIOUS
<1>6. n \in Nat \ {0} /\ Cardinality(T \ {x}) = n - 1
  BY <1>2, <1>3, <1>4, <1>5, FS_EmptySet, FS_CardinalityType, FS_RemoveElement
<1>7. PICK p : Enumerates(p, R, T \ {x})
  BY <1>1, <1>4
<1>8. PICK q : q = [i \in 1 .. n |-> IF i = n THEN x ELSE p[i]]
  OBVIOUS
<1>9. /\ \A i \in 1 .. n - 1 : q[i] = p[i] /\ p[i] \in T \ {x}
      /\ q[n] = x /\ n \in 1 .. n
      /\ \A y \in T \ {x} : \E i \in 1 .. n - 1 : y = p[i]
      /\ \A i, j \in 1 .. n - 1 : i < j => <<p[i], p[j]>> \in R
  <2>1. /\ p \in [1 .. n - 1 -> T \ {x}]
        /\ \A y \in T \ {x} : \E i \in 1 .. n - 1 : y = p[i]
        /\ \A i, j \in 1 .. n - 1 : i < j => <<p[i], p[j]>> \in R
    BY <1>6, <1>7 DEF Enumerates
  <2>2. q[n] = x /\ n \in 1 .. n /\ \A i \in 1 .. n - 1 : q[i] = p[i]
    BY <1>6, <1>8
  <2>. QED
    BY <2>1, <2>2
<1>10. q \in [1 .. n -> T]
  BY <1>6, <1>8, <1>9
<1>11. \A y \in T : \E i \in 1 .. n : y = q[i]
  BY <1>6, <1>9
<1>12. ASSUME NEW i \in 1 .. n, NEW j \in 1 .. n, i < j
       PROVE  <<q[i], q[j]>> \in R
  <2>1. i \in 1 .. n - 1
    BY <1>6, <1>12
  <2>2. CASE j = n
    BY <1>4, <1>9, <2>1, <2>2
  <2>3. CASE j # n
    BY <1>6, <1>9, <1>12, <2>1, <2>3
  <2>. QED
    BY <2>2, <2>3
<1>13. Enumerates(q, R, T)
  BY <1>5, <1>10, <1>11, <1>12 DEF Enumerates
<1>. QED
  BY <1>13

\* What comes before the i-th of an order are i - 1.
LEMMA Rank ==
    ASSUME NEW R, NEW S, IsFiniteSet(S), TotalOrder(R, S), NEW q, Enumerates(q, R, S),
           NEW i \in 1 .. Cardinality(S)
    PROVE  /\ {y \in S : <<y, q[i]>> \in R} = {q[j] : j \in 1 .. i - 1}
           /\ Cardinality({y \in S : <<y, q[i]>> \in R}) = i - 1
<1>1. PICK n \in Nat : n = Cardinality(S)
  BY FS_CardinalityType
<1>2. /\ q \in [1 .. n -> S] /\ i \in 1 .. n
      /\ \A x \in S : \E j \in 1 .. n : x = q[j]
      /\ \A j, k \in 1 .. n : j < k => <<q[j], q[k]>> \in R
  BY <1>1 DEF Enumerates
<1>3. \A j, k \in 1 .. n : <<q[j], q[k]>> \in R => j < k
  <2> SUFFICES ASSUME NEW j \in 1 .. n, NEW k \in 1 .. n, <<q[j], q[k]>> \in R PROVE j < k
    OBVIOUS
  <2>1. q[j] \in S /\ q[k] \in S
    BY <1>2
  <2>2. <<q[k], q[j]>> \notin R
    BY <2>1 DEF TotalOrder
  <2>3. ~(k < j) /\ j # k
    BY <1>2, <2>2
  <2>. QED
    BY <2>3
<1>4. {y \in S : <<y, q[i]>> \in R} = {q[j] : j \in 1 .. i - 1}
  <2>1. ASSUME NEW y \in S, <<y, q[i]>> \in R PROVE \E j \in 1 .. i - 1 : y = q[j]
    <3>1. PICK j \in 1 .. n : y = q[j]
      BY <1>2
    <3>. QED
      BY <1>1, <1>2, <1>3, <2>1, <3>1
  <2>2. ASSUME NEW j \in 1 .. i - 1 PROVE q[j] \in S /\ <<q[j], q[i]>> \in R
    BY <1>1, <1>2
  <2>. QED
    BY <2>1, <2>2
<1>5. \A j, k \in 1 .. i - 1 : q[j] = q[k] => j = k
  <2> SUFFICES ASSUME NEW j \in 1 .. i - 1, NEW k \in 1 .. i - 1, j < k PROVE q[j] # q[k]
    OBVIOUS
  <2>1. j \in 1 .. n /\ k \in 1 .. n
    BY <1>1, <1>2
  <2>2. <<q[j], q[k]>> \in R /\ ~(k < k)
    BY <1>2, <2>1
  <2>. QED
    BY <1>3, <2>1, <2>2
<1>6. Cardinality({q[j] : j \in 1 .. i - 1}) = i - 1
  <2> DEFINE I == 1 .. i - 1
             T == {q[j] : j \in I}
             f == [j \in I |-> q[j]]
  <2>1. f \in Bijection(I, T)
    BY <1>5 DEF Bijection, Injection, Surjection, IsInjective
  <2>2. IsFiniteSet(I) /\ Cardinality(I) = i - 1
    BY <1>2, FS_Interval
  <2> HIDE DEF I, T, f
  <2>3. Cardinality(T) = Cardinality(I)
    BY <2>1, <2>2, FS_Bijection DEF ExistsBijection
  <2>. QED
    BY <2>2, <2>3 DEF I, T
<1>. QED
  BY <1>4, <1>6

\* Ordering by rank goes through the set in order.
LEMMA OrderedIs ==
    ASSUME NEW R, NEW S, IsFiniteSet(S), TotalOrder(R, S)
    PROVE  Enumerates(Ordered(S, R), R, S)
<1>1. PICK q : Enumerates(q, R, S)
  BY Enumerated
<1>2. PICK n \in Nat : n = Cardinality(S)
  BY FS_CardinalityType
<1>3. /\ q \in [1 .. n -> S]
      /\ \A x \in S : \E i \in 1 .. n : x = q[i]
  BY <1>1, <1>2 DEF Enumerates
<1>4. \A i \in 1 .. n : Cardinality({y \in S : <<y, q[i]>> \in R}) = i - 1
  BY <1>1, <1>2, Rank
<1>5. ASSUME NEW i \in 1 .. n
      PROVE  q[i] = CHOOSE x \in S : Cardinality({y \in S : <<y, x>> \in R}) = i - 1
  <2> DEFINE rank(x) == Cardinality({y \in S : <<y, x>> \in R})
  <2>1. q[i] \in S /\ rank(q[i]) = i - 1
    BY <1>3, <1>4
  <2>2. \A x \in S : rank(x) = i - 1 => x = q[i]
    <3> SUFFICES ASSUME NEW x \in S, rank(x) = i - 1 PROVE x = q[i]
      OBVIOUS
    <3>1. PICK j \in 1 .. n : x = q[j]
      BY <1>3
    <3>2. rank(q[j]) = j - 1
      BY <1>4
    <3>3. rank(q[j]) = i - 1
      BY <3>1
    <3> HIDE DEF rank
    <3>. QED
      BY <3>1, <3>2, <3>3
  <2> HIDE DEF rank
  <2>3. q[i] = CHOOSE x \in S : rank(x) = i - 1
    BY <2>1, <2>2
  <2>. QED
    BY <2>3 DEF rank
<1>6. Ordered(S, R) = [i \in 1 .. n |-> q[i]]
  BY <1>2, <1>5 DEF Ordered
<1>7. Ordered(S, R) = q
  BY <1>3, <1>6
<1>. QED
  BY <1>1, <1>7

\* A finite set of integers has a first and a last one.
LEMMA Extremes ==
    ASSUME NEW S, S \subseteq Int, IsFiniteSet(S), S # {}
    PROVE  /\ Min(S) \in S /\ \A x \in S : Min(S) <= x
           /\ Max(S) \in S /\ \A x \in S : x <= Max(S)
<1> DEFINE Up == {p \in S \X S : p[1] < p[2]}
           Down == {p \in S \X S : p[2] < p[1]}
<1>1. \A x, y \in S : /\ <<x, y>> \in Up <=> x < y
                      /\ <<x, y>> \in Down <=> y < x
  OBVIOUS
<1> HIDE DEF Up, Down
<1>2. TotalOrder(Up, S)
  BY <1>1 DEF TotalOrder
<1>3. TotalOrder(Down, S)
  BY <1>1 DEF TotalOrder
<1>4. ASSUME NEW R, TotalOrder(R, S)
      PROVE  \E x \in S : \A y \in S : y # x => <<y, x>> \in R
  <2>1. IsFiniteSet(S) /\ S # {}
    OBVIOUS
  <2>. QED
    BY ONLY <1>4, <2>1, LastOf
<1>5. PICK x \in S : \A y \in S : y # x => y < x
  <2>1. \E x \in S : \A y \in S : y # x => <<y, x>> \in Up
    BY <1>2, <1>4
  <2>. QED
    BY <1>1, <2>1
<1>6. PICK z \in S : \A y \in S : y # z => z < y
  <2>1. \E z \in S : \A y \in S : y # z => <<y, z>> \in Down
    BY <1>3, <1>4
  <2>. QED
    BY <1>1, <2>1
<1>7. (\A y \in S : x >= y) /\ (\A y \in S : z =< y)
  BY <1>5, <1>6
<1>8. Max(S) \in S /\ \A y \in S : Max(S) >= y
  BY <1>7 DEF Max
<1>9. Min(S) \in S /\ \A y \in S : Min(S) =< y
  BY <1>7 DEF Min
<1>. QED
  BY <1>8, <1>9

\* The smaller of two.
Least(a, b) == IF a <= b THEN a ELSE b

LEMMA MinIs == \A a, b \in Int : Min({a, b}) = Least(a, b)
<1> SUFFICES ASSUME NEW a \in Int, NEW b \in Int PROVE Min({a, b}) = Least(a, b)
  OBVIOUS
<1>1. Least(a, b) \in {a, b} /\ \A y \in {a, b} : Least(a, b) =< y
  BY DEF Least
<1>2. \A x \in {a, b} : (\A y \in {a, b} : x =< y) => x = Least(a, b)
  BY DEF Least
<1>. QED
  BY <1>1, <1>2 DEF Min
=============================================================================
