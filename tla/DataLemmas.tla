----------------------------- MODULE DataLemmas -----------------------------
(***************************************************************************)
(* Facts about the data operators that the modules are built from.         *)
(*                                                                         *)
(* Least and greatest numbers, and sums: Repair keeps the first record of  *)
(* a key (Min), NewCacheFile takes the id after the largest (Max), size_   *)
(* is a sum over the cache files and used_memory one over the allocated    *)
(* blocks (MapThenSumSet).  Induction is over sets, not over predicates: a *)
(* set that fails to hold all numbers, or all subsets, leaves out a least  *)
(* one.  It rests on FS_StrictSubsetOrderingWellFounded of the library.    *)
(*                                                                         *)
(* Lists: what the list operations of LruCache return, element by element, *)
(* for lists that hold no key twice.                                       *)
(***************************************************************************)
EXTENDS Integers, FiniteSets, FiniteSetsExt, LruCache, FiniteSetTheorems,
        SequenceTheorems, TLAPS

-----------------------------------------------------------------------------
(* Least and greatest numbers.                                             *)

(* A set of naturals that is not empty has a least element (used for the
   first record of a key, flashcache.cc:191). *)
LEMMA LeastExists ==
  ASSUME NEW T \in SUBSET Nat, T # {}
  PROVE  \E m \in T : \A n \in T : m <= n
<1> DEFINE C == {0..x : x \in T}
<1>1. C \subseteq FiniteSubsetsOf(Nat) /\ C # {}
  <2>1. ASSUME NEW x \in T PROVE 0..x \in FiniteSubsetsOf(Nat)
    <3>1. IsFiniteSet(0..x)
      BY FS_Interval
    <3>2. 0..x \in SUBSET Nat
      OBVIOUS
    <3> QED BY <3>1, <3>2 DEF FiniteSubsetsOf
  <2> QED BY <2>1
<1>2. \E c \in C : \A d \in C : ~ (<<d, c>> \in StrictSubsetOrdering(Nat))
  <2> HIDE DEF C
  <2> QED BY <1>1, FS_StrictSubsetOrderingWellFounded, WFMin
<1>3. PICK m \in T : \A n \in T : ~ (<<0..n, 0..m>> \in StrictSubsetOrdering(Nat))
  BY <1>2
<1>4. ASSUME NEW n \in T, n < m PROVE FALSE
  <2>1. 0..n \subseteq 0..m /\ 0..n # 0..m
    BY <1>4
  <2> DEFINE a == 0..n
             b == 0..m
  <2>2. a \in SUBSET Nat /\ b \in SUBSET Nat
    OBVIOUS
  <2>3. ~ (<<a, b>> \in StrictSubsetOrdering(Nat)) /\ a \subseteq b /\ a # b
    BY <1>3, <2>1
  <2> HIDE DEF a, b
  <2> QED BY <2>2, <2>3 DEF StrictSubsetOrdering
<1> QED BY <1>4

(* Min returns it (flashcache.cc:191). *)
LEMMA MinIsLeast ==
  ASSUME NEW T \in SUBSET Nat, T # {}
  PROVE  Min(T) \in T /\ \A n \in T : Min(T) <= n
BY LeastExists DEF Min

(* A bounded set of naturals that is not empty has a greatest element (used
   for the largest file id, flashcache.cc:479). *)
LEMMA GreatestExists ==
  ASSUME NEW T \in SUBSET Nat, T # {}, NEW b \in Nat, \A n \in T : n <= b
  PROVE  \E m \in T : \A n \in T : m >= n
<1> DEFINE U == {i \in Nat : b - i \in T}
<1>1. U # {} 
  <2> PICK n \in T : TRUE
    OBVIOUS
  <2> b - n \in Nat /\ b - (b - n) = n
    OBVIOUS
  <2> QED OBVIOUS
<1>2. PICK m \in U : \A n \in U : m <= n
  <2> HIDE DEF U
  <2> U \in SUBSET Nat 
    BY DEF U
  <2> QED BY <1>1, LeastExists
<1>3. ASSUME NEW n \in T PROVE b - m >= n
  <2> b - n \in U
     OBVIOUS
  <2> m <= b - n
    BY <1>2
  <2> QED OBVIOUS
<1> QED BY <1>3

(* Max returns it (flashcache.cc:479). *)
LEMMA MaxIsGreatest ==
  ASSUME NEW T \in SUBSET Nat, T # {}, NEW b \in Nat, \A n \in T : n <= b
  PROVE  Max(T) \in T /\ \A n \in T : Max(T) >= n
BY GreatestExists DEF Max

-----------------------------------------------------------------------------
(* Induction.                                                              *)

(* A set of naturals that has 0 and the successor of each of its members has
   them all (used to build the table of partial sums of size_). *)
LEMMA NatSetInduction ==
  ASSUME NEW P \in SUBSET Nat, 0 \in P, \A n \in P : n + 1 \in P
  PROVE  P = Nat
<1> SUFFICES ASSUME Nat \ P # {} PROVE FALSE
  OBVIOUS
<1>1. PICK m \in Nat \ P : \A n \in Nat \ P : m <= n
  BY LeastExists
<1>2. m # 0 /\ m - 1 \in Nat
  BY <1>1
<1>3. m - 1 \in P
  BY <1>1, <1>2
<1> QED BY <1>2, <1>3

(* A set of subsets of a finite S that has a subset whenever it has all its
   proper subsets has them all (used for sums over the cache files). *)
LEMMA SubsetInduction ==
  ASSUME NEW S, IsFiniteSet(S), NEW P \in SUBSET (SUBSET S),
         \A s \in SUBSET S : (\A t \in SUBSET s : t # s => t \in P) => s \in P
  PROVE  P = SUBSET S
<1> DEFINE B == (SUBSET S) \ P
<1> SUFFICES ASSUME B # {} PROVE FALSE
  OBVIOUS
<1>1. B \subseteq FiniteSubsetsOf(S)
  BY FS_FiniteSubsetsOfFinite
<1>2. \E b \in B : \A d \in B : ~ (<<d, b>> \in StrictSubsetOrdering(S))
  <2> HIDE DEF B
  <2> QED BY <1>1, FS_StrictSubsetOrderingWellFounded, WFMin
<1>3. PICK b \in B : \A d \in B : ~ (<<d, b>> \in StrictSubsetOrdering(S))
  BY <1>2
<1>4. ASSUME NEW t \in SUBSET b, t # b PROVE t \in P
  <2> SUFFICES ASSUME t \notin P PROVE FALSE
    OBVIOUS
  <2>1. t \in B 
    OBVIOUS
  <2>2. <<t, b>> \in StrictSubsetOrdering(S)
    BY <1>4, <2>1 DEF StrictSubsetOrdering
  <2> QED BY <1>3, <2>1, <2>2
<1> QED BY <1>4

-----------------------------------------------------------------------------
(* Sums.                                                                   *)

(* The entry of s in a table of partial sums. *)
PartialSum(it, F, s) ==
  IF s = {} THEN 0
  ELSE LET x == CHOOSE x \in s : TRUE IN F[x] + it[s \ {x}]

(* it is the table of partial sums of F that MapThenSumSet builds. *)
IsSum(it, F, S) == it = [s \in SUBSET S |-> PartialSum(it, F, s)]

(* The table exists: the entry of a set needs that of a smaller one (used for
   size_, flashcache.cc:537). *)
LEMMA SumExists ==
  ASSUME NEW S, IsFiniteSet(S), NEW F
  PROVE  \E it : IsSum(it, F, S)
<1> DEFINE Good(it, n) == \A t \in SUBSET S : Cardinality(t) <= n => it[t] = PartialSum(it, F, t)
           P == {n \in Nat : \E it : it = [t \in SUBSET S |-> it[t]] /\ Good(it, n)}
<1>1. \A t \in SUBSET S : IsFiniteSet(t) /\ Cardinality(t) \in Nat /\ Cardinality(t) <= Cardinality(S)
  BY FS_Subset, FS_CardinalityType
<1>2. 0 \in P
  <2> DEFINE it == [t \in SUBSET S |-> 0]
  <2>1. ASSUME NEW t \in SUBSET S, Cardinality(t) <= 0 PROVE it[t] = PartialSum(it, F, t)
    <3>1. t = {}
      BY <1>1, <2>1, FS_EmptySet
    <3> QED BY <3>1 DEF PartialSum
  <2>2. it = [t \in SUBSET S |-> it[t]]
    OBVIOUS
  <2>3. Good(it, 0)
    BY <2>1
  <2> HIDE DEF it, Good
  <2> QED BY <2>2, <2>3
<1>3. ASSUME NEW n \in P PROVE n + 1 \in P
  <2>1. PICK g : g = [t \in SUBSET S |-> g[t]] /\ Good(g, n)
    OBVIOUS
  <2> DEFINE h == [t \in SUBSET S |-> PartialSum(g, F, t)]
  <2>2. h = [t \in SUBSET S |-> h[t]]
    OBVIOUS
  <2>3. ASSUME NEW t \in SUBSET S, Cardinality(t) <= n + 1 PROVE h[t] = PartialSum(h, F, t)
    <3>1. CASE t = {}
      BY <3>1 DEF PartialSum
    <3>2. CASE t # {}
      <4> DEFINE x == CHOOSE y \in t : TRUE
      <4>1. x \in t /\ t \ {x} \in SUBSET S
        BY <3>2
      <4>2. Cardinality(t \ {x}) <= n
        <5> n \in Nat
          OBVIOUS
        <5> HIDE DEF x, P
        <5>1. IsFiniteSet(t) /\ Cardinality(t) \in Nat
          BY <1>1
        <5>2. Cardinality(t \ {x}) = Cardinality(t) - 1
          BY <5>1, <4>1, FS_RemoveElement
        <5> QED BY <5>1, <5>2, <2>3
      <4>3. g[t \ {x}] = PartialSum(g, F, t \ {x})
        BY <2>1, <4>1, <4>2
      <4>4. h[t \ {x}] = g[t \ {x}]
        BY <4>1, <4>3
      <4>5. h[t] = F[x] + g[t \ {x}]
        BY <3>2 DEF PartialSum
      <4>6. PartialSum(h, F, t) = F[x] + h[t \ {x}]
        BY <3>2 DEF PartialSum
      <4> QED BY <4>4, <4>5, <4>6
    <3> QED BY <3>1, <3>2
  <2>4. Good(h, n + 1)
    BY <2>3
  <2> HIDE DEF h, Good
  <2> QED BY <2>2, <2>4
<1>4. P = Nat
  <2> HIDE DEF P
  <2>1. P \in SUBSET Nat
    BY DEF P
  <2> QED BY <1>2, <1>3, <2>1, NatSetInduction
<1>5. PICK it : it = [t \in SUBSET S |-> it[t]] /\ Good(it, Cardinality(S))
  BY <1>4, FS_CardinalityType
<1>6. [t \in SUBSET S |-> it[t]] = [t \in SUBSET S |-> PartialSum(it, F, t)]
  BY <1>1, <1>5
<1>7. IsSum(it, F, S)
  BY <1>5, <1>6 DEF IsSum
<1> QED BY <1>7

(* Natural terms have a natural sum (flashcache.cc:575). *)
LEMMA SumIsNat ==
  ASSUME NEW S, IsFiniteSet(S), NEW F \in [S -> Nat], NEW it, IsSum(it, F, S)
  PROVE  \A s \in SUBSET S : it[s] \in Nat
<1> DEFINE P == {s \in SUBSET S : it[s] \in Nat}
<1>1. ASSUME NEW s \in SUBSET S, \A t \in SUBSET s : t # s => t \in P
      PROVE  s \in P
  <2>1. it[s] = PartialSum(it, F, s)
    BY DEF IsSum
  <2>2. CASE s = {}
    BY <2>1, <2>2 DEF PartialSum
  <2>3. CASE s # {}
    <3> DEFINE x == CHOOSE y \in s : TRUE
    <3>1. x \in s /\ s \ {x} \in SUBSET s /\ s \ {x} # s
      BY <2>3
    <3>2. it[s] = F[x] + it[s \ {x}]
      BY <2>1, <2>3 DEF PartialSum
    <3> HIDE DEF x
    <3>3. F[x] \in Nat /\ it[s \ {x}] \in Nat
      BY <1>1, <3>1
    <3> QED BY <3>2, <3>3
  <2> QED BY <2>2, <2>3
<1>2. P \in SUBSET (SUBSET S)
  OBVIOUS
<1>3. P = SUBSET S
  <2> HIDE DEF P
  <2> QED BY <1>1, <1>2, SubsetInduction
<1> QED BY <1>3

(* Larger terms have a larger sum: what is on disk against what the files
   will hold (flashcache.cc:569). *)
LEMMA SumMonotone ==
  ASSUME NEW S, IsFiniteSet(S),
         NEW F \in [S -> Nat], NEW a, IsSum(a, F, S),
         NEW G \in [S -> Nat], NEW b, IsSum(b, G, S),
         \A x \in S : F[x] <= G[x]
  PROVE  a[S] <= b[S]
<1> DEFINE P == {s \in SUBSET S : a[s] <= b[s]}
<1>0. \A s \in SUBSET S : a[s] \in Nat /\ b[s] \in Nat
  BY SumIsNat
<1>1. ASSUME NEW s \in SUBSET S, \A t \in SUBSET s : t # s => t \in P
      PROVE  s \in P
  <2>1. a[s] = PartialSum(a, F, s) /\ b[s] = PartialSum(b, G, s)
    BY DEF IsSum
  <2>2. CASE s = {}
    BY <2>1, <2>2 DEF PartialSum
  <2>3. CASE s # {}
    <3> DEFINE x == CHOOSE y \in s : TRUE
    <3>1. x \in s /\ s \ {x} \in SUBSET s /\ s \ {x} # s
      BY <2>3
    <3>2. a[s] = F[x] + a[s \ {x}] /\ b[s] = G[x] + b[s \ {x}]
      BY <2>1, <2>3 DEF PartialSum
    <3> HIDE DEF x
    <3>3. /\ F[x] \in Nat /\ a[s \ {x}] \in Nat
          /\ G[x] \in Nat /\ b[s \ {x}] \in Nat
          /\ F[x] <= G[x] /\ a[s \ {x}] <= b[s \ {x}]
      BY <1>0, <1>1, <3>1
    <3> QED BY <3>2, <3>3
  <2> QED BY <2>2, <2>3
<1>2. P \in SUBSET (SUBSET S)
  OBVIOUS
<1>3. P = SUBSET S
  <2> HIDE DEF P
  <2> QED BY <1>1, <1>2, SubsetInduction
<1> QED BY <1>3

(* When one term changes the sum changes by as much: every step of the flash
   cache touches one file (flashcache.cc:537, :575). *)
LEMMA SumChange ==
  ASSUME NEW S, IsFiniteSet(S), NEW g \in S,
         NEW F \in [S -> Nat], NEW a, IsSum(a, F, S),
         NEW G \in [S -> Nat], NEW b, IsSum(b, G, S),
         \A x \in S : x # g => F[x] = G[x]
  PROVE  b[S] + F[g] = a[S] + G[g]
<1> DEFINE P == {s \in SUBSET S : IF g \in s THEN b[s] + F[g] = a[s] + G[g]
                                  ELSE b[s] = a[s]}
<1>0. \A s \in SUBSET S : a[s] \in Nat /\ b[s] \in Nat
  BY SumIsNat
<1>1. ASSUME NEW s \in SUBSET S, \A t \in SUBSET s : t # s => t \in P
      PROVE  s \in P
  <2>1. a[s] = PartialSum(a, F, s) /\ b[s] = PartialSum(b, G, s)
    BY DEF IsSum
  <2>2. CASE s = {}
    BY <2>1, <2>2 DEF PartialSum
  <2>3. CASE s # {}
    <3> DEFINE x == CHOOSE y \in s : TRUE
               t == s \ {x}
    <3>1. x \in s /\ t \in SUBSET s /\ t # s
      BY <2>3
    <3>2. a[s] = F[x] + a[t] /\ b[s] = G[x] + b[t]
      BY <2>1, <2>3 DEF PartialSum
    <3>3. g \in t <=> g \in s /\ x # g
      OBVIOUS
    <3> HIDE DEF x, t
    <3>4. /\ F[x] \in Nat /\ a[t] \in Nat /\ G[x] \in Nat /\ b[t] \in Nat
          /\ F[g] \in Nat /\ G[g] \in Nat
      BY <1>0, <1>1, <3>1
    <3>5. IF g \in t THEN b[t] + F[g] = a[t] + G[g] ELSE b[t] = a[t]
      BY <1>1, <3>1
    <3>6. CASE x = g
      BY <3>1, <3>2, <3>3, <3>4, <3>5, <3>6
    <3>7. CASE x # g
      <4>1. F[x] = G[x]
        BY <3>1, <3>7
      <4> QED BY <3>2, <3>3, <3>4, <3>5, <3>7, <4>1
    <3> QED BY <3>6, <3>7
  <2> QED BY <2>2, <2>3
<1>2. P \in SUBSET (SUBSET S)
  OBVIOUS
<1>3. P = SUBSET S
  <2> HIDE DEF P
  <2> QED BY <1>1, <1>2, SubsetInduction
<1> QED BY <1>3

(* The sum of the values of F. *)
Total(F) == (CHOOSE it : IsSum(it, F, DOMAIN F))[DOMAIN F]

(* Total is what any table of partial sums ends in (flashcache.cc:537). *)
LEMMA TotalIs ==
  ASSUME NEW S, IsFiniteSet(S), NEW F \in [S -> Nat]
  PROVE  /\ \E it : IsSum(it, F, S) /\ Total(F) = it[S]
         /\ \A it : IsSum(it, F, S) => Total(F) = it[S]
<1>1. PICK a : IsSum(a, F, S) /\ Total(F) = a[S]
  <2>1. DOMAIN F = S
    OBVIOUS
  <2>2. \E it : IsSum(it, F, S)
    BY SumExists
  <2> QED
    BY <2>1, <2>2 DEF Total
<1>2. ASSUME NEW it, IsSum(it, F, S) PROVE Total(F) = it[S]
  <2>1. a[S] \in Nat /\ it[S] \in Nat
    BY <1>1, <1>2, SumIsNat
  <2>2. \A x \in S : F[x] <= F[x]
    OBVIOUS
  <2>3. a[S] <= it[S] /\ it[S] <= a[S]
    BY <1>1, <1>2, <2>2, SumMonotone
  <2> QED
    BY <1>1, <2>1, <2>3
<1> QED
  BY <1>1, <1>2

(* A sum of naturals is one, and none of its terms exceeds it: what Evict
   subtracts from size_ is in it (flashcache.cc:575). *)
LEMMA TotalIsNat ==
  ASSUME NEW S, IsFiniteSet(S), NEW F \in [S -> Nat]
  PROVE  Total(F) \in Nat /\ \A x \in S : F[x] <= Total(F)
<1>1. PICK a : IsSum(a, F, S) /\ Total(F) = a[S]
  BY TotalIs
<1>2. a[S] \in Nat
  BY <1>1, SumIsNat
<1>3. ASSUME NEW x \in S PROVE F[x] <= Total(F)
  <2> DEFINE G == [F EXCEPT ![x] = 0]
  <2>1. G \in [S -> Nat] /\ G[x] = 0 /\ \A y \in S : y # x => F[y] = G[y]
    OBVIOUS
  <2> HIDE DEF G
  <2>2. PICK b : IsSum(b, G, S)
    BY SumExists
  <2>3. b[S] \in Nat
    BY <2>1, <2>2, SumIsNat
  <2>4. b[S] + F[x] = a[S] + G[x]
    BY <1>1, <2>1, <2>2, SumChange
  <2> QED
    BY <1>1, <1>2, <2>1, <2>3, <2>4
<1> QED
  BY <1>1, <1>2, <1>3

(* Larger terms have a larger sum (flashcache.cc:569). *)
LEMMA TotalMonotone ==
  ASSUME NEW S, IsFiniteSet(S), NEW F \in [S -> Nat], NEW G \in [S -> Nat],
         \A x \in S : F[x] <= G[x]
  PROVE  Total(F) <= Total(G)
<1>1. PICK a : IsSum(a, F, S) /\ Total(F) = a[S]
  BY TotalIs
<1>2. PICK b : IsSum(b, G, S) /\ Total(G) = b[S]
  BY TotalIs
<1> QED
  BY <1>1, <1>2, SumMonotone

(* When one term changes the sum changes by as much (flashcache.cc:537, :575). *)
LEMMA TotalChange ==
  ASSUME NEW S, IsFiniteSet(S), NEW g \in S,
         NEW F \in [S -> Nat], NEW G \in [S -> Nat],
         \A x \in S : x # g => F[x] = G[x]
  PROVE  Total(G) + F[g] = Total(F) + G[g]
<1>1. PICK a : IsSum(a, F, S) /\ Total(F) = a[S]
  BY TotalIs
<1>2. PICK b : IsSum(b, G, S) /\ Total(G) = b[S]
  BY TotalIs
<1> QED
  BY <1>1, <1>2, SumChange

(* Terms of 0 have the sum 0: a new cache (flashcache.cc:462). *)
LEMMA TotalZero ==
  ASSUME NEW S, IsFiniteSet(S), NEW F \in [S -> Nat], \A x \in S : F[x] = 0
  PROVE  Total(F) = 0
<1>1. PICK a : IsSum(a, F, S) /\ Total(F) = a[S]
  BY TotalIs
<1> DEFINE P == {s \in SUBSET S : a[s] = 0}
<1>2. ASSUME NEW s \in SUBSET S, \A t \in SUBSET s : t # s => t \in P
      PROVE  s \in P
  <2>1. a[s] = PartialSum(a, F, s)
    BY <1>1 DEF IsSum
  <2>2. CASE s = {}
    BY <2>1, <2>2 DEF PartialSum
  <2>3. CASE s # {}
    <3> DEFINE x == CHOOSE y \in s : TRUE
    <3>1. x \in s /\ s \ {x} \in SUBSET s /\ s \ {x} # s
      BY <2>3
    <3>2. a[s] = F[x] + a[s \ {x}]
      BY <2>1, <2>3 DEF PartialSum
    <3> HIDE DEF x
    <3>3. F[x] = 0 /\ a[s \ {x}] = 0
      BY <1>2, <3>1
    <3> QED
      BY <3>2, <3>3
  <2> QED
    BY <2>2, <2>3
<1>3. P \in SUBSET (SUBSET S)
  OBVIOUS
<1>4. P = SUBSET S
  <2> HIDE DEF P
  <2> QED
    BY <1>2, <1>3, SubsetInduction
<1> QED
  BY <1>1, <1>4

(* Any element may be taken out of a sum first: the order in which the chains
   are walked does not matter (hash.c:54-60). *)
LEMMA SumRemove ==
  ASSUME NEW S, IsFiniteSet(S), NEW F \in [S -> Nat], NEW a, IsSum(a, F, S)
  PROVE  \A s \in SUBSET S : \A y \in s : a[s] = F[y] + a[s \ {y}]
<1> DEFINE P == {s \in SUBSET S : \A y \in s : a[s] = F[y] + a[s \ {y}]}
<1>0. \A s \in SUBSET S : a[s] \in Nat
  BY SumIsNat
<1>1. ASSUME NEW s \in SUBSET S, \A t \in SUBSET s : t # s => t \in P
      PROVE  s \in P
  <2> SUFFICES ASSUME NEW y \in s PROVE a[s] = F[y] + a[s \ {y}]
    OBVIOUS
  <2> DEFINE x == CHOOSE z \in s : TRUE
  <2>1. x \in s /\ a[s] = F[x] + a[s \ {x}]
    <3>1. a[s] = PartialSum(a, F, s)
      BY DEF IsSum
    <3> QED
      BY <3>1 DEF PartialSum
  <2> HIDE DEF x
  <2>2. CASE y = x
    BY <2>1, <2>2
  <2>3. CASE y # x
    <3> DEFINE sx == s \ {x}
               sy == s \ {y}
    <3>1. /\ sx \in SUBSET s /\ sx # s /\ y \in sx
          /\ sy \in SUBSET s /\ sy # s /\ x \in sy
          /\ sx \ {y} = sy \ {x} /\ sx \ {y} \in SUBSET S
      BY <2>1, <2>3
    <3> HIDE DEF sx, sy
    <3>2. sx \in P /\ sy \in P
      BY <1>1, <3>1
    <3>3. PICK r \in Nat : r = a[sx \ {y}]
      BY <1>0, <3>1
    <3>4. a[sx] = F[y] + r /\ a[sy] = F[x] + r
      BY <3>1, <3>2, <3>3
    <3>5. a[s] = F[x] + a[sx] /\ F[x] \in Nat /\ F[y] \in Nat
      BY <2>1 DEF sx
    <3>6. a[s] = F[y] + a[sy]
      <4> HIDE DEF P
      <4> QED
        BY <3>4, <3>5
    <3> QED
      BY <3>6 DEF sy
  <2> QED
    BY <2>2, <2>3
<1>2. P \in SUBSET (SUBSET S)
  OBVIOUS
<1>3. P = SUBSET S
  <2> HIDE DEF P
  <2> QED BY <1>1, <1>2, SubsetInduction
<1> QED BY <1>3

(* Terms may be given other places, one for each, without a change of the
   sum (an entry at the front of a chain shifts the others, hash.c:34-35). *)
LEMMA SumImage ==
  ASSUME NEW S, IsFiniteSet(S), NEW F \in [S -> Nat], NEW a, IsSum(a, F, S),
         NEW T, IsFiniteSet(T), NEW G \in [T -> Nat], NEW b, IsSum(b, G, T),
         NEW h \in [S -> T], \A x, y \in S : h[x] = h[y] => x = y,
         \A x \in S : G[h[x]] = F[x]
  PROVE  a[S] = b[{h[x] : x \in S}]
<1>0. /\ \A s \in SUBSET S : \A y \in s : a[s] = F[y] + a[s \ {y}]
      /\ \A t \in SUBSET T : \A y \in t : b[t] = G[y] + b[t \ {y}]
  BY ONLY IsFiniteSet(S), F \in [S -> Nat], IsSum(a, F, S), IsFiniteSet(T),
     G \in [T -> Nat], IsSum(b, G, T), SumRemove
<1> DEFINE Img(s) == {h[x] : x \in s}
           P == {s \in SUBSET S : a[s] = b[Img(s)]}
<1>1. ASSUME NEW s \in SUBSET S, \A t \in SUBSET s : t # s => t \in P
      PROVE  s \in P
  <2>1. a[s] = PartialSum(a, F, s) /\ b[{}] = PartialSum(b, G, {})
    BY DEF IsSum
  <2>2. CASE s = {}
    BY <2>1, <2>2 DEF PartialSum
  <2>3. CASE s # {}
    <3> PICK x \in s : TRUE
      BY <2>3
    <3>1. s \ {x} \in SUBSET s /\ s \ {x} # s /\ Img(s) \in SUBSET T /\ h[x] \in Img(s)
      OBVIOUS
    <3>2. a[s] = F[x] + a[s \ {x}]
      BY <1>0
    <3>3. b[Img(s)] = G[h[x]] + b[Img(s) \ {h[x]}]
      <4> HIDE DEF Img
      <4> QED
        BY <1>0, <3>1
    <3>4. Img(s \ {x}) = Img(s) \ {h[x]}
      OBVIOUS
    <3>5. a[s \ {x}] = b[Img(s \ {x})]
      BY <1>1, <3>1
    <3> HIDE DEF Img
    <3>6. a[s] = b[Img(s)]
      BY <3>2, <3>3, <3>4, <3>5
    <3> QED
      BY <3>6
  <2> QED
    BY <2>2, <2>3
<1>2. P \in SUBSET (SUBSET S)
  OBVIOUS
<1>3. P = SUBSET S
  <2> HIDE DEF P
  <2> QED BY <1>1, <1>2, SubsetInduction
<1>4. S \in P
  <2> HIDE DEF P
  <2> QED BY <1>3
<1> QED BY <1>4

(* One more term is added to the sum, wherever the others go (hash.c:34-35). *)
LEMMA TotalAdd ==
  ASSUME NEW S, IsFiniteSet(S), NEW F \in [S -> Nat],
         NEW T, IsFiniteSet(T), NEW G \in [T -> Nat],
         NEW h \in [S -> T], \A x, y \in S : h[x] = h[y] => x = y,
         \A x \in S : G[h[x]] = F[x],
         NEW z \in T, \A y \in T : y # z <=> \E x \in S : y = h[x]
  PROVE  Total(G) = Total(F) + G[z]
<1>1. PICK a : IsSum(a, F, S) /\ Total(F) = a[S]
  BY TotalIs
<1>2. PICK b : IsSum(b, G, T) /\ Total(G) = b[T]
  BY TotalIs
<1>3. a[S] = b[{h[x] : x \in S}]
  BY ONLY <1>1, <1>2, IsFiniteSet(S), IsFiniteSet(T), F \in [S -> Nat], G \in [T -> Nat],
          h \in [S -> T], \A x, y \in S : h[x] = h[y] => x = y,
          \A x \in S : G[h[x]] = F[x], SumImage
<1>4. {h[x] : x \in S} = T \ {z}
  <2>1. ASSUME NEW x \in S PROVE h[x] \in T /\ h[x] # z
    OBVIOUS
  <2>2. ASSUME NEW y \in T, y # z PROVE \E x \in S : y = h[x]
    BY <2>2
  <2> QED
    BY <2>1, <2>2
<1>5. b[T] = G[z] + b[T \ {z}]
  BY <1>2, SumRemove
<1>6. G[z] \in Nat /\ a[S] \in Nat
  BY <1>1, SumIsNat
<1> QED
  BY <1>1, <1>2, <1>3, <1>4, <1>5, <1>6

-----------------------------------------------------------------------------
(* The list of lru_cache.                                                  *)

(* push_front: the new key comes first, every other one moves back by one
   (my_lru.hpp:26). *)
LEMMA PushFrontIndex ==
  ASSUME NEW S, NEW l \in Seq(S), NEW k \in S
  PROVE  /\ LruPushFront(l, k) \in Seq(S)
         /\ Len(LruPushFront(l, k)) = Len(l) + 1
         /\ \A i \in 1..(Len(l) + 1) :
              LruPushFront(l, k)[i] = IF i = 1 THEN k ELSE l[i - 1]
BY DEF LruPushFront, Cons

(* evict: the list without its last node (my_lru.hpp:65). *)
LEMMA DropVictimIndex ==
  ASSUME NEW S, NEW l \in Seq(S), l # <<>>
  PROVE  /\ LruDropVictim(l) \in Seq(S)
         /\ Len(LruDropVictim(l)) = Len(l) - 1
         /\ \A i \in 1..(Len(l) - 1) : LruDropVictim(l)[i] = l[i]
         /\ Len(l) \in Nat \ {0}
         /\ LruVictim(l) = l[Len(l)]
         /\ LruVictim(l) \in S
<1>1. Len(l) \in Nat \ {0} /\ \A i \in 1..Len(l) : l[i] \in S
  BY EmptySeq, ElementOfSeq
<1>2. /\ SubSeq(l, 1, Len(l) - 1) \in Seq(S)
      /\ Len(SubSeq(l, 1, Len(l) - 1)) = Len(l) - 1
      /\ \A i \in 1..(Len(l) - 1) : SubSeq(l, 1, Len(l) - 1)[i] = l[i]
  <2> DEFINE n == Len(l) - 1
  <2>1. n \in Nat /\ \A i \in 1..n : l[i] \in S
    BY <1>1
  <2> HIDE DEF n
  <2>2. /\ SubSeq(l, 1, n) \in Seq(S)
        /\ Len(SubSeq(l, 1, n)) = IF 1 <= n THEN n - 1 + 1 ELSE 0
        /\ \A i \in 1..(n - 1 + 1) : SubSeq(l, 1, n)[i] = l[1 + i - 1]
    BY <2>1, SubSeqProperties
  <2>3. \A i \in 1..n : SubSeq(l, 1, n)[i] = l[i]
    <3> TAKE i \in 1..n
    <3>1. i \in 1..(n - 1 + 1) /\ 1 + i - 1 = i
      BY <2>1
    <3> QED
      BY <2>2, <3>1
  <2>4. Len(SubSeq(l, 1, n)) = n
    BY <2>1, <2>2
  <2> QED
    BY Zenon, <2>2, <2>3, <2>4 DEF n
<1> QED
  BY <1>1, <1>2 DEF LruDropVictim, LruVictim, Front, Last

(* The iterator of a listed key. *)
LEMMA PositionIndex ==
  ASSUME NEW S, NEW l \in Seq(S), NEW k \in S, LruListed(l, k)
  PROVE  LruPosition(l, k) \in 1..Len(l) /\ l[LruPosition(l, k)] = k
BY DEF LruPosition, LruListed, Contains

(* get: the key moves to the front, the ones before it back by one, the ones
   behind it stay (my_lru.hpp:40-49). *)
LEMMA TouchIndex ==
  ASSUME NEW S, NEW l \in Seq(S), NEW k \in S,
         LruListed(l, k), IsInjective(l)
  PROVE  /\ LruTouch(l, k) \in Seq(S)
         /\ Len(LruTouch(l, k)) = Len(l)
         /\ \A i \in 1..Len(l) :
              LruTouch(l, k)[i] = IF i = 1 THEN k
                                  ELSE IF i <= LruPosition(l, k) THEN l[i - 1]
                                  ELSE l[i]
<1> DEFINE p == LruPosition(l, k)
           a == SubSeq(l, 1, p - 1)
           b == SubSeq(l, p + 1, Len(l))
<1>1. p \in 1..Len(l) /\ l[p] = k
  BY PositionIndex
<1>2. CASE Head(l) = k
  <2>1. l[1] = k /\ Len(l) \in Nat /\ DOMAIN l = 1..Len(l)
    BY <1>1, <1>2
  <2>2. p = 1
    BY <1>1, <2>1 DEF IsInjective
  <2>3. LruTouch(l, k) = l
    BY <1>2 DEF LruTouch
  <2> QED
    BY <2>1, <2>2, <2>3
<1>3. CASE Head(l) # k
  <2>1. /\ a \in Seq(S) /\ Len(a) = p - 1
        /\ \A i \in 1..(p - 1) : a[i] = l[i]
    BY <1>1
  <2>2. /\ b \in Seq(S) /\ Len(b) = Len(l) - p
        /\ \A i \in 1..(Len(l) - p) : b[i] = l[p + i]
    BY <1>1
  <2>3. LruTouch(l, k) = Cons(k, a \o b)
    BY <1>3 DEF LruTouch, RemoveAt
  <2>4. /\ a \o b \in Seq(S) /\ Len(a \o b) = Len(l) - 1
        /\ \A i \in 1..(Len(l) - 1) :
             (a \o b)[i] = IF i <= p - 1 THEN l[i] ELSE l[i + 1]
    <3> HIDE DEF a, b, p
    <3>1. /\ a \o b \in Seq(S)
          /\ Len(a \o b) = Len(a) + Len(b)
          /\ \A i \in 1..(Len(a) + Len(b)) :
               (a \o b)[i] = IF i <= Len(a) THEN a[i] ELSE b[i - Len(a)]
      BY <2>1, <2>2, ConcatProperties
    <3>2. Len(l) \in Nat /\ p \in 1..Len(l)
      BY <1>1
    <3>3. Len(a) + Len(b) = Len(l) - 1
      BY <2>1, <2>2, <3>2
    <3>4. ASSUME NEW i \in 1..(Len(l) - 1)
          PROVE  (a \o b)[i] = IF i <= p - 1 THEN l[i] ELSE l[i + 1]
      <4>1. (a \o b)[i] = IF i <= p - 1 THEN a[i] ELSE b[i - (p - 1)]
        BY Zenon, <2>1, <3>1, <3>3
      <4>2. CASE i <= p - 1
        <5>1. i \in 1..(p - 1)
          BY <3>2, <4>2
        <5> QED
          BY Zenon, <2>1, <4>1, <4>2, <5>1
      <4>3. CASE ~(i <= p - 1)
        <5>1. i - (p - 1) \in 1..(Len(l) - p) /\ p + (i - (p - 1)) = i + 1
          BY <3>2, <4>3
        <5>2. b[i - (p - 1)] = l[p + (i - (p - 1))]
          BY Zenon, <2>2, <5>1
        <5> QED
          BY Zenon, <4>1, <4>3, <5>1, <5>2
      <4> QED
        BY <4>2, <4>3
    <3> QED
      BY Zenon, <3>1, <3>3, <3>4
  <2> DEFINE ab == a \o b
  <2>4a. ab \in Seq(S) /\ Len(ab) = Len(l) - 1
    BY <2>4
  <2> HIDE DEF ab
  <2>4b. /\ LruPushFront(ab, k) \in Seq(S)
        /\ Len(LruPushFront(ab, k)) = Len(ab) + 1
        /\ \A i \in 1..(Len(ab) + 1) :
             LruPushFront(ab, k)[i] = IF i = 1 THEN k ELSE ab[i - 1]
    BY <2>4a, PushFrontIndex
  <2>4c. LruTouch(l, k) = LruPushFront(ab, k)
    BY <2>3 DEF LruPushFront, ab
  <2>4d. Len(l) \in Nat
    OBVIOUS
  <2>4e. Len(ab) + 1 = Len(l)
    BY <2>4a, <2>4d
  <2>4f. ab = a \o b
    BY DEF ab
  <2> HIDE DEF a, b, p
  <2>5. /\ LruTouch(l, k) \in Seq(S)
        /\ Len(LruTouch(l, k)) = Len(l)
        /\ \A i \in 1..Len(l) :
             LruTouch(l, k)[i] = IF i = 1 THEN k ELSE ab[i - 1]
    BY Zenon, <2>4b, <2>4c, <2>4e
  <2>6. p # 1
    BY <1>1, <1>3
  <2>7. ASSUME NEW i \in 1..Len(l)
        PROVE  LruTouch(l, k)[i] = IF i = 1 THEN k ELSE IF i <= p THEN l[i - 1] ELSE l[i]
    <3>1. CASE i = 1
      BY <2>5, <3>1
    <3>2. CASE i # 1
      <4>1. /\ i - 1 \in 1..(Len(l) - 1)
            /\ (i - 1) + 1 = i
            /\ i - 1 <= p - 1 <=> i <= p
        BY <1>1, <2>4d, <3>2
      <4>2. ab[i - 1] = IF i - 1 <= p - 1 THEN l[i - 1] ELSE l[(i - 1) + 1]
        BY <2>4, <2>4f, <4>1
      <4> QED
        BY <2>5, <3>2, <4>1, <4>2
    <3> QED
      BY <3>1, <3>2
  <2> QED
    BY <2>5, <2>7 DEF p
<1> QED
  BY <1>2, <1>3

(* get keeps the set of listed keys, and lists none twice. *)
LEMMA TouchKeeps ==
  ASSUME NEW S, NEW l \in Seq(S), NEW k \in S,
         LruListed(l, k), IsInjective(l)
  PROVE  /\ IsInjective(LruTouch(l, k))
         /\ \A j : (\E i \in DOMAIN LruTouch(l, k) : LruTouch(l, k)[i] = j)
                     <=> (\E i \in DOMAIN l : l[i] = j)
<1> DEFINE m == LruTouch(l, k)
           p == LruPosition(l, k)
           n == Len(l)
<1>1. p \in 1..n /\ l[p] = k /\ n \in Nat /\ DOMAIN l = 1..n
  BY PositionIndex
<1>2. /\ DOMAIN m = 1..n
      /\ \A i \in 1..n : m[i] = IF i = 1 THEN k ELSE IF i <= p THEN l[i - 1] ELSE l[i]
  BY TouchIndex
<1> HIDE DEF m, p, n
<1>3. IsInjective(m)
  BY <1>1, <1>2 DEF IsInjective
<1>4. ASSUME NEW i \in 1..n PROVE \E h \in 1..n : m[h] = l[i]
  <2>1. CASE i = p
    BY <1>1, <1>2, <2>1
  <2>2. CASE i < p
    <3>1. i + 1 \in 1..n /\ m[i + 1] = l[i]
      BY <1>1, <1>2, <2>2
    <3> QED BY <3>1
  <2>3. CASE i > p
    <3>1. m[i] = l[i]
      BY <1>1, <1>2, <2>3
    <3> QED BY <3>1
  <2> QED
    BY <1>1, <2>1, <2>2, <2>3
<1>5. ASSUME NEW i \in 1..n PROVE \E h \in 1..n : l[h] = m[i]
  BY <1>1, <1>2
<1>6. \A j : (\E i \in DOMAIN m : m[i] = j) <=> (\E i \in DOMAIN l : l[i] = j)
  <2> TAKE j
  <2>1. ASSUME NEW i \in DOMAIN m, m[i] = j PROVE \E h \in DOMAIN l : l[h] = j
    BY <1>1, <1>2, <1>5, <2>1
  <2>2. ASSUME NEW i \in DOMAIN l, l[i] = j PROVE \E h \in DOMAIN m : m[h] = j
    BY <1>1, <1>2, <1>4, <2>2
  <2> QED
    BY <2>1, <2>2
<1> QED
  BY <1>3, <1>6 DEF m

(* push_front of a key that is not listed adds it and lists none twice. *)
LEMMA PushFrontKeeps ==
  ASSUME NEW S, NEW l \in Seq(S), NEW k \in S,
         ~ \E i \in DOMAIN l : l[i] = k, IsInjective(l)
  PROVE  /\ IsInjective(LruPushFront(l, k))
         /\ \A j : (\E i \in DOMAIN LruPushFront(l, k) : LruPushFront(l, k)[i] = j)
                     <=> j = k \/ (\E i \in DOMAIN l : l[i] = j)
<1> DEFINE m == LruPushFront(l, k)
           n == Len(l)
<1>1. n \in Nat /\ DOMAIN l = 1..n
  OBVIOUS
<1>2. DOMAIN m = 1..(n + 1) /\ \A i \in 1..(n + 1) : m[i] = IF i = 1 THEN k ELSE l[i - 1]
  BY PushFrontIndex
<1> HIDE DEF m, n
<1>3. IsInjective(m)
  BY <1>1, <1>2 DEF IsInjective
<1>4. ASSUME NEW i \in 1..n PROVE i + 1 \in 1..(n + 1) /\ m[i + 1] = l[i]
  BY <1>1, <1>2
<1>5. ASSUME NEW i \in 1..(n + 1), i # 1 PROVE i - 1 \in 1..n /\ m[i] = l[i - 1]
  BY <1>1, <1>2, <1>5
<1>6. 1 \in DOMAIN m /\ m[1] = k
  BY <1>1, <1>2
<1>7. \A j : (\E i \in DOMAIN m : m[i] = j) <=> j = k \/ (\E i \in DOMAIN l : l[i] = j)
  <2> TAKE j
  <2>1. ASSUME NEW i \in DOMAIN m, m[i] = j PROVE j = k \/ \E h \in DOMAIN l : l[h] = j
    BY <1>1, <1>2, <1>5, <2>1
  <2>2. ASSUME NEW i \in DOMAIN l, l[i] = j PROVE \E h \in DOMAIN m : m[h] = j
    BY <1>1, <1>2, <1>4, <2>2
  <2> QED
    BY <1>6, <2>1, <2>2
<1> QED
  BY <1>3, <1>7 DEF m

(* evict removes its victim from the list, and only that key. *)
LEMMA DropVictimKeeps ==
  ASSUME NEW S, NEW l \in Seq(S), l # <<>>, IsInjective(l)
  PROVE  /\ IsInjective(LruDropVictim(l))
         /\ \E i \in DOMAIN l : l[i] = LruVictim(l)
         /\ \A j : (\E i \in DOMAIN LruDropVictim(l) : LruDropVictim(l)[i] = j)
                     <=> j # LruVictim(l) /\ (\E i \in DOMAIN l : l[i] = j)
<1> DEFINE m == LruDropVictim(l)
           n == Len(l)
<1>1. n \in Nat \ {0} /\ DOMAIN l = 1..n /\ LruVictim(l) = l[n]
  <2>1. DOMAIN l = 1..Len(l)
    OBVIOUS
  <2> QED
    BY <2>1, DropVictimIndex
<1>2. DOMAIN m = 1..(n - 1) /\ \A i \in 1..(n - 1) : m[i] = l[i]
  BY <1>1, DropVictimIndex
<1> HIDE DEF m, n
<1>3. IsInjective(m)
  BY <1>1, <1>2 DEF IsInjective
<1>4. n \in DOMAIN l /\ l[n] = LruVictim(l)
  BY <1>1
<1>5. ASSUME NEW i \in 1..n, l[i] # l[n] PROVE i \in 1..(n - 1)
  BY <1>1, <1>5
<1>6. ASSUME NEW i \in 1..(n - 1) PROVE i \in 1..n /\ l[i] # l[n]
  BY <1>1 DEF IsInjective
<1>7. \A j : (\E i \in DOMAIN m : m[i] = j)
               <=> j # LruVictim(l) /\ (\E i \in DOMAIN l : l[i] = j)
  BY <1>1, <1>2, <1>5, <1>6
<1> QED
  BY <1>3, <1>4, <1>7 DEF m

(* The same three facts with the set of the listed keys.                   *)

(* insert adds its key (my_lru.hpp:22-29). *)
LEMMA PushFrontRange ==
  ASSUME NEW S, NEW l \in Seq(S), NEW k \in S, k \notin Range(l), IsInjective(l)
  PROVE  IsInjective(LruPushFront(l, k)) /\ Range(LruPushFront(l, k)) = Range(l) \cup {k}
<1>1. ~ \E i \in DOMAIN l : l[i] = k
  BY DEF Range
<1>2. /\ IsInjective(LruPushFront(l, k))
      /\ \A j : (\E i \in DOMAIN LruPushFront(l, k) : LruPushFront(l, k)[i] = j)
                  <=> j = k \/ (\E i \in DOMAIN l : l[i] = j)
  BY <1>1, PushFrontKeeps
<1> QED
  BY <1>2 DEF Range

(* get changes nothing about what is listed (my_lru.hpp:40-49). *)
LEMMA TouchRange ==
  ASSUME NEW S, NEW l \in Seq(S), NEW k \in S, LruListed(l, k), IsInjective(l)
  PROVE  IsInjective(LruTouch(l, k)) /\ Range(LruTouch(l, k)) = Range(l)
<1>1. /\ IsInjective(LruTouch(l, k))
      /\ \A j : (\E i \in DOMAIN LruTouch(l, k) : LruTouch(l, k)[i] = j)
                  <=> (\E i \in DOMAIN l : l[i] = j)
  BY TouchKeeps
<1> QED
  BY <1>1 DEF Range

(* evict removes its victim (my_lru.hpp:65). *)
LEMMA DropVictimRange ==
  ASSUME NEW S, NEW l \in Seq(S), l # <<>>, IsInjective(l)
  PROVE  /\ IsInjective(LruDropVictim(l)) /\ LruVictim(l) \in Range(l)
         /\ Range(LruDropVictim(l)) = Range(l) \ {LruVictim(l)}
<1>1. /\ IsInjective(LruDropVictim(l))
      /\ \E i \in DOMAIN l : l[i] = LruVictim(l)
      /\ \A j : (\E i \in DOMAIN LruDropVictim(l) : LruDropVictim(l)[i] = j)
                  <=> j # LruVictim(l) /\ (\E i \in DOMAIN l : l[i] = j)
  BY DropVictimKeeps
<1> QED
  BY <1>1 DEF Range
=============================================================================
