-------------------------------- MODULE Sums --------------------------------
(***************************************************************************)
(* Sums over finite sets: what MapThenSumSet returns.  Induction is over   *)
(* the subsets of a finite set, which are well-founded: a set of them that *)
(* is not empty has a smallest one.                                        *)
(***************************************************************************)
EXTENDS Integers, FiniteSetsExt, FiniteSetTheorems, TLAPS

\* Among subsets of a finite set there is one that contains no other.
LEMMA SmallestSubset ==
  ASSUME NEW S, IsFiniteSet(S), NEW T, T \subseteq SUBSET S, T # {}
  PROVE  \E s \in T : \A t \in T : t \subseteq s => t = s
<1>1. IsWellFoundedOn(StrictSubsetOrdering(S), SUBSET S)
  BY FS_FiniteSubsetsOfFinite, FS_StrictSubsetOrderingWellFounded
<1>2. PICK s \in T : \A t \in T : ~(<<t, s>> \in StrictSubsetOrdering(S))
  BY <1>1, WFMin
<1>3. ASSUME NEW t \in T, t \subseteq s PROVE t = s
  <2>1. <<t, s>> \in (SUBSET S) \X (SUBSET S)
    BY <1>3
  <2> QED
    BY <1>2, <1>3, <2>1 DEF StrictSubsetOrdering
<1> QED
  BY <1>3

\* Induction on the subsets of a finite set.
LEMMA AllSubsets ==
  ASSUME NEW S, IsFiniteSet(S), NEW N, {} \in N,
         \A s \in SUBSET S : \A k \in S \ s : s \in N => s \cup {k} \in N
  PROVE  S \in N
<1> SUFFICES ASSUME S \notin N PROVE FALSE
  OBVIOUS
<1> DEFINE T == {s \in SUBSET S : s \notin N}
<1>1. PICK s \in T : \A t \in T : t \subseteq s => t = s
  <2>1. T \subseteq SUBSET S /\ T # {}
    OBVIOUS
  <2> HIDE DEF T
  <2> QED
    BY <2>1, SmallestSubset
<1>2. PICK k \in s : TRUE
  OBVIOUS
<1>3. s \ {k} \in SUBSET S /\ k \in S \ (s \ {k}) /\ (s \ {k}) \cup {k} = s
  BY <1>2
<1>4. s \ {k} \notin N
  BY <1>3
<1>5. s \ {k} \in T
  BY <1>3, <1>4
<1> QED
  BY <1>1, <1>2, <1>5

\* Induction on the numbers.
LEMMA AllNumbers ==
  ASSUME NEW N, 0 \in N, \A n \in Nat : n \in N => n + 1 \in N
  PROVE  Nat \subseteq N
<1> SUFFICES ASSUME NEW n \in Nat, n \notin N PROVE FALSE
  OBVIOUS
<1> DEFINE T == {1 .. k : k \in (0 .. n) \ N}
<1>1. IsFiniteSet(1 .. n)
  BY FS_Interval
<1>2. T \subseteq SUBSET (1 .. n) /\ 1 .. n \in T
  OBVIOUS
<1>3. PICK s \in T : \A t \in T : t \subseteq s => t = s
  <2> DEFINE I == 1 .. n
  <2>1. IsFiniteSet(I) /\ T \subseteq SUBSET I /\ T # {}
    BY <1>1, <1>2
  <2> HIDE DEF T, I
  <2> QED
    BY <2>1, SmallestSubset
<1>4. PICK k \in (0 .. n) \ N : s = 1 .. k
  OBVIOUS
<1>5. k # 0 /\ k - 1 \in 0 .. n /\ k - 1 \notin N
  <2>1. k # 0 /\ k - 1 \in Nat
    BY <1>4
  <2> QED
    BY <1>4, <2>1
<1>6. 1 .. (k - 1) \in T
  BY <1>5
<1>7. 1 .. (k - 1) \subseteq s /\ k \in s /\ k \notin 1 .. (k - 1)
  BY <1>4, <1>5
<1> QED
  BY <1>3, <1>6, <1>7

-----------------------------------------------------------------------------
(* The function that MapThenSumSet computes.                                *)

\* The order in which MapThenSumSet takes the elements out of a set.
Some(s) == CHOOSE x \in s : TRUE
Rest(s) == s \ {Some(s)}

\* f is the function that MapThenSumSet computes on the sets of D: the sums of g.
Adds(f, g, D) == f = [s \in D |-> IF s = {} THEN 0 ELSE g[Some(s)] + f[Rest(s)]]

\* The sum of the values of g over S.
SumOver(g, S) == MapThenSumSet(LAMBDA k : g[k], S)

LEMMA SumOverDef ==
  ASSUME NEW g, NEW S
  PROVE  SumOver(g, S) = (CHOOSE f : Adds(f, g, SUBSET S))[S]
BY DEF SumOver, MapThenSumSet, MapThenFoldSet, Adds, Some, Rest

LEMMA SomeRest ==
  ASSUME NEW s, s # {}
  PROVE  Some(s) \in s /\ Rest(s) \subseteq s /\ Rest(s) # s
BY DEF Some, Rest

\* There is one such function on the subsets of a finite set, built by their size.
LEMMA AddsExists ==
  ASSUME NEW S, IsFiniteSet(S), NEW g
  PROVE  \E f : Adds(f, g, SUBSET S)
<1> DEFINE Small(n) == {s \in SUBSET S : Cardinality(s) <= n}
           N == {n \in Nat : \E f : Adds(f, g, Small(n))}
<1>1. \A s \in SUBSET S : IsFiniteSet(s) /\ Cardinality(s) \in Nat /\ Cardinality(s) <= Cardinality(S)
  BY FS_Subset, FS_CardinalityType
<1>2. \A s \in SUBSET S : s # {} =>
        /\ Rest(s) \in SUBSET S
        /\ Cardinality(Rest(s)) = Cardinality(s) - 1
  BY <1>1, SomeRest, FS_RemoveElement DEF Rest
<1>3. 0 \in N
  <2>1. Small(0) = {{}}
    BY <1>1, FS_EmptySet
  <2>2. Adds([s \in {{}} |-> 0], g, {{}})
    BY DEF Adds
  <2> QED
    BY <2>1, <2>2
<1>4. ASSUME NEW n \in Nat, n \in N PROVE n + 1 \in N
  <2> PICK f : Adds(f, g, Small(n))
    BY <1>4
  <2> DEFINE h == [s \in Small(n + 1) |-> IF s = {} THEN 0 ELSE g[Some(s)] + f[Rest(s)]]
  <2>1. \A s \in Small(n) : s \in Small(n + 1) /\ h[s] = f[s]
    <3>1. \A s \in Small(n) : s \in Small(n + 1)
      BY <1>1
    <3>2. \A s \in Small(n) : f[s] = IF s = {} THEN 0 ELSE g[Some(s)] + f[Rest(s)]
      BY DEF Adds
    <3> QED
      BY <3>1, <3>2
  <2>2. \A s \in Small(n + 1) : s # {} => Rest(s) \in Small(n)
    BY <1>1, <1>2
  <2>3. Adds(h, g, Small(n + 1))
    <3>1. \A s \in Small(n + 1) : s # {} => h[Rest(s)] = f[Rest(s)]
      BY <2>1, <2>2
    <3> HIDE DEF Small
    <3> QED
      BY <3>1 DEF Adds
  <2> HIDE DEF h, Small
  <2> QED
    BY <2>3
<1>5. Cardinality(S) \in N
  <2>1. Cardinality(S) \in Nat
    BY <1>1
  <2> HIDE DEF N
  <2> QED
    BY <1>3, <1>4, <2>1, AllNumbers
<1>6. Small(Cardinality(S)) = SUBSET S
  BY <1>1
<1> QED
  BY <1>5, <1>6

\* f has the sum of g over each subset of S, in whatever order it is taken.
Totals(f, g, S) ==
  /\ f[{}] = 0
  /\ \A s \in SUBSET S : f[s] \in Int
  /\ \A s \in SUBSET S : \A k \in s : f[s] = g[k] + f[s \ {k}]

\* The order does not matter: any element may be taken out first.
LEMMA AddsOnce ==
  ASSUME NEW S, IsFiniteSet(S), NEW g \in [S -> Int], NEW f, Adds(f, g, SUBSET S)
  PROVE  Totals(f, g, S)
<1>1. f[{}] = 0
  BY DEF Adds
<1>2. \A s \in SUBSET S : s # {} => f[s] = g[Some(s)] + f[Rest(s)]
  BY DEF Adds
<1>3. ASSUME NEW s \in SUBSET S, f[s] \notin Int PROVE FALSE
  <2> DEFINE T == {t \in SUBSET S : f[t] \notin Int}
  <2>1. PICK t \in T : \A u \in T : u \subseteq t => u = t
    <3>1. T \subseteq SUBSET S /\ T # {}
      BY <1>3
    <3> HIDE DEF T
    <3> QED
      BY <3>1, SmallestSubset
  <2>2. t # {}
    <3>1. t \in SUBSET S /\ ~(f[t] \in Int)
      OBVIOUS
    <3>2. f[{}] \in Int
      BY <1>1
    <3> QED
      BY <3>1, <3>2
  <2>3. Some(t) \in S /\ Rest(t) \in SUBSET S /\ f[Rest(t)] \in Int
    BY <2>1, <2>2, SomeRest
  <2> QED
    BY <1>2, <2>1, <2>2, <2>3
<1>4. ASSUME NEW s \in SUBSET S, NEW k \in s, f[s] # g[k] + f[s \ {k}] PROVE FALSE
  <2> DEFINE T == {t \in SUBSET S : \E j \in t : f[t] # g[j] + f[t \ {j}]}
  <2>1. PICK t \in T : \A u \in T : u \subseteq t => u = t
    <3>1. T \subseteq SUBSET S /\ T # {}
      BY <1>4
    <3> HIDE DEF T
    <3> QED
      BY <3>1, SmallestSubset
  <2>2. PICK j \in t : f[t] # g[j] + f[t \ {j}]
    BY <2>1
  <2> DEFINE i == Some(t)
  <2>3. t # {} /\ i \in t /\ Rest(t) = t \ {i} /\ t \in SUBSET S /\ f[t] = g[i] + f[t \ {i}]
    BY <1>2, <2>2, SomeRest DEF Rest
  <2>4. i # j
    BY <2>2, <2>3
  <2> HIDE DEF i
  <2>5. ASSUME NEW u \in SUBSET S, u \subseteq t, u # t, NEW m \in u
        PROVE  f[u] = g[m] + f[u \ {m}]
    BY <2>1, <2>5
  <2>6. f[t \ {i}] = g[j] + f[(t \ {i}) \ {j}]
    BY <2>2, <2>3, <2>4, <2>5
  <2>7. f[t \ {j}] = g[i] + f[(t \ {j}) \ {i}]
    BY <2>2, <2>3, <2>4, <2>5
  <2>8. (t \ {j}) \ {i} = (t \ {i}) \ {j}
    OBVIOUS
  <2>9. g[i] \in Int /\ g[j] \in Int /\ f[(t \ {i}) \ {j}] \in Int
    BY <1>3, <2>2, <2>3
  <2> QED
    <3> DEFINE a == f[(t \ {i}) \ {j}]
    <3>1. f[t] = g[i] + (g[j] + a) /\ f[t \ {j}] = g[i] + a /\ a \in Int
      BY <2>3, <2>6, <2>7, <2>8, <2>9
    <3> HIDE DEF a
    <3> QED
      BY <2>2, <2>9, <3>1
<1> QED
  BY <1>1, <1>3, <1>4 DEF Totals

\* Two functions that add up the same numbers agree.
LEMMA AddsAlike ==
  ASSUME NEW D, NEW E, NEW S, IsFiniteSet(S), S \subseteq D, S \subseteq E,
         NEW f, NEW g, Adds(f, g, SUBSET D),
         NEW h, NEW e, Adds(h, e, SUBSET E),
         \A k \in S : g[k] = e[k]
  PROVE  f[S] = h[S]
<1> SUFFICES ASSUME f[S] # h[S] PROVE FALSE
  OBVIOUS
<1> DEFINE T == {t \in SUBSET S : f[t] # h[t]}
<1>1. PICK t \in T : \A u \in T : u \subseteq t => u = t
  <2>1. T \subseteq SUBSET S /\ T # {}
    OBVIOUS
  <2> HIDE DEF T
  <2> QED
    BY <2>1, SmallestSubset
<1>2. /\ f[t] = IF t = {} THEN 0 ELSE g[Some(t)] + f[Rest(t)]
      /\ h[t] = IF t = {} THEN 0 ELSE e[Some(t)] + h[Rest(t)]
  <2>1. t \in SUBSET D /\ t \in SUBSET E
    OBVIOUS
  <2> QED
    BY <2>1 DEF Adds
<1>3. t # {}
  BY <1>2
<1>4. Some(t) \in S /\ Rest(t) \notin T /\ Rest(t) \in SUBSET S
  BY <1>1, <1>3, SomeRest
<1>5. f[Rest(t)] = h[Rest(t)] /\ g[Some(t)] = e[Some(t)]
  BY <1>4
<1> QED
  BY <1>2, <1>3, <1>5

\* A sum over a finite set is a value of it.
LEMMA SumOverAdds ==
  ASSUME NEW S, IsFiniteSet(S), NEW g
  PROVE  \E f : Adds(f, g, SUBSET S) /\ SumOver(g, S) = f[S]
BY AddsExists, SumOverDef

\* The function that adds up numbers has their sum.
LEMMA AddsSum ==
  ASSUME NEW S, IsFiniteSet(S), NEW g, NEW f, Adds(f, g, SUBSET S)
  PROVE  f[S] = SumOver(g, S)
<1>1. PICK h : Adds(h, g, SUBSET S) /\ SumOver(g, S) = h[S]
  BY SumOverAdds
<1> QED
  BY <1>1, AddsAlike

-----------------------------------------------------------------------------
(* Sums.                                                                    *)

\* An element may be taken out of a sum.
LEMMA SumOverRemoved ==
  ASSUME NEW S, IsFiniteSet(S), NEW g, \A i \in S : g[i] \in Int, NEW k \in S
  PROVE  /\ SumOver(g, S) \in Int
         /\ SumOver(g, S) = g[k] + SumOver(g, S \ {k})
<1> DEFINE e == [i \in S |-> g[i]]
           R == S \ {k}
<1>0. IsFiniteSet(R)
  BY FS_RemoveElement
<1>1. PICK f : Adds(f, g, SUBSET S) /\ SumOver(g, S) = f[S]
  BY SumOverAdds
<1>2. PICK h : Adds(h, g, SUBSET R) /\ SumOver(g, R) = h[R]
  BY <1>0, SumOverAdds
<1>3. PICK d : Adds(d, e, SUBSET S)
  BY AddsExists
<1>4. f[S] = d[S]
  BY <1>1, <1>3, AddsAlike
<1>5. h[R] = d[R]
  <2>1. \A i \in R : g[i] = e[i]
    OBVIOUS
  <2>2. R \subseteq S /\ R \subseteq R
    OBVIOUS
  <2> HIDE DEF R, e
  <2> QED
    BY <1>0, <1>2, <1>3, <2>1, <2>2, AddsAlike
<1>6. e \in [S -> Int] /\ e[k] = g[k]
  OBVIOUS
<1>7. Totals(d, e, S)
  <2> HIDE DEF e
  <2> QED
    BY <1>3, <1>6, AddsOnce
<1> HIDE DEF e
<1>8. d[S] \in Int /\ d[S] = e[k] + d[S \ {k}]
  BY <1>7 DEF Totals
<1> QED
  BY <1>1, <1>2, <1>4, <1>5, <1>6, <1>8

\* The sum over nothing.
LEMMA SumOverNone ==
  ASSUME NEW g
  PROVE  SumOver(g, {}) = 0
<1>1. PICK f : Adds(f, g, SUBSET {}) /\ SumOver(g, {}) = f[{}]
  BY FS_EmptySet, SumOverAdds
<1> QED
  BY <1>1 DEF Adds

\* An element may be put into a sum.
LEMMA SumOverAdded ==
  ASSUME NEW S, IsFiniteSet(S), NEW k, k \notin S, NEW g, \A i \in S \cup {k} : g[i] \in Int
  PROVE  /\ SumOver(g, S) \in Int
         /\ SumOver(g, S \cup {k}) = g[k] + SumOver(g, S)
<1>1. IsFiniteSet(S \cup {k}) /\ (S \cup {k}) \ {k} = S
  BY FS_AddElement
<1>2. SumOver(g, S \cup {k}) = g[k] + SumOver(g, S)
  BY <1>1, SumOverRemoved
<1>3. CASE S = {}
  BY <1>2, <1>3, SumOverNone
<1>4. CASE S # {}
  BY <1>2, <1>4, SumOverRemoved
<1> QED
  BY <1>2, <1>3, <1>4

\* Only the values on the set matter.
LEMMA SumOverAlike ==
  ASSUME NEW S, IsFiniteSet(S), NEW g, NEW e, \A k \in S : g[k] = e[k]
  PROVE  SumOver(g, S) = SumOver(e, S)
<1>1. PICK f : Adds(f, g, SUBSET S) /\ SumOver(g, S) = f[S]
  BY SumOverAdds
<1>2. PICK h : Adds(h, e, SUBSET S) /\ SumOver(e, S) = h[S]
  BY SumOverAdds
<1> QED
  BY <1>1, <1>2, AddsAlike

\* A sum of numbers is a number.
LEMMA SumOverNat ==
  ASSUME NEW S, IsFiniteSet(S), NEW g, \A k \in S : g[k] \in Nat
  PROVE  SumOver(g, S) \in Nat
<1> DEFINE N == {s \in SUBSET S : SumOver(g, s) \in Nat}
<1>1. {} \in N
  BY SumOverNone
<1>2. ASSUME NEW s \in SUBSET S, NEW k \in S \ s, s \in N PROVE s \cup {k} \in N
  <2>1. IsFiniteSet(s) /\ \A i \in s \cup {k} : g[i] \in Int
    BY FS_Subset
  <2>2. SumOver(g, s \cup {k}) = g[k] + SumOver(g, s)
    BY <2>1, SumOverAdded
  <2> QED
    BY <1>2, <2>2
<1>3. S \in N
  <2> HIDE DEF N
  <2> QED
    BY <1>1, <1>2, AllSubsets
<1> QED
  BY <1>3

\* A sum is monotonic.
LEMMA SumOverMonotone ==
  ASSUME NEW S, IsFiniteSet(S), NEW g, NEW e,
         \A k \in S : g[k] \in Int /\ e[k] \in Int /\ g[k] <= e[k]
  PROVE  SumOver(g, S) <= SumOver(e, S)
<1> DEFINE N == {s \in SUBSET S : /\ SumOver(g, s) \in Int /\ SumOver(e, s) \in Int
                                  /\ SumOver(g, s) <= SumOver(e, s)}
<1>1. {} \in N
  BY SumOverNone
<1>2. ASSUME NEW s \in SUBSET S, NEW k \in S \ s, s \in N PROVE s \cup {k} \in N
  <2>1. /\ IsFiniteSet(s)
        /\ \A i \in s \cup {k} : g[i] \in Int
        /\ \A i \in s \cup {k} : e[i] \in Int
    BY FS_Subset
  <2>2. /\ SumOver(g, s \cup {k}) = g[k] + SumOver(g, s)
        /\ SumOver(e, s \cup {k}) = e[k] + SumOver(e, s)
    BY <2>1, SumOverAdded
  <2>3. g[k] \in Int /\ e[k] \in Int /\ g[k] <= e[k]
    OBVIOUS
  <2> QED
    BY <1>2, <2>2, <2>3
<1>3. S \in N
  <2> HIDE DEF N
  <2> QED
    BY <1>1, <1>2, AllSubsets
<1> QED
  BY <1>3

\* The sum of sums.
LEMMA SumOverPlus ==
  ASSUME NEW S, IsFiniteSet(S), NEW g, NEW e, NEW h,
         \A k \in S : g[k] \in Int /\ e[k] \in Int /\ h[k] = g[k] + e[k]
  PROVE  SumOver(h, S) = SumOver(g, S) + SumOver(e, S)
<1> DEFINE N == {s \in SUBSET S : /\ SumOver(g, s) \in Int /\ SumOver(e, s) \in Int
                                  /\ SumOver(h, s) = SumOver(g, s) + SumOver(e, s)}
<1>1. {} \in N
  BY SumOverNone
<1>2. ASSUME NEW s \in SUBSET S, NEW k \in S \ s, s \in N PROVE s \cup {k} \in N
  <2>1. /\ IsFiniteSet(s)
        /\ \A i \in s \cup {k} : g[i] \in Int
        /\ \A i \in s \cup {k} : e[i] \in Int
        /\ \A i \in s \cup {k} : h[i] \in Int
    BY FS_Subset
  <2>2. /\ SumOver(g, s \cup {k}) = g[k] + SumOver(g, s)
        /\ SumOver(e, s \cup {k}) = e[k] + SumOver(e, s)
        /\ SumOver(h, s \cup {k}) = h[k] + SumOver(h, s)
    BY <2>1, SumOverAdded
  <2>3. g[k] \in Int /\ e[k] \in Int /\ h[k] = g[k] + e[k]
    OBVIOUS
  <2> QED
    BY <1>2, <2>2, <2>3
<1>3. S \in N
  <2> HIDE DEF N
  <2> QED
    BY <1>1, <1>2, AllSubsets
<1> QED
  BY <1>3

\* What is left out counts for nothing.
LEMMA SumOverWhere ==
  ASSUME NEW S, IsFiniteSet(S), NEW V \in SUBSET S, NEW g, \A k \in V : g[k] \in Int, NEW h,
         \A k \in V : h[k] = g[k], \A k \in S \ V : h[k] = 0
  PROVE  SumOver(h, S) = SumOver(g, V)
<1> DEFINE N == {s \in SUBSET S : SumOver(h, s) = SumOver(g, s \cap V)}
<1>1. {} \in N
  <2>1. {} \cap V = {}
    OBVIOUS
  <2> QED
    BY <2>1, SumOverNone
<1>2. ASSUME NEW s \in SUBSET S, NEW k \in S \ s, s \in N PROVE s \cup {k} \in N
  <2>1. IsFiniteSet(s) /\ IsFiniteSet(s \cap V)
    <3>1. s \cap V \in SUBSET S
      OBVIOUS
    <3> QED
      BY <3>1, FS_Subset
  <2>2. \A i \in s \cup {k} : h[i] \in Int
    OBVIOUS
  <2>3. SumOver(h, s) \in Int /\ SumOver(h, s \cup {k}) = h[k] + SumOver(h, s)
    BY <2>1, <2>2, SumOverAdded
  <2>4. CASE k \in V
    <3>1. (s \cup {k}) \cap V = (s \cap V) \cup {k} /\ k \notin s \cap V
      BY <2>4
    <3>2. \A i \in (s \cap V) \cup {k} : g[i] \in Int
      BY <2>4
    <3>3. SumOver(g, (s \cap V) \cup {k}) = g[k] + SumOver(g, s \cap V)
      BY <2>1, <3>1, <3>2, SumOverAdded
    <3>4. SumOver(h, s) = SumOver(g, s \cap V) /\ h[k] = g[k] /\ s \cup {k} \in SUBSET S
      BY <1>2, <2>4
    <3> QED
      BY <2>3, <3>1, <3>3, <3>4
  <2>5. CASE k \notin V
    <3>1. (s \cup {k}) \cap V = s \cap V
      BY <2>5
    <3>2. h[k] = 0
      BY <2>5
    <3>3. SumOver(h, s) = SumOver(g, s \cap V) /\ s \cup {k} \in SUBSET S
      BY <1>2
    <3>4. SumOver(h, s \cup {k}) = SumOver(h, s)
      BY <2>3, <3>2
    <3> QED
      BY <3>1, <3>3, <3>4
  <2> QED
    BY <2>4, <2>5
<1>3. S \in N
  <2> HIDE DEF N
  <2> QED
    BY <1>1, <1>2, AllSubsets
<1>4. S \cap V = V
  OBVIOUS
<1> QED
  BY <1>3, <1>4

\* A part of a sum of numbers is no more than the whole.
LEMMA SumOverPart ==
  ASSUME NEW S, IsFiniteSet(S), NEW V \in SUBSET S, NEW g, \A k \in S : g[k] \in Nat
  PROVE  SumOver(g, V) <= SumOver(g, S)
<1> DEFINE h == [k \in S |-> IF k \in V THEN g[k] ELSE 0]
<1>1. SumOver(h, S) = SumOver(g, V)
  <2>1. /\ \A k \in V : g[k] \in Int /\ h[k] = g[k]
        /\ \A k \in S \ V : h[k] = 0
    OBVIOUS
  <2> HIDE DEF h
  <2> QED
    BY <2>1, SumOverWhere
<1>2. SumOver(h, S) <= SumOver(g, S)
  <2>1. \A k \in S : h[k] \in Int /\ g[k] \in Int /\ h[k] <= g[k]
    OBVIOUS
  <2> HIDE DEF h
  <2> QED
    BY <2>1, SumOverMonotone
<1> QED
  BY <1>1, <1>2

\* A sum in which one value changes.
LEMMA SumOverChanged ==
  ASSUME NEW S, IsFiniteSet(S), NEW g, NEW h, NEW k \in S,
         \A i \in S : g[i] \in Int /\ h[i] \in Int, \A i \in S \ {k} : h[i] = g[i]
  PROVE  SumOver(h, S) = SumOver(g, S) - g[k] + h[k]
<1> DEFINE R == S \ {k}
<1>1. SumOver(g, S) = g[k] + SumOver(g, R) /\ SumOver(h, S) = h[k] + SumOver(h, R)
  BY SumOverRemoved
<1>2. IsFiniteSet(R) /\ SumOver(h, R) = SumOver(g, R)
  BY FS_RemoveElement, SumOverAlike
<1>3. SumOver(g, R) \in Int
  <2>1. CASE R = {}
    BY <2>1, SumOverNone
  <2>2. CASE R # {}
    <3> PICK j \in R : TRUE
      BY <2>2
    <3>1. \A i \in R : g[i] \in Int
      OBVIOUS
    <3> HIDE DEF R
    <3> QED
      BY <1>2, <3>1, SumOverRemoved
  <2> QED
    BY <2>1, <2>2
<1>4. g[k] \in Int /\ h[k] \in Int
  OBVIOUS
<1> HIDE DEF R
<1> QED
  BY <1>1, <1>2, <1>3, <1>4

\* A table of numbers adds up to no more than what bounds its rows: rows are added to
\* the columns one by one.
LEMMA SumOverTable ==
  ASSUME NEW S, IsFiniteSet(S), NEW R, IsFiniteSet(R), NEW w \in [R -> [S -> Nat]],
         NEW b, \A r \in R : b[r] \in Nat /\ SumOver(w[r], S) <= b[r],
         NEW c, \A s \in S : c[s] = SumOver([r \in R |-> w[r][s]], R)
  PROVE  SumOver(c, S) <= SumOver(b, R)
<1> DEFINE column(s) == [r \in R |-> w[r][s]]
           part(T) == [s \in S |-> SumOver(column(s), T)]
           N == {T \in SUBSET R : SumOver(part(T), S) <= SumOver(b, T)}
<1>0. \A T \in SUBSET R : /\ IsFiniteSet(T) /\ SumOver(b, T) \in Nat
                          /\ part(T) \in [S -> Nat] /\ SumOver(part(T), S) \in Nat
  <2> SUFFICES ASSUME NEW T \in SUBSET R
               PROVE  /\ IsFiniteSet(T) /\ SumOver(b, T) \in Nat
                      /\ part(T) \in [S -> Nat] /\ SumOver(part(T), S) \in Nat
    OBVIOUS
  <2>1. IsFiniteSet(T)
    BY FS_Subset
  <2>2. SumOver(b, T) \in Nat
    BY <2>1, SumOverNat
  <2>3. ASSUME NEW s \in S PROVE SumOver(column(s), T) \in Nat
    <3>1. \A r \in T : column(s)[r] \in Nat
      OBVIOUS
    <3> HIDE DEF column
    <3> QED
      BY <2>1, <3>1, SumOverNat
  <2>4. part(T) \in [S -> Nat]
    BY <2>3
  <2>5. SumOver(part(T), S) \in Nat
    <3>1. \A s \in S : part(T)[s] \in Nat
      BY <2>4
    <3> HIDE DEF part
    <3> QED
      BY <3>1, SumOverNat
  <2> QED
    BY <2>1, <2>2, <2>4, <2>5
<1>1. {} \in N
  <2>1. \A s \in S : part({})[s] = 0
    BY SumOverNone
  <2>2. SumOver(part({}), S) = SumOver(b, {})
    <3> DEFINE p == part({})
    <3>1. (\A k \in S : p[k] = 0) /\ {} \in SUBSET S
      BY <2>1
    <3>2. SumOver(p, S) = SumOver(b, {})
      <4> HIDE DEF p
      <4>1. SumOver(p, S) = SumOver(p, {})
        BY <3>1, SumOverWhere
      <4> QED
        BY <4>1, SumOverNone
    <3> QED
      BY <3>2
  <2>3. SumOver(b, {}) <= SumOver(b, {}) /\ {} \in SUBSET R
    BY SumOverNone
  <2> HIDE DEF part
  <2> QED
    BY <2>2, <2>3
<1>2. ASSUME NEW T \in SUBSET R, NEW k \in R \ T, T \in N PROVE T \cup {k} \in N
  <2> DEFINE U == T \cup {k}
  <2>1. U \in SUBSET R
    OBVIOUS
  <2>2. SumOver(b, U) = b[k] + SumOver(b, T)
    <3>1. \A i \in U : b[i] \in Int
      OBVIOUS
    <3> QED
      BY <1>0, <3>1, SumOverAdded
  <2>3. \A s \in S : part(U)[s] = w[k][s] + part(T)[s]
    <3> SUFFICES ASSUME NEW s \in S PROVE SumOver(column(s), U) = w[k][s] + SumOver(column(s), T)
      OBVIOUS
    <3> DEFINE g == column(s)
    <3>1. (\A i \in T \cup {k} : g[i] \in Int) /\ g[k] = w[k][s] /\ k \notin T
      OBVIOUS
    <3>2. IsFiniteSet(T)
      BY FS_Subset
    <3>3. SumOver(g, T \cup {k}) = g[k] + SumOver(g, T)
      <4> HIDE DEF g
      <4> QED
        BY <3>1, <3>2, SumOverAdded
    <3> QED
      BY <3>1, <3>3
  <2>4. SumOver(part(U), S) = SumOver(w[k], S) + SumOver(part(T), S)
    <3> DEFINE h == part(U)
               e == part(T)
    <3>1. \A s \in S : w[k][s] \in Int /\ e[s] \in Int /\ h[s] = w[k][s] + e[s]
      <4>1. \A s \in S : e[s] \in Int
        <5>1. e \in [S -> Nat]
          BY <1>0
        <5> HIDE DEF e
        <5> QED
          BY <5>1
      <4>2. \A s \in S : w[k][s] \in Int
        OBVIOUS
      <4>3. \A s \in S : h[s] = w[k][s] + e[s]
        BY <2>3
      <4> HIDE DEF h, e
      <4> QED
        BY <4>1, <4>2, <4>3
    <3>2. SumOver(h, S) = SumOver(w[k], S) + SumOver(e, S)
      <4> DEFINE row == w[k]
      <4>1. \A s \in S : row[s] \in Int /\ e[s] \in Int /\ h[s] = row[s] + e[s]
        BY <3>1
      <4>2. SumOver(h, S) = SumOver(row, S) + SumOver(e, S)
        <5> HIDE DEF h, e, row
        <5> QED
          BY <4>1, SumOverPlus
      <4> QED
        BY <4>2
    <3> QED
      BY <3>2
  <2>5. SumOver(w[k], S) <= b[k] /\ SumOver(w[k], S) \in Nat /\ b[k] \in Nat
    <3>1. \A s \in S : w[k][s] \in Nat
      OBVIOUS
    <3> QED
      BY <3>1, SumOverNat
  <2>6. SumOver(part(T), S) <= SumOver(b, T) /\ SumOver(part(T), S) \in Nat /\ SumOver(b, T) \in Nat
    BY <1>0, <1>2
  <2>7. SumOver(part(U), S) <= SumOver(b, U)
    <3> HIDE DEF part, U
    <3> QED
      BY <2>2, <2>4, <2>5, <2>6
  <2> QED
    BY <2>1, <2>7
<1>3. R \in N
  <2> HIDE DEF N
  <2> QED
    BY <1>1, <1>2, AllSubsets
<1>4. \A s \in S : part(R)[s] = c[s]
  OBVIOUS
<1>5. SumOver(part(R), S) = SumOver(c, S)
  <2> DEFINE p == part(R)
  <2>1. \A s \in S : p[s] = c[s]
    BY <1>4
  <2>2. SumOver(p, S) = SumOver(c, S)
    <3> HIDE DEF p
    <3> QED
      BY <2>1, SumOverAlike
  <2> QED
    BY <2>2
<1> QED
  BY <1>3, <1>5
=============================================================================
