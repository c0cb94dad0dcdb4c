------------------------- MODULE CurrentPathProofs -------------------------
(***************************************************************************)
(* Proofs about the path of a current.  The sums and the loops of the root *)
(* are recursive; what they compute is proved from a least counterexample, *)
(* which the library's well-founded orderings provide.                     *)
(***************************************************************************)
EXTENDS CurrentPath, FiniteSetTheorems, WellFoundedInduction, TLAPS

-----------------------------------------------------------------------------
(* Least counterexamples.                                                  *)

\* Among sets of members of a finite set, one contains none of the others.
LEMMA LeastSubset ==
  ASSUME NEW S, IsFiniteSet(S), NEW T \in SUBSET (SUBSET S), T # {}
  PROVE  \E x \in T : \A y \in T : y \subseteq x => y = x
<1>1. IsWellFoundedOn(StrictSubsetOrdering(S), SUBSET S)
  BY FS_StrictSubsetOrderingWellFounded, FS_FiniteSubsetsOfFinite
<1>2. \E x \in T : \A y \in T : <<y, x>> \notin StrictSubsetOrdering(S)
  BY <1>1, WFMin
<1> QED
  BY <1>2 DEF StrictSubsetOrdering

\* A set of natural numbers has a least member.
LEMMA LeastNatural ==
  ASSUME NEW T \in SUBSET Nat, T # {}
  PROVE  \E x \in T : \A y \in T : x <= y
<1>1. PICK n \in T : TRUE
  OBVIOUS
<1> DEFINE Below == {k \in T : k <= n}
           All == 0 .. n
           Initial == {0 .. k : k \in Below}
<1>2. IsFiniteSet(All)
  BY FS_Interval
<1>3. Initial \in SUBSET (SUBSET All) /\ Initial # {}
  <2>1. n \in Below /\ \A k \in Below : k \in Nat /\ n \in Nat /\ k <= n
    BY <1>1
  <2>2. \A k \in Below : 0 .. k \subseteq 0 .. n
    BY <2>1
  <2> HIDE DEF Below
  <2> QED BY <2>1, <2>2
<1>4. PICK x \in Initial : \A y \in Initial : y \subseteq x => y = x
  <2> HIDE DEF Initial, All
  <2> QED BY <1>2, <1>3, LeastSubset
<1>5. PICK k \in Below : x = 0 .. k
  <2> HIDE DEF Below
  <2> QED BY <1>4
<1>6. ASSUME NEW j \in T PROVE k <= j
  <2>1. SUFFICES ASSUME j < k PROVE FALSE
    BY <1>5
  <2>2. j \in Below /\ j \in Nat /\ k \in Nat /\ n \in Nat
    BY <1>1, <1>5, <2>1
  <2>3. 0 .. j \subseteq 0 .. k
    BY <2>1, <2>2
  <2>4. 0 .. j = 0 .. k
    BY <1>4, <1>5, <2>2, <2>3
  <2>5. k \in 0 .. k
    BY <2>2
  <2>6. k \in 0 .. j
    BY <2>4, <2>5
  <2> QED
    BY <2>1, <2>2, <2>6
<1> QED
  BY <1>5, <1>6

-----------------------------------------------------------------------------
(* Sums over finite sets.                                                  *)

Any(s) == CHOOSE x \in s : TRUE

\* g maps every part of S to the sum of its weights.
IsSum(g, w, S) ==
  g = [s \in SUBSET S |-> IF s = {} THEN 0 ELSE w[Any(s)] + g[s \ {Any(s)}]]

\* The sum of the weights w over S.
Total(w, S) == (CHOOSE g : IsSum(g, w, S))[S]

LEMMA SumValues ==
  ASSUME NEW S, NEW w, NEW g, IsSum(g, w, S), NEW s \in SUBSET S
  PROVE  /\ s = {} => g[s] = 0
         /\ s # {} => /\ Any(s) \in s /\ s \ {Any(s)} \in SUBSET S
                      /\ g[s] = w[Any(s)] + g[s \ {Any(s)}]
<1>1. g = [t \in SUBSET S |-> IF t = {} THEN 0 ELSE w[Any(t)] + g[t \ {Any(t)}]]
  BY DEF IsSum
<1>2. g[s] = IF s = {} THEN 0 ELSE w[Any(s)] + g[s \ {Any(s)}]
  BY <1>1
<1>3. s # {} => Any(s) \in s
  BY DEF Any
<1> QED
  BY <1>2, <1>3

\* Sums of weights that agree on a set agree there.
LEMMA SumsAgree ==
  ASSUME NEW S, IsFiniteSet(S), NEW R, NEW w, NEW v, NEW g, NEW h,
         IsSum(g, w, S), IsSum(h, v, R),
         NEW T \in SUBSET S, T \in SUBSET R, \A i \in T : w[i] = v[i]
  PROVE  g[T] = h[T]
<1> DEFINE Bad == {s \in SUBSET T : g[s] # h[s]}
<1>1. SUFFICES ASSUME Bad # {} PROVE FALSE
  OBVIOUS
<1>2. PICK s \in Bad : \A y \in Bad : y \subseteq s => y = s
  <2>1. Bad \in SUBSET (SUBSET T) /\ IsFiniteSet(T)
    BY FS_Subset
  <2> HIDE DEF Bad
  <2> QED BY <1>1, <2>1, LeastSubset
<1>3. s \in SUBSET S /\ s \in SUBSET R
  BY <1>2
<1>4. s # {}
  BY <1>2, <1>3, SumValues
<1>5. Any(s) \in s /\ g[s] = w[Any(s)] + g[s \ {Any(s)}] /\ h[s] = v[Any(s)] + h[s \ {Any(s)}]
  BY <1>3, <1>4, SumValues
<1>6. s \ {Any(s)} \notin Bad
  BY <1>2, <1>5
<1>7. g[s \ {Any(s)}] = h[s \ {Any(s)}] /\ w[Any(s)] = v[Any(s)]
  BY <1>2, <1>5, <1>6
<1> QED
  BY <1>2, <1>5, <1>7

\* Every finite set has sums.
LEMMA SumExists ==
  ASSUME NEW S, IsFiniteSet(S), NEW w
  PROVE  \E g : IsSum(g, w, S)
<1> DEFINE Bad == {s \in SUBSET S : ~ \E g : IsSum(g, w, s)}
<1>1. SUFFICES ASSUME Bad # {} PROVE FALSE
  OBVIOUS
<1>2. PICK s \in Bad : \A y \in Bad : y \subseteq s => y = s
  <2>1. Bad \in SUBSET (SUBSET S)
    OBVIOUS
  <2> HIDE DEF Bad
  <2> QED BY <1>1, <2>1, LeastSubset
<1> DEFINE Of(u) == CHOOSE g : IsSum(g, w, u)
           below == [u \in SUBSET s |-> Of(u)[u]]
           sum == [u \in SUBSET s |-> IF u = {} THEN 0 ELSE w[Any(u)] + below[u \ {Any(u)}]]
<1>3. ASSUME NEW u \in SUBSET s, u # s PROVE IsSum(Of(u), w, u)
  <2>1. u \in SUBSET S /\ u \notin Bad
    BY <1>2, <1>3
  <2>2. \E g : IsSum(g, w, u)
    BY <2>1
  <2> QED
    BY <2>2
<1>4. ASSUME NEW u \in SUBSET s, u # s PROVE sum[u] = below[u]
  <2>1. IsSum(Of(u), w, u) /\ u \in SUBSET u
    BY <1>3, <1>4
  <2>2. CASE u = {}
    <3>1. Of(u)[u] = 0
      <4> HIDE DEF Of
      <4> QED BY <2>1, <2>2, SumValues
    <3> QED BY <2>2, <3>1
  <2>3. CASE u # {}
    <3> DEFINE t == u \ {Any(u)}
    <3>1. Any(u) \in u /\ t \in SUBSET u /\ Of(u)[u] = w[Any(u)] + Of(u)[t]
      <4> HIDE DEF Of
      <4> QED BY <2>1, <2>3, SumValues
    <3>2. IsSum(Of(t), w, t) /\ t \in SUBSET s
      <4>1. t \in SUBSET s /\ t # s
        BY <1>4, <3>1
      <4> QED BY <4>1, <1>3
    <3>3. Of(u)[t] = Of(t)[t]
      <4>1. IsFiniteSet(u)
        BY <1>2, FS_Subset
      <4> HIDE DEF Of
      <4> QED BY <2>1, <3>1, <3>2, <4>1, SumsAgree
    <3>4. sum[u] = w[Any(u)] + below[t] /\ below[t] = Of(t)[t] /\ below[u] = Of(u)[u]
      <4> HIDE DEF Of
      <4> QED BY <2>3, <3>2
    <3> QED
      <4> HIDE DEF Of, below, sum, t
      <4> QED BY <3>1, <3>3, <3>4
  <2> QED
    BY <2>2, <2>3
<1>5. ASSUME NEW u \in SUBSET s, u # {} PROVE below[u \ {Any(u)}] = sum[u \ {Any(u)}]
  <2>1. Any(u) \in u
    BY <1>5 DEF Any
  <2>2. u \ {Any(u)} \in SUBSET s /\ u \ {Any(u)} # s
    BY <2>1
  <2> QED
    <3> HIDE DEF below, sum
    <3> QED BY <1>4, <2>2
<1>6. \A u \in SUBSET s :
        (IF u = {} THEN 0 ELSE w[Any(u)] + below[u \ {Any(u)}])
          = (IF u = {} THEN 0 ELSE w[Any(u)] + sum[u \ {Any(u)}])
  <2> HIDE DEF below, sum
  <2> QED BY <1>5
<1>7. sum = [u \in SUBSET s |-> IF u = {} THEN 0 ELSE w[Any(u)] + sum[u \ {Any(u)}]]
  <2> DEFINE f == sum
  <2>1. f = [u \in SUBSET s |-> IF u = {} THEN 0 ELSE w[Any(u)] + below[u \ {Any(u)}]]
    OBVIOUS
  <2>2. \A u \in SUBSET s :
          (IF u = {} THEN 0 ELSE w[Any(u)] + below[u \ {Any(u)}])
            = (IF u = {} THEN 0 ELSE w[Any(u)] + f[u \ {Any(u)}])
    BY <1>6
  <2> HIDE DEF below, f
  <2>3. f = [u \in SUBSET s |-> IF u = {} THEN 0 ELSE w[Any(u)] + f[u \ {Any(u)}]]
    BY <2>1, <2>2
  <2> USE DEF f
  <2> QED BY <2>3
<1>8. IsSum(sum, w, s)
  <2> HIDE DEF sum
  <2> QED BY <1>7 DEF IsSum
<1>9. \E g : IsSum(g, w, s)
  <2> HIDE DEF sum
  <2> QED BY <1>8
<1> QED
  BY <1>2, <1>9

LEMMA TotalIs ==
  ASSUME NEW S, IsFiniteSet(S), NEW w
  PROVE  /\ IsSum(CHOOSE g : IsSum(g, w, S), w, S)
         /\ Total(w, S) = (CHOOSE g : IsSum(g, w, S))[S]
BY SumExists DEF Total

\* A sum is that of its sets' functions.
LEMMA TotalOf ==
  ASSUME NEW S, IsFiniteSet(S), NEW w, NEW g, IsSum(g, w, S), NEW T \in SUBSET S
  PROVE  g[T] = Total(w, T)
<1>1. IsFiniteSet(T)
  BY FS_Subset
<1>2. IsSum(CHOOSE f : IsSum(f, w, T), w, T) /\ Total(w, T) = (CHOOSE f : IsSum(f, w, T))[T]
  BY <1>1, TotalIs
<1>3. T \in SUBSET T
  OBVIOUS
<1> QED
  BY <1>2, <1>3, SumsAgree

\* The sum of no weights is zero; another starts at the chosen element.
LEMMA TotalStep ==
  ASSUME NEW S, IsFiniteSet(S), NEW w
  PROVE  /\ S = {} => Total(w, S) = 0
         /\ S # {} => Any(S) \in S /\ Total(w, S) = w[Any(S)] + Total(w, S \ {Any(S)})
<1> DEFINE g == CHOOSE f : IsSum(f, w, S)
<1>1. IsSum(g, w, S) /\ Total(w, S) = g[S] /\ S \in SUBSET S
  BY TotalIs
<1> HIDE DEF g
<1>2. S # {} => S \ {Any(S)} \in SUBSET S
  OBVIOUS
<1>3. S # {} => g[S \ {Any(S)}] = Total(w, S \ {Any(S)})
  BY <1>1, <1>2, TotalOf
<1>4. /\ S = {} => g[S] = 0
      /\ S # {} => Any(S) \in S /\ g[S] = w[Any(S)] + g[S \ {Any(S)}]
  BY <1>1, SumValues
<1> QED
  BY <1>1, <1>3, <1>4

LEMMA TotalsAgree ==
  ASSUME NEW S, IsFiniteSet(S), NEW w, NEW v, \A i \in S : w[i] = v[i]
  PROVE  Total(w, S) = Total(v, S)
<1>1. IsSum(CHOOSE f : IsSum(f, w, S), w, S) /\ Total(w, S) = (CHOOSE f : IsSum(f, w, S))[S]
  BY TotalIs
<1>2. IsSum(CHOOSE f : IsSum(f, v, S), v, S) /\ Total(v, S) = (CHOOSE f : IsSum(f, v, S))[S]
  BY TotalIs
<1>3. S \in SUBSET S
  OBVIOUS
<1> QED
  BY <1>1, <1>2, <1>3, SumsAgree

\* A linear bound on every weight bounds the sum.
LEMMA TotalsCompare ==
  ASSUME NEW S, IsFiniteSet(S), NEW w, NEW v, NEW a \in Int, NEW b \in Int, NEW c \in Int,
         \A i \in S : w[i] \in Int /\ v[i] \in Int /\ a * w[i] <= b * v[i] + c
  PROVE  /\ Total(w, S) \in Int /\ Total(v, S) \in Int
         /\ a * Total(w, S) <= b * Total(v, S) + c * Cardinality(S)
<1> DEFINE Holds(s) == /\ Total(w, s) \in Int /\ Total(v, s) \in Int
                       /\ a * Total(w, s) <= b * Total(v, s) + c * Cardinality(s)
           Bad == {s \in SUBSET S : ~ Holds(s)}
<1>1. SUFFICES ASSUME Bad # {} PROVE FALSE
  <2> HIDE DEF Bad
  <2>1. SUFFICES ASSUME Bad = {} PROVE Holds(S)
    BY <2>1
  <2> USE DEF Bad
  <2> HIDE DEF Holds
  <2>2. S \notin Bad
    BY <2>1
  <2> QED BY <2>2
<1>2. PICK s \in Bad : \A y \in Bad : y \subseteq s => y = s
  <2>1. Bad \in SUBSET (SUBSET S)
    OBVIOUS
  <2> HIDE DEF Bad
  <2> QED BY <1>1, <2>1, LeastSubset
<1>3. IsFiniteSet(s)
  BY <1>2, FS_Subset
<1>4. s # {}
  <2>1. SUFFICES ASSUME s = {} PROVE Holds(s)
    BY <1>2
  <2>2. Total(w, s) = 0 /\ Total(v, s) = 0 /\ Cardinality(s) = 0
    BY <2>1, <1>3, TotalStep, FS_EmptySet
  <2> QED BY <2>2
<1> DEFINE e == Any(s)
           t == s \ {e}
<1>5. e \in s /\ Total(w, s) = w[e] + Total(w, t) /\ Total(v, s) = v[e] + Total(v, t)
  BY <1>3, <1>4, TotalStep
<1>6. Cardinality(t) = Cardinality(s) - 1 /\ Cardinality(s) \in Nat
  <2> HIDE DEF e
  <2> QED BY <1>3, <1>5, FS_RemoveElement, FS_CardinalityType
<1>7. Holds(t)
  <2>1. t \in SUBSET S /\ t \notin Bad
    BY <1>2, <1>5
  <2> HIDE DEF Holds, t
  <2> QED BY <2>1
<1>8. e \in S
  BY <1>2, <1>5
<1>9. w[e] \in Int /\ v[e] \in Int /\ a * w[e] <= b * v[e] + c
  BY <1>8
<1>10. Holds(s)
  <2> HIDE DEF e, t
  <2> DEFINE wt == Total(w, t)
             vt == Total(v, t)
             k == Cardinality(s)
  <2>1. wt \in Int /\ vt \in Int /\ k \in Int /\ a * wt <= b * vt + c * (k - 1)
    BY <1>6, <1>7
  <2>2. Total(w, s) = w[e] + wt /\ Total(v, s) = v[e] + vt
    BY <1>5
  <2> HIDE DEF wt, vt
  <2>3. a * (w[e] + wt) <= b * (v[e] + vt) + c * k
    <3> HIDE DEF k
    <3>1. a * (w[e] + wt) = a * w[e] + a * wt
      BY <1>9, <2>1
    <3>2. b * (v[e] + vt) = b * v[e] + b * vt
      BY <1>9, <2>1
    <3>3. c * (k - 1) = c * k - c
      BY <2>1
    <3>4. {a * w[e], a * wt, b * v[e], b * vt, c * k, c * (k - 1)} \subseteq Int
      BY <1>9, <2>1
    <3> QED BY <1>9, <2>1, <3>1, <3>2, <3>3, <3>4
  <2> QED BY <1>9, <2>1, <2>2, <2>3
<1> QED
  <2> HIDE DEF Holds
  <2> QED BY <1>2, <1>10

LEMMA TotalType ==
  ASSUME NEW S, IsFiniteSet(S), NEW w, \A i \in S : w[i] \in Int
  PROVE  Total(w, S) \in Int
<1>1. \A i \in S : w[i] \in Int /\ w[i] \in Int /\ 0 * w[i] <= 0 * w[i] + 0
  OBVIOUS
<1> QED
  BY <1>1, TotalsCompare

\* Any element may be taken out first.
LEMMA TotalWithout ==
  ASSUME NEW S, IsFiniteSet(S), NEW w, \A i \in S : w[i] \in Int, NEW y \in S
  PROVE  Total(w, S) = w[y] + Total(w, S \ {y})
<1> DEFINE Holds(s) == \A z \in s : Total(w, s) = w[z] + Total(w, s \ {z})
           Bad == {s \in SUBSET S : ~ Holds(s)}
<1>1. SUFFICES ASSUME Bad # {} PROVE FALSE
  <2>1. Holds(S) => Total(w, S) = w[y] + Total(w, S \ {y})
    OBVIOUS
  <2> HIDE DEF Holds
  <2> QED BY <2>1
<1>2. PICK s \in Bad : \A t \in Bad : t \subseteq s => t = s
  <2>1. Bad \in SUBSET (SUBSET S)
    OBVIOUS
  <2> HIDE DEF Bad
  <2> QED BY <1>1, <2>1, LeastSubset
<1>3. PICK z \in s : Total(w, s) # w[z] + Total(w, s \ {z})
  BY <1>2
<1> DEFINE e == Any(s)
<1>4. e \in s /\ Total(w, s) = w[e] + Total(w, s \ {e})
  <2>1. IsFiniteSet(s)
    BY <1>2, FS_Subset
  <2> QED BY <1>3, <2>1, TotalStep
<1> HIDE DEF e
<1>5. e # z
  BY <1>3, <1>4
<1>6. ASSUME NEW t \in SUBSET s, t # s PROVE Holds(t)
  <2>1. t \in SUBSET S /\ t \notin Bad
    BY <1>2, <1>6
  <2> HIDE DEF Holds
  <2> QED BY <2>1
<1>7. Total(w, s \ {e}) = w[z] + Total(w, (s \ {e}) \ {z})
  <2>1. s \ {e} \in SUBSET s /\ s \ {e} # s /\ z \in s \ {e}
    BY <1>4, <1>5
  <2> QED BY <1>6, <2>1
<1>8. Total(w, s \ {z}) = w[e] + Total(w, (s \ {z}) \ {e})
  <2>1. s \ {z} \in SUBSET s /\ s \ {z} # s /\ e \in s \ {z}
    BY <1>4, <1>5
  <2> QED BY <1>6, <2>1
<1>9. (s \ {e}) \ {z} = (s \ {z}) \ {e}
  OBVIOUS
<1>10. Total(w, (s \ {e}) \ {z}) \in Int /\ w[e] \in Int /\ w[z] \in Int
  <2>1. (s \ {e}) \ {z} \in SUBSET S /\ e \in S /\ z \in S
    BY <1>2, <1>4
  <2>2. IsFiniteSet((s \ {e}) \ {z})
    BY <2>1, FS_Subset
  <2> QED BY <2>1, <2>2, TotalType
<1>11. Total(w, s) = w[z] + Total(w, s \ {z})
  <2> DEFINE rest == Total(w, (s \ {e}) \ {z})
  <2>1. Total(w, s) = w[e] + (w[z] + rest)
    BY <1>4, <1>7
  <2>2. Total(w, s \ {z}) = w[e] + rest
    BY <1>8, <1>9
  <2>3. rest \in Int /\ w[e] \in Int /\ w[z] \in Int
    BY <1>10
  <2> HIDE DEF rest
  <2>4. w[e] + (w[z] + rest) = w[z] + (w[e] + rest)
    BY <2>3
  <2> QED BY <2>1, <2>2, <2>4
<1> QED
  BY <1>3, <1>11

\* The sums the properties speak of.
LEMMA SumOfSquares ==
  ASSUME NEW S, IsFiniteSet(S), NEW f
  PROVE  MapThenSumSet(LAMBDA i : Square(f[i]), S) = Total([i \in S |-> Square(f[i])], S)
<1> DEFINE w == [i \in S |-> Square(f[i])]
           Sums(g) == g = [s \in SUBSET S |->
                             IF s = {} THEN 0 ELSE Square(f[Any(s)]) + g[s \ {Any(s)}]]
<1>1. \A s \in SUBSET S : s # {} => w[Any(s)] = Square(f[Any(s)])
  <2>1. \A s \in SUBSET S : s # {} => Any(s) \in S
    BY DEF Any
  <2> QED BY <2>1
<1>2. ASSUME NEW g PROVE Sums(g) <=> IsSum(g, w, S)
  <2>1. \A s \in SUBSET S :
          (IF s = {} THEN 0 ELSE Square(f[Any(s)]) + g[s \ {Any(s)}])
            = (IF s = {} THEN 0 ELSE w[Any(s)] + g[s \ {Any(s)}])
    <3> HIDE DEF w
    <3> QED BY <1>1
  <2>2. [s \in SUBSET S |-> IF s = {} THEN 0 ELSE Square(f[Any(s)]) + g[s \ {Any(s)}]]
          = [s \in SUBSET S |-> IF s = {} THEN 0 ELSE w[Any(s)] + g[s \ {Any(s)}]]
    <3> HIDE DEF w
    <3> QED BY <2>1
  <2> HIDE DEF w
  <2> QED BY <2>2 DEF IsSum
<1>3. MapThenSumSet(LAMBDA i : Square(f[i]), S) = (CHOOSE g : Sums(g))[S]
  BY DEF MapThenSumSet, MapThenFoldSet, Any
<1> HIDE DEF Sums, w
<1>4. Sums(CHOOSE g : Sums(g))
  BY <1>2, SumExists
<1>5. (CHOOSE g : Sums(g))[S] = Total(w, S)
  <2>1. IsSum(CHOOSE g : Sums(g), w, S) /\ S \in SUBSET S
    BY <1>2, <1>4
  <2> QED BY <2>1, TotalOf
<1> QED
  BY <1>3, <1>5 DEF w

LEMMA SumOfAmpSquares ==
  ASSUME NEW S, IsFiniteSet(S), NEW f
  PROVE  MapThenSumSet(LAMBDA i : Square(Amps(f[i])), S)
           = Total([i \in S |-> Square(Amps(f[i]))], S)
<1> DEFINE w == [i \in S |-> Square(Amps(f[i]))]
           Sums(g) == g = [s \in SUBSET S |->
                             IF s = {} THEN 0 ELSE Square(Amps(f[Any(s)])) + g[s \ {Any(s)}]]
<1>1. \A s \in SUBSET S : s # {} => w[Any(s)] = Square(Amps(f[Any(s)]))
  <2>1. \A s \in SUBSET S : s # {} => Any(s) \in S
    BY DEF Any
  <2> QED BY <2>1
<1>2. ASSUME NEW g PROVE Sums(g) <=> IsSum(g, w, S)
  <2>1. \A s \in SUBSET S :
          (IF s = {} THEN 0 ELSE Square(Amps(f[Any(s)])) + g[s \ {Any(s)}])
            = (IF s = {} THEN 0 ELSE w[Any(s)] + g[s \ {Any(s)}])
    <3> HIDE DEF w
    <3> QED BY <1>1
  <2>2. [s \in SUBSET S |-> IF s = {} THEN 0 ELSE Square(Amps(f[Any(s)])) + g[s \ {Any(s)}]]
          = [s \in SUBSET S |-> IF s = {} THEN 0 ELSE w[Any(s)] + g[s \ {Any(s)}]]
    <3> HIDE DEF w
    <3> QED BY <2>1
  <2> HIDE DEF w
  <2> QED BY <2>2 DEF IsSum
<1>3. MapThenSumSet(LAMBDA i : Square(Amps(f[i])), S) = (CHOOSE g : Sums(g))[S]
  BY DEF MapThenSumSet, MapThenFoldSet, Any
<1> HIDE DEF Sums, w
<1>4. Sums(CHOOSE g : Sums(g))
  BY <1>2, SumExists
<1>5. (CHOOSE g : Sums(g))[S] = Total(w, S)
  <2>1. IsSum(CHOOSE g : Sums(g), w, S) /\ S \in SUBSET S
    BY <1>2, <1>4
  <2> QED BY <2>1, TotalOf
<1> QED
  BY <1>3, <1>5 DEF w
-----------------------------------------------------------------------------
(* The window.                                                             *)

Slots == 0 .. Window - 1

\* The squares the window's samples stand for.
Squares == [i \in Slots |-> Square(Amps(samples_ma[i]))]

\* The window's type, and the samples not taken yet.
WindowShape ==
  /\ samples_ma \in [Slots -> Samples]
  /\ index \in Slots /\ count \in Nat /\ count <= Window
  /\ count < Window => index = count /\ \A i \in Slots : i >= count => samples_ma[i] = 0

\* The running sum is that of the squares, and no sample is too large for the
\* root's first bit.
SumHeld ==
  /\ sum_sq_a2 = Total(Squares, Slots)
  /\ sum_sq_a2 \in Nat /\ sum_sq_a2 <= count * (4 * TopBit - 1)

WindowInv == WindowShape /\ SumHeld

LEMMA SlotsFinite == IsFiniteSet(Slots) /\ Cardinality(Slots) = Window
<1>1. Window \in Nat /\ Window > 0
  BY WindowAssumption
<1> QED
  BY <1>1, FS_Interval DEF Slots

LEMMA TopBitType == TopBit \in Nat /\ TopBit > 0
<1>1. PICK h \in 1 .. TopBit : PowerOfTwo(h) /\ TopBit = h * h
  BY TopBitAssumption
<1>2. h \in Nat /\ h > 0
  BY <1>1 DEF PowerOfTwo
<1>3. h * h \in Nat /\ h * h > 0
  BY <1>2
<1> QED
  BY <1>1, <1>3

\* The square of a sample's amperes.
LEMMA AmpsFacts ==
  ASSUME NEW s \in Int
  PROVE  /\ Amps(s) \in Nat /\ Square(Amps(s)) \in Nat
         /\ s = 0 => Square(Amps(s)) = 0
<1>1. Amps(s) \in Nat /\ (s = 0 => Amps(s) = 0)
  BY DEF Amps
<1>2. \A a \in Nat : a * a \in Nat /\ 0 * 0 = 0
  OBVIOUS
<1> QED
  BY <1>1, <1>2 DEF Square

LEMMA SampleSquares ==
  ASSUME NEW s \in Samples
  PROVE  /\ Square(Amps(s)) \in Nat /\ Square(Amps(s)) <= 4 * TopBit - 1
         /\ s = 0 => Square(Amps(s)) = 0
<1>1. s \in Int
  BY WindowAssumption
<1>2. Square(Amps(s)) \in Nat /\ (s = 0 => Square(Amps(s)) = 0)
  BY <1>1, AmpsFacts
<1>3. Square(Amps(s)) < 4 * TopBit
  BY TopBitAssumption
<1> QED
  BY <1>2, <1>3, TopBitType

\* A window's sum of squares, of which every one is bounded.
LEMMA TotalOfWindow ==
  ASSUME NEW f \in [Slots -> Samples]
  PROVE  LET sum == Total([i \in Slots |-> Square(Amps(f[i]))], Slots)
         IN  /\ sum \in Nat /\ sum <= Window * (4 * TopBit - 1)
             /\ (\A i \in Slots : f[i] = 0) => sum = 0
<1> DEFINE w == [i \in Slots |-> Square(Amps(f[i]))]
           top == 4 * TopBit - 1
<1>1. top \in Int
  BY TopBitType
<1>2. \A i \in Slots : w[i] \in Int /\ 0 <= w[i] /\ w[i] <= top /\ (f[i] = 0 => w[i] = 0)
  BY SampleSquares
<1> HIDE DEF w, top
<1>3. 0 \in Int /\ 1 \in Int /\ -1 \in Int
  OBVIOUS
<1>4. Total(w, Slots) \in Int
  BY <1>2, SlotsFinite, TotalType
<1>5. 0 <= Total(w, Slots)
  <2>1. \A i \in Slots : w[i] \in Int /\ w[i] \in Int /\ (-1) * w[i] <= 0 * w[i] + 0
    BY <1>2
  <2>2. (-1) * Total(w, Slots) <= 0 * Total(w, Slots) + 0 * Cardinality(Slots)
    BY <2>1, <1>3, SlotsFinite, TotalsCompare
  <2> QED BY <2>2, <1>4, SlotsFinite, WindowAssumption
<1>6. Total(w, Slots) <= Window * top
  <2>1. \A i \in Slots : w[i] \in Int /\ w[i] \in Int /\ 1 * w[i] <= 0 * w[i] + top
    BY <1>1, <1>2
  <2>2. 1 * Total(w, Slots) <= 0 * Total(w, Slots) + top * Cardinality(Slots)
    BY <2>1, <1>1, <1>3, SlotsFinite, TotalsCompare
  <2> QED BY <2>2, <1>1, <1>4, SlotsFinite, WindowAssumption
<1>7. ASSUME \A i \in Slots : f[i] = 0 PROVE Total(w, Slots) <= 0
  <2>1. \A i \in Slots : w[i] \in Int /\ w[i] \in Int /\ 1 * w[i] <= 0 * w[i] + 0
    BY <1>2, <1>7
  <2>2. 1 * Total(w, Slots) <= 0 * Total(w, Slots) + 0 * Cardinality(Slots)
    BY <2>1, <1>3, SlotsFinite, TotalsCompare
  <2> QED BY <2>2, <1>4, SlotsFinite, WindowAssumption
<1>8. /\ Total(w, Slots) \in Nat /\ Total(w, Slots) <= Window * top
      /\ (\A i \in Slots : f[i] = 0) => Total(w, Slots) = 0
  BY <1>4, <1>5, <1>6, <1>7
<1> QED
  BY <1>8 DEF w, top

\* Replacing one sample replaces its square in the sum.
LEMMA TotalAfterSample ==
  ASSUME NEW f \in [Slots -> Samples], NEW k \in Slots, NEW s \in Samples
  PROVE  Total([i \in Slots |-> Square(Amps([f EXCEPT ![k] = s][i]))], Slots)
           = Total([i \in Slots |-> Square(Amps(f[i]))], Slots)
               - Square(Amps(f[k])) + Square(Amps(s))
<1> DEFINE w == [i \in Slots |-> Square(Amps(f[i]))]
           v == [i \in Slots |-> Square(Amps([f EXCEPT ![k] = s][i]))]
           Rest == Slots \ {k}
<1>1. \A i \in Slots : w[i] \in Int
  BY SampleSquares
<1>2. \A i \in Slots : v[i] \in Int
  <2>1. \A i \in Slots : [f EXCEPT ![k] = s][i] \in Samples
    OBVIOUS
  <2> QED BY <2>1, SampleSquares
<1>3. w[k] = Square(Amps(f[k])) /\ v[k] = Square(Amps(s))
  OBVIOUS
<1>4. \A i \in Rest : v[i] = w[i]
  OBVIOUS
<1>5. IsFiniteSet(Rest)
  BY SlotsFinite, FS_RemoveElement
<1> HIDE DEF w, v
<1>6. Total(w, Slots) = w[k] + Total(w, Rest)
  BY <1>1, SlotsFinite, TotalWithout
<1>7. Total(v, Slots) = v[k] + Total(v, Rest)
  BY <1>2, SlotsFinite, TotalWithout
<1>8. Total(v, Rest) = Total(w, Rest)
  <2> HIDE DEF Rest
  <2> QED BY <1>4, <1>5, TotalsAgree
<1>9. Total(w, Rest) \in Int /\ w[k] \in Int /\ v[k] \in Int
  <2>1. \A i \in Rest : w[i] \in Int
    BY <1>1
  <2> HIDE DEF Rest
  <2> QED BY <2>1, <1>1, <1>2, <1>5, TotalType
<1>10. Total(v, Slots) = Total(w, Slots) - w[k] + v[k]
  <2> DEFINE rest == Total(w, Rest)
  <2>1. Total(w, Slots) = w[k] + rest /\ Total(v, Slots) = v[k] + rest
    BY <1>6, <1>7, <1>8
  <2>2. rest \in Int
    BY <1>9
  <2> HIDE DEF rest
  <2> QED BY <1>9, <2>1, <2>2
<1> QED
  BY <1>3, <1>10 DEF w, v

LEMMA WindowStarts ==
  ASSUME WindowInit
  PROVE  WindowInv
<1>1. 0 \in Samples /\ Window \in Nat /\ Window > 0
  BY WindowAssumption
<1>2. samples_ma = [i \in Slots |-> 0] /\ index = 0 /\ count = 0 /\ sum_sq_a2 = 0
  BY DEF WindowInit, Slots
<1>3. samples_ma \in [Slots -> Samples] /\ \A i \in Slots : samples_ma[i] = 0
  BY <1>1, <1>2
<1>4. WindowShape
  <2>1. 0 \in Slots
    BY <1>1 DEF Slots
  <2> QED BY <1>1, <1>2, <1>3, <2>1 DEF WindowShape
<1>5. Total(Squares, Slots) = 0
  BY <1>3, TotalOfWindow DEF Squares
<1>6. SumHeld
  <2>1. 0 * (4 * TopBit - 1) = 0
    BY TopBitType
  <2> QED BY <1>2, <1>5, <2>1 DEF SumHeld
<1> QED
  BY <1>4, <1>6 DEF WindowInv

LEMMA ShapeStep ==
  ASSUME WindowShape, NEW s \in Samples, SampleCurrent(s)
  PROVE  WindowShape' /\ count' > 0
<1>1. Window \in Nat /\ Window > 0
  BY WindowAssumption
<1>2. /\ index \in Slots /\ count \in Nat /\ count <= Window
      /\ count < Window => index = count
  BY DEF WindowShape
<1>3. samples_ma \in [Slots -> Samples]
  BY DEF WindowShape
<1>4. /\ count' = (IF count = Window THEN count ELSE count + 1)
      /\ samples_ma' = [samples_ma EXCEPT ![index] = s]
      /\ index' = (index + 1) % Window
  BY DEF SampleCurrent
<1>5. samples_ma' \in [Slots -> Samples]
  BY <1>3, <1>4
<1>6. index \in Nat /\ index < Window
  BY <1>1, <1>2 DEF Slots
<1>7. index' \in Nat /\ index' < Window /\ (index + 1 < Window => index' = index + 1)
  BY <1>1, <1>4, <1>6
<1>8. count' \in Nat /\ count' <= Window /\ count' > 0
  BY <1>1, <1>2, <1>4
<1>9. count' < Window => index' = count'
  BY <1>1, <1>2, <1>4, <1>7
<1>10. ASSUME count' < Window, NEW i \in Slots, i >= count' PROVE samples_ma'[i] = 0
  <2>1. count < Window /\ count' = count + 1 /\ i \in Nat
    BY <1>1, <1>2, <1>4, <1>10 DEF Slots
  <2>2. samples_ma[i] = 0
    BY <1>2, <1>10, <2>1 DEF WindowShape
  <2>3. i # index
    BY <1>2, <1>10, <2>1
  <2>4. samples_ma'[i] = samples_ma[i]
    BY <1>3, <1>4, <2>3
  <2> QED BY <2>2, <2>4
<1>11. index' \in Slots
  BY <1>1, <1>7 DEF Slots
<1>12. Slots' = Slots
  BY DEF Slots
<1> QED
  BY <1>5, <1>8, <1>9, <1>10, <1>11, <1>12 DEF WindowShape

LEMMA SumStep ==
  ASSUME WindowInv, NEW s \in Samples, SampleCurrent(s)
  PROVE  SumHeld'
<1> DEFINE old == Square(Amps(samples_ma[index]))
           new == Square(Amps(s))
           top == 4 * TopBit - 1
<1>1. /\ count \in Nat /\ count <= Window /\ index \in Slots /\ samples_ma \in [Slots -> Samples]
      /\ count < Window => samples_ma[index] = 0
  <2>1. count < Window => index >= count
    BY DEF WindowInv, WindowShape
  <2> QED BY <2>1 DEF WindowInv, WindowShape
<1>2. /\ sum_sq_a2 = Total(Squares, Slots)
      /\ sum_sq_a2 \in Nat /\ sum_sq_a2 <= count * top
  BY DEF WindowInv, SumHeld
<1>3. /\ old \in Nat /\ new \in Nat /\ new <= top
      /\ count < Window => old = 0
  <2>1. samples_ma[index] \in Samples
    BY <1>1
  <2> QED BY <1>1, <2>1, SampleSquares
<1>4. /\ count' = (IF count = Window THEN count ELSE count + 1)
      /\ samples_ma' = [samples_ma EXCEPT ![index] = s]
      /\ sum_sq_a2' = (IF count = Window THEN sum_sq_a2 - old ELSE sum_sq_a2) + new
  BY DEF SampleCurrent
<1>5. Total(Squares, Slots)' = Total(Squares, Slots) - old + new
  <2>1. Squares' = [i \in Slots |-> Square(Amps([samples_ma EXCEPT ![index] = s][i]))]
    BY <1>4 DEF Squares, Slots
  <2>2. Total(Squares, Slots)' = Total(Squares', Slots)
    BY DEF Slots
  <2>3. Total([i \in Slots |-> Square(Amps([samples_ma EXCEPT ![index] = s][i]))], Slots)
          = Total([i \in Slots |-> Square(Amps(samples_ma[i]))], Slots)
              - Square(Amps(samples_ma[index])) + Square(Amps(s))
    BY <1>1, TotalAfterSample
  <2>4. Total([i \in Slots |-> Square(Amps([samples_ma EXCEPT ![index] = s][i]))], Slots)
          = Total(Squares, Slots) - old + new
    BY <2>3 DEF Squares
  <2> HIDE DEF old, new
  <2> QED BY <2>1, <2>2, <2>4
<1>6. /\ Total(Squares, Slots)' \in Nat
      /\ Total(Squares, Slots)' <= Window * top
  <2>1. samples_ma' \in [Slots -> Samples]
    BY <1>1, <1>4
  <2>2. Total(Squares, Slots)' = Total([i \in Slots |-> Square(Amps(samples_ma'[i]))], Slots)
    BY DEF Squares, Slots
  <2> QED BY <2>1, <2>2, TotalOfWindow
<1>7. top \in Nat
  BY TopBitType
<1> HIDE DEF old, new, top
<1>8. sum_sq_a2' = Total(Squares, Slots)'
  <2>1. CASE count = Window
    BY <2>1, <1>2, <1>4, <1>5
  <2>2. CASE count # Window
    <3>1. old = 0
      BY <1>1, <1>3, <2>2, WindowAssumption
    <3>2. sum_sq_a2' = sum_sq_a2 + new
      BY <2>2, <1>4
    <3>3. Total(Squares, Slots)' = sum_sq_a2 - 0 + new
      BY <3>1, <1>2, <1>5
    <3> QED BY <3>2, <3>3, <1>2, <1>3
  <2> QED BY <2>1, <2>2
<1>9. sum_sq_a2' <= count' * top
  <2>1. CASE count = Window
    BY <2>1, <1>4, <1>6, <1>8
  <2>2. CASE count # Window
    <3>1. sum_sq_a2' = sum_sq_a2 + new /\ count' = count + 1
      BY <2>2, <1>4
    <3>2. (count + 1) * top = count * top + top /\ count * top \in Nat
      BY <1>1, <1>7
    <3> QED BY <3>1, <3>2, <1>2, <1>3, <1>7
  <2> QED BY <2>1, <2>2
<1>10. TopBit' = TopBit
  OBVIOUS
<1> QED
  BY <1>6, <1>8, <1>9 DEF SumHeld, top

LEMMA WindowStep ==
  ASSUME WindowInv, NEW s \in Samples, SampleCurrent(s)
  PROVE  WindowInv' /\ count' > 0
BY ShapeStep, SumStep DEF WindowInv

\* The samples of the path are those the window may take.
LEMMA PathSamples ==
  ASSUME ReadAndSample
  PROVE  \E pga \in CurrentCounts, other \in OtherCounts :
           /\ CurrentPgaDa(pga) * 100 \in Samples /\ SampleCurrent(CurrentPgaDa(pga) * 100)
           /\ measured' = Convert(pga, other) /\ counts' = [pga |-> pga, other |-> other]
           /\ currents' = [currents EXCEPT ![index] = Quotient(PgaMilliamps(pga), 100)]
<1>1. PICK pga \in CurrentCounts, other \in OtherCounts :
        /\ measured' = Convert(pga, other)
        /\ counts' = [pga |-> pga, other |-> other]
        /\ SampleCurrent(measured'.current_pga_da * 100)
        /\ currents' = [currents EXCEPT ![index] = Quotient(PgaMilliamps(pga), 100)]
  BY DEF ReadAndSample
<1>2. measured'.current_pga_da = CurrentPgaDa(pga)
  BY <1>1 DEF Convert
<1>3. CurrentPgaDa(pga) * 100 \in Samples
  BY CurrentPathAssumption
<1> QED
  BY <1>1, <1>2, <1>3

LEMMA WindowInductive ==
  ASSUME WindowInv, [ReadAndSample]_pathVars
  PROVE  WindowInv'
<1>1. CASE ReadAndSample
  BY <1>1, PathSamples, WindowStep
<1>2. CASE UNCHANGED pathVars
  <2>1. UNCHANGED windowVars
    BY <1>2 DEF pathVars
  <2> QED
    BY <2>1 DEF WindowInv, WindowShape, SumHeld, Squares, windowVars
<1> QED
  BY <1>1, <1>2

LEMMA WindowTyped == PathSpec => []WindowInv
<1>1. PathInit => WindowInv
  BY WindowStarts DEF PathInit
<1> QED
  BY <1>1, WindowInductive, PTL DEF PathSpec

\* The running sum, updated by one subtraction and one addition, is the sum
\* of the squares held, for every window length and every sequence of samples
\* (sscb_protection_sample_current_ma).
THEOREM SumIsExact == PathSpec => []SumMatchesWindow
<1>1. WindowInv => SumMatchesWindow
  <2>1. SUFFICES ASSUME WindowInv PROVE SumMatchesWindow
    OBVIOUS
  <2>2. IsFiniteSet(Slots)
    BY SlotsFinite
  <2>3. sum_sq_a2 = Total([i \in Slots |-> Square(Amps(samples_ma[i]))], Slots)
    BY <2>1 DEF WindowInv, SumHeld, Squares
  <2>4. sum_sq_a2 = MapThenSumSet(LAMBDA i : Square(Amps(samples_ma[i])), Slots)
    BY <2>2, <2>3, SumOfAmpSquares
  <2> QED
    BY <2>4 DEF SumMatchesWindow, Slots
<1> QED
  BY <1>1, WindowTyped, PTL
-----------------------------------------------------------------------------
(* The converters.                                                         *)

\* The amplified current of a count is not narrowed.
LEMMA PgaExact ==
  ASSUME NEW c \in Counts
  PROVE  /\ Quotient(PgaMilliamps(c), 100) \in Int
         /\ CurrentPgaDa(c) = Quotient(PgaMilliamps(c), 100)
<1> DEFINE q == Quotient(PgaMilliamps(c), 100)
<1>1. -32768 <= q /\ q < 32768
  BY GainsAssumption
<1>2. PgaMilliamps(c) \in Int
  BY AdcAssumption DEF PgaMilliamps, Counts
<1>3. q \in Int
  <2> DEFINE m == PgaMilliamps(c)
  <2> HIDE DEF m
  <2>1. m \in Int => Quotient(m, 100) \in Int
    BY DEF Quotient
  <2> USE DEF m
  <2> QED BY <1>2, <2>1
<1> HIDE DEF q
<1>4. Signed16(q) = q
  BY <1>1, <1>3 DEF Signed16
<1> QED
  BY <1>3, <1>4 DEF CurrentPgaDa, q

LEMMA VoltageExact ==
  ASSUME NEW c \in Counts
  PROVE  VoltageDv(c) = (c * VoltageGain) \div 100
<1> DEFINE mv == c * VoltageGain
<1>1. mv < 6553600
  BY GainsAssumption
<1>2. mv \in Nat
  BY AdcAssumption DEF Counts
<1> HIDE DEF mv
<1>3. Unsigned16(mv \div 100) = mv \div 100
  BY <1>1, <1>2 DEF Unsigned16
<1> QED
  BY <1>3 DEF VoltageDv, mv

LEMMA RawWraps ==
  ASSUME NEW c \in Counts
  PROVE  LET raw == RawMilliamps(c) \div 100
         IN  /\ CurrentRawDa(c) = raw <=> raw < 32768
             /\ raw >= 32768 => CurrentRawDa(c) < 0
<1> DEFINE ma == RawMilliamps(c)
           raw == ma \div 100
<1>1. ma < 6553600
  BY GainsAssumption DEF RawMilliamps
<1>2. ma \in Nat
  BY AdcAssumption DEF RawMilliamps, Counts
<1> HIDE DEF ma
<1>3. raw \in Nat /\ raw < 65536
  BY <1>1, <1>2
<1>4. Quotient(ma, 100) = raw
  BY <1>2 DEF Quotient
<1> HIDE DEF raw
<1>5. Signed16(raw) = (IF raw < 32768 THEN raw ELSE raw - 65536)
  BY <1>3 DEF Signed16
<1>6. CurrentRawDa(c) = (IF raw < 32768 THEN raw ELSE raw - 65536)
  BY <1>4, <1>5 DEF CurrentRawDa, ma
<1>7. (CurrentRawDa(c) = raw <=> raw < 32768) /\ (raw >= 32768 => CurrentRawDa(c) < 0)
  BY <1>3, <1>6
<1> QED
  BY <1>7 DEF raw, ma

\* The measurements are those of the observed counts.
MeasuredInv ==
  /\ counts.pga \in Counts /\ counts.other \in Counts
  /\ measured = Convert(counts.pga, counts.other)

LEMMA MeasuredHeld == PathSpec => []MeasuredInv
<1>1. PathInit => MeasuredInv
  <2>1. 0 \in Counts
    BY DEF Counts
  <2> QED BY <2>1 DEF PathInit, MeasuredInv
<1>2. ASSUME MeasuredInv, [ReadAndSample]_pathVars PROVE MeasuredInv'
  <2>1. CASE ReadAndSample
    <3>1. PICK pga \in CurrentCounts, other \in OtherCounts :
            measured' = Convert(pga, other) /\ counts' = [pga |-> pga, other |-> other]
      BY <2>1 DEF ReadAndSample
    <3>2. pga \in Counts /\ other \in Counts
      BY CurrentPathAssumption
    <3>3. counts'.pga = pga /\ counts'.other = other
      BY <3>1
    <3>4. Convert(counts.pga, counts.other)' = Convert(counts'.pga, counts'.other)
      BY DEF Convert
    <3>5. Counts' = Counts
      BY DEF Counts
    <3> QED BY <3>1, <3>2, <3>3, <3>4, <3>5 DEF MeasuredInv
  <2>2. CASE UNCHANGED pathVars
    <3>1. measured' = measured /\ counts' = counts
      BY <2>2 DEF pathVars
    <3>2. Convert(counts.pga, counts.other)' = Convert(counts.pga, counts.other)
      BY <3>1 DEF Convert
    <3>3. Counts' = Counts
      BY DEF Counts
    <3> QED BY <1>2, <3>1, <3>2, <3>3 DEF MeasuredInv
  <2> QED BY <1>2, <2>1, <2>2
<1> QED
  BY <1>1, <1>2, PTL DEF PathSpec

\* With the gains of the source no reading of the voltage or of the amplified
\* current is narrowed, and the unamplified one changes sign exactly where it
\* leaves sixteen bits (sscb_adc_convert_measurements).
THEOREM ReadingsExact == PathSpec => []ChannelsExact
<1>1. MeasuredInv => ChannelsExact
  <2>1. SUFFICES ASSUME MeasuredInv PROVE ChannelsExact
    OBVIOUS
  <2>2. /\ counts.pga \in Counts /\ counts.other \in Counts
        /\ measured.voltage_dv = VoltageDv(counts.other)
        /\ measured.current_pga_da = CurrentPgaDa(counts.pga)
        /\ measured.current_raw_da = CurrentRawDa(counts.other)
    BY <2>1 DEF MeasuredInv, Convert
  <2>3. measured.voltage_dv = (counts.other * VoltageGain) \div 100
    BY <2>2, VoltageExact
  <2>4. measured.current_pga_da = Quotient(PgaMilliamps(counts.pga), 100)
    BY <2>2, PgaExact
  <2> DEFINE raw == RawMilliamps(counts.other) \div 100
             exact == /\ measured.voltage_dv = (counts.other * VoltageGain) \div 100
                      /\ measured.current_pga_da = Quotient(PgaMilliamps(counts.pga), 100)
                      /\ measured.current_raw_da = raw <=> raw < 32768
                      /\ raw >= 32768 => measured.current_raw_da < 0
  <2>5. measured.current_raw_da = raw <=> raw < 32768
    BY <2>2, RawWraps
  <2>6. raw >= 32768 => measured.current_raw_da < 0
    BY <2>2, RawWraps
  <2>7. exact
    <3> HIDE DEF raw
    <3> QED BY <2>3, <2>4, <2>5, <2>6
  <2> QED
    <3> SUFFICES exact
      BY DEF ChannelsExact
    <3> HIDE DEF exact
    <3> QED BY <2>7
<1> QED
  BY <1>1, MeasuredHeld, PTL
-----------------------------------------------------------------------------
(* Loops: functions that call themselves last, on a smaller argument.      *)

IsLoop(f, D, stop, val, next) ==
  f = [p \in D |-> IF p \in stop THEN val[p] ELSE f[next[p]]]

\* Every argument that does not stop the loop leads to one of lower rank.
Falls(D, stop, next, rank) ==
  /\ \A p \in D : rank[p] \in Nat
  /\ \A p \in D \ stop : next[p] \in D /\ rank[next[p]] < rank[p]

\* Two unfoldings of a loop agree where both are defined.
LEMMA LoopsAgree ==
  ASSUME NEW D, NEW R, NEW stop, NEW val, NEW next, NEW rank,
         Falls(D, stop, next, rank), Falls(R, stop, next, rank),
         NEW f, NEW g, IsLoop(f, D, stop, val, next), IsLoop(g, R, stop, val, next),
         NEW q \in D, q \in R
  PROVE  f[q] = g[q]
<1> DEFINE Bad == {p \in D : p \in R /\ f[p] # g[p]}
           Ranks == {rank[p] : p \in Bad}
<1>1. SUFFICES ASSUME Bad # {} PROVE FALSE
  OBVIOUS
<1>2. Ranks \in SUBSET Nat /\ Ranks # {}
  BY <1>1 DEF Falls
<1>3. PICK n \in Ranks : \A m \in Ranks : n <= m
  <2> HIDE DEF Ranks
  <2> QED BY <1>2, LeastNatural
<1>4. PICK p \in Bad : n = rank[p]
  <2> HIDE DEF Bad
  <2> QED BY <1>3
<1>5. /\ f[p] = (IF p \in stop THEN val[p] ELSE f[next[p]])
      /\ g[p] = (IF p \in stop THEN val[p] ELSE g[next[p]])
  BY <1>4 DEF IsLoop
<1>6. p \notin stop
  BY <1>4, <1>5
<1>7. next[p] \in D /\ next[p] \in R /\ rank[next[p]] < rank[p] /\ rank[p] \in Nat /\ rank[next[p]] \in Nat
  BY <1>4, <1>6 DEF Falls
<1>8. next[p] \in Bad
  BY <1>4, <1>5, <1>6, <1>7
<1>9. rank[next[p]] \in Ranks
  <2> HIDE DEF Bad
  <2> QED BY <1>8
<1> QED
  BY <1>3, <1>4, <1>7, <1>9

\* A loop whose arguments have a falling rank is a function.
LEMMA LoopExists ==
  ASSUME NEW D, NEW stop, NEW val, NEW next, NEW rank,
         Falls(D, stop, next, rank)
  PROVE  \E f : IsLoop(f, D, stop, val, next)
<1> DEFINE Part(n) == {p \in D : rank[p] < n}
           Loop(f, n) == IsLoop(f, Part(n), stop, val, next)
           Bad == {n \in Nat : ~ \E f : Loop(f, n)}
<1>1. Bad = {}
  <2>1. SUFFICES ASSUME Bad # {} PROVE FALSE
    OBVIOUS
  <2>2. PICK n \in Bad : \A m \in Bad : n <= m
    <3>1. Bad \in SUBSET Nat
      OBVIOUS
    <3> HIDE DEF Bad
    <3> QED BY <2>1, <3>1, LeastNatural
  <2> DEFINE before == CHOOSE f : Loop(f, n - 1)
             body(f) == [p \in Part(n) |-> IF p \in stop THEN val[p] ELSE f[next[p]]]
             g == body(before)
  <2>3. ASSUME NEW p \in Part(n), p \notin stop
        PROVE  g[next[p]] = before[next[p]]
    <3>1. p \in D /\ rank[p] \in Nat /\ rank[p] < n /\ n \in Nat
      BY <2>2, <2>3 DEF Falls
    <3>2. next[p] \in D /\ rank[next[p]] < rank[p] /\ rank[next[p]] \in Nat
      BY <3>1, <2>3 DEF Falls
    <3>3. n - 1 \in Nat /\ n - 1 \notin Bad
      <4> HIDE DEF Bad
      <4> QED BY <2>2, <3>1, <3>2
    <3>4. Loop(before, n - 1)
      <4>1. \E f : Loop(f, n - 1)
        BY <3>3
      <4> HIDE DEF Loop
      <4> QED BY <4>1
    <3>5. next[p] \in Part(n - 1) /\ next[p] \in Part(n)
      BY <3>1, <3>2
    <3> DEFINE q == next[p]
    <3>6. before[q] = (IF q \in stop THEN val[q] ELSE before[next[q]])
      <4> HIDE DEF Part, before, q
      <4>1. q \in Part(n - 1)
        BY <3>5 DEF q
      <4> QED BY <3>4, <4>1 DEF IsLoop
    <3>7. g[q] = (IF q \in stop THEN val[q] ELSE before[next[q]])
      <4> HIDE DEF Part, before
      <4> QED BY <3>5
    <3> HIDE DEF before, g
    <3> QED BY <3>6, <3>7
  <2>4. body(g) = body(before)
    <3>1. \A p \in Part(n) : (IF p \in stop THEN val[p] ELSE g[next[p]])
                                = (IF p \in stop THEN val[p] ELSE before[next[p]])
      <4> HIDE DEF g, before, Part
      <4> QED BY <2>3
    <3> DEFINE h == g
    <3>2. \A p \in Part(n) : (IF p \in stop THEN val[p] ELSE h[next[p]])
                                = (IF p \in stop THEN val[p] ELSE before[next[p]])
      BY <3>1
    <3> HIDE DEF h, before, Part
    <3>3. body(h) = body(before)
      BY <3>2
    <3> USE DEF h
    <3> QED BY <3>3
  <2>5. Loop(g, n)
    <3>1. g = body(g)
      <4> HIDE DEF body
      <4> QED BY <2>4
    <3> HIDE DEF g, Part
    <3> QED BY <3>1 DEF IsLoop
  <2> HIDE DEF Loop, g
  <2> QED
    BY <2>2, <2>5
<1> DEFINE Of(n) == CHOOSE f : Loop(f, n)
           Value(p) == Of(rank[p] + 1)[p]
           whole == [p \in D |-> Value(p)]
<1>2. ASSUME NEW n \in Nat PROVE Loop(Of(n), n)
  <2>1. \E f : Loop(f, n)
    BY <1>1
  <2> HIDE DEF Loop
  <2> QED BY <2>1
<1>3. ASSUME NEW p \in D
      PROVE  Value(p) = IF p \in stop THEN val[p] ELSE Value(next[p])
  <2> DEFINE n == rank[p] + 1
  <2>1. n \in Nat /\ p \in Part(n)
    BY DEF Falls
  <2>2. Loop(Of(n), n)
    BY <1>2, <2>1
  <2>3. Value(p) = IF p \in stop THEN val[p] ELSE Of(n)[next[p]]
    <3> DEFINE f == Of(n)
    <3>1. f[p] = IF p \in stop THEN val[p] ELSE f[next[p]]
      <4> HIDE DEF f, Part, n
      <4>1. IsLoop(f, Part(n), stop, val, next)
        BY <2>2 DEF f
      <4> QED BY <2>1, <4>1 DEF IsLoop
    <3> HIDE DEF Of
    <3> QED BY <3>1
  <2>4. ASSUME p \notin stop PROVE Of(n)[next[p]] = Value(next[p])
    <3> DEFINE q == next[p]
               m == rank[q] + 1
    <3>1. q \in D /\ m \in Nat /\ q \in Part(m) /\ q \in Part(n)
      BY <2>4 DEF Falls
    <3>2. Loop(Of(m), m)
      BY <1>2, <3>1
    <3>3. ASSUME NEW k \in Nat PROVE Falls(Part(k), stop, next, rank)
      <4>1. ASSUME NEW r \in Part(k) \ stop PROVE next[r] \in Part(k) /\ rank[next[r]] < rank[r]
        <5>1. r \in D \ stop /\ rank[r] \in Nat /\ rank[r] < k
          BY DEF Falls
        <5>2. next[r] \in D /\ rank[next[r]] < rank[r] /\ rank[next[r]] \in Nat
          BY <5>1 DEF Falls
        <5> QED BY <5>1, <5>2
      <4> QED BY <4>1 DEF Falls
    <3> DEFINE f == Of(n)
               g == Of(m)
    <3>4. IsLoop(f, Part(n), stop, val, next) /\ IsLoop(g, Part(m), stop, val, next)
      BY <2>2, <3>2
    <3>5. f[q] = g[q]
      <4>1. n \in Nat /\ m \in Nat
        BY <2>1, <3>1
      <4>2. Falls(Part(n), stop, next, rank) /\ Falls(Part(m), stop, next, rank)
        <5> HIDE DEF Part, m, n
        <5> QED BY <3>3, <4>1
      <4> HIDE DEF f, g, Part, q, m, n
      <4> QED BY <3>1, <3>4, <4>2, LoopsAgree
    <3> HIDE DEF Of
    <3> QED BY <3>5 DEF f, g, q, m
  <2> HIDE DEF Value, Of
  <2> QED BY <2>3, <2>4
<1>4. IsLoop(whole, D, stop, val, next)
  <2>1. \A p \in D : Value(p) = IF p \in stop THEN val[p] ELSE whole[next[p]]
    <3> HIDE DEF Value
    <3>1. \A p \in D \ stop : whole[next[p]] = Value(next[p])
      BY DEF Falls
    <3> HIDE DEF whole
    <3> QED BY <1>3, <3>1
  <2> DEFINE h == whole
  <2>2. h = [p \in D |-> Value(p)]
    OBVIOUS
  <2>3. \A p \in D : Value(p) = IF p \in stop THEN val[p] ELSE h[next[p]]
    BY <2>1
  <2> HIDE DEF Value, h
  <2>4. h = [p \in D |-> IF p \in stop THEN val[p] ELSE h[next[p]]]
    BY <2>2, <2>3
  <2>5. IsLoop(h, D, stop, val, next)
    BY <2>4 DEF IsLoop
  <2> USE DEF h
  <2> QED BY <2>5
<1> QED
  <2> HIDE DEF whole
  <2> QED BY <1>4
-----------------------------------------------------------------------------
(* The integer square root.                                                *)

LEMMA MultipleLeavesNothing ==
  ASSUME NEW d \in Nat, d > 0, NEW m \in Nat
  PROVE  (d * m) % d = 0
<1> DEFINE n == d * m
           k == n \div d
           r == n % d
<1>1. n \in Nat
  OBVIOUS
<1> HIDE DEF n
<1>2. k \in Int /\ r \in Int /\ n = d * k + r /\ 0 <= r /\ r < d
  BY <1>1
<1> HIDE DEF k, r
<1>3. d * m = d * k + r
  BY <1>2 DEF n
<1> DEFINE e == m - k
<1>4. e \in Int /\ d * e = r
  BY <1>2, <1>3
<1> HIDE DEF e
<1>5. CASE e > 0
  <2>1. d * e >= d
    BY <1>4, <1>5
  <2> QED BY <1>2, <1>4, <2>1
<1>6. CASE e < 0
  <2>1. d * e <= -d
    BY <1>4, <1>6
  <2> QED BY <1>2, <1>4, <2>1
<1>7. CASE e = 0
  <2>1. r = 0
    BY <1>4, <1>7
  <2> QED BY <2>1 DEF r, n
<1> QED
  BY <1>4, <1>5, <1>6, <1>7

LEMMA DividesItself ==
  ASSUME NEW d \in Nat, d > 0, NEW k \in Nat, k % d = 0
  PROVE  \E m \in Nat : k = d * m
<1> DEFINE m == k \div d
<1>1. m \in Int /\ k = d * m
  OBVIOUS
<1> HIDE DEF m
<1>2. m < 0 => d * m < 0
  BY <1>1
<1> QED
  BY <1>1, <1>2

\* Half a power of two is a power of two.
LEMMA HalfPower ==
  ASSUME NEW h, PowerOfTwo(h), h # 1
  PROVE  \E k \in Nat : PowerOfTwo(k) /\ h = 2 * k
<1>1. h \in Nat /\ h > 0
  BY DEF PowerOfTwo
<1>2. h % 2 # 1
  <2>1. h \in 1 .. h /\ h % h = 0
    <3>1. h * 1 = h
      BY <1>1
    <3> QED BY <1>1, <3>1, MultipleLeavesNothing
  <2> QED BY <2>1 DEF PowerOfTwo
<1> DEFINE k == h \div 2
<1>3. k \in Nat /\ k > 0 /\ h = 2 * k
  BY <1>1, <1>2
<1> HIDE DEF k
<1>4. ASSUME NEW d \in 1 .. k, k % d = 0, d % 2 = 1 PROVE d = 1
  <2>1. d \in Nat /\ d > 0 /\ d <= k
    BY <1>3
  <2>2. PICK m \in Nat : k = d * m
    BY <1>3, <1>4, <2>1, DividesItself
  <2>3. 2 * m \in Nat /\ h = d * (2 * m)
    BY <1>3, <2>1, <2>2
  <2>4. h % d = 0
    BY <2>1, <2>3, MultipleLeavesNothing
  <2>5. d \in 1 .. h
    BY <1>3, <2>1
  <2> QED BY <1>4, <2>4, <2>5 DEF PowerOfTwo
<1>5. PowerOfTwo(k)
  BY <1>3, <1>4 DEF PowerOfTwo
<1> QED
  BY <1>3, <1>5

LEMMA DescendLoops ==
  ASSUME NEW v \in Locals
  PROVE  Descend[v] = IF v.one > v.op THEN Descend[Quarter(v)] ELSE v
<1> DEFINE IsDescend(f) == f = [u \in Locals |-> IF u.one > u.op THEN f[Quarter(u)] ELSE u]
           stop == {u \in Locals : ~ (u.one > u.op)}
           val == [u \in Locals |-> u]
           next == [u \in Locals |-> Quarter(u)]
           rank == [u \in Locals |-> u.one]
<1>1. Descend = CHOOSE f : IsDescend(f)
  BY Zenon DEF Descend
<1>2. Falls(Locals, stop, next, rank)
  <2>1. \A u \in Locals : rank[u] = u.one /\ u.one \in Nat /\ u.op \in Nat
    BY DEF Locals
  <2>2. ASSUME NEW u \in Locals \ stop PROVE next[u] \in Locals /\ rank[next[u]] < rank[u]
    <3>1. u.one > u.op /\ next[u] = Quarter(u)
      OBVIOUS
    <3>2. Quarter(u) \in Locals /\ Quarter(u).one = u.one \div 4
      BY DEF Quarter, Locals
    <3>3. u.one \div 4 < u.one
      BY <2>1, <3>1
    <3> HIDE DEF next, rank
    <3> QED BY <2>1, <3>1, <3>2, <3>3
  <2> HIDE DEF stop, next, rank
  <2> QED BY <2>1, <2>2 DEF Falls
<1>3. PICK f : IsLoop(f, Locals, stop, val, next)
  <2> HIDE DEF stop, val, next, rank
  <2> QED BY <1>2, LoopExists
<1>4. \A u \in Locals : (IF u \in stop THEN val[u] ELSE f[next[u]])
                          = (IF u.one > u.op THEN f[Quarter(u)] ELSE u)
  OBVIOUS
<1>5. IsDescend(f)
  <2> HIDE DEF stop, val, next
  <2>1. f = [u \in Locals |-> IF u \in stop THEN val[u] ELSE f[next[u]]]
    BY <1>3 DEF IsLoop
  <2> QED BY <1>4, <2>1
<1>6. IsDescend(Descend)
  <2> HIDE DEF IsDescend
  <2> QED BY <1>1, <1>5
<1> QED
  <2> DEFINE g == Descend
  <2>1. g = [u \in Locals |-> IF u.one > u.op THEN g[Quarter(u)] ELSE u]
    BY <1>6
  <2> HIDE DEF g
  <2>2. g[v] = IF v.one > v.op THEN g[Quarter(v)] ELSE v
    BY <2>1
  <2> USE DEF g
  <2> QED BY <2>2

LEMMA BitsLoops ==
  ASSUME NEW v \in Locals
  PROVE  Bits[v] = IF v.one = 0 THEN v.res ELSE Bits[TryBit(v)]
<1> DEFINE IsBits(f) == f = [u \in Locals |-> IF u.one = 0 THEN u.res ELSE f[TryBit(u)]]
           stop == {u \in Locals : u.one = 0}
           val == [u \in Locals |-> u.res]
           next == [u \in Locals |-> TryBit(u)]
           rank == [u \in Locals |-> u.one]
<1>1. Bits = CHOOSE f : IsBits(f)
  BY Zenon DEF Bits
<1>2. Falls(Locals, stop, next, rank)
  <2>1. \A u \in Locals : rank[u] = u.one /\ u.one \in Nat
    BY DEF Locals
  <2>2. ASSUME NEW u \in Locals \ stop PROVE next[u] \in Locals /\ rank[next[u]] < rank[u]
    <3>1. u.one # 0 /\ next[u] = TryBit(u)
      OBVIOUS
    <3>2. TryBit(u) \in Locals /\ TryBit(u).one = u.one \div 4
      BY DEF TryBit, Locals
    <3>3. u.one \div 4 < u.one
      BY <2>1, <3>1
    <3> HIDE DEF next, rank
    <3> QED BY <2>1, <3>1, <3>2, <3>3
  <2> HIDE DEF stop, next, rank
  <2> QED BY <2>1, <2>2 DEF Falls
<1>3. PICK f : IsLoop(f, Locals, stop, val, next)
  <2> HIDE DEF stop, val, next, rank
  <2> QED BY <1>2, LoopExists
<1>4. \A u \in Locals : (IF u \in stop THEN val[u] ELSE f[next[u]])
                          = (IF u.one = 0 THEN u.res ELSE f[TryBit(u)])
  OBVIOUS
<1>5. IsBits(f)
  <2> HIDE DEF stop, val, next
  <2>1. f = [u \in Locals |-> IF u \in stop THEN val[u] ELSE f[next[u]]]
    BY <1>3 DEF IsLoop
  <2> QED BY <1>4, <2>1
<1>6. IsBits(Bits)
  <2> HIDE DEF IsBits
  <2> QED BY <1>1, <1>5
<1> QED
  <2> DEFINE g == Bits
  <2>1. g = [u \in Locals |-> IF u.one = 0 THEN u.res ELSE g[TryBit(u)]]
    BY <1>6
  <2> HIDE DEF g
  <2>2. g[v] = IF v.one = 0 THEN v.res ELSE g[TryBit(v)]
    BY <2>1
  <2> USE DEF g
  <2> QED BY <2>2

\* The trial bit of isqrt_u64 is the square of a power of two.
BitOf(v, h) ==
  /\ v \in Locals /\ h \in Nat /\ v.one = h * h
  /\ h # 0 => PowerOfTwo(h)

\* The loop over the bits: q is the part of the root found so far.
RootSoFar(v, x, q, h) ==
  /\ BitOf(v, h) /\ q \in Nat
  /\ q * q <= x
  /\ h = 0 => v.res = q /\ x < (q + 1) * (q + 1)
  /\ h # 0 => /\ v.res = 2 * (q * h) /\ v.op = x - q * q
             /\ x < (q + 2 * h) * (q + 2 * h)

IsRoot(r, x) == r \in Nat /\ r * r <= x /\ x < (r + 1) * (r + 1)

\* The bit of the next step.
Halves(k, h) ==
  /\ k # 0 => PowerOfTwo(k)
  /\ k * k = (h * h) \div 4
  /\ k = 0 => h = 1
  /\ k # 0 => h = 2 * k

LEMMA NextBitOf ==
  ASSUME NEW h \in Nat, PowerOfTwo(h)
  PROVE  \E k \in Nat : Halves(k, h)
<1>1. CASE h = 1
  <2>1. 0 \in Nat /\ 0 * 0 = (1 * 1) \div 4
    OBVIOUS
  <2> QED BY <1>1, <2>1 DEF Halves
<1>2. CASE h # 1
  <2>1. PICK k \in Nat : PowerOfTwo(k) /\ h = 2 * k
    BY <1>2, HalfPower
  <2>2. k # 0
    BY <2>1 DEF PowerOfTwo
  <2>3. (h * h) \div 4 = k * k
    <3> DEFINE n == k * k
    <3>1. h * h = 4 * n /\ n \in Nat
      BY <2>1
    <3> HIDE DEF n
    <3>2. (4 * n) \div 4 = n
      BY <3>1
    <3> QED BY <3>1, <3>2 DEF n
  <2> QED BY <2>1, <2>2, <2>3 DEF Halves
<1> QED
  BY <1>1, <1>2

\* One step of the second loop: the bit is taken exactly when the root of x
\* is at least q + h.
LEMMA BitTried ==
  ASSUME NEW x \in Nat, NEW v, NEW q, NEW h, RootSoFar(v, x, q, h), h # 0
  PROVE  \E t \in Nat :
           /\ TryBit(v).res = t * h /\ TryBit(v).op = x - t * t
           /\ t * t <= x /\ x < (t + h) * (t + h)
           /\ TryBit(v) \in Locals /\ TryBit(v).one = (h * h) \div 4
<1>1. /\ v \in Locals /\ h \in Nat /\ v.one = h * h /\ q \in Nat
      /\ q * q <= x /\ v.res = 2 * (q * h) /\ v.op = x - q * q
      /\ x < (q + 2 * h) * (q + 2 * h)
  BY DEF RootSoFar, BitOf
<1>2. TryBit(v) \in Locals /\ TryBit(v).one = (h * h) \div 4
  <2>1. v.op \in Nat /\ v.res \in Nat /\ v.one \in Nat
    BY <1>1 DEF Locals
  <2>2. TryBit(v) \in Locals
    BY <2>1 DEF TryBit, Locals
  <2>3. TryBit(v).one = v.one \div 4
    BY DEF TryBit
  <2> QED BY <1>1, <2>2, <2>3
<1> DEFINE taken == v.op >= v.res + v.one
<1>3. /\ TryBit(v).res = (IF taken THEN v.res \div 2 + v.one ELSE v.res \div 2)
      /\ TryBit(v).op = (IF taken THEN v.op - (v.res + v.one) ELSE v.op)
  BY DEF TryBit
<1>4. v.res \div 2 = q * h
  <2> DEFINE n == q * h
  <2>1. n \in Nat
    BY <1>1
  <2> HIDE DEF n
  <2>2. (2 * n) \div 2 = n
    BY <2>1
  <2> QED BY <1>1, <2>2 DEF n
<1>5. (q + h) * (q + h) = q * q + 2 * (q * h) + h * h
  BY <1>1
<1>6. q * q \in Nat /\ q * h \in Nat /\ h * h \in Nat
  BY <1>1
<1>7. taken <=> (q + h) * (q + h) <= x
  BY <1>1, <1>5, <1>6
<1>8. CASE taken
  <2>1. TryBit(v).res = (q + h) * h
    <3>1. (q + h) * h = q * h + h * h
      BY <1>1
    <3> QED BY <1>1, <1>3, <1>4, <1>8, <3>1
  <2>2. TryBit(v).op = x - (q + h) * (q + h)
    <3>1. TryBit(v).op = v.op - (v.res + v.one)
      BY <1>3, <1>8
    <3> QED BY <1>1, <1>5, <1>6, <3>1
  <2>3. q + h \in Nat /\ (q + h) + h = q + 2 * h
    BY <1>1
  <2>4. x < ((q + h) + h) * ((q + h) + h)
    BY <1>1, <2>3
  <2> QED BY <1>2, <1>7, <1>8, <2>1, <2>2, <2>3, <2>4
<1>9. CASE ~ taken
  <2>1. TryBit(v).res = q * h /\ TryBit(v).op = x - q * q
    BY <1>1, <1>3, <1>4, <1>9
  <2>2. x < (q + h) * (q + h)
    <3>1. (q + h) * (q + h) \in Nat /\ ~ ((q + h) * (q + h) <= x)
      BY <1>1, <1>7, <1>9
    <3> QED BY <3>1
  <2> QED BY <1>1, <1>2, <2>1, <2>2
<1> QED
  BY <1>8, <1>9

LEMMA BitKept ==
  ASSUME NEW x \in Nat, NEW v, NEW q, NEW h, RootSoFar(v, x, q, h), h # 0
  PROVE  /\ \E t, k \in Nat : RootSoFar(TryBit(v), x, t, k)
         /\ TryBit(v).one < v.one
<1>1. h \in Nat /\ PowerOfTwo(h) /\ v.one = h * h
  BY DEF RootSoFar, BitOf
<1>2. PICK t \in Nat :
        /\ TryBit(v).res = t * h /\ TryBit(v).op = x - t * t
        /\ t * t <= x /\ x < (t + h) * (t + h)
        /\ TryBit(v) \in Locals /\ TryBit(v).one = (h * h) \div 4
  BY BitTried
<1>3. PICK k \in Nat : Halves(k, h)
  BY <1>1, NextBitOf
<1>4. BitOf(TryBit(v), k)
  BY <1>2, <1>3 DEF BitOf, Halves
<1>5. ASSUME k = 0 PROVE RootSoFar(TryBit(v), x, t, k)
  <2>1. TryBit(v).res = t /\ x < (t + 1) * (t + 1)
    BY <1>2, <1>3, <1>5 DEF Halves
  <2>2. RootSoFar(TryBit(v), x, t, k)
    BY <1>2, <1>4, <1>5, <2>1 DEF RootSoFar
  <2> QED BY <2>2
<1>6. ASSUME k # 0 PROVE RootSoFar(TryBit(v), x, t, k)
  <2>1. h = 2 * k
    BY <1>3, <1>6 DEF Halves
  <2>2. t * h = 2 * (t * k)
    BY <2>1, <1>2, <1>3
  <2>3. TryBit(v).res = 2 * (t * k) /\ x < (t + 2 * k) * (t + 2 * k)
    BY <1>2, <2>1, <2>2
  <2>4. RootSoFar(TryBit(v), x, t, k)
    BY <1>2, <1>4, <1>6, <2>3 DEF RootSoFar
  <2> QED BY <2>4
<1>7. TryBit(v).one < v.one
  <2> DEFINE n == h * h
  <2>1. n \in Nat /\ n > 0
    BY <1>1 DEF PowerOfTwo
  <2> HIDE DEF n
  <2>2. n \div 4 < n
    BY <2>1
  <2> QED BY <1>1, <1>2, <2>2 DEF n
<1> QED
  BY <1>2, <1>3, <1>5, <1>6, <1>7

\* From any point of the second loop the root is found.
LEMMA BitsFindRoot ==
  ASSUME NEW x \in Nat, NEW v, NEW q, NEW h, RootSoFar(v, x, q, h)
  PROVE  IsRoot(Bits[v], x)
<1> DEFINE On(u) == \E t, k \in Nat : RootSoFar(u, x, t, k)
           Bad == {u \in Locals : On(u) /\ ~ IsRoot(Bits[u], x)}
           Ones == {u.one : u \in Bad}
<1>1. v \in Locals /\ On(v)
  <2>1. q \in Nat /\ h \in Nat /\ v \in Locals
    BY DEF RootSoFar, BitOf
  <2> QED BY <2>1
<1>2. SUFFICES ASSUME Bad # {} PROVE FALSE
  <2>1. v \notin Bad => IsRoot(Bits[v], x)
    BY <1>1
  <2> HIDE DEF Bad
  <2> QED BY <2>1
<1>3. Ones \in SUBSET Nat /\ Ones # {}
  <2>1. \A u \in Bad : u.one \in Nat
    BY DEF Locals
  <2> HIDE DEF Bad
  <2> QED BY <1>2, <2>1
<1>4. PICK n \in Ones : \A m \in Ones : n <= m
  <2> HIDE DEF Ones
  <2> QED BY <1>3, LeastNatural
<1>5. PICK u \in Bad : n = u.one
  <2> HIDE DEF Bad
  <2> QED BY <1>4
<1>6. PICK t \in Nat, k \in Nat : RootSoFar(u, x, t, k)
  BY <1>5
<1>7. u \in Locals /\ ~ IsRoot(Bits[u], x)
  BY <1>5
<1>8. Bits[u] = IF u.one = 0 THEN u.res ELSE Bits[TryBit(u)]
  BY <1>7, BitsLoops
<1>9. k # 0
  <2>1. SUFFICES ASSUME k = 0 PROVE FALSE
    OBVIOUS
  <2>2. u.one = 0 /\ u.res = t /\ t * t <= x /\ x < (t + 1) * (t + 1)
    <3>1. u.one = k * k
      BY <1>6 DEF RootSoFar, BitOf
    <3> QED BY <1>6, <2>1, <3>1 DEF RootSoFar
  <2> QED BY <1>7, <1>8, <2>2 DEF IsRoot
<1>10. On(TryBit(u)) /\ TryBit(u).one < u.one
  <2> HIDE DEF Bad
  <2> QED BY <1>6, <1>9, BitKept
<1>11. TryBit(u) \in Locals /\ u.one # 0
  <2>1. TryBit(u) \in Locals
    BY <1>6, <1>9, BitTried
  <2>2. u.one = k * k
    BY <1>6 DEF RootSoFar, BitOf
  <2>3. k * k # 0
    BY <1>9
  <2> QED BY <2>1, <2>2, <2>3
<1>12. TryBit(u) \in Bad
  <2> HIDE DEF On
  <2> QED BY <1>7, <1>8, <1>10, <1>11
<1>13. TryBit(u).one \in Ones
  <2> HIDE DEF Bad
  <2> QED BY <1>12
<1>14. TryBit(u).one \in Nat /\ u.one \in Nat
  BY <1>7, <1>11 DEF Locals
<1> QED
  <2>1. u.one <= TryBit(u).one
    <3> HIDE DEF Ones
    <3> QED BY <1>4, <1>5, <1>13
  <2> QED BY <2>1, <1>10, <1>14

\* The first loop: the trial bit is at most four times too small.
HighBit(v, x, h) ==
  /\ BitOf(v, h) /\ v.res = 0 /\ v.op = x
  /\ h = 0 => x = 0
  /\ h # 0 => x < 4 * (h * h)

LEMMA QuarterKept ==
  ASSUME NEW x \in Nat, NEW v, NEW h, HighBit(v, x, h), v.one > v.op
  PROVE  /\ \E k \in Nat : HighBit(Quarter(v), x, k)
         /\ Quarter(v) \in Locals /\ Quarter(v).one < v.one
<1>1. /\ h \in Nat /\ v.one = h * h /\ v.res = 0 /\ v.op = x /\ v \in Locals
      /\ h # 0 => PowerOfTwo(h)
  BY DEF HighBit, BitOf
<1>2. h # 0 /\ x < h * h
  <2>1. h = 0 => h * h = 0
    BY <1>1
  <2> QED BY <1>1, <2>1
<1>3. PICK k \in Nat : Halves(k, h)
  BY <1>1, <1>2, NextBitOf
<1>4. /\ Quarter(v).one = v.one \div 4 /\ Quarter(v).res = 0 /\ Quarter(v).op = x
      /\ Quarter(v) \in Locals
  BY <1>1 DEF Quarter, Locals
<1>5. BitOf(Quarter(v), k)
  BY <1>1, <1>3, <1>4 DEF BitOf, Halves
<1>6. k = 0 => x = 0
  <2>1. SUFFICES ASSUME k = 0 PROVE x = 0
    OBVIOUS
  <2>2. x < 1 * 1
    BY <1>2, <1>3, <2>1 DEF Halves
  <2> QED BY <2>2
<1>7. k # 0 => x < 4 * (k * k)
  <2>1. SUFFICES ASSUME k # 0 PROVE x < 4 * (k * k)
    OBVIOUS
  <2>2. h = 2 * k
    BY <1>3, <2>1 DEF Halves
  <2>3. h * h = 4 * (k * k)
    BY <2>2
  <2> QED BY <1>2, <2>3
<1>8. HighBit(Quarter(v), x, k)
  BY <1>4, <1>5, <1>6, <1>7 DEF HighBit
<1>9. Quarter(v).one < v.one
  <2>1. v.one \in Nat /\ v.one > 0
    BY <1>1 DEF Locals
  <2>2. v.one \div 4 < v.one
    BY <2>1
  <2> QED BY <1>4, <2>2
<1> QED
  BY <1>4, <1>8, <1>9

\* Where the first loop stops, the second may start with no bit found.
LEMMA HighBitStops ==
  ASSUME NEW x \in Nat, NEW v, NEW h, HighBit(v, x, h), ~ (v.one > v.op)
  PROVE  RootSoFar(v, x, 0, h)
<1>1. /\ h \in Nat /\ v.res = 0 /\ v.op = x /\ BitOf(v, h)
      /\ h = 0 => x = 0
      /\ h # 0 => x < 4 * (h * h)
  BY DEF HighBit, BitOf
<1>2. 0 * 0 = 0 /\ 2 * (0 * h) = 0 /\ (0 + 1) * (0 + 1) = 1
  BY <1>1
<1>3. (0 + 2 * h) * (0 + 2 * h) = 4 * (h * h)
  BY <1>1
<1>4. 0 * 0 <= x /\ v.op = x - 0 * 0
  BY <1>1, <1>2
<1>5. h = 0 => v.res = 0 /\ x < (0 + 1) * (0 + 1)
  BY <1>1, <1>2
<1>6. h # 0 => /\ v.res = 2 * (0 * h) /\ v.op = x - 0 * 0
               /\ x < (0 + 2 * h) * (0 + 2 * h)
  BY <1>1, <1>2, <1>3, <1>4
<1> QED
  BY <1>1, <1>4, <1>5, <1>6 DEF RootSoFar

LEMMA DescendFindsBit ==
  ASSUME NEW x \in Nat, NEW v, NEW h, HighBit(v, x, h)
  PROVE  \E k \in Nat : RootSoFar(Descend[v], x, 0, k)
<1> DEFINE On(u) == \E k \in Nat : HighBit(u, x, k)
           Found(u) == \E k \in Nat : RootSoFar(Descend[u], x, 0, k)
           Bad == {u \in Locals : On(u) /\ ~ Found(u)}
           Ones == {u.one : u \in Bad}
<1>1. v \in Locals /\ On(v)
  <2>1. h \in Nat /\ v \in Locals
    BY DEF HighBit, BitOf
  <2> QED BY <2>1
<1>2. SUFFICES ASSUME Bad # {} PROVE FALSE
  <2>1. v \notin Bad => Found(v)
    BY <1>1
  <2> HIDE DEF Bad
  <2> QED BY <2>1
<1>3. Ones \in SUBSET Nat /\ Ones # {}
  <2>1. \A u \in Bad : u.one \in Nat
    BY DEF Locals
  <2> HIDE DEF Bad
  <2> QED BY <1>2, <2>1
<1>4. PICK n \in Ones : \A m \in Ones : n <= m
  <2> HIDE DEF Ones
  <2> QED BY <1>3, LeastNatural
<1>5. PICK u \in Bad : n = u.one
  <2> HIDE DEF Bad
  <2> QED BY <1>4
<1>6. PICK k \in Nat : HighBit(u, x, k)
  BY <1>5
<1>7. u \in Locals /\ ~ Found(u)
  BY <1>5
<1>8. Descend[u] = IF u.one > u.op THEN Descend[Quarter(u)] ELSE u
  BY <1>7, DescendLoops
<1>9. u.one > u.op
  <2>1. SUFFICES ASSUME ~ (u.one > u.op) PROVE FALSE
    OBVIOUS
  <2>2. RootSoFar(u, x, 0, k)
    BY <1>6, <2>1, HighBitStops
  <2> QED BY <1>7, <1>8, <2>1, <2>2
<1>10. On(Quarter(u)) /\ Quarter(u) \in Locals /\ Quarter(u).one < u.one
  <2> HIDE DEF Bad
  <2> QED BY <1>6, <1>9, QuarterKept
<1>11. ~ Found(Quarter(u))
  BY <1>7, <1>8, <1>9
<1>12. Quarter(u) \in Bad
  <2> HIDE DEF On, Found
  <2> QED BY <1>10, <1>11
<1>13. Quarter(u).one \in Ones
  <2> HIDE DEF Bad
  <2> QED BY <1>12
<1>14. Quarter(u).one \in Nat /\ u.one \in Nat
  BY <1>7, <1>10 DEF Locals
<1> QED
  <2>1. u.one <= Quarter(u).one
    <3> HIDE DEF Ones
    <3> QED BY <1>4, <1>5, <1>13
  <2> QED BY <2>1, <1>10, <1>14

\* isqrt_u64 computes the integer square root of every operand below four
\* times its first bit: r with r^2 <= x < (r + 1)^2.
THEOREM IsqrtIsRoot ==
  ASSUME NEW x \in Nat, x < 4 * TopBit
  PROVE  IsRoot(Isqrt(x), x)
<1> DEFINE start == [op |-> x, res |-> 0, one |-> TopBit]
<1>1. PICK h \in 1 .. TopBit : PowerOfTwo(h) /\ TopBit = h * h
  BY TopBitAssumption
<1>2. h \in Nat /\ h # 0
  BY <1>1 DEF PowerOfTwo
<1>3. HighBit(start, x, h)
  <2>1. start \in Locals
    BY TopBitType DEF Locals
  <2>2. start.op = x /\ start.res = 0 /\ start.one = TopBit
    OBVIOUS
  <2> HIDE DEF start
  <2>3. BitOf(start, h)
    BY <1>1, <1>2, <2>1, <2>2 DEF BitOf
  <2> QED BY <1>1, <1>2, <2>2, <2>3 DEF HighBit
<1> HIDE DEF start
<1>4. PICK k \in Nat : RootSoFar(Descend[start], x, 0, k)
  BY <1>3, DescendFindsBit
<1>5. IsRoot(Bits[Descend[start]], x)
  BY <1>4, BitsFindRoot
<1> QED
  BY <1>5 DEF Isqrt, start
-----------------------------------------------------------------------------
(* The RMS value.                                                          *)

\* rms_a is the root of the mean; of a new window it is zero.
RmsHeld == count > 0 => IsRoot(rms_a, sum_sq_a2 \div count)

\* The quotient of a bounded sum.
LEMMA MeanFacts ==
  ASSUME NEW s \in Nat, NEW n \in Nat, n > 0
  PROVE  /\ s \div n \in Nat
         /\ n * (s \div n) <= s /\ s < n * (s \div n + 1)
         /\ \A top \in Nat : s <= n * top => s \div n <= top
<1> DEFINE m == s \div n
           r == s % n
<1>1. m \in Int /\ r \in Int /\ s = n * m + r /\ 0 <= r /\ r < n
  OBVIOUS
<1> HIDE DEF m, r
<1>2. m >= 0
  <2>1. m < 0 => n * m <= -n
    BY <1>1
  <2> QED BY <1>1, <2>1
<1>3. n * (m + 1) = n * m + n
  BY <1>1
<1>4. n * m <= s /\ s < n * (m + 1)
  BY <1>1, <1>3
<1>5. ASSUME NEW top \in Nat, s <= n * top PROVE m <= top
  <2>1. SUFFICES ASSUME m > top PROVE FALSE
    BY <1>1
  <2>2. n * m >= n * (top + 1)
    BY <1>1, <2>1
  <2>3. n * (top + 1) = n * top + n
    OBVIOUS
  <2>4. n * m \in Int /\ n * top \in Int
    BY <1>1
  <2> QED BY <1>4, <1>5, <2>2, <2>3, <2>4
<1> QED
  BY <1>1, <1>2, <1>4, <1>5 DEF m

LEMMA RmsStep ==
  ASSUME WindowInv, NEW s \in Samples, SampleCurrent(s)
  PROVE  RmsHeld'
<1> DEFINE sum == sum_sq_a2'
           n == count'
           top == 4 * TopBit - 1
<1>1. sum \in Nat /\ n \in Nat /\ n > 0 /\ sum <= n * top
  BY WindowStep DEF WindowInv, WindowShape, SumHeld
<1>2. rms_a' = Isqrt(sum \div n)
  BY DEF SampleCurrent
<1>3. top \in Nat /\ (\A m \in Nat : m <= top => m < 4 * TopBit)
  BY TopBitType
<1> HIDE DEF sum, n, top
<1>4. sum \div n \in Nat /\ sum \div n <= top
  BY <1>1, <1>3, MeanFacts
<1>5. sum \div n < 4 * TopBit
  BY <1>3, <1>4
<1>6. IsRoot(rms_a', sum \div n)
  BY <1>2, <1>4, <1>5, IsqrtIsRoot
<1> QED
  BY <1>6 DEF RmsHeld, sum, n

\* The window holds a hundred times the currents it is made from.
CurrentsHeld ==
  /\ currents \in [Slots -> Int]
  /\ \A i \in Slots : samples_ma[i] = currents[i] * 100

PathInv == WindowInv /\ RmsHeld /\ CurrentsHeld

LEMMA CurrentsStep ==
  ASSUME WindowInv, CurrentsHeld, ReadAndSample
  PROVE  CurrentsHeld'
<1>1. PICK pga \in CurrentCounts :
        /\ SampleCurrent(CurrentPgaDa(pga) * 100)
        /\ currents' = [currents EXCEPT ![index] = Quotient(PgaMilliamps(pga), 100)]
  BY PathSamples
<1> DEFINE c == Quotient(PgaMilliamps(pga), 100)
<1>2. c \in Int /\ CurrentPgaDa(pga) = c
  BY CurrentPathAssumption, PgaExact
<1> HIDE DEF c
<1>3. samples_ma' = [samples_ma EXCEPT ![index] = c * 100]
  BY <1>1, <1>2 DEF SampleCurrent
<1>4. currents' = [currents EXCEPT ![index] = c]
  BY <1>1 DEF c
<1>5. samples_ma \in [Slots -> Samples] /\ index \in Slots
  BY DEF WindowInv, WindowShape
<1>6. currents \in [Slots -> Int] /\ \A i \in Slots : samples_ma[i] = currents[i] * 100
  BY DEF CurrentsHeld
<1>7. currents' \in [Slots -> Int]
  BY <1>2, <1>4, <1>6
<1>8. \A i \in Slots : samples_ma'[i] = currents'[i] * 100
  BY <1>3, <1>4, <1>5, <1>6
<1>9. Slots' = Slots
  BY DEF Slots
<1> QED
  BY <1>7, <1>8, <1>9 DEF CurrentsHeld

LEMMA PathTyped == PathSpec => []PathInv
<1>1. PathInit => PathInv
  <2>1. SUFFICES ASSUME PathInit PROVE PathInv
    OBVIOUS
  <2>2. WindowInv
    BY <2>1, WindowStarts DEF PathInit
  <2>3. RmsHeld
    BY <2>1 DEF PathInit, WindowInit, RmsHeld
  <2>4. CurrentsHeld
    <3>1. currents = [i \in Slots |-> 0] /\ samples_ma = [i \in Slots |-> 0]
      BY <2>1 DEF PathInit, WindowInit, Slots
    <3> QED BY <3>1 DEF CurrentsHeld
  <2> QED
    BY <2>2, <2>3, <2>4 DEF PathInv
<1>2. ASSUME PathInv, [ReadAndSample]_pathVars PROVE PathInv'
  <2>1. WindowInv'
    BY <1>2, WindowInductive DEF PathInv
  <2>2. RmsHeld'
    <3>1. CASE ReadAndSample
      BY <1>2, <3>1, PathSamples, RmsStep DEF PathInv
    <3>2. CASE UNCHANGED pathVars
      <4>1. rms_a' = rms_a /\ count' = count /\ sum_sq_a2' = sum_sq_a2
        BY <3>2 DEF pathVars, windowVars
      <4> QED BY <1>2, <4>1 DEF PathInv, RmsHeld
    <3> QED BY <1>2, <3>1, <3>2
  <2>3. CurrentsHeld'
    <3>1. CASE ReadAndSample
      BY <1>2, <3>1, CurrentsStep DEF PathInv
    <3>2. CASE UNCHANGED pathVars
      <4>1. currents' = currents /\ samples_ma' = samples_ma
        BY <3>2 DEF pathVars, windowVars
      <4> QED BY <1>2, <4>1 DEF PathInv, CurrentsHeld, Slots
    <3> QED BY <1>2, <3>1, <3>2
  <2> QED
    BY <2>1, <2>2, <2>3 DEF PathInv
<1> QED
  BY <1>1, <1>2, PTL DEF PathSpec

\* The value the overload integrator works with is the integer root of the
\* mean square of the samples taken, for every window length and every
\* sequence of samples (sscb_protection_sample_current_ma, isqrt_u64).
THEOREM RmsIsExact == PathSpec => []RmsIsRootOfMean
<1>1. PathInv => RmsIsRootOfMean
  BY DEF PathInv, RmsHeld, RmsIsRootOfMean, IsRoot, Square
<1> QED
  BY <1>1, PathTyped, PTL

\* Whole amperes of a current in tenths, and its square against theirs.
LEMMA TenthsFacts ==
  ASSUME NEW c \in Int
  PROVE  LET a == Amps(c * 100)
         IN  /\ a \in Nat
             /\ 100 * (a * a) <= c * c
             /\ c * c <= 100 * ((a + 1) * (a + 1))
<1> DEFINE k == IF c < 0 THEN -c ELSE c
           a == k \div 10
<1>1. k \in Nat /\ c * c = k * k
  <2>1. (-c) * (-c) = c * c
    OBVIOUS
  <2> QED BY <2>1
<1>2. Amps(c * 100) = a
  <2>1. Amps(c * 100) = (IF c < 0 THEN -(c * 100) ELSE c * 100) \div 1000
    BY DEF Amps
  <2> QED BY <2>1
<1> HIDE DEF k
<1>3. a \in Nat /\ 10 * a <= k /\ k <= 10 * (a + 1)
  BY <1>1
<1> HIDE DEF a
<1>4. (10 * a) * (10 * a) <= k * k /\ k * k <= (10 * (a + 1)) * (10 * (a + 1))
  BY <1>1, <1>3
<1>5. /\ (10 * a) * (10 * a) = 100 * (a * a)
      /\ (10 * (a + 1)) * (10 * (a + 1)) = 100 * ((a + 1) * (a + 1))
  BY <1>3
<1> QED
  BY <1>1, <1>2, <1>3, <1>4, <1>5

\* The bound on one current from which the bound on their sum follows; r is
\* one more than the RMS value.
LEMMA TenthsBound ==
  ASSUME NEW a \in Nat, NEW c \in Int, NEW r \in Nat, c * c <= 100 * ((a + 1) * (a + 1))
  PROVE  r * (c * c) <= (100 * (r + 1)) * (a * a) + 100 * (r * (r + 1))
<1>1. 2 * (a * r) <= a * a + r * r
  <2>1. (a - r) * (a - r) >= 0
    OBVIOUS
  <2>2. (a - r) * (a - r) = a * a - 2 * (a * r) + r * r
    OBVIOUS
  <2> QED BY <2>1, <2>2
<1>2. r * ((a + 1) * (a + 1)) = r * (a * a) + 2 * (a * r) + r
  OBVIOUS
<1>3. (r + 1) * (a * a) = r * (a * a) + a * a
  OBVIOUS
<1>4. r * (r + 1) = r * r + r
  OBVIOUS
<1>5. {a * a, a * r, r * r, r * (a * a), (a + 1) * (a + 1)} \subseteq Int
  OBVIOUS
<1>6. r * ((a + 1) * (a + 1)) <= (r + 1) * (a * a) + r * (r + 1)
  BY <1>1, <1>2, <1>3, <1>4, <1>5
<1>7. r * (c * c) <= r * (100 * ((a + 1) * (a + 1)))
  OBVIOUS
<1>8. r * (100 * ((a + 1) * (a + 1))) = 100 * (r * ((a + 1) * (a + 1)))
  OBVIOUS
<1>9. (100 * (r + 1)) * (a * a) = 100 * ((r + 1) * (a * a))
  OBVIOUS
<1>10. {r * (c * c), r * ((a + 1) * (a + 1)), (r + 1) * (a * a), r * (r + 1)} \subseteq Int
  OBVIOUS
<1> QED
  BY <1>6, <1>7, <1>8, <1>9, <1>10

\* From the sums to the RMS value: A is the sum of the squared amperes, C of
\* the squared tenths, over n slots.
LEMMA BelowRms ==
  ASSUME NEW A \in Nat, NEW C \in Int, NEW n \in Nat, n > 0, NEW r \in Nat,
         r * r <= A \div n, 100 * A <= C
  PROVE  Square(10 * r) * n <= C
<1> DEFINE m == A \div n
<1>1. m \in Nat /\ n * m <= A
  BY MeanFacts
<1> HIDE DEF m
<1>2. r * r <= m
  BY DEF m
<1>3. n * (r * r) <= n * m
  BY <1>1, <1>2
<1>4. Square(10 * r) * n = 100 * (n * (r * r))
  BY DEF Square
<1>5. n * (r * r) \in Int /\ n * m \in Int
  BY <1>1
<1> QED
  BY <1>1, <1>3, <1>4, <1>5

LEMMA AboveRms ==
  ASSUME NEW A \in Nat, NEW C \in Int, NEW n \in Nat, n > 0, NEW r \in Nat, r > 0,
         A \div n < r * r,
         r * C <= (100 * (r + 1)) * A + (100 * (r * (r + 1))) * n
  PROVE  C < Square(10 * (r + 1)) * n
<1> DEFINE m == A \div n
           e == n * ((r + 1) * (r + 1))
<1>1. m \in Nat /\ A < n * (m + 1)
  BY MeanFacts
<1> HIDE DEF m
<1>2. m + 1 <= r * r
  <2>1. m < r * r
    BY DEF m
  <2>2. r * r \in Int
    OBVIOUS
  <2> QED BY <1>1, <2>1, <2>2
<1>3. n * (m + 1) <= n * (r * r)
  BY <1>1, <1>2
<1>4. n * (m + 1) \in Int /\ n * (r * r) \in Int
  BY <1>1
<1>5. A < n * (r * r)
  BY <1>1, <1>3, <1>4
<1>6. (r + 1) * A < (r + 1) * (n * (r * r))
  BY <1>4, <1>5
<1>7. (r + 1) * (n * (r * r)) + (r * (r + 1)) * n = r * e
  <2>1. (r + 1) * (n * (r * r)) = r * (n * (r * (r + 1)))
    OBVIOUS
  <2>2. (r * (r + 1)) * n = r * (n * (r + 1))
    OBVIOUS
  <2>3. r * (n * (r * (r + 1))) + r * (n * (r + 1)) = r * (n * (r * (r + 1)) + n * (r + 1))
    OBVIOUS
  <2>4. n * (r * (r + 1)) + n * (r + 1) = e
    OBVIOUS
  <2> QED BY <2>1, <2>2, <2>3, <2>4
<1>8. e \in Int /\ Square(10 * (r + 1)) * n = 100 * e
  BY DEF Square
<1> HIDE DEF e
<1>9. (100 * (r + 1)) * A = 100 * ((r + 1) * A) /\ (100 * (r * (r + 1))) * n = 100 * ((r * (r + 1)) * n)
  OBVIOUS
<1>10. {(r + 1) * A, (r + 1) * (n * (r * r)), (r * (r + 1)) * n, r * e, r * C} \subseteq Int
  BY <1>4, <1>8
<1>11. r * C < 100 * (r * e)
  BY <1>6, <1>7, <1>9, <1>10
<1>12. C < 100 * e
  <2>1. SUFFICES ASSUME C >= 100 * e PROVE FALSE
    BY <1>8
  <2>2. r * C >= r * (100 * e)
    BY <1>8, <2>1
  <2>3. r * (100 * e) = 100 * (r * e)
    BY <1>8
  <2> QED BY <1>10, <1>11, <2>2, <2>3
<1> QED
  BY <1>8, <1>12

LEMMA RmsNearCurrents ==
  ASSUME PathInv, count = Window
  PROVE  LET sum == MapThenSumSet(LAMBDA i : Square(currents[i]), Slots)
         IN  /\ Square(10 * rms_a) * Window <= sum
             /\ sum < Square(10 * (rms_a + 2)) * Window
<1> DEFINE w == [i \in Slots |-> Square(Amps(samples_ma[i]))]
           v == [i \in Slots |-> Square(currents[i])]
           A == Total(w, Slots)
           C == Total(v, Slots)
           r == rms_a + 1
           b == 100 * (r + 1)
           c == 100 * (r * (r + 1))
<1>1. Window \in Nat /\ Window > 0 /\ IsFiniteSet(Slots) /\ Cardinality(Slots) = Window
  BY SlotsFinite, WindowAssumption
<1>2. C = MapThenSumSet(LAMBDA i : Square(currents[i]), Slots)
  BY <1>1, SumOfSquares
<1>3. A \in Nat /\ sum_sq_a2 = A
  BY DEF PathInv, WindowInv, SumHeld, Squares
<1>4. IsRoot(rms_a, A \div Window)
  BY <1>1, <1>3 DEF PathInv, RmsHeld
<1>5. rms_a \in Nat /\ rms_a * rms_a <= A \div Window /\ A \div Window < r * r
  BY <1>4 DEF IsRoot
<1>6. ASSUME NEW i \in Slots
      PROVE  \E a \in Nat, t \in Int :
               /\ w[i] = a * a /\ v[i] = t * t
               /\ 100 * (a * a) <= t * t /\ t * t <= 100 * ((a + 1) * (a + 1))
  <2>1. currents[i] \in Int /\ samples_ma[i] = currents[i] * 100
    BY DEF PathInv, CurrentsHeld
  <2>2. w[i] = Amps(currents[i] * 100) * Amps(currents[i] * 100) /\ v[i] = currents[i] * currents[i]
    BY <2>1 DEF Square
  <2> HIDE DEF w, v
  <2> QED BY <2>1, <2>2, TenthsFacts
<1>7. r \in Nat /\ r > 0 /\ b \in Int /\ c \in Int
  BY <1>5
<1>8. \A i \in Slots : w[i] \in Int /\ v[i] \in Int /\ 100 * w[i] <= 1 * v[i] + 0
  <2> HIDE DEF w, v
  <2> QED BY <1>6
<1>9. \A i \in Slots : v[i] \in Int /\ w[i] \in Int /\ r * v[i] <= b * w[i] + c
  <2>1. SUFFICES ASSUME NEW i \in Slots
                 PROVE  v[i] \in Int /\ w[i] \in Int /\ r * v[i] <= b * w[i] + c
    OBVIOUS
  <2> HIDE DEF w, v, r
  <2>2. PICK a \in Nat, t \in Int :
          w[i] = a * a /\ v[i] = t * t /\ t * t <= 100 * ((a + 1) * (a + 1))
    BY <1>6
  <2>3. r * (t * t) <= b * (a * a) + c
    BY <1>7, <2>2, TenthsBound
  <2> HIDE DEF b, c
  <2> QED BY <2>2, <2>3
<1> HIDE DEF w, v, r, b, c
<1>10. 100 * A <= 1 * C + 0 * Cardinality(Slots) /\ C \in Int
  <2>1. 100 \in Int /\ 1 \in Int /\ 0 \in Int
    OBVIOUS
  <2> QED BY <1>1, <1>8, <2>1, TotalsCompare
<1>11. r * C <= b * A + c * Cardinality(Slots)
  <2>1. r \in Int /\ b \in Int /\ c \in Int
    BY <1>7
  <2> QED BY <1>1, <1>9, <2>1, TotalsCompare
<1> HIDE DEF A, C
<1>12. Square(10 * rms_a) * Window <= C
  <2>1. 100 * A <= C
    BY <1>1, <1>3, <1>10
  <2> QED BY <1>1, <1>3, <1>5, <1>10, <2>1, BelowRms
<1>13. C < Square(10 * (r + 1)) * Window
  <2>1. r * C <= (100 * (r + 1)) * A + (100 * (r * (r + 1))) * Window
    BY <1>1, <1>11 DEF b, c
  <2> QED BY <1>1, <1>3, <1>5, <1>7, <1>10, <2>1, AboveRms
<1>14. r + 1 = rms_a + 2
  BY <1>5 DEF r
<1> QED
  BY <1>2, <1>12, <1>13, <1>14

\* The value the overload integrator works with is never above the RMS of the
\* true currents of the window, and below it by less than two amperes, for
\* every window length and every sequence of readings (sscb_firmware_run_once
\* from the converter to the window).
THEOREM RmsIsClose == PathSpec => []RmsTracksCurrent
<1>1. PathInv => RmsTracksCurrent
  BY RmsNearCurrents DEF RmsTracksCurrent, Slots
<1> QED
  BY <1>1, PathTyped, PTL
=============================================================================
