------------------------- MODULE FiniteSums_proofs --------------------------
(***************************************************************************)
(* Lemmas about SumFunctionOnSet, the sum of a function over a finite set, *)
(* with which the treasuries' and the vault's balances are stated.  It is  *)
(* a recursive function that takes one element after another, each chosen  *)
(* by CHOOSE: what must be shown is that the recursion has a solution and  *)
(* that the order in which elements are taken does not matter.  Inductions *)
(* are by a set with the fewest elements.                                  *)
(***************************************************************************)
EXTENDS Functions, FiniteSetTheorems, WellFoundedInduction, TLAPS

LEMMA FewestElements ==
  ASSUME NEW family, family # {}, \A s \in family : IsFiniteSet(s)
  PROVE  \E s \in family : \A u \in family : Cardinality(s) <= Cardinality(u)
<1> DEFINE sizes == {Cardinality(s) : s \in family}
<1>1. sizes \subseteq Nat /\ sizes # {} BY FS_CardinalityType
<1>2. PICK n \in sizes : \A k \in sizes : <<k, n>> \notin OpToRel(<, Nat)
  BY <1>1, NatLessThanWellFounded, WFMin
<1>3. \A k \in sizes : n <= k
  <2> HIDE DEF sizes
  <2>1. SUFFICES ASSUME NEW k \in sizes PROVE n <= k OBVIOUS
  <2>2. n \in Nat /\ k \in Nat BY <1>1, <2>1
  <2>3. ~(k < n) BY <1>2, <2>1, <2>2 DEF OpToRel
  <2> QED BY <2>2, <2>3
<1>4. PICK s \in family : n = Cardinality(s) OBVIOUS
<1> QED BY <1>3, <1>4

\* Taking an element away leaves a smaller finite set.
LEMMA OneLess ==
  ASSUME NEW s, IsFiniteSet(s), NEW x \in s
  PROVE  /\ IsFiniteSet(s \ {x})
         /\ Cardinality(s \ {x}) \in Nat /\ Cardinality(s) \in Nat
         /\ Cardinality(s \ {x}) < Cardinality(s)
<1>1. IsFiniteSet(s \ {x}) /\ Cardinality(s \ {x}) = Cardinality(s) - 1 BY FS_RemoveElement
<1>2. Cardinality(s \ {x}) \in Nat /\ Cardinality(s) \in Nat BY <1>1, FS_CardinalityType
<1> QED BY <1>1, <1>2

-----------------------------------------------------------------------------
(* The recursion *)

Pick(s) == CHOOSE x \in s : TRUE

\* it sums fun over every subset of S, in the order of Pick.
Solves(it, fun, S) ==
  it = [s \in SUBSET S |-> IF s = {} THEN 0 ELSE fun[Pick(s)] + it[s \ {Pick(s)}]]

Total(fun, S) == (CHOOSE it : Solves(it, fun, S))[S]

LEMMA SumIsTotal ==
  ASSUME NEW fun, NEW S
  PROVE  SumFunctionOnSet(fun, S) = Total(fun, S)
BY DEF SumFunctionOnSet, FoldFunctionOnSet, MapThenFoldSet, Solves, Pick, Total

LEMMA PickIn == ASSUME NEW s, s # {} PROVE Pick(s) \in s
BY DEF Pick

LEMMA SolutionStep ==
  ASSUME NEW it, NEW fun, NEW S, Solves(it, fun, S), NEW s \in SUBSET S
  PROVE  it[s] = IF s = {} THEN 0 ELSE fun[Pick(s)] + it[s \ {Pick(s)}]
<1> DEFINE body == [u \in SUBSET S |-> IF u = {} THEN 0 ELSE fun[Pick(u)] + it[u \ {Pick(u)}]]
<1>1. it = body BY DEF Solves
<1>2. body[s] = IF s = {} THEN 0 ELSE fun[Pick(s)] + it[s \ {Pick(s)}] OBVIOUS
<1> HIDE DEF body
<1> QED BY <1>1, <1>2

\* Two solutions agree where both are defined.
LEMMA SolutionsAgree ==
  ASSUME NEW fun, NEW S, NEW T, IsFiniteSet(S),
         NEW it, Solves(it, fun, S), NEW jt, Solves(jt, fun, T)
  PROVE  \A s \in SUBSET (S \cap T) : it[s] = jt[s]
<1> DEFINE bad == {s \in SUBSET (S \cap T) : it[s] # jt[s]}
<1> SUFFICES ASSUME bad # {} PROVE FALSE OBVIOUS
<1>1. \A s \in bad : IsFiniteSet(s)
  <2> SUFFICES ASSUME NEW s \in bad PROVE IsFiniteSet(s) OBVIOUS
  <2>1. s \subseteq S OBVIOUS
  <2> QED BY <2>1, FS_Subset
<1>2. PICK s \in bad : \A u \in bad : Cardinality(s) <= Cardinality(u)
  <2> HIDE DEF bad
  <2> QED BY <1>1, FewestElements
<1>3. s \in SUBSET S /\ s \in SUBSET T /\ it[s] # jt[s] OBVIOUS
<1>4. s # {} BY <1>3, SolutionStep
<1> DEFINE u == s \ {Pick(s)}
<1>5. Pick(s) \in s BY <1>4, PickIn
<1>6. Cardinality(u) < Cardinality(s) /\ Cardinality(u) \in Nat /\ Cardinality(s) \in Nat
  BY <1>1, <1>5, OneLess
<1>7. u \notin bad
  <2> HIDE DEF u, bad
  <2>1. SUFFICES ASSUME u \in bad PROVE FALSE OBVIOUS
  <2>2. Cardinality(s) <= Cardinality(u) BY <1>2, <2>1
  <2> QED BY <1>6, <2>2
<1>8. it[u] = jt[u] BY <1>3, <1>7
<1>9. it[s] = fun[Pick(s)] + it[u] /\ jt[s] = fun[Pick(s)] + jt[u]
  BY <1>3, <1>4, SolutionStep
<1> QED BY <1>3, <1>8, <1>9

LEMMA SolutionExists ==
  ASSUME NEW fun, NEW S, IsFiniteSet(S)
  PROVE  \E it : Solves(it, fun, S)
<1> DEFINE solved(s) == \E it : Solves(it, fun, s)
           bad == {s \in SUBSET S : ~solved(s)}
<1> SUFFICES ASSUME bad # {} PROVE FALSE OBVIOUS
<1>1. \A s \in SUBSET S : IsFiniteSet(s) BY FS_Subset
<1>2. PICK s \in bad : \A u \in bad : Cardinality(s) <= Cardinality(u)
  <2>1. \A u \in bad : IsFiniteSet(u) BY <1>1
  <2> HIDE DEF bad
  <2> QED BY <2>1, FewestElements
<1>3. s \in SUBSET S /\ ~solved(s) OBVIOUS
<1>4. \A u \in SUBSET s : u # s => solved(u)
  <2> SUFFICES ASSUME NEW u \in SUBSET s, u # s PROVE solved(u) OBVIOUS
  <2>1. Cardinality(u) < Cardinality(s) /\ Cardinality(u) \in Nat /\ Cardinality(s) \in Nat
    <3>1. PICK x \in s : x \notin u OBVIOUS
    <3>2. IsFiniteSet(s \ {x}) /\ Cardinality(s \ {x}) < Cardinality(s)
          /\ Cardinality(s \ {x}) \in Nat /\ Cardinality(s) \in Nat
      BY <1>1, <1>3, OneLess
    <3>3. Cardinality(u) <= Cardinality(s \ {x}) /\ IsFiniteSet(u)
      BY <3>1, <3>2, FS_Subset
    <3> QED BY <3>2, <3>3, FS_CardinalityType
  <2>2. u \notin bad
    <3> HIDE DEF bad
    <3>1. SUFFICES ASSUME u \in bad PROVE FALSE OBVIOUS
    <3>2. Cardinality(s) <= Cardinality(u) BY <1>2, <3>1
    <3> QED BY <2>1, <3>2
  <2>3. u \in SUBSET S BY <1>3
  <2> QED BY <2>2, <2>3
\* A smaller set's total is one step of its own recursion.
<1>5. \A u \in SUBSET s : u # s =>
        Total(fun, u) = IF u = {} THEN 0 ELSE fun[Pick(u)] + Total(fun, u \ {Pick(u)})
  <2> SUFFICES ASSUME NEW u \in SUBSET s, u # s
               PROVE  Total(fun, u) = IF u = {} THEN 0
                                      ELSE fun[Pick(u)] + Total(fun, u \ {Pick(u)})
    OBVIOUS
  <2> DEFINE v == u \ {Pick(u)}
             it == CHOOSE j : Solves(j, fun, u)
             jt == CHOOSE j : Solves(j, fun, v)
  <2>1. Solves(it, fun, u) BY <1>4
  <2>2. v # s /\ v \in SUBSET s BY <1>4
  <2>3. Solves(jt, fun, v) BY <1>4, <2>2
  <2>4. Total(fun, u) = it[u] /\ Total(fun, v) = jt[v] BY DEF Total
  <2>5. IsFiniteSet(u)
    <3>1. u \in SUBSET S BY <1>3
    <3> QED BY <1>1, <3>1
  <2> HIDE DEF it, jt
  <2>6. it[v] = jt[v] BY <2>1, <2>3, <2>5, SolutionsAgree
  <2>7. it[u] = IF u = {} THEN 0 ELSE fun[Pick(u)] + it[v] BY <2>1, SolutionStep
  <2> QED BY <2>4, <2>6, <2>7
<1> DEFINE it == [u \in SUBSET s |->
                    IF u = {} THEN 0 ELSE fun[Pick(u)] + Total(fun, u \ {Pick(u)})]
<1>6. Solves(it, fun, s)
  <2>1. ASSUME NEW u \in SUBSET s, u # {}
        PROVE  it[u \ {Pick(u)}] = Total(fun, u \ {Pick(u)})
    <3>1. Pick(u) \in u BY <2>1, PickIn
    <3>2. u \ {Pick(u)} \in SUBSET s /\ u \ {Pick(u)} # s BY <3>1
    <3> DEFINE v == u \ {Pick(u)}
    <3>3. it[v] = IF v = {} THEN 0 ELSE fun[Pick(v)] + Total(fun, v \ {Pick(v)}) BY <3>2
    <3>4. Total(fun, v) = IF v = {} THEN 0 ELSE fun[Pick(v)] + Total(fun, v \ {Pick(v)})
      BY <1>5, <3>2
    <3> QED BY <3>3, <3>4
  <2>2. it = [u \in SUBSET s |-> IF u = {} THEN 0 ELSE fun[Pick(u)] + it[u \ {Pick(u)}]]
    <3> DEFINE step(u) == IF u = {} THEN 0 ELSE fun[Pick(u)] + it[u \ {Pick(u)}]
    <3>1. ASSUME NEW u \in SUBSET s PROVE it[u] = step(u) BY <2>1
    <3>2. it \in [SUBSET s -> {it[u] : u \in SUBSET s}] OBVIOUS
    <3> HIDE DEF it, step, solved, bad
    <3>3. it = [u \in SUBSET s |-> step(u)] BY <3>1, <3>2
    <3> QED BY <3>3 DEF step
  <2> QED BY <2>2 DEF Solves
<1> QED BY <1>3, <1>6

LEMMA TotalStep ==
  ASSUME NEW fun, NEW S, IsFiniteSet(S)
  PROVE  Total(fun, S) = IF S = {} THEN 0 ELSE fun[Pick(S)] + Total(fun, S \ {Pick(S)})
<1> DEFINE T == S \ {Pick(S)}
           it == CHOOSE j : Solves(j, fun, S)
           jt == CHOOSE j : Solves(j, fun, T)
<1>1. IsFiniteSet(T) BY FS_Subset
<1>2. Solves(it, fun, S) BY SolutionExists
<1>3. Solves(jt, fun, T) BY <1>1, SolutionExists
<1>4. Total(fun, S) = it[S] /\ Total(fun, T) = jt[T] BY DEF Total
<1> HIDE DEF it, jt
<1>5. it[T] = jt[T]
  <2>1. T \in SUBSET (S \cap T) OBVIOUS
  <2> HIDE DEF T
  <2> QED BY <1>2, <1>3, <2>1, SolutionsAgree
<1>6. it[S] = IF S = {} THEN 0 ELSE fun[Pick(S)] + it[T] BY <1>2, SolutionStep
<1> QED BY <1>4, <1>5, <1>6

-----------------------------------------------------------------------------
(* The lemmas proofs use *)

LEMMA SumEmpty ==
  ASSUME NEW fun
  PROVE  SumFunctionOnSet(fun, {}) = 0
BY SumIsTotal, TotalStep, FS_EmptySet

LEMMA SumType ==
  ASSUME NEW fun, NEW S, IsFiniteSet(S), \A x \in S : fun[x] \in Int
  PROVE  SumFunctionOnSet(fun, S) \in Int
<1> DEFINE bad == {s \in SUBSET S : Total(fun, s) \notin Int}
<1> SUFFICES ASSUME bad # {} PROVE FALSE BY SumIsTotal
<1>1. \A s \in SUBSET S : IsFiniteSet(s) BY FS_Subset
<1>2. PICK s \in bad : \A u \in bad : Cardinality(s) <= Cardinality(u)
  <2>1. \A u \in bad : IsFiniteSet(u) BY <1>1
  <2> HIDE DEF bad
  <2> QED BY <2>1, FewestElements
<1>3. s \in SUBSET S /\ Total(fun, s) \notin Int /\ IsFiniteSet(s) BY <1>1
<1>4. Total(fun, s) = IF s = {} THEN 0 ELSE fun[Pick(s)] + Total(fun, s \ {Pick(s)})
  BY <1>3, TotalStep
<1>5. s # {} BY <1>3, <1>4
<1>6. Pick(s) \in s BY <1>5, PickIn
<1> DEFINE u == s \ {Pick(s)}
<1>7. Cardinality(u) < Cardinality(s) /\ Cardinality(u) \in Nat /\ Cardinality(s) \in Nat
  BY <1>3, <1>6, OneLess
<1>8. u \notin bad
  <2> HIDE DEF u, bad
  <2>1. SUFFICES ASSUME u \in bad PROVE FALSE OBVIOUS
  <2>2. Cardinality(s) <= Cardinality(u) BY <1>2, <2>1
  <2> QED BY <1>7, <2>2
<1>9. Total(fun, u) \in Int BY <1>3, <1>8
<1>10. fun[Pick(s)] \in Int BY <1>3, <1>6
<1> QED BY <1>3, <1>4, <1>5, <1>9, <1>10

LEMMA SumZero ==
  ASSUME NEW fun, NEW S, IsFiniteSet(S), \A x \in S : fun[x] = 0
  PROVE  SumFunctionOnSet(fun, S) = 0
<1> DEFINE bad == {s \in SUBSET S : Total(fun, s) # 0}
<1> SUFFICES ASSUME bad # {} PROVE FALSE BY SumIsTotal
<1>1. \A s \in SUBSET S : IsFiniteSet(s) BY FS_Subset
<1>2. PICK s \in bad : \A u \in bad : Cardinality(s) <= Cardinality(u)
  <2>1. \A u \in bad : IsFiniteSet(u) BY <1>1
  <2> HIDE DEF bad
  <2> QED BY <2>1, FewestElements
<1>3. s \in SUBSET S /\ Total(fun, s) # 0 /\ IsFiniteSet(s) BY <1>1
<1>4. Total(fun, s) = IF s = {} THEN 0 ELSE fun[Pick(s)] + Total(fun, s \ {Pick(s)})
  BY <1>3, TotalStep
<1>5. s # {} BY <1>3, <1>4
<1>6. Pick(s) \in s BY <1>5, PickIn
<1> DEFINE u == s \ {Pick(s)}
<1>7. Cardinality(u) < Cardinality(s) /\ Cardinality(u) \in Nat /\ Cardinality(s) \in Nat
  BY <1>3, <1>6, OneLess
<1>8. u \notin bad
  <2> HIDE DEF u, bad
  <2>1. SUFFICES ASSUME u \in bad PROVE FALSE OBVIOUS
  <2>2. Cardinality(s) <= Cardinality(u) BY <1>2, <2>1
  <2> QED BY <1>7, <2>2
<1>9. Total(fun, u) = 0 BY <1>3, <1>8
<1>10. fun[Pick(s)] = 0 BY <1>3, <1>6
<1> QED BY <1>3, <1>4, <1>5, <1>9, <1>10

\* Any element may be taken first.
LEMMA SumTake ==
  ASSUME NEW fun, NEW S, IsFiniteSet(S), \A x \in S : fun[x] \in Int, NEW x \in S
  PROVE  SumFunctionOnSet(fun, S) = fun[x] + SumFunctionOnSet(fun, S \ {x})
<1> DEFINE takes(s, y) == Total(fun, s) = fun[y] + Total(fun, s \ {y})
           bad == {s \in SUBSET S : \E y \in s : ~takes(s, y)}
<1> SUFFICES ASSUME bad # {} PROVE FALSE BY SumIsTotal
<1>1. \A s \in SUBSET S : IsFiniteSet(s) BY FS_Subset
<1>2. PICK s \in bad : \A u \in bad : Cardinality(s) <= Cardinality(u)
  <2>1. \A u \in bad : IsFiniteSet(u) BY <1>1
  <2> HIDE DEF bad
  <2> QED BY <2>1, FewestElements
<1>3. PICK y \in s : ~takes(s, y) OBVIOUS
<1>4. s \in SUBSET S /\ IsFiniteSet(s) BY <1>1
<1>5. \A u \in SUBSET S : Total(fun, u) \in Int
  <2> SUFFICES ASSUME NEW u \in SUBSET S PROVE Total(fun, u) \in Int OBVIOUS
  <2>1. IsFiniteSet(u) /\ \A w \in u : fun[w] \in Int BY <1>1
  <2> QED BY <2>1, SumType, SumIsTotal
<1>6. \A z \in s : s \ {z} \in SUBSET S /\ s \ {z} \notin bad
  <2> SUFFICES ASSUME NEW z \in s PROVE s \ {z} \in SUBSET S /\ s \ {z} \notin bad OBVIOUS
  <2>1. Cardinality(s \ {z}) < Cardinality(s)
        /\ Cardinality(s \ {z}) \in Nat /\ Cardinality(s) \in Nat
    BY <1>4, OneLess
  <2>2. s \ {z} \notin bad
    <3> HIDE DEF bad
    <3>1. SUFFICES ASSUME s \ {z} \in bad PROVE FALSE OBVIOUS
    <3>2. Cardinality(s) <= Cardinality(s \ {z}) BY <1>2, <3>1
    <3> QED BY <2>1, <3>2
  <2> QED BY <1>4, <2>2
<1> DEFINE p == Pick(s)
           rest == (s \ {p}) \ {y}
<1>7. p \in s BY <1>3, PickIn
<1>8. Total(fun, s) = fun[p] + Total(fun, s \ {p}) BY <1>3, <1>4, TotalStep
<1>9. p # y BY <1>3, <1>8
<1>10. ASSUME NEW z \in s, NEW w \in s \ {z}
       PROVE  Total(fun, s \ {z}) = fun[w] + Total(fun, (s \ {z}) \ {w})
  BY <1>6
<1>11. /\ Total(fun, s \ {p}) = fun[y] + Total(fun, rest)
       /\ Total(fun, s \ {y}) = fun[p] + Total(fun, rest)
  <2>1. y \in s \ {p} /\ p \in s \ {y} /\ y \in s BY <1>7, <1>9
  <2>2. (s \ {y}) \ {p} = (s \ {p}) \ {y} OBVIOUS
  <2> HIDE DEF p
  <2>3. Total(fun, s \ {p}) = fun[y] + Total(fun, (s \ {p}) \ {y}) BY <1>7, <1>10, <2>1
  <2>4. Total(fun, s \ {y}) = fun[p] + Total(fun, (s \ {y}) \ {p}) BY <1>10, <2>1
  <2> QED BY <2>2, <2>3, <2>4
<1>12. fun[p] \in Int /\ fun[y] \in Int /\ Total(fun, rest) \in Int
  BY <1>4, <1>5, <1>7
<1>13. takes(s, y)
  <2> HIDE DEF p, rest
  <2> QED BY <1>8, <1>11, <1>12
<1> QED BY <1>3, <1>13

\* The sum depends on the function's values on the set only.
LEMMA SumSame ==
  ASSUME NEW fun, NEW gun, NEW S, IsFiniteSet(S), \A x \in S : fun[x] = gun[x]
  PROVE  SumFunctionOnSet(fun, S) = SumFunctionOnSet(gun, S)
<1> DEFINE bad == {s \in SUBSET S : Total(fun, s) # Total(gun, s)}
<1> SUFFICES ASSUME bad # {} PROVE FALSE BY SumIsTotal
<1>1. \A s \in SUBSET S : IsFiniteSet(s) BY FS_Subset
<1>2. PICK s \in bad : \A u \in bad : Cardinality(s) <= Cardinality(u)
  <2>1. \A u \in bad : IsFiniteSet(u) BY <1>1
  <2> HIDE DEF bad
  <2> QED BY <2>1, FewestElements
<1>3. s \in SUBSET S /\ Total(fun, s) # Total(gun, s) /\ IsFiniteSet(s) BY <1>1
<1> DEFINE u == s \ {Pick(s)}
<1>4. /\ Total(fun, s) = IF s = {} THEN 0 ELSE fun[Pick(s)] + Total(fun, u)
      /\ Total(gun, s) = IF s = {} THEN 0 ELSE gun[Pick(s)] + Total(gun, u)
  BY <1>3, TotalStep
<1>5. s # {} BY <1>3, <1>4
<1>6. Pick(s) \in s BY <1>5, PickIn
<1>7. Cardinality(u) < Cardinality(s) /\ Cardinality(u) \in Nat /\ Cardinality(s) \in Nat
  BY <1>3, <1>6, OneLess
<1>8. u \notin bad
  <2> HIDE DEF u, bad
  <2>1. SUFFICES ASSUME u \in bad PROVE FALSE OBVIOUS
  <2>2. Cardinality(s) <= Cardinality(u) BY <1>2, <2>1
  <2> QED BY <1>7, <2>2
<1>9. Total(fun, u) = Total(gun, u) BY <1>3, <1>8
<1> QED BY <1>3, <1>4, <1>5, <1>6, <1>9

\* A change of one value changes the sum by the same amount.
LEMMA SumChange ==
  ASSUME NEW fun, NEW gun, NEW S, IsFiniteSet(S),
         \A x \in S : fun[x] \in Int /\ gun[x] \in Int,
         NEW x \in S, \A y \in S \ {x} : gun[y] = fun[y]
  PROVE  SumFunctionOnSet(gun, S) = SumFunctionOnSet(fun, S) + (gun[x] - fun[x])
<1> DEFINE rest == S \ {x}
<1>1. IsFiniteSet(rest) BY FS_Subset
<1>2. SumFunctionOnSet(fun, S) = fun[x] + SumFunctionOnSet(fun, rest) BY SumTake
<1>3. SumFunctionOnSet(gun, S) = gun[x] + SumFunctionOnSet(gun, rest) BY SumTake
<1>4. SumFunctionOnSet(fun, rest) = SumFunctionOnSet(gun, rest) BY <1>1, SumSame
<1>5. SumFunctionOnSet(fun, rest) \in Int BY <1>1, SumType
<1> HIDE DEF rest
<1> QED BY <1>2, <1>3, <1>4, <1>5

\* One element more.
LEMMA SumAdd ==
  ASSUME NEW fun, NEW S, IsFiniteSet(S), NEW x, x \notin S,
         \A y \in S \cup {x} : fun[y] \in Int
  PROVE  /\ IsFiniteSet(S \cup {x})
         /\ SumFunctionOnSet(fun, S \cup {x}) = fun[x] + SumFunctionOnSet(fun, S)
<1>1. IsFiniteSet(S \cup {x}) BY FS_AddElement
<1>2. (S \cup {x}) \ {x} = S OBVIOUS
<1>3. SumFunctionOnSet(fun, S \cup {x}) = fun[x] + SumFunctionOnSet(fun, (S \cup {x}) \ {x})
  BY <1>1, SumTake
<1> QED BY <1>1, <1>2, <1>3
=============================================================================
