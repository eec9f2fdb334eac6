---------------------------- MODULE FoldTheorems ----------------------------
(***************************************************************************)
(* Facts the proofs of several parts rest on: induction over the subsets   *)
(* of a finite set, said of a set of subsets instead of a predicate, and   *)
(* what a sum over a function's values does when one value is added or     *)
(* changed.                                                                *)
(***************************************************************************)
EXTENDS Integers, FiniteSets, Sequences, Functions, FiniteSetTheorems, WellFoundedInduction, TLAPS

(* Of the subsets of a finite set that are in B, one has no other in it.    *)
LEMMA LeastSet ==
  ASSUME NEW U, IsFiniteSet(U), NEW B, B \subseteq SUBSET U, B # {}
  PROVE  \E T \in B : \A S \in B : S \subseteq T => S = T
<1>1. IsWellFoundedOn(StrictSubsetOrdering(U), SUBSET U)
  BY FS_StrictSubsetOrderingWellFounded, FS_FiniteSubsetsOfFinite
<1>2. PICK T \in B : \A S \in B : <<S, T>> \notin StrictSubsetOrdering(U)
  BY <1>1, WFMin
<1>3. QED
  BY <1>2 DEF StrictSubsetOrdering

(* Induction over the subsets of a finite set, of what a set can say.       *)
LEMMA SubsetInduction ==
  ASSUME NEW U, IsFiniteSet(U), NEW G,
         \A T \in SUBSET U : (\A S \in SUBSET T : S # T => S \in G) => T \in G
  PROVE  SUBSET U \subseteq G
<1> DEFINE B == (SUBSET U) \ G
<1>1. SUFFICES ASSUME B # {} PROVE FALSE
  OBVIOUS
<1> HIDE DEF B
<1>2. B \subseteq SUBSET U
  BY DEF B
<1>3. PICK T \in B : \A S \in B : S \subseteq T => S = T
  BY <1>1, <1>2, LeastSet
<1>4. T \in SUBSET U /\ T \notin G
  BY DEF B
<1>5. \A S \in SUBSET T : S # T => S \in G
  BY <1>3, <1>4 DEF B
<1>6. QED
  BY <1>4, <1>5

(* Induction over the numbers up to one.                                    *)
LEMMA CountingInduction ==
  ASSUME NEW n \in Nat, NEW G, 0 \in G, \A k \in 0..n : k \in G /\ k < n => k + 1 \in G
  PROVE  0..n \subseteq G
<1> DEFINE Up == {0..k : k \in (0..n) \ G}
<1>1. SUFFICES ASSUME Up # {} PROVE FALSE
  OBVIOUS
<1>2. PICK all : all = 0..n
  OBVIOUS
<1>3. PICK T \in Up : \A S \in Up : S \subseteq T => S = T
  <2>1. IsFiniteSet(all)
    BY <1>2, FS_Interval
  <2>2. Up \subseteq SUBSET all
    BY <1>2
  <2> HIDE DEF Up
  <2>3. QED
    BY <1>1, <2>1, <2>2, LeastSet
<1>4. PICK k \in (0..n) \ G : T = 0..k
  BY <1>3
<1>5. k # 0 /\ k - 1 \in 0..n /\ k - 1 < n
  BY <1>4
<1>6. 0..(k - 1) \subseteq 0..k /\ 0..(k - 1) # 0..k
  BY <1>4, <1>5
<1>7. k - 1 \in G
  BY <1>3, <1>4, <1>5, <1>6
<1>8. (k - 1) + 1 \in G
  BY <1>5, <1>7
<1>9. QED
  BY <1>4, <1>8

-----------------------------------------------------------------------------
Some(s) == CHOOSE x \in s : TRUE
On(f, S) == [x \in S |-> f[x]]

(* The sums over the parts of a set, each from the one without an element. *)
PartialSums(it, f, U) ==
  it = [s \in SUBSET U |-> IF s = {} THEN 0 ELSE f[Some(s)] + it[s \ {Some(s)}]]

LEMMA SomeIsIn == ASSUME NEW s, s # {} PROVE Some(s) \in s
BY DEF Some

LEMMA SumUnfold ==
  ASSUME NEW f
  PROVE  SumFunction(f) = (CHOOSE it : PartialSums(it, f, DOMAIN f))[DOMAIN f]
BY DEF SumFunction, SumFunctionOnSet, FoldFunctionOnSet, MapThenFoldSet, PartialSums, Some

LEMMA PartialEmpty == ASSUME NEW it, NEW f, NEW U, PartialSums(it, f, U) PROVE it[{}] = 0
BY DEF PartialSums

LEMMA PartialNext ==
  ASSUME NEW it, NEW f, NEW U, PartialSums(it, f, U)
  PROVE  \A s \in SUBSET U : s # {} => it[s] = f[Some(s)] + it[s \ {Some(s)}]
BY DEF PartialSums

(* Sums of functions that agree agree where both are defined.              *)
LEMMA PartialAgree ==
  ASSUME NEW T1, IsFiniteSet(T1), NEW T2, NEW f1, NEW f2, NEW g1, NEW g2,
         PartialSums(g1, f1, T1), PartialSums(g2, f2, T2), \A x \in T1 \intersect T2 : f1[x] = f2[x],
         NEW s \in SUBSET T1, s \in SUBSET T2
  PROVE  g1[s] = g2[s]
<1> DEFINE G == {r \in SUBSET T1 : r \in SUBSET T2 => g1[r] = g2[r]}
<1>n1. \A r \in SUBSET T1 : r # {} => g1[r] = f1[Some(r)] + g1[r \ {Some(r)}]
  BY DEF PartialSums
<1>n2. \A r \in SUBSET T2 : r # {} => g2[r] = f2[Some(r)] + g2[r \ {Some(r)}]
  BY DEF PartialSums
<1>1. ASSUME NEW r \in SUBSET T1, \A q \in SUBSET r : q # r => q \in G, r \in SUBSET T2
      PROVE  g1[r] = g2[r]
  <2>1. CASE r = {}
    BY <2>1, PartialEmpty
  <2>2. CASE r # {}
    <3> DEFINE a == Some(r)
               q == r \ {a}
    <3>1. a \in r
      BY <2>2, SomeIsIn
    <3> HIDE DEF G
    <3>2. g1[r] = f1[a] + g1[q]
      BY <2>2, <1>n1
    <3>3. g2[r] = f2[a] + g2[q]
      BY <1>1, <2>2, <1>n2
    <3> USE DEF G
    <3> HIDE DEF a
    <3>4. q \in SUBSET r /\ q # r
      BY <3>1
    <3>5. q \in G /\ q \in SUBSET T2
      BY <1>1, <3>4
    <3> HIDE DEF q
    <3>6. g1[q] = g2[q]
      BY <3>5
    <3>7. f1[a] = f2[a]
      BY <1>1, <3>1
    <3>8. QED
      BY <3>2, <3>3, <3>6, <3>7
  <2>3. QED
    BY <2>1, <2>2
<1>2. \A r \in SUBSET T1 : (\A q \in SUBSET r : q # r => q \in G) => r \in G
  BY <1>1
<1> HIDE DEF G
<1>3. s \in G
  BY <1>2, SubsetInduction
<1>4. QED
  BY <1>3 DEF G

LEMMA PartialPart ==
  ASSUME NEW T1, IsFiniteSet(T1), NEW T2 \in SUBSET T1, NEW f, NEW g1, NEW g2,
         PartialSums(g1, f, T1), PartialSums(g2, f, T2)
  PROVE  g1[T2] = g2[T2]
BY PartialAgree

(* There are such sums.                                                    *)
LEMMA PartialExist ==
  ASSUME NEW U, IsFiniteSet(U), NEW f
  PROVE  \E it : PartialSums(it, f, U)
<1> DEFINE Of(T) == CHOOSE g : PartialSums(g, f, T)
           G == {T \in SUBSET U : PartialSums(Of(T), f, T)}
<1> HIDE DEF Of
<1>1. ASSUME NEW T \in SUBSET U, \A r \in SUBSET T : r # T => r \in G PROVE T \in G
  <2> DEFINE Less(s) == s \ {Some(s)}
             h == [s \in SUBSET T |-> IF s = {} THEN 0 ELSE f[Some(s)] + Of(Less(s))[Less(s)]]
  <2>0. ASSUME NEW s \in SUBSET T, s # {} PROVE Less(s) \in SUBSET s /\ Less(s) # s
    BY <2>0, SomeIsIn
  <2>1. ASSUME NEW r \in SUBSET T, r # T PROVE h[r] = Of(r)[r]
    <3>0. PartialSums(Of(r), f, r) /\ r \in SUBSET U /\ IsFiniteSet(r)
      BY <1>1, <2>1, FS_Subset
    <3>1. CASE r = {}
      <4>1. h[{}] = 0
        OBVIOUS
      <4>2. Of(r)[{}] = 0
        BY <3>0, PartialEmpty
      <4>3. QED
        BY <3>1, <4>1, <4>2
    <3>2. CASE r # {}
      <4> DEFINE q == Less(r)
      <4>1. q \in SUBSET r /\ q # r /\ q \in SUBSET U
        BY <2>0, <3>0, <3>2
      <4>2. q # T /\ q \in SUBSET T
        BY <4>1
      <4>3. h[r] = f[Some(r)] + Of(q)[q]
        BY <3>2
      <4>4. Of(r)[r] = f[Some(r)] + Of(r)[q]
        BY <3>0, <3>2, PartialNext
      <4>5. PartialSums(Of(q), f, q)
        BY <1>1, <4>2
      <4> HIDE DEF q, h
      <4>6. Of(r)[q] = Of(q)[q]
        BY <3>0, <4>1, <4>5, PartialPart
      <4>7. QED
        BY <4>3, <4>4, <4>6
    <3>3. QED
      BY <3>1, <3>2
  <2>2. ASSUME NEW s \in SUBSET T
        PROVE  h[s] = IF s = {} THEN 0 ELSE f[Some(s)] + h[Less(s)]
    <3>1. CASE s = {}
      BY <3>1
    <3>2. CASE s # {}
      <4>1. Less(s) \in SUBSET T /\ Less(s) # T
        BY <2>0, <3>2
      <4>2. h[s] = f[Some(s)] + Of(Less(s))[Less(s)]
        BY <3>2
      <4> HIDE DEF h, Less
      <4>3. QED
        BY <2>1, <3>2, <4>1, <4>2
    <3>3. QED
      BY <3>1, <3>2
  <2>3. h = [s \in SUBSET T |-> h[s]]
    OBVIOUS
  <2> HIDE DEF h
  <2>4. PartialSums(h, f, T)
    BY <2>2, <2>3 DEF PartialSums
  <2>5. PartialSums(Of(T), f, T)
    BY <2>4 DEF Of
  <2>6. QED
    BY <2>5
<1>2. \A T \in SUBSET U : (\A r \in SUBSET T : r # T => r \in G) => T \in G
  BY <1>1
<1> HIDE DEF G
<1>3. U \in G
  BY <1>2, SubsetInduction
<1>4. QED
  BY <1>3 DEF G

(* Sums stay in a set that addition stays in: they are whole numbers when  *)
(* what is added is, and zero when it is.                                  *)
Whole(f, U) == \A x \in U : f[x] \in Int
Takes(it, f, U) == \A s \in SUBSET U : \A x \in s : it[s] = f[x] + it[s \ {x}]

LEMMA PartialIn ==
  ASSUME NEW U, IsFiniteSet(U), NEW f, NEW it, PartialSums(it, f, U),
         NEW V, 0 \in V, \A a, b \in V : a + b \in V, \A x \in U : f[x] \in V
  PROVE  \A s \in SUBSET U : it[s] \in V
<1> DEFINE G == {r \in SUBSET U : it[r] \in V}
<1>0. \A r \in SUBSET U : r # {} => it[r] = f[Some(r)] + it[r \ {Some(r)}]
  BY DEF PartialSums
<1>1. ASSUME NEW r \in SUBSET U, \A q \in SUBSET r : q # r => q \in G PROVE it[r] \in V
  <2>1. CASE r = {}
    BY <2>1, PartialEmpty
  <2>2. CASE r # {}
    <3> DEFINE a == Some(r)
               q == r \ {a}
    <3>1. a \in r
      BY <2>2, SomeIsIn
    <3>2. it[r] = f[a] + it[q]
      BY <1>0, <2>2
    <3> HIDE DEF a
    <3>3. q \in SUBSET r /\ q # r
      BY <3>1
    <3>4. it[q] \in V
      BY <1>1, <3>3
    <3>5. f[a] \in V
      BY <3>1
    <3>6. QED
      BY <3>2, <3>4, <3>5
  <2>3. QED
    BY <2>1, <2>2
<1>2. \A r \in SUBSET U : (\A q \in SUBSET r : q # r => q \in G) => r \in G
  BY <1>1
<1> HIDE DEF G
<1>3. SUBSET U \subseteq G
  BY <1>2, SubsetInduction
<1>4. QED
  BY <1>3 DEF G

LEMMA PartialType ==
  ASSUME NEW U, IsFiniteSet(U), NEW f, Whole(f, U), NEW it, PartialSums(it, f, U)
  PROVE  Whole(it, SUBSET U)
<1> DEFINE V == Int
<1>1. 0 \in V /\ (\A a, b \in V : a + b \in V) /\ \A x \in U : f[x] \in V
  BY DEF Whole
<1> HIDE DEF V
<1>2. \A s \in SUBSET U : it[s] \in V
  BY <1>1, PartialIn
<1>3. QED
  BY <1>2 DEF Whole, V

(* Any element may be the first to be taken out.                           *)
LEMMA PartialTake ==
  ASSUME NEW U, IsFiniteSet(U), NEW f, Whole(f, U), NEW it, PartialSums(it, f, U)
  PROVE  Takes(it, f, U)
<1> DEFINE G == {r \in SUBSET U : \A y \in r : it[r] = f[y] + it[r \ {y}]}
<1>0. \A r \in SUBSET U : r # {} => it[r] = f[Some(r)] + it[r \ {Some(r)}]
  BY DEF PartialSums
<1>1. ASSUME NEW r \in SUBSET U, \A q \in SUBSET r : q # r => q \in G, NEW y \in r
      PROVE  it[r] = f[y] + it[r \ {y}]
  <2> DEFINE a == Some(r)
  <2>1. a \in r
    BY SomeIsIn
  <2>2. it[r] = f[a] + it[r \ {a}]
    BY <1>0
  <2> HIDE DEF a
  <2>3. CASE a = y
    BY <2>2, <2>3
  <2>4. CASE a # y
    <3> DEFINE p == r \ {a}
               q == r \ {y}
               o == p \ {y}
    <3>1. p \in SUBSET r /\ p # r /\ q \in SUBSET r /\ q # r /\ y \in p /\ a \in q
      BY <2>1, <2>4
    <3>2. q \ {a} = o
      OBVIOUS
    <3>3. p \in G /\ q \in G
      BY <1>1, <3>1
    <3>4. o \in SUBSET U
      OBVIOUS
    <3> HIDE DEF o
    <3>5. it[p] = f[y] + it[o]
      BY <3>1, <3>3 DEF o
    <3>6. it[q] = f[a] + it[o]
      BY <3>1, <3>2, <3>3
    <3>7. it[o] \in Int
      BY <3>4, PartialType DEF Whole
    <3>8. f[a] \in Int /\ f[y] \in Int
      BY <2>1 DEF Whole
    <3> HIDE DEF p, q
    <3>9. it[r] = f[a] + it[p]
      BY <2>2 DEF p
    <3>10. it[r] = f[y] + it[q]
      BY <3>5, <3>6, <3>7, <3>8, <3>9
    <3>11. QED
      BY <3>10 DEF q
  <2>5. QED
    BY <2>3, <2>4
<1>2. \A r \in SUBSET U : (\A q \in SUBSET r : q # r => q \in G) => r \in G
  BY <1>1
<1> HIDE DEF G
<1>3. SUBSET U \subseteq G
  BY <1>2, SubsetInduction
<1>4. QED
  BY <1>3 DEF G, Takes

(* The sum is one of them.                                                 *)
LEMMA SumIsPartial ==
  ASSUME NEW f, NEW S, S = DOMAIN f, IsFiniteSet(S)
  PROVE  \E it : PartialSums(it, f, S) /\ SumFunction(f) = it[S]
<1> DEFINE it == CHOOSE g : PartialSums(g, f, S)
<1>1. PartialSums(it, f, S)
  BY PartialExist
<1>2. SumFunction(f) = it[S]
  BY SumUnfold
<1>3. QED
  BY <1>1, <1>2

(* Nothing adds up to zero.                                                *)
LEMMA SumEmpty == ASSUME NEW f, {} = DOMAIN f PROVE SumFunction(f) = 0
<1>1. PICK it : PartialSums(it, f, {}) /\ SumFunction(f) = it[{}]
  BY SumIsPartial, FS_EmptySet
<1>2. QED
  BY <1>1, PartialEmpty

(* Nor do zeros add up to more.                                            *)
LEMMA SumZero ==
  ASSUME NEW f, IsFiniteSet(DOMAIN f), \A x \in DOMAIN f : f[x] = 0
  PROVE  SumFunction(f) = 0
<1> DEFINE S == DOMAIN f
           V == {0}
<1>1. 0 \in V /\ (\A a, b \in V : a + b \in V) /\ \A x \in S : f[x] \in V
  OBVIOUS
<1>2. S = DOMAIN f /\ IsFiniteSet(S)
  OBVIOUS
<1> HIDE DEF S, V
<1>3. PICK it : PartialSums(it, f, S) /\ SumFunction(f) = it[S]
  BY <1>2, SumIsPartial
<1>4. it[S] \in V
  BY <1>1, <1>2, <1>3, PartialIn
<1>5. QED
  BY <1>3, <1>4 DEF V

(* Whole numbers add up to a whole number.                                 *)
LEMMA SumType ==
  ASSUME NEW f, NEW S, S = DOMAIN f, IsFiniteSet(S), Whole(f, S)
  PROVE  SumFunction(f) \in Int
<1>1. PICK it : PartialSums(it, f, S) /\ SumFunction(f) = it[S]
  BY SumIsPartial
<1>2. Whole(it, SUBSET S)
  BY <1>1, PartialType
<1>3. QED
  BY <1>1, <1>2 DEF Whole

(* The sum over a set with one element more.                               *)
Grows(f, g, x) ==
  x \notin DOMAIN f /\ DOMAIN g = (DOMAIN f) \union {x} /\ \A y \in DOMAIN f : g[y] = f[y]

LEMMA SumAdd ==
  ASSUME NEW f, NEW g, NEW x, Grows(f, g, x), IsFiniteSet(DOMAIN f), Whole(g, DOMAIN g)
  PROVE  SumFunction(g) = SumFunction(f) + g[x]
<1> DEFINE S == DOMAIN f
           U == S \union {x}
<1>1. IsFiniteSet(U)
  BY FS_AddElement
<1>2. S \in SUBSET U /\ U \in SUBSET U /\ x \in U /\ U \ {x} = S /\ U = DOMAIN g /\ Whole(g, U)
  BY DEF Grows
<1>3. \A y \in S : g[y] = f[y]
  BY DEF Grows
<1>4. S = DOMAIN f /\ IsFiniteSet(S)
  OBVIOUS
<1> HIDE DEF S, U
<1>5. PICK it : PartialSums(it, f, S) /\ SumFunction(f) = it[S]
  BY <1>4, SumIsPartial
<1>6. PICK jt : PartialSums(jt, g, U) /\ SumFunction(g) = jt[U]
  BY <1>1, <1>2, SumIsPartial
<1>7. Takes(jt, g, U)
  BY <1>1, <1>2, <1>6, PartialTake
<1>8. jt[U] = g[x] + jt[U \ {x}]
  BY <1>2, <1>7 DEF Takes
<1>9. jt[S] = it[S]
  BY <1>1, <1>2, <1>3, <1>5, <1>6, PartialAgree
<1>10. Whole(f, S) /\ g[x] \in Int
  BY <1>2, <1>3 DEF Whole
<1>11. SumFunction(f) \in Int
  BY <1>4, <1>10, SumType
<1>12. SumFunction(g) = g[x] + SumFunction(f)
  BY <1>2, <1>5, <1>6, <1>8, <1>9
<1>13. QED
  BY <1>10, <1>11, <1>12

(* The sum, and the sum without one of its elements.                       *)
LEMMA SumWithout ==
  ASSUME NEW f, NEW x \in DOMAIN f, IsFiniteSet(DOMAIN f), Whole(f, DOMAIN f)
  PROVE  /\ SumFunction(f) = SumFunction(On(f, (DOMAIN f) \ {x})) + f[x]
         /\ SumFunction(On(f, (DOMAIN f) \ {x})) \in Int
<1> DEFINE R == (DOMAIN f) \ {x}
           r == On(f, R)
<1>1. IsFiniteSet(R)
  BY FS_RemoveElement
<1>2. R = DOMAIN r /\ Grows(r, f, x)
  BY DEF On, Grows
<1>3. Whole(r, R)
  BY <1>2 DEF Whole, Grows
<1> HIDE DEF R, r
<1>4. SumFunction(f) = SumFunction(r) + f[x]
  BY <1>1, <1>2, SumAdd
<1>5. SumFunction(r) \in Int
  BY <1>1, <1>2, <1>3, SumType
<1>6. QED
  BY <1>4, <1>5 DEF r, R

(* The sum after one value has changed.                                    *)
Differs(f, g, x) ==
  x \in DOMAIN f /\ DOMAIN g = DOMAIN f /\ \A y \in (DOMAIN f) \ {x} : g[y] = f[y]

LEMMA SumChange ==
  ASSUME NEW f, NEW g, NEW x, Differs(f, g, x), IsFiniteSet(DOMAIN f),
         Whole(f, DOMAIN f), Whole(g, DOMAIN g)
  PROVE  SumFunction(g) = SumFunction(f) + (g[x] - f[x])
<1> DEFINE S == DOMAIN f
<1>1. On(f, S \ {x}) = On(g, S \ {x}) /\ x \in S /\ x \in DOMAIN g /\ DOMAIN g = S
  BY DEF On, Differs
<1> DEFINE t == SumFunction(On(f, S \ {x}))
<1>2. SumFunction(f) = t + f[x] /\ t \in Int
  BY <1>1, SumWithout
<1>3. SumFunction(g) = t + g[x]
  BY <1>1, SumWithout
<1>4. f[x] \in Int /\ g[x] \in Int
  BY <1>1 DEF Whole
<1> HIDE DEF t
<1>5. QED
  BY <1>2, <1>3, <1>4
=============================================================================
