------------------------------ MODULE SumProofs ------------------------------
(***************************************************************************)
(* What SumFunctionOnSet computes on a finite set of indices: the sums of  *)
(* quantities that Consume compares, subtracts from and reports and the    *)
(* dashboard adds up; least elements and sorted lists.  The induction over *)
(* the set is an appeal to a smallest counterexample.                      *)
(***************************************************************************)
EXTENDS Integers, FiniteSetsExt, FiniteSetTheorems, TLAPS

Pick(s) == CHOOSE x \in s : TRUE

\* g computes the sum of f over every subset of S.
Sums(f, S, g) ==
    g = [s \in SUBSET S |-> IF s = {} THEN 0 ELSE f[Pick(s)] + g[s \ {Pick(s)}]]

Iter(f, S) == CHOOSE g : Sums(f, S, g)

LEMMA SumIsIter ==
    ASSUME NEW f, NEW S
    PROVE  SumFunctionOnSet(f, S) = Iter(f, S)[S]
BY DEF SumFunctionOnSet, FoldFunctionOnSet, MapThenFoldSet, Iter, Sums, Pick

(* A family of subsets of a finite set has one that no other is inside.    *)
LEMMA SmallestSet ==
    ASSUME NEW S, IsFiniteSet(S), NEW C \in SUBSET (SUBSET S), C # {}
    PROVE  \E T \in C : \A U \in C : U \subseteq T => U = T
<1>1. IsWellFoundedOn(StrictSubsetOrdering(S), SUBSET S)
  BY FS_StrictSubsetOrderingWellFounded, FS_FiniteSubsetsOfFinite
<1>2. PICK T \in C : \A U \in C : <<U, T>> \notin StrictSubsetOrdering(S)
  BY <1>1, WFMin
<1> QED BY <1>2 DEF StrictSubsetOrdering

(* A finite set of numbers that is not empty has a least element.          *)
LEMMA SmallestOf ==
    ASSUME NEW S, IsFiniteSet(S), S # {}, NEW D, \A n \in S : D[n] \subseteq S
    PROVE  \E n \in S : \A m \in S : D[m] \subseteq D[n] => D[m] = D[n]
<1> DEFINE C == {D[n] : n \in S}
<1>1. PICK T \in C : \A U \in C : U \subseteq T => U = T
  <2>1. C \in SUBSET (SUBSET S)  OBVIOUS
  <2>2. C # {}  OBVIOUS
  <2> HIDE DEF C
  <2> QED BY <2>1, <2>2, SmallestSet
<1> QED BY <1>1

(* Of finitely many elements with a number each, one has the least number. *)
LEMMA LeastBy ==
    ASSUME NEW S, IsFiniteSet(S), S # {}, NEW q, \A x \in S : q[x] \in Int
    PROVE  \E x \in S : \A y \in S : q[x] <= q[y]
<1>1. PICK D : D = [x \in S |-> {y \in S : q[y] <= q[x]}]
  OBVIOUS
<1>2. \A x \in S : \A y : y \in D[x] <=> y \in S /\ q[y] <= q[x]
  BY <1>1
<1>3. PICK x \in S : \A y \in S : D[y] \subseteq D[x] => D[y] = D[x]
  <2>1. \A y \in S : D[y] \subseteq S
    BY <1>2
  <2> QED BY ONLY <2>1, IsFiniteSet(S), S # {}, SmallestOf
<1>4. ASSUME NEW y \in S PROVE q[x] <= q[y]
  <2>1. CASE q[y] < q[x]
    <3>1. x \in D[x] /\ x \notin D[y]
      BY <1>2, <2>1
    <3>2. ASSUME NEW z, z \in D[y] PROVE z \in D[x]
      <4>1. z \in S /\ q[z] <= q[y]
        BY <1>2, <3>2
      <4> QED BY <1>2, <2>1, <4>1
    <3>3. D[y] \subseteq D[x] /\ D[y] # D[x]
      BY ONLY <3>1, <3>2
    <3> QED BY <1>3, <3>3
  <2> QED BY <2>1
<1> QED BY <1>4

LEMMA MinIn ==
    ASSUME NEW S, S \subseteq Nat, IsFiniteSet(S), S # {}
    PROVE  Min(S) \in S /\ \A m \in S : Min(S) <= m
<1>1. PICK n \in S : \A m \in S : n <= m
  <2>1. PICK q : q = [n \in S |-> n]  OBVIOUS
  <2>2. \A n \in S : q[n] = n /\ q[n] \in Int  BY <2>1
  <2>3. PICK n \in S : \A m \in S : q[n] <= q[m]  BY <2>2, LeastBy
  <2> QED BY <2>2, <2>3
<1> QED BY <1>1 DEF Min

(* Finitely many elements can be listed, those with greater numbers first. *)
LEMMA SortedList ==
    ASSUME NEW S, IsFiniteSet(S), NEW q, \A x \in S : q[x] \in Int
    PROVE  \E b \in [1 .. Cardinality(S) -> S] :
             IsInjective(b) /\ \A i, j \in DOMAIN b : i < j => q[b[i]] >= q[b[j]]
<1> DEFINE List(T, b) ==
             /\ b \in [1 .. Cardinality(T) -> T] /\ IsInjective(b)
             /\ \A i, j \in DOMAIN b : i < j => q[b[i]] >= q[b[j]]
           C == {T \in SUBSET S : ~ \E b : List(T, b)}
<1> SUFFICES ASSUME C # {} PROVE FALSE
  OBVIOUS
<1>1. PICK T \in C : \A U \in C : U \subseteq T => U = T
  <2>1. C \in SUBSET (SUBSET S)  OBVIOUS
  <2> HIDE DEF C
  <2> QED BY <2>1, SmallestSet
<1>2. T \in SUBSET S /\ IsFiniteSet(T) /\ ~ \E b : List(T, b)
  BY <1>1, FS_Subset
<1>3. CASE T = {}
  <2>1. Cardinality(T) = 0
    BY <1>3, FS_EmptySet
  <2>2. PICK b : b = [i \in 1 .. 0 |-> i]  OBVIOUS
  <2>3. List(T, b)
    BY <1>3, <2>1, <2>2 DEF IsInjective
  <2> QED BY <1>2, <2>3
<1>4. CASE T # {}
  <2>1. PICK x \in T : \A y \in T : q[x] <= q[y]
    BY <1>2, <1>4, LeastBy
  <2>2. PICK U : U = T \ {x}  OBVIOUS
  <2>3. PICK n : n = Cardinality(T)  OBVIOUS
  <2>4. n \in Nat /\ n # 0 /\ Cardinality(U) = n - 1
    BY <1>2, <1>4, <2>2, <2>3, FS_CardinalityType, FS_RemoveElement, FS_EmptySet
  <2>5. U \notin C
    BY <1>1, <2>2
  <2>6. PICK b : List(U, b)
    BY <1>2, <2>2, <2>5
  <2>7. b \in [1 .. n - 1 -> U] /\ IsInjective(b)
    BY <2>4, <2>6
  <2>8. \A i, j \in 1 .. n - 1 : i < j => q[b[i]] >= q[b[j]]
    BY <2>4, <2>6
  <2>9. PICK d : d = [i \in 1 .. n |-> IF i = n THEN x ELSE b[i]]  OBVIOUS
  <2>10. \A i \in 1 .. n : IF i = n THEN d[i] = x ELSE i \in 1 .. n - 1 /\ d[i] = b[i] /\ b[i] \in U
    BY <2>4, <2>7, <2>9
  <2>11. d \in [1 .. n -> T] /\ DOMAIN d = 1 .. n
    BY <2>2, <2>9, <2>10
  <2>12. IsInjective(d)
    BY <2>2, <2>7, <2>10, <2>11 DEF IsInjective
  <2>13. ASSUME NEW i \in 1 .. n, NEW j \in 1 .. n, i < j PROVE q[d[i]] >= q[d[j]]
    <3>1. i # n /\ i \in 1 .. n - 1 /\ d[i] = b[i] /\ b[i] \in T
      BY <2>2, <2>4, <2>10, <2>13
    <3>2. CASE j = n
      <4>1. q[x] <= q[b[i]] /\ q[x] \in Int /\ q[b[i]] \in Int /\ d[j] = x
        BY <1>2, <2>1, <2>10, <3>1, <3>2
      <4> QED BY <3>1, <4>1
    <3>3. CASE j # n
      BY <2>8, <2>10, <2>13, <3>1, <3>3
    <3> QED BY <3>2, <3>3
  <2>14. List(T, d)
    BY <2>3, <2>11, <2>12, <2>13
  <2> QED BY <1>2, <2>14
<1> QED BY <1>3, <1>4

LEMMA PickIn == ASSUME NEW s, s # {} PROVE Pick(s) \in s
BY DEF Pick

LEMMA SumsAt ==
    ASSUME NEW f, NEW S, NEW g, Sums(f, S, g), NEW s \in SUBSET S
    PROVE  /\ s = {} => g[s] = 0
           /\ s # {} => g[s] = f[Pick(s)] + g[s \ {Pick(s)}]
BY DEF Sums

LEMMA SumsAtSome ==
    ASSUME NEW f, NEW S, NEW g, Sums(f, S, g), NEW s \in SUBSET S, NEW x,
           s # {}, x = Pick(s)
    PROVE  g[s] = f[x] + g[s \ {x}]
BY SumsAt

(* Two functions that sum f agree wherever both are defined.               *)
LEMMA SumsUnique ==
    ASSUME NEW f, NEW S, IsFiniteSet(S), NEW T \in SUBSET S,
           NEW g, Sums(f, S, g), NEW h, Sums(f, T, h), NEW s \in SUBSET T
    PROVE  g[s] = h[s]
<1> DEFINE C == {u \in SUBSET T : g[u] # h[u]}
<1> SUFFICES ASSUME C # {} PROVE FALSE
  OBVIOUS
<1>1. IsFiniteSet(T)
  BY FS_Subset
<1>2. PICK u \in C : \A v \in C : v \subseteq u => v = u
  <2>1. C \in SUBSET (SUBSET T)  OBVIOUS
  <2> HIDE DEF C
  <2> QED BY <1>1, <2>1, SmallestSet
<1>0. u \in SUBSET S /\ u \in SUBSET T /\ g[u] # h[u]
  OBVIOUS
<1> HIDE DEF C
<1>3. CASE u = {}
  <2>1. g[u] = 0 /\ h[u] = 0
    BY <1>0, <1>3, SumsAt, Zenon
  <2> QED BY <1>0, <2>1
<1>4. CASE u # {}
  <2> DEFINE v == u \ {Pick(u)}
  <2>1. v \in SUBSET T /\ v \subseteq u /\ v # u
    BY <1>0, <1>4, PickIn
  <2>2. g[v] = h[v]
    BY <1>2, <2>1 DEF C
  <2>3. g[u] = f[Pick(u)] + g[v]
    BY <1>0, <1>4, SumsAtSome
  <2>4. h[u] = f[Pick(u)] + h[v]
    BY <1>0, <1>4, SumsAtSome
  <2> QED BY <1>0, <2>2, <2>3, <2>4
<1> QED BY <1>3, <1>4

(* The recursion has a solution on every finite set.                       *)
LEMMA SumsExist ==
    ASSUME NEW f, NEW S, IsFiniteSet(S)
    PROVE  Sums(f, S, Iter(f, S))
<1> DEFINE C == {T \in SUBSET S : ~ Sums(f, T, Iter(f, T))}
<1> SUFFICES ASSUME C # {} PROVE FALSE
  OBVIOUS
<1>1. PICK T \in C : \A U \in C : U \subseteq T => U = T
  <2>1. C \in SUBSET (SUBSET S)  OBVIOUS
  <2> HIDE DEF C
  <2> QED BY <2>1, SmallestSet
<1>2. ASSUME NEW U \in SUBSET T, U # T PROVE Sums(f, U, Iter(f, U))
  BY <1>1, <1>2
<1> DEFINE rest(s) == s \ {Pick(s)}
           G == [s \in SUBSET T |-> IF s = {} THEN 0
                                    ELSE f[Pick(s)] + Iter(f, rest(s))[rest(s)]]
<1>3. ASSUME NEW s \in SUBSET T, s # {}
      PROVE  G[rest(s)] = Iter(f, rest(s))[rest(s)]
  <2> DEFINE t == rest(s)
  <2>1. t \in SUBSET T /\ t # T
    BY <1>3, PickIn
  <2>2. Sums(f, t, Iter(f, t)) /\ IsFiniteSet(t)
    BY <1>2, <2>1, FS_Subset
  <2>3. CASE t = {}
    <3>1. Iter(f, t)[t] = 0
      BY <2>2, <2>3, SumsAt, Zenon
    <3> QED BY <2>1, <2>3, <3>1
  <2>4. CASE t # {}
    <3> DEFINE u == rest(t)
    <3>1. u \in SUBSET t /\ u \in SUBSET T /\ u # T
      BY <2>1, <2>4, PickIn
    <3>2. Iter(f, t)[u] = Iter(f, u)[u]
      <4>1. Sums(f, u, Iter(f, u))  BY <1>2, <3>1
      <4> HIDE DEF u, t
      <4> QED BY <2>2, <3>1, <4>1, SumsUnique
    <3>3. Iter(f, t)[t] = f[Pick(t)] + Iter(f, t)[u]
      <4>1. u = t \ {Pick(t)}  OBVIOUS
      <4> HIDE DEF u, t
      <4> QED BY <2>2, <2>4, <4>1, SumsAtSome
    <3>4. G[t] = f[Pick(t)] + Iter(f, u)[u]
      BY <2>1, <2>4
    <3> QED BY <3>2, <3>3, <3>4
  <2> QED BY <2>3, <2>4
<1>4. Sums(f, T, G)
  <2> HIDE DEF rest
  <2>1. ASSUME NEW s \in SUBSET T
        PROVE  G[s] = IF s = {} THEN 0 ELSE f[Pick(s)] + G[rest(s)]
    BY <1>3, <2>1
  <2>2. G = [s \in SUBSET T |-> G[s]]
    OBVIOUS
  <2> HIDE DEF G
  <2> QED BY <2>1, <2>2 DEF Sums, rest
<1> HIDE DEF G
<1>5. Sums(f, T, Iter(f, T))
  BY <1>4 DEF Iter
<1> QED BY <1>1, <1>5

LEMMA SumEmpty == ASSUME NEW f PROVE SumFunctionOnSet(f, {}) = 0
BY FS_EmptySet, SumsExist, SumsAt, SumIsIter

LEMMA SumPicked ==
    ASSUME NEW f, NEW S, IsFiniteSet(S), S # {}
    PROVE  SumFunctionOnSet(f, S) = f[Pick(S)] + SumFunctionOnSet(f, S \ {Pick(S)})
<1> DEFINE T == S \ {Pick(S)}
<1>1. Sums(f, S, Iter(f, S)) /\ Sums(f, T, Iter(f, T))
  BY SumsExist, FS_Subset
<1>2. Iter(f, S)[S] = f[Pick(S)] + Iter(f, S)[T]
  BY <1>1, SumsAt
<1>3. Iter(f, S)[T] = Iter(f, T)[T]
  BY <1>1, SumsUnique
<1> QED BY <1>2, <1>3, SumIsIter

(* The sum depends on nothing but the terms.                               *)
LEMMA SumEqual ==
    ASSUME NEW S, IsFiniteSet(S), NEW f, NEW g, \A x \in S : f[x] = g[x]
    PROVE  SumFunctionOnSet(f, S) = SumFunctionOnSet(g, S)
<1> DEFINE C == {T \in SUBSET S : SumFunctionOnSet(f, T) # SumFunctionOnSet(g, T)}
<1> SUFFICES ASSUME C # {} PROVE FALSE
  OBVIOUS
<1>1. PICK T \in C : \A U \in C : U \subseteq T => U = T
  <2>1. C \in SUBSET (SUBSET S)  OBVIOUS
  <2> HIDE DEF C
  <2> QED BY <2>1, SmallestSet
<1>2. T \in SUBSET S /\ IsFiniteSet(T) /\ SumFunctionOnSet(f, T) # SumFunctionOnSet(g, T)
  BY FS_Subset
<1>3. T # {}
  BY <1>2, SumEmpty
<1> DEFINE x == Pick(T)
           U == T \ {x}
<1>4. x \in T /\ f[x] = g[x] /\ U \in SUBSET S /\ U \subseteq T /\ U # T
  BY <1>2, <1>3, PickIn
<1>5. SumFunctionOnSet(f, U) = SumFunctionOnSet(g, U)
  BY <1>1, <1>4
<1>6. /\ SumFunctionOnSet(f, T) = f[x] + SumFunctionOnSet(f, U)
      /\ SumFunctionOnSet(g, T) = g[x] + SumFunctionOnSet(g, U)
  BY <1>2, <1>3, SumPicked
<1> QED BY <1>2, <1>4, <1>5, <1>6

(* A sum of integers is one, and a sum of naturals is no less than any of  *)
(* its terms.                                                              *)
LEMMA SumInt ==
    ASSUME NEW S, IsFiniteSet(S), NEW f, \A x \in S : f[x] \in Int
    PROVE  SumFunctionOnSet(f, S) \in Int
<1> DEFINE C == {T \in SUBSET S : SumFunctionOnSet(f, T) \notin Int}
<1> SUFFICES ASSUME C # {} PROVE FALSE
  OBVIOUS
<1>1. PICK T \in C : \A U \in C : U \subseteq T => U = T
  <2>1. C \in SUBSET (SUBSET S)  OBVIOUS
  <2> HIDE DEF C
  <2> QED BY <2>1, SmallestSet
<1>2. T \in SUBSET S /\ IsFiniteSet(T) /\ SumFunctionOnSet(f, T) \notin Int
  BY FS_Subset
<1>3. T # {}
  BY <1>2, SumEmpty
<1> DEFINE x == Pick(T)
           U == T \ {x}
<1>4. x \in T /\ f[x] \in Int /\ U \in SUBSET S /\ U \subseteq T /\ U # T
  BY <1>2, <1>3, PickIn
<1>5. SumFunctionOnSet(f, U) \in Int
  BY <1>1, <1>4
<1>6. SumFunctionOnSet(f, T) = f[x] + SumFunctionOnSet(f, U)
  BY <1>2, <1>3, SumPicked
<1> QED BY <1>2, <1>4, <1>5, <1>6

(* Any term may be taken out of the sum first.                             *)
LEMMA SumRemove ==
    ASSUME NEW S, IsFiniteSet(S), NEW f, \A y \in S : f[y] \in Int, NEW x \in S
    PROVE  SumFunctionOnSet(f, S) = f[x] + SumFunctionOnSet(f, S \ {x})
<1> DEFINE Splits(T) == \A y \in T : SumFunctionOnSet(f, T) = f[y] + SumFunctionOnSet(f, T \ {y})
           C == {T \in SUBSET S : ~ Splits(T)}
<1> SUFFICES ASSUME C # {} PROVE FALSE
  OBVIOUS
<1>1. PICK T \in C : \A U \in C : U \subseteq T => U = T
  <2>1. C \in SUBSET (SUBSET S)  OBVIOUS
  <2> HIDE DEF C
  <2> QED BY <2>1, SmallestSet
<1>2. T \in SUBSET S /\ IsFiniteSet(T)
  BY FS_Subset
<1>3. PICK y \in T : SumFunctionOnSet(f, T) # f[y] + SumFunctionOnSet(f, T \ {y})
  OBVIOUS
<1> DEFINE z == Pick(T)
<1>4. z \in T
  BY <1>3, PickIn
<1>5. SumFunctionOnSet(f, T) = f[z] + SumFunctionOnSet(f, T \ {z})
  BY <1>2, <1>3, SumPicked
<1>6. y # z
  BY <1>3, <1>5
<1> DEFINE V == T \ {y, z}
<1>7. \A U \in SUBSET T : U # T => Splits(U)
  BY <1>1, <1>2
<1>8. SumFunctionOnSet(f, T \ {z}) = f[y] + SumFunctionOnSet(f, V)
  <2>1. /\ T \ {z} \in SUBSET T /\ T \ {z} # T /\ y \in T \ {z} /\ (T \ {z}) \ {y} = V
    BY <1>3, <1>4, <1>6
  <2>2. Splits(T \ {z})  BY <1>7, <2>1
  <2> HIDE DEF z, V
  <2> QED BY <2>1, <2>2
<1>9. SumFunctionOnSet(f, T \ {y}) = f[z] + SumFunctionOnSet(f, V)
  <2>1. /\ T \ {y} \in SUBSET T /\ T \ {y} # T /\ z \in T \ {y} /\ (T \ {y}) \ {z} = V
    BY <1>3, <1>4, <1>6
  <2>2. Splits(T \ {y})  BY <1>7, <2>1
  <2> HIDE DEF z, V
  <2> QED BY <2>1, <2>2
<1>10. SumFunctionOnSet(f, V) \in Int /\ f[y] \in Int /\ f[z] \in Int
  <2>1. IsFiniteSet(V) /\ \A v \in V : f[v] \in Int
    BY <1>2, FS_Subset
  <2> HIDE DEF V, z
  <2> QED BY <1>2, <1>4, <2>1, SumInt
<1> HIDE DEF V, z
<1> QED BY <1>3, <1>5, <1>8, <1>9, <1>10

(* Changing one term changes the sum by as much.                           *)
LEMMA SumUpdate ==
    ASSUME NEW S, IsFiniteSet(S), NEW f, NEW g, NEW x \in S,
           \A y \in S : f[y] \in Int, g[x] \in Int, \A y \in S \ {x} : g[y] = f[y]
    PROVE  SumFunctionOnSet(g, S) = SumFunctionOnSet(f, S) + g[x] - f[x]
<1> DEFINE T == S \ {x}
<1>1. IsFiniteSet(T)
  BY FS_Subset
<1>2. SumFunctionOnSet(f, S) = f[x] + SumFunctionOnSet(f, T)
  BY SumRemove
<1>3. SumFunctionOnSet(g, S) = g[x] + SumFunctionOnSet(g, T)
  <2>1. \A y \in S : g[y] \in Int  OBVIOUS
  <2> QED BY <2>1, SumRemove
<1>4. SumFunctionOnSet(f, T) = SumFunctionOnSet(g, T)
  BY <1>1, SumEqual
<1>5. SumFunctionOnSet(f, T) \in Int /\ f[x] \in Int
  BY <1>1, SumInt
<1> HIDE DEF T
<1> QED BY <1>2, <1>3, <1>4, <1>5

LEMMA SumZero ==
    ASSUME NEW S, IsFiniteSet(S), NEW f, \A x \in S : f[x] = 0
    PROVE  SumFunctionOnSet(f, S) = 0
<1> DEFINE C == {T \in SUBSET S : SumFunctionOnSet(f, T) # 0}
<1> SUFFICES ASSUME C # {} PROVE FALSE
  OBVIOUS
<1>1. PICK T \in C : \A U \in C : U \subseteq T => U = T
  <2>1. C \in SUBSET (SUBSET S)  OBVIOUS
  <2> HIDE DEF C
  <2> QED BY <2>1, SmallestSet
<1>2. T \in SUBSET S /\ IsFiniteSet(T) /\ SumFunctionOnSet(f, T) # 0
  BY FS_Subset
<1>3. T # {}
  BY <1>2, SumEmpty
<1> DEFINE x == Pick(T)
           U == T \ {x}
<1>4. x \in T /\ f[x] = 0 /\ U \in SUBSET S /\ U \subseteq T /\ U # T
  BY <1>2, <1>3, PickIn
<1>5. SumFunctionOnSet(f, U) = 0
  BY <1>1, <1>4
<1>6. SumFunctionOnSet(f, T) = f[x] + SumFunctionOnSet(f, U)
  BY <1>2, <1>3, SumPicked
<1> QED BY <1>2, <1>4, <1>5, <1>6

LEMMA SumNat ==
    ASSUME NEW S, IsFiniteSet(S), NEW f, \A x \in S : f[x] \in Nat
    PROVE  /\ SumFunctionOnSet(f, S) \in Nat
           /\ \A x \in S : f[x] <= SumFunctionOnSet(f, S)
<1> DEFINE C == {T \in SUBSET S : SumFunctionOnSet(f, T) \notin Nat}
<1>1. C = {}
  <2> SUFFICES ASSUME C # {} PROVE FALSE
    OBVIOUS
  <2>1. PICK T \in C : \A U \in C : U \subseteq T => U = T
    <3>1. C \in SUBSET (SUBSET S)  OBVIOUS
    <3> HIDE DEF C
    <3> QED BY <3>1, SmallestSet
  <2>2. T \in SUBSET S /\ IsFiniteSet(T) /\ SumFunctionOnSet(f, T) \notin Nat
    BY FS_Subset
  <2>3. T # {}
    BY <2>2, SumEmpty
  <2> DEFINE x == Pick(T)
             U == T \ {x}
  <2>4. x \in T /\ f[x] \in Nat /\ U \in SUBSET S /\ U \subseteq T /\ U # T
    BY <2>2, <2>3, PickIn
  <2>5. SumFunctionOnSet(f, U) \in Nat
    BY <2>1, <2>4
  <2>6. SumFunctionOnSet(f, T) = f[x] + SumFunctionOnSet(f, U)
    BY <2>2, <2>3, SumPicked
  <2> QED BY <2>2, <2>4, <2>5, <2>6
<1>2. ASSUME NEW x \in S PROVE f[x] <= SumFunctionOnSet(f, S)
  <2>1. SumFunctionOnSet(f, S) = f[x] + SumFunctionOnSet(f, S \ {x})
    <3>1. \A y \in S : f[y] \in Int  OBVIOUS
    <3> QED BY <3>1, SumRemove
  <2>2. SumFunctionOnSet(f, S \ {x}) \in Nat /\ f[x] \in Nat
    BY <1>1
  <2> QED BY <2>1, <2>2
<1> QED BY <1>1, <1>2
=============================================================================
