----------------------------- MODULE FolioProofs -----------------------------
(***************************************************************************)
(* Proofs about folios and payments.                                       *)
(*                                                                         *)
(* The sums come first: the library defines a sum by recursion over sets,  *)
(* and what it does on one element more or less is shown by looking at a   *)
(* smallest set for which it would not.  Then what one step may do to rows *)
(* and totals (Bookkeeping), the inductive invariant IInv, one lemma per   *)
(* action, and the theorems.  Last, the money given back, and what a        *)
(* settlement posts.                                                       *)
(***************************************************************************)
EXTENDS Payments, TLAPS, WellFoundedInduction, FiniteSetTheorems

-----------------------------------------------------------------------------
(* Sums over finite sets *)

\* Every set of numbers has a least one.
LEMMA LeastNat ==
    ASSUME NEW T \in SUBSET Nat, T # {}
    PROVE  \E x \in T : \A y \in T : x <= y
<1>1. \E x \in T : \A y \in T : ~ (<<y, x>> \in OpToRel(<,Nat))
  BY NatLessThanWellFounded, WFMin
<1>2. \A x, y \in Nat : y < x => <<y, x>> \in OpToRel(<, Nat)
  BY DEF OpToRel
<1>3. PICK x \in T : \A y \in T : ~ (<<y, x>> \in OpToRel(<,Nat))
  BY <1>1
<1>4. \A y \in T : ~(y < x)
  BY <1>2, <1>3
<1> QED BY <1>4

\* The function by which the module Folds defines a sum over subsets of S.
Chosen(s) == CHOOSE x \in s : TRUE
Sums(f, S, it) ==
    it = [s \in SUBSET S |-> IF s = {} THEN 0 ELSE f[Chosen(s)] + it[s \ {Chosen(s)}]]

LEMMA SumIsFold == \A f : SumFunction(f) = (CHOOSE it : Sums(f, DOMAIN f, it))[DOMAIN f]
BY DEF SumFunction, SumFunctionOnSet, FoldFunctionOnSet, MapThenFoldSet, Sums, Chosen

LEMMA SmallerWithout ==
    ASSUME NEW s, IsFiniteSet(s), s # {}
    PROVE  /\ Chosen(s) \in s
           /\ IsFiniteSet(s \ {Chosen(s)})
           /\ Cardinality(s \ {Chosen(s)}) \in Nat
           /\ Cardinality(s) \in Nat
           /\ Cardinality(s \ {Chosen(s)}) < Cardinality(s)
<1>1. Chosen(s) \in s
  BY DEF Chosen
<1>2. IsFiniteSet(s \ {Chosen(s)}) /\ Cardinality(s \ {Chosen(s)}) = Cardinality(s) - 1
  BY <1>1, FS_RemoveElement
<1>3. Cardinality(s) \in Nat /\ Cardinality(s \ {Chosen(s)}) \in Nat
  BY <1>2, FS_CardinalityType
<1> QED BY <1>1, <1>2, <1>3

\* Two such functions agree where the summed values agree.
LEMMA SumsAgree ==
    ASSUME NEW f, NEW S, NEW it, Sums(f, S, it),
           NEW g, NEW T, NEW jt, Sums(g, T, jt),
           NEW U, U \subseteq S, U \subseteq T, IsFiniteSet(U), \A x \in U : f[x] = g[x]
    PROVE  it[U] = jt[U]
<1> DEFINE Bad == {n \in Nat : \E s \in SUBSET U : Cardinality(s) = n /\ it[s] # jt[s]}
<1>1. SUFFICES ASSUME Bad # {} PROVE FALSE
  <2>1. Cardinality(U) \in Nat
    BY FS_CardinalityType
  <2> QED BY <2>1
<1>2. PICK n \in Bad : \A m \in Bad : n <= m
  <2> HIDE DEF Bad
  <2>1. Bad \in SUBSET Nat
    BY DEF Bad
  <2> QED BY <2>1, <1>1, LeastNat
<1>3. PICK s \in SUBSET U : Cardinality(s) = n /\ it[s] # jt[s]
  BY <1>2
<1>4. IsFiniteSet(s)
  BY FS_Subset
<1>5. s # {}
  <2>1. it[{}] = 0 /\ jt[{}] = 0
    BY DEF Sums
  <2> QED BY <2>1, <1>3
<1> DEFINE t == s \ {Chosen(s)}
<1>6. t \in SUBSET U /\ Cardinality(t) \in Nat /\ Cardinality(t) < n /\ Chosen(s) \in U
  BY <1>3, <1>4, <1>5, SmallerWithout
<1>7. it[t] = jt[t]
  <2>1. CASE Cardinality(t) \in Bad
    BY <2>1, <1>2, <1>6
  <2>2. CASE Cardinality(t) \notin Bad
    BY <2>2, <1>6
  <2> QED BY <2>1, <2>2
<1>8. it[s] = f[Chosen(s)] + it[t]
  BY <1>5 DEF Sums
<1>9. jt[s] = g[Chosen(s)] + jt[t]
  BY <1>5 DEF Sums
<1> QED BY <1>3, <1>6, <1>7, <1>8, <1>9

LEMMA SumsExist ==
    ASSUME NEW f, NEW S, IsFiniteSet(S)
    PROVE  \E it : Sums(f, S, it)
<1> DEFINE Bad == {n \in Nat : \E s \in SUBSET S : Cardinality(s) = n /\ ~ \E it : Sums(f, s, it)}
<1>1. SUFFICES ASSUME Bad # {} PROVE FALSE
  <2>1. Cardinality(S) \in Nat
    BY FS_CardinalityType
  <2> QED BY <2>1
<1>2. PICK n \in Bad : \A m \in Bad : n <= m
  <2> HIDE DEF Bad
  <2>1. Bad \in SUBSET Nat
    BY DEF Bad
  <2> QED BY <2>1, <1>1, LeastNat
<1>3. PICK T \in SUBSET S : Cardinality(T) = n /\ ~ \E it : Sums(f, T, it)
  BY <1>2
<1>4. IsFiniteSet(T)
  BY FS_Subset
<1> DEFINE Rest(s) == s \ {Chosen(s)}
           Part(s) == CHOOSE it : Sums(f, Rest(s), it)
           Whole == [s \in SUBSET T |-> IF s = {} THEN 0 ELSE f[Chosen(s)] + Part(s)[Rest(s)]]
<1>5. ASSUME NEW s \in SUBSET T, s # {}
      PROVE  Sums(f, Rest(s), Part(s)) /\ Rest(s) \in SUBSET T /\ IsFiniteSet(Rest(s))
  <2>1. IsFiniteSet(s) /\ Cardinality(s) <= n
    BY <1>3, <1>4, FS_Subset
  <2>2. Chosen(s) \in s /\ IsFiniteSet(Rest(s)) /\ Cardinality(Rest(s)) \in Nat
        /\ Cardinality(s) \in Nat /\ Cardinality(Rest(s)) < Cardinality(s)
    BY <1>5, <2>1, SmallerWithout
  <2>3. n \in Nat
    BY <1>2
  <2>4. Cardinality(Rest(s)) \notin Bad
    <3> HIDE DEF Bad
    <3> QED BY <2>1, <2>2, <2>3, <1>2
  <2>5. \E it : Sums(f, Rest(s), it)
    BY <2>2, <2>4
  <2> QED BY <2>2, <2>5
<1>6. ASSUME NEW s \in SUBSET T, s # {}
      PROVE  Part(s)[Rest(s)] = Whole[Rest(s)]
  <2> DEFINE u == Rest(s)
  <2>1. Sums(f, u, Part(s)) /\ u \in SUBSET T
    BY <1>5, <1>6
  <2>2. CASE u = {}
    <3>1. Part(s)[u] = 0
      BY <2>1, <2>2 DEF Sums
    <3> QED BY <3>1, <2>2
  <2>3. CASE u # {}
    <3> HIDE DEF u
    <3> DEFINE v == Rest(u)
    <3>1. Sums(f, v, Part(u)) /\ v \in SUBSET T /\ IsFiniteSet(v)
      BY <1>5, <2>1, <2>3
    <3>2. Part(s)[u] = f[Chosen(u)] + Part(s)[v]
      <4> HIDE DEF Part
      <4>1. \A it : Sums(f, u, it) => it[u] = f[Chosen(u)] + it[v]
        BY <2>3 DEF Sums
      <4> QED BY <4>1, <2>1
    <3>3. Part(s)[v] = Part(u)[v]
      <4> HIDE DEF Part
      <4>1. v \subseteq u
        OBVIOUS
      <4> HIDE DEF v
      <4>2. \A it, jt : Sums(f, u, it) /\ Sums(f, v, jt) => it[v] = jt[v]
        BY <4>1, <3>1, SumsAgree
      <4> QED BY <4>2, <3>1, <2>1
    <3>4. Whole[u] = f[Chosen(u)] + Part(u)[v]
      BY <2>1, <2>3
    <3>5. Part(s)[u] = Whole[u]
      BY <3>2, <3>3, <3>4
    <3> QED BY <3>5 DEF u
  <2> QED BY <2>2, <2>3
<1>7. Sums(f, T, Whole)
  <2>1. \A s \in SUBSET T : s # {} => Part(s)[Rest(s)] = Whole[Rest(s)]
    BY <1>6
  <2> HIDE DEF Part
  <2>2. \A s \in SUBSET T : Whole[s] = IF s = {} THEN 0 ELSE f[Chosen(s)] + Whole[Rest(s)]
    BY <2>1
  <2>3. Whole = [s \in SUBSET T |-> Whole[s]]
    OBVIOUS
  <2>4. DOMAIN Whole = SUBSET T
    OBVIOUS
  <2> HIDE DEF Whole
  <2> QED BY <2>2, <2>3, <2>4 DEF Sums
<1> QED BY <1>3, <1>7

Total(f, S) == SumFunction([x \in S |-> f[x]])

LEMMA TotalIsSum ==
    ASSUME NEW f, NEW S, IsFiniteSet(S), NEW it, Sums(f, S, it)
    PROVE  Total(f, S) = it[S]
<1> DEFINE g == [x \in S |-> f[x]]
<1>1. PICK jt : Sums(g, S, jt)
  BY SumsExist
<1>2. DOMAIN g = S
  OBVIOUS
<1>3. \E kt : Sums(g, DOMAIN g, kt) /\ SumFunction(g) = kt[S]
  <2> HIDE DEF g
  <2>1. Sums(g, DOMAIN g, CHOOSE kt : Sums(g, DOMAIN g, kt))
    BY <1>1, <1>2
  <2> QED BY <2>1, <1>2, SumIsFold
<1>4. PICK kt : Sums(g, S, kt) /\ SumFunction(g) = kt[S]
  BY <1>2, <1>3
<1>5. \A x \in S : f[x] = g[x]
  OBVIOUS
<1>6. it[S] = kt[S]
  <2> HIDE DEF g
  <2> QED BY <1>4, <1>5, SumsAgree
<1> QED BY <1>4, <1>6 DEF Total

LEMMA TotalRec ==
    ASSUME NEW f, NEW S, IsFiniteSet(S)
    PROVE  /\ S = {} => Total(f, S) = 0
           /\ S # {} => Total(f, S) = f[Chosen(S)] + Total(f, S \ {Chosen(S)})
<1>1. PICK it : Sums(f, S, it)
  BY SumsExist
<1>2. Total(f, S) = it[S]
  BY <1>1, TotalIsSum
<1>3. CASE S = {}
  BY <1>1, <1>2, <1>3 DEF Sums
<1>4. CASE S # {}
  <2> DEFINE T == S \ {Chosen(S)}
  <2>1. IsFiniteSet(T)
    BY <1>4, SmallerWithout
  <2>2. PICK jt : Sums(f, T, jt)
    BY <2>1, SumsExist
  <2>3. Total(f, T) = jt[T]
    BY <2>1, <2>2, TotalIsSum
  <2>4. it[T] = jt[T]
    <3>1. T \subseteq S
      OBVIOUS
    <3> HIDE DEF T
    <3> QED BY <1>1, <2>1, <2>2, <3>1, SumsAgree
  <2>5. it[S] = f[Chosen(S)] + it[T]
    BY <1>1, <1>4 DEF Sums
  <2> QED BY <1>2, <1>4, <2>3, <2>4, <2>5
<1> QED BY <1>3, <1>4

LEMMA TotalType ==
    ASSUME NEW f, NEW S, IsFiniteSet(S), \A x \in S : f[x] \in Int
    PROVE  Total(f, S) \in Int
<1> DEFINE Bad == {n \in Nat : \E s \in SUBSET S : Cardinality(s) = n /\ Total(f, s) \notin Int}
<1>1. SUFFICES ASSUME Bad # {} PROVE FALSE
  <2>1. Cardinality(S) \in Nat
    BY FS_CardinalityType
  <2> QED BY <2>1
<1>2. PICK n \in Bad : \A m \in Bad : n <= m
  <2> HIDE DEF Bad
  <2>1. Bad \in SUBSET Nat
    BY DEF Bad
  <2> QED BY <2>1, <1>1, LeastNat
<1>3. PICK s \in SUBSET S : Cardinality(s) = n /\ Total(f, s) \notin Int
  BY <1>2
<1>4. IsFiniteSet(s)
  BY FS_Subset
<1>5. s # {}
  <2>1. s = {} => Total(f, s) = 0
    BY <1>4, TotalRec
  <2> QED BY <2>1, <1>3
<1> DEFINE t == s \ {Chosen(s)}
<1>6. t \in SUBSET S /\ Cardinality(t) \in Nat /\ Cardinality(t) < n /\ Chosen(s) \in S
  BY <1>3, <1>4, <1>5, SmallerWithout
<1>7. Total(f, t) \in Int
  BY <1>2, <1>6
<1>8. Total(f, s) = f[Chosen(s)] + Total(f, t)
  BY <1>4, <1>5, TotalRec
<1> QED BY <1>3, <1>6, <1>7, <1>8

LEMMA TotalWithout ==
    ASSUME NEW f, NEW S, IsFiniteSet(S), \A x \in S : f[x] \in Int, NEW x \in S
    PROVE  Total(f, S) = f[x] + Total(f, S \ {x})
<1> DEFINE Bad == {n \in Nat : \E s \in SUBSET S : Cardinality(s) = n
                      /\ \E y \in s : Total(f, s) # f[y] + Total(f, s \ {y})}
<1>1. SUFFICES ASSUME Bad # {} PROVE FALSE
  <2>1. Cardinality(S) \in Nat
    BY FS_CardinalityType
  <2> QED BY <2>1
<1>2. PICK n \in Bad : \A m \in Bad : n <= m
  <2> HIDE DEF Bad
  <2>1. Bad \in SUBSET Nat
    BY DEF Bad
  <2> QED BY <2>1, <1>1, LeastNat
<1>3. PICK s \in SUBSET S, y \in S :
         Cardinality(s) = n /\ y \in s /\ Total(f, s) # f[y] + Total(f, s \ {y})
  BY <1>2
<1>4. IsFiniteSet(s) /\ s # {} /\ n \in Nat
  BY <1>2, <1>3, FS_Subset
<1> DEFINE c == Chosen(s)
           t == s \ {c}
<1>5. c \in s /\ IsFiniteSet(t) /\ Cardinality(t) \in Nat /\ Cardinality(t) < n
  BY <1>3, <1>4, SmallerWithout
<1>6. Total(f, s) = f[c] + Total(f, t)
  BY <1>4, TotalRec
<1>7. c # y
  BY <1>3, <1>6
<1>8. Total(f, t) = f[y] + Total(f, t \ {y})
  <2>1. Cardinality(t) \notin Bad
    <3> HIDE DEF Bad, t
    <3> QED BY <1>2, <1>4, <1>5
  <2> HIDE DEF c
  <2>2. t \in SUBSET S /\ y \in t
    BY <1>3, <1>7
  <2> HIDE DEF t
  <2> QED BY <2>1, <2>2, <1>5
<1> DEFINE u == s \ {y}
<1>9. IsFiniteSet(u) /\ Cardinality(u) \in Nat /\ Cardinality(u) < n
  <2>1. Cardinality(s) \in Nat
    BY <1>4, FS_CardinalityType
  <2>2. IsFiniteSet(u) /\ Cardinality(u) = Cardinality(s) - 1
    BY <1>3, <1>4, FS_RemoveElement
  <2>3. Cardinality(u) \in Nat
    <3> HIDE DEF u
    <3> QED BY <2>2, FS_CardinalityType
  <2> QED BY <1>3, <2>1, <2>2, <2>3
<1>10. Total(f, u) = f[c] + Total(f, u \ {c})
  <2>1. Cardinality(u) \notin Bad
    <3> HIDE DEF Bad, u
    <3> QED BY <1>2, <1>4, <1>9
  <2> HIDE DEF c
  <2>2. u \in SUBSET S /\ c \in u
    BY <1>5, <1>7
  <2> HIDE DEF u
  <2> QED BY <2>1, <2>2, <1>9
<1>11. t \ {y} = u \ {c}
  OBVIOUS
<1>12. f[c] \in Int /\ f[y] \in Int /\ Total(f, u \ {c}) \in Int
  <2>1. c \in S /\ y \in S /\ u \ {c} \subseteq S
    BY <1>3, <1>5
  <2>2. IsFiniteSet(u \ {c})
    BY <1>9, FS_Subset
  <2> HIDE DEF c, u
  <2>3. Total(f, u \ {c}) \in Int
    BY <2>1, <2>2, TotalType
  <2> QED BY <2>1, <2>3
<1> HIDE DEF c, t, u
<1>13. Total(f, s) = f[y] + Total(f, u)
  <2>1. Total(f, s) = f[c] + (f[y] + Total(f, u \ {c}))
    BY <1>6, <1>8, <1>11
  <2>2. Total(f, u) = f[c] + Total(f, u \ {c})
    BY <1>10
  <2> QED BY <2>1, <2>2, <1>12
<1> QED BY <1>3, <1>13 DEF u

LEMMA TotalUnion ==
    ASSUME NEW f, NEW S, NEW T, IsFiniteSet(S), IsFiniteSet(T), S \cap T = {},
           \A x \in S \union T : f[x] \in Int
    PROVE  Total(f, S \union T) = Total(f, S) + Total(f, T)
<1> DEFINE Bad == {n \in Nat : \E t \in SUBSET T : Cardinality(t) = n
                      /\ Total(f, S \union t) # Total(f, S) + Total(f, t)}
<1>1. SUFFICES ASSUME Bad # {} PROVE FALSE
  <2>1. Cardinality(T) \in Nat
    BY FS_CardinalityType
  <2> QED BY <2>1
<1>2. PICK n \in Bad : \A m \in Bad : n <= m
  <2> HIDE DEF Bad
  <2>1. Bad \in SUBSET Nat
    BY DEF Bad
  <2> QED BY <2>1, <1>1, LeastNat
<1>3. PICK t \in SUBSET T : Cardinality(t) = n /\ Total(f, S \union t) # Total(f, S) + Total(f, t)
  BY <1>2
<1>4. IsFiniteSet(t) /\ n \in Nat /\ Total(f, S) \in Int
  BY <1>2, <1>3, FS_Subset, TotalType
<1>5. t # {}
  <2>1. t = {} => Total(f, t) = 0
    BY <1>4, TotalRec
  <2>2. t = {} => Total(f, S \union t) = Total(f, S)
    <3>1. t = {} => S \union t = S
      OBVIOUS
    <3> QED BY <3>1
  <2> QED BY <2>1, <2>2, <1>3, <1>4
<1>6. PICK x \in t : TRUE
  BY <1>5
<1> DEFINE u == t \ {x}
<1>7. IsFiniteSet(u) /\ Cardinality(u) \in Nat /\ Cardinality(u) < n
  <2>1. IsFiniteSet(u) /\ Cardinality(u) = Cardinality(t) - 1
    BY <1>4, <1>6, FS_RemoveElement
  <2>2. Cardinality(u) \in Nat
    <3> HIDE DEF u
    <3> QED BY <2>1, FS_CardinalityType
  <2> QED BY <1>3, <1>4, <2>1, <2>2
<1>8. Total(f, S \union u) = Total(f, S) + Total(f, u)
  <2>1. Cardinality(u) \notin Bad
    <3> HIDE DEF Bad, u
    <3> QED BY <1>2, <1>4, <1>7
  <2>2. u \in SUBSET T
    OBVIOUS
  <2> HIDE DEF u
  <2> QED BY <2>1, <2>2, <1>7
<1>9. Total(f, t) = f[x] + Total(f, u)
  BY <1>4, TotalWithout
<1>10. Total(f, S \union t) = f[x] + Total(f, S \union u)
  <2>1. IsFiniteSet(S \union t) /\ x \in S \union t
    BY <1>4, FS_Union
  <2>2. (S \union t) \ {x} = S \union u
    BY <1>6
  <2>3. \A y \in S \union t : f[y] \in Int
    OBVIOUS
  <2> HIDE DEF u
  <2> QED BY <2>1, <2>2, <2>3, TotalWithout
<1>11. f[x] \in Int /\ Total(f, u) \in Int
  <2>1. \A y \in u : f[y] \in Int
    OBVIOUS
  <2> HIDE DEF u
  <2> QED BY <1>6, <1>7, <2>1, TotalType
<1> HIDE DEF u
<1> QED BY <1>3, <1>4, <1>8, <1>9, <1>10, <1>11

LEMMA TotalNat ==
    ASSUME NEW f, NEW S, IsFiniteSet(S), \A x \in S : f[x] \in Nat
    PROVE  Total(f, S) \in Nat
<1> DEFINE Bad == {n \in Nat : \E s \in SUBSET S : Cardinality(s) = n /\ Total(f, s) \notin Nat}
<1>1. SUFFICES ASSUME Bad # {} PROVE FALSE
  <2>1. Cardinality(S) \in Nat
    BY FS_CardinalityType
  <2> QED BY <2>1
<1>2. PICK n \in Bad : \A m \in Bad : n <= m
  <2> HIDE DEF Bad
  <2>1. Bad \in SUBSET Nat
    BY DEF Bad
  <2> QED BY <2>1, <1>1, LeastNat
<1>3. PICK s \in SUBSET S : Cardinality(s) = n /\ Total(f, s) \notin Nat
  BY <1>2
<1>4. IsFiniteSet(s)
  BY FS_Subset
<1>5. s # {}
  <2>1. s = {} => Total(f, s) = 0
    BY <1>4, TotalRec
  <2> QED BY <2>1, <1>3
<1> DEFINE t == s \ {Chosen(s)}
<1>6. t \in SUBSET S /\ Cardinality(t) \in Nat /\ Cardinality(t) < n /\ Chosen(s) \in S
  BY <1>3, <1>4, <1>5, SmallerWithout
<1>7. Total(f, t) \in Nat
  BY <1>2, <1>6
<1>8. Total(f, s) = f[Chosen(s)] + Total(f, t)
  BY <1>4, <1>5, TotalRec
<1> QED BY <1>3, <1>6, <1>7, <1>8

-----------------------------------------------------------------------------
(* The sums of the model *)

LEMMA SumOfNone == ASSUME NEW f PROVE Total(f, {}) = 0
BY TotalRec, FS_EmptySet

AmountOf(rows) == [k \in DOMAIN rows |-> rows[k].amount]

\* Rows of a type: what a row is never matters.
LEMMA SumAtIsTotal ==
    ASSUME NEW rows, NEW f
    PROVE  SumAt(rows, f) = Total(AmountOf(rows), At(rows, f)) - Total(AmountOf(rows), Back(rows, f))
<1>1. [k \in At(rows, f) |-> rows[k].amount] = [k \in At(rows, f) |-> AmountOf(rows)[k]]
  BY DEF At, AmountOf
<1>2. [k \in Back(rows, f) |-> rows[k].amount] = [k \in Back(rows, f) |-> AmountOf(rows)[k]]
  BY DEF Back, AmountOf
<1> QED BY <1>1, <1>2 DEF SumAt, Total

LEMMA SumAtType ==
    ASSUME NEW rows, IsFiniteSet(DOMAIN rows), \A k \in DOMAIN rows : rows[k].amount \in Int, NEW f
    PROVE  SumAt(rows, f) \in Int
<1>1. At(rows, f) \subseteq DOMAIN rows /\ Back(rows, f) \subseteq DOMAIN rows
  BY DEF At, Back
<1>2. IsFiniteSet(At(rows, f)) /\ IsFiniteSet(Back(rows, f))
  BY <1>1, FS_Subset
<1>3. \A k \in DOMAIN rows : AmountOf(rows)[k] \in Int
  BY DEF AmountOf
<1>4. Total(AmountOf(rows), At(rows, f)) \in Int
  BY <1>1, <1>2, <1>3, TotalType
<1>5. Total(AmountOf(rows), Back(rows, f)) \in Int
  BY <1>1, <1>2, <1>3, TotalType
<1> QED BY <1>4, <1>5, SumAtIsTotal

LEMMA SumAtOfNone ==
    ASSUME NEW rows, NEW f, At(rows, f) = {}, Back(rows, f) = {}
    PROVE  SumAt(rows, f) = 0
BY SumAtIsTotal, SumOfNone

\* Sums over the same rows with the same amounts are the same.
LEMMA SumAtSame ==
    ASSUME NEW rows, NEW next, NEW f,
           At(next, f) = At(rows, f), Back(next, f) = Back(rows, f),
           \A k \in At(rows, f) \union Back(rows, f) : next[k].amount = rows[k].amount
    PROVE  SumAt(next, f) = SumAt(rows, f)
BY DEF SumAt

-----------------------------------------------------------------------------
(* The rows of the model are finite, and typed totals are integers *)

LEMMA ImageIsFinite ==
    ASSUME NEW f, IsFiniteSet(DOMAIN f), NEW T, T = {f[x] : x \in DOMAIN f}
    PROVE  IsFiniteSet(T)
<1> DEFINE h == [x \in DOMAIN f |-> f[x]]
<1>1. h \in Surjection(DOMAIN f, T)
  BY DEF Surjection
<1> HIDE DEF h
<1> QED BY <1>1, FS_Surjection

LEMMA KeysAreFinite == \A g : IsFiniteSet(NightOf(g)) /\ IsFiniteSet(LateOf(g))
<1>1. IsFiniteSet(0..MaxChanges) /\ IsFiniteSet(1..MaxDepartures)
  BY FS_Interval, FolioAssumption
<1> TAKE g
<1> DEFINE night == [i \in 0..MaxChanges |-> <<g, "night", i>>]
           late == [i \in 1..MaxDepartures |-> <<g, "late", i>>]
<1>2. NightOf(g) = {night[x] : x \in DOMAIN night} /\ DOMAIN night = 0..MaxChanges
  BY DEF NightOf
<1>3. LateOf(g) = {late[x] : x \in DOMAIN late} /\ DOMAIN late = 1..MaxDepartures
  BY DEF LateOf
<1> HIDE DEF night, late
<1> QED BY <1>1, <1>2, <1>3, ImageIsFinite

LEMMA ItemsFinite == IsFiniteSet(Items)
<1> DEFINE charge == [c \in Charges |-> <<c, "charge", 0>>]
           own == [g \in Stays |-> NightOf(g) \union LateOf(g)]
<1>1. IsFiniteSet(ChargeItems)
  <2>1. ChargeItems = {charge[x] : x \in DOMAIN charge} /\ DOMAIN charge = Charges
    BY DEF ChargeItems
  <2> HIDE DEF charge
  <2> QED BY <2>1, FolioAssumption, ImageIsFinite
<1>2. IsFiniteSet(UNION {NightOf(g) \union LateOf(g) : g \in Stays})
  <2> DEFINE all == {NightOf(g) \union LateOf(g) : g \in Stays}
  <2>1. all = {own[x] : x \in DOMAIN own} /\ DOMAIN own = Stays
    OBVIOUS
  <2>2. \A S \in all : IsFiniteSet(S)
    BY KeysAreFinite, FS_Union
  <2> HIDE DEF own, all
  <2>3. IsFiniteSet(all)
    BY <2>1, FolioAssumption, ImageIsFinite
  <2>4. IsFiniteSet(UNION all)
    BY <2>2, <2>3, FS_UNION
  <2> QED BY <2>4 DEF all
<1> QED BY <1>1, <1>2, FS_Union DEF Items

LEMMA ItemKeys ==
    /\ \A c \in Charges : <<c, "charge", 0>> \in Items
    /\ \A g \in Stays, i \in 0..MaxChanges : <<g, "night", i>> \in Items
    /\ \A g \in Stays, i \in 1..MaxDepartures : <<g, "late", i>> \in Items
    /\ \A g \in Stays : NightOf(g) \subseteq Items /\ LateOf(g) \subseteq Items
    /\ \A g \in Stays : ChargeItems \intersect NightOf(g) = {} /\ ChargeItems \intersect LateOf(g) = {}
    /\ \A g, h \in Stays : NightOf(g) \intersect LateOf(h) = {}
    /\ \A g, h \in Stays : g # h => NightOf(g) \intersect NightOf(h) = {} /\ LateOf(g) \intersect LateOf(h) = {}
BY DEF Items, ChargeItems, NightOf, LateOf

LEMMA TypedTotals ==
    ASSUME NEW rows, rows \in [Items -> ItemRows], NEW pays, pays \in [Pays -> PayRows], NEW f
    PROVE  SumAt(rows, f) \in Int /\ SumAt(PostedRows(pays), f) \in Int
<1>1. SumAt(rows, f) \in Int
  <2>1. DOMAIN rows = Items /\ \A k \in Items : rows[k].amount \in Int
    BY DEF ItemRows
  <2> QED BY <2>1, ItemsFinite, SumAtType
<1>2. SumAt(PostedRows(pays), f) \in Int
  <2>1. DOMAIN PostedRows(pays) \subseteq Pays
    BY DEF PostedRows
  <2>2. IsFiniteSet(DOMAIN PostedRows(pays))
    BY <2>1, FS_Subset, FolioAssumption
  <2>3. \A p \in DOMAIN PostedRows(pays) : PostedRows(pays)[p].amount \in Int
    BY DEF PostedRows, PayRows
  <2> QED BY <2>2, <2>3, SumAtType
<1> QED BY <1>1, <1>2

-----------------------------------------------------------------------------
(* Bookkeeping: what one step may do to rows and totals *)

\* Nothing is on a folio that is not in use, or was merged into another.
Placed ==
    \A f \in Folios : folio[f].status \in {"NEW", "TRANSFERRED"} =>
        /\ At(item, f) = {} /\ Back(item, f) = {}
        /\ At(pay, f) = {} /\ Back(pay, f) = {}

Alike(r, n) == n.at = r.at /\ n.back = r.back /\ n.amount = r.amount
Within(r, n, S) == {r.at, n.at, r.back, n.back} \subseteq S \union {None}
Reversal(r) == r.back = IF r.void = "done" THEN r.at ELSE None

ItemStep(r, n, S) ==
    /\ Alike(r, n) \/ Within(r, n, S)
    /\ \/ n = r
       \/ /\ n.at \in Folios /\ Reversal(n)
          /\ \/ folio'[n.at].status = "OPEN"
             \/ folio'[n.at].status = "CLOSED" /\ n.void # "asked"

PayStep(r, n, S) ==
    /\ \/ Alike(r, n) /\ (r.status = "POSTED" <=> n.status = "POSTED")
       \/ r.status # "POSTED" /\ n.status # "POSTED"
       \/ Within(r, n, S)
    /\ \/ n = r
       \/ n.at \in Folios /\ Reversal(n) /\ folio'[n.at].status = "OPEN"

FolioStep(f, S) ==
    /\ IF f \in S
       THEN folio'[f].charges = SumAt(item', f) /\ folio'[f].balance = SumAt(item', f) - SumAt(PostedRows(pay'), f)
       ELSE folio'[f].charges = folio[f].charges /\ folio'[f].balance = folio[f].balance
    /\ folio'[f].status = "CLOSED" =>
          \/ folio[f].status = "CLOSED" /\ f \notin S
          \/ folio'[f].balance = 0 /\ f \in S /\ ~(Awaited(f))'
    /\ folio'[f].status \in {"NEW", "TRANSFERRED"} =>
          \/ folio[f].status \in {"NEW", "TRANSFERRED"}
          \/ /\ At(item', f) = {} /\ Back(item', f) = {}
             /\ At(pay', f) = {} /\ Back(pay', f) = {}

Bookkeeping(S) ==
    /\ \A k \in Items : ItemStep(item[k], item'[k], S)
    /\ \A p \in Pays : PayStep(pay[p], pay'[p], S)
    /\ \A f \in Folios : FolioStep(f, S)

Typed ==
    /\ item \in [Items -> ItemRows]
    /\ pay \in [Pays -> PayRows]

\* The totals of a folio that a step does not refresh stay what they were.
LEMMA SumsOutside ==
    ASSUME Typed, Typed', NEW S, Bookkeeping(S), NEW f \in Folios, f \notin S
    PROVE  SumAt(item', f) = SumAt(item, f) /\ SumAt(PostedRows(pay'), f) = SumAt(PostedRows(pay), f)
<1> f # None
  BY FolioAssumption
<1>1. SumAt(item', f) = SumAt(item, f)
  <2>1. \A k \in Items : /\ item'[k].at = f <=> item[k].at = f
                         /\ item'[k].back = f <=> item[k].back = f
                         /\ f \in {item[k].at, item[k].back} => item'[k].amount = item[k].amount
    BY DEF Bookkeeping, ItemStep, Alike, Within
  <2>2. DOMAIN item = Items /\ DOMAIN item' = Items
    BY DEF Typed
  <2>3. At(item', f) = At(item, f) /\ Back(item', f) = Back(item, f)
    BY <2>1, <2>2 DEF At, Back
  <2>4. \A k \in At(item, f) \union Back(item, f) : item'[k].amount = item[k].amount
    BY <2>1, <2>2 DEF At, Back
  <2> QED BY <2>3, <2>4, SumAtSame
<1>2. SumAt(PostedRows(pay'), f) = SumAt(PostedRows(pay), f)
  <2> DEFINE r == PostedRows(pay)
             n == PostedRows(pay')
  <2>1. \A p \in Pays : /\ pay'[p].status = "POSTED" /\ pay'[p].at = f <=> pay[p].status = "POSTED" /\ pay[p].at = f
                        /\ pay'[p].status = "POSTED" /\ pay'[p].back = f <=> pay[p].status = "POSTED" /\ pay[p].back = f
                        /\ pay[p].status = "POSTED" /\ f \in {pay[p].at, pay[p].back} => pay'[p].amount = pay[p].amount
    BY DEF Bookkeeping, PayStep, Alike, Within
  <2>2. DOMAIN pay = Pays /\ DOMAIN pay' = Pays
    BY DEF Typed
  <2>3. /\ DOMAIN r = {p \in Pays : pay[p].status = "POSTED"} /\ \A p \in DOMAIN r : r[p] = pay[p]
        /\ DOMAIN n = {p \in Pays : pay'[p].status = "POSTED"} /\ \A p \in DOMAIN n : n[p] = pay'[p]
    BY <2>2 DEF PostedRows
  <2> HIDE DEF r, n
  <2>4. At(n, f) = At(r, f) /\ Back(n, f) = Back(r, f)
    BY <2>1, <2>3 DEF At, Back
  <2>5. \A p \in At(r, f) \union Back(r, f) : n[p].amount = r[p].amount
    BY <2>1, <2>3 DEF At, Back
  <2>6. SumAt(n, f) = SumAt(r, f)
    BY <2>4, <2>5, SumAtSame
  <2> QED BY <2>6 DEF n, r
<1> QED BY <1>1, <1>2

LEMMA BookkeepingKeeps ==
    ASSUME Typed, Typed', TotalsAreTrue, ClosedIsSettled, Placed, VoidsCancelOut, NEW S, Bookkeeping(S)
    PROVE  TotalsAreTrue' /\ ClosedIsSettled' /\ Placed' /\ VoidsCancelOut'
<1>1. ASSUME NEW f \in Folios
      PROVE  folio'[f].charges = SumAt(item', f) /\ folio'[f].balance = SumAt(item', f) - SumAt(PostedRows(pay'), f)
  <2>1. CASE f \in S
    BY <2>1 DEF Bookkeeping, FolioStep
  <2>2. CASE f \notin S
    <3>1. SumAt(item', f) = SumAt(item, f) /\ SumAt(PostedRows(pay'), f) = SumAt(PostedRows(pay), f)
      BY <2>2, SumsOutside
    <3>2. folio'[f].charges = folio[f].charges /\ folio'[f].balance = folio[f].balance
      BY <2>2 DEF Bookkeeping, FolioStep
    <3>3. folio[f].charges = SumAt(item, f) /\ folio[f].balance = SumAt(item, f) - SumAt(PostedRows(pay), f)
      BY DEF TotalsAreTrue, Balance, Charged, Paid
    <3> QED BY <3>1, <3>2, <3>3
  <2> QED BY <2>1, <2>2
<1>2. TotalsAreTrue'
  BY <1>1 DEF TotalsAreTrue, Balance, Charged, Paid
<1>3. ASSUME NEW f \in Folios, folio'[f].status = "CLOSED"
      PROVE  (Balance(f))' = 0 /\ ~(Awaited(f))'
  <2>1. CASE folio'[f].balance = 0 /\ ~(Awaited(f))'
    BY <1>1, <2>1 DEF Balance, Charged, Paid
  <2>2. CASE folio[f].status = "CLOSED" /\ f \notin S
    <3>1. Balance(f) = 0 /\ ~Awaited(f) /\ folio[f].balance = Balance(f)
      BY <2>2 DEF ClosedIsSettled, TotalsAreTrue
    <3>2. folio'[f].balance = 0
      BY <2>2, <3>1 DEF Bookkeeping, FolioStep
    <3>3. \A k \in Items : item'[k].at = f /\ item'[k].void = "asked" => item[k].at = f /\ item[k].void = "asked"
      BY <1>3 DEF Bookkeeping, ItemStep
    <3>4. \A p \in Pays : pay'[p].at = f /\ (pay'[p].void = "asked" \/ pay'[p].status = "PENDING")
             => pay[p].at = f /\ (pay[p].void = "asked" \/ pay[p].status = "PENDING")
      BY <1>3 DEF Bookkeeping, PayStep
    <3>5. ~(Awaited(f))'
      BY <3>1, <3>3, <3>4 DEF Awaited, At, Typed
    <3> QED BY <1>1, <3>2, <3>5 DEF Balance, Charged, Paid
  <2> QED BY <1>3, <2>1, <2>2 DEF Bookkeeping, FolioStep
<1>4. ClosedIsSettled'
  BY <1>3 DEF ClosedIsSettled
<1>5. ASSUME NEW f \in Folios, folio'[f].status \in {"NEW", "TRANSFERRED"}
      PROVE  /\ At(item', f) = {} /\ Back(item', f) = {}
             /\ At(pay', f) = {} /\ Back(pay', f) = {}
  <2> f # None
    BY FolioAssumption
  <2>1. CASE folio[f].status \in {"NEW", "TRANSFERRED"}
    <3>1. /\ At(item, f) = {} /\ Back(item, f) = {}
          /\ At(pay, f) = {} /\ Back(pay, f) = {}
      BY <2>1 DEF Placed
    <3>2. \A k \in Items : item[k].at # f /\ item[k].back # f
      BY <3>1 DEF At, Back, Typed
    <3>3. \A p \in Pays : pay[p].at # f /\ pay[p].back # f
      BY <3>1 DEF At, Back, Typed
    <3>4. \A k \in Items : item'[k].at # f /\ item'[k].back # f
      BY <1>5, <3>2 DEF Bookkeeping, ItemStep, Reversal
    <3>5. \A p \in Pays : pay'[p].at # f /\ pay'[p].back # f
      BY <1>5, <3>3 DEF Bookkeeping, PayStep, Reversal
    <3> QED BY <3>4, <3>5 DEF At, Back, Typed
  <2> QED BY <1>5, <2>1 DEF Bookkeeping, FolioStep
<1>6. Placed'
  BY <1>5 DEF Placed
<1>7. VoidsCancelOut'
  <2>1. \A k \in Items : Reversal(item[k]) /\ (item'[k] = item[k] \/ Reversal(item'[k]))
    BY DEF VoidsCancelOut, Bookkeeping, ItemStep, Reversal
  <2>2. \A p \in Pays : Reversal(pay[p]) /\ (pay'[p] = pay[p] \/ Reversal(pay'[p]))
    BY DEF VoidsCancelOut, Bookkeeping, PayStep, Reversal
  <2> QED BY <2>1, <2>2 DEF VoidsCancelOut, Reversal
<1> QED BY <1>2, <1>4, <1>6, <1>7

-----------------------------------------------------------------------------
(* The inductive invariant *)

PayStages ==
    \A p \in Pays : /\ pay[p].status = "NONE" <=> pay[p].at = None
                    /\ pay[p].void # "no" => pay[p].status = "POSTED"

AskedIsPosted == \A k \in Items : item[k].void # "no" => ~Free(k)

Decisions == \A d \in deciding : ~Free(d.key)

Bounds ==
    /\ \A g \in Stays : house[g].changes <= MaxChanges /\ house[g].departures <= MaxDepartures
    /\ \A e \in inbox : /\ e.n <= house[e.stay].departures /\ (e.kind = "out" => e.n >= 1)
                        /\ e.fees \subseteq LateOf(e.stay)

Posts(g) == Cardinality(PostedNights(g))

\* The rows of a night are numbered, there is none without a price that called
\* for it, and after the last change they add up to the price.
NightRows(g) ==
    /\ Posts(g) \in Nat /\ Posts(g) <= house[g].changes + 1
    /\ \A i \in 0..MaxChanges : ~Free(<<g, "night", i>>) <=> i < Posts(g)
    /\ Posts(g) = house[g].changes + 1 => NightVoided(g) \/ NightSum(g) = house[g].price

OneFee(g) == \A x, y \in LiveFees(g) : x = y

\* What a posting planned under the lock of the reservation is still wanted,
\* but for a void that came meanwhile.
Wanted(g, s) ==
    \/ s.key \in ChargeItems
    \/ /\ s.key = <<g, "night", Posts(g)>>
       /\ Posts(g) <= house[g].changes
       /\ NightVoided(g) \/ s.amount = house[g].price - NightSum(g)
    \/ s.key \in LateOf(g) /\ LiveFees(g) = {}

PlanGood(g, specs) ==
    /\ \A s \in specs : Wanted(g, s)
    /\ \A s, t \in specs : s.key \in LateOf(g) /\ t.key \in LateOf(g) => s.key = t.key

JobGood(g, j) ==
    /\ j.specs # {} /\ j.target = None => j.opens
    /\ j.event # None => j.event.stay = g
    /\ PlanGood(g, j.specs)

Stayed == \A g \in Stays : NightRows(g) /\ OneFee(g)
Work == \A g \in Stays : Locked(g) => JobGood(g, job[g])

IInv ==
    /\ FolioTypeOK
    /\ TotalsAreTrue /\ ClosedIsSettled /\ Placed /\ VoidsCancelOut
    /\ PayStages /\ AskedIsPosted /\ Decisions /\ Bounds
    /\ Stayed /\ Work

-----------------------------------------------------------------------------
(* Nights and fees *)

LEMMA TypeGivesTyped == FolioTypeOK => Typed
BY DEF FolioTypeOK, Typed

LEMMA NightSumType ==
    ASSUME Typed, NEW g \in Stays
    PROVE  NightSum(g) \in Int /\ IsFiniteSet(PostedNights(g)) /\ PostedNights(g) \subseteq Items
<1> DEFINE S == PostedNights(g)
<1>1. S \subseteq NightOf(g) /\ S \subseteq Items
  BY ItemKeys DEF PostedNights
<1>2. IsFiniteSet(S)
  BY <1>1, KeysAreFinite, FS_Subset
<1>3. \A k \in S : AmountOf(item)[k] \in Int
  BY <1>1 DEF AmountOf, Typed, ItemRows
<1>4. NightSum(g) = Total(AmountOf(item), S)
  <2>1. [k \in S |-> item[k].amount] = [k \in S |-> AmountOf(item)[k]]
    BY <1>1 DEF AmountOf, Typed
  <2> QED BY <2>1 DEF NightSum, Total
<1> HIDE DEF S
<1>5. Total(AmountOf(item), S) \in Int
  BY <1>2, <1>3, TotalType
<1> QED BY <1>1, <1>2, <1>4, <1>5 DEF S

\* No night or fee is posted; voids stay.
NothingPosted ==
    \A k \in Items \ ChargeItems :
        /\ item'[k].at = None <=> item[k].at = None
        /\ item'[k].amount = item[k].amount
        /\ item[k].void = "done" => item'[k].void = "done"

SamePrice(g) == house'[g].price = house[g].price /\ house'[g].changes = house[g].changes

\* Nothing of the kind is posted for one stay.
Untouched(g) ==
    \A k \in NightOf(g) \union LateOf(g) :
        /\ item'[k].at = None <=> item[k].at = None
        /\ item'[k].amount = item[k].amount
        /\ item[k].void = "done" => item'[k].void = "done"

LEMMA AllUntouched == NothingPosted => \A g \in Stays : Untouched(g)
BY ItemKeys DEF NothingPosted, Untouched

LEMMA SameNights ==
    ASSUME Typed, Typed', NEW g \in Stays, Untouched(g)
    PROVE  /\ \A k \in NightOf(g) : (Free(k))' <=> Free(k)
           /\ (PostedNights(g))' = PostedNights(g)
           /\ (NightSum(g))' = NightSum(g)
           /\ NightVoided(g) => (NightVoided(g))'
           /\ (LiveFees(g))' \subseteq LiveFees(g)
<1>1. \A k \in NightOf(g) \union LateOf(g) : k \in NightOf(g) \/ k \in LateOf(g)
  OBVIOUS
<1>2. \A k \in NightOf(g) : (Free(k))' <=> Free(k)
  BY <1>1 DEF Untouched, Free
<1>3. (PostedNights(g))' = PostedNights(g)
  BY <1>2 DEF PostedNights
<1>4. PostedNights(g) \subseteq NightOf(g)
  BY DEF PostedNights
<1>5. (NightSum(g))' = NightSum(g)
  <2>1. \A k \in PostedNights(g) : item'[k].amount = item[k].amount
    BY <1>1, <1>4 DEF Untouched
  <2>2. [k \in (PostedNights(g))' |-> item'[k].amount] = [k \in PostedNights(g) |-> item[k].amount]
    BY <1>3, <2>1
  <2> QED BY <2>2 DEF NightSum
<1>6. NightVoided(g) => (NightVoided(g))'
  BY <1>1, <1>3, <1>4 DEF NightVoided, Untouched
<1>7. (LiveFees(g))' \subseteq LiveFees(g)
  BY <1>1 DEF LiveFees, Free, Untouched
<1> QED BY <1>2, <1>3, <1>5, <1>6, <1>7

\* What a plan wants is wanted after such a step too, while the lock is held.
LEMMA StayKept ==
    ASSUME Typed, Typed', NEW g \in Stays, Untouched(g), NightRows(g), OneFee(g), SamePrice(g)
    PROVE  /\ (NightRows(g))' /\ (OneFee(g))'
           /\ \A specs : PlanGood(g, specs) => (PlanGood(g, specs))'
<1>1. /\ \A k \in NightOf(g) : (Free(k))' <=> Free(k)
      /\ (PostedNights(g))' = PostedNights(g)
      /\ (NightSum(g))' = NightSum(g)
      /\ NightVoided(g) => (NightVoided(g))'
      /\ (LiveFees(g))' \subseteq LiveFees(g)
  BY SameNights
<1>2. (Posts(g))' = Posts(g)
  BY <1>1 DEF Posts
<1>3. house'[g].price = house[g].price /\ house'[g].changes = house[g].changes
  BY DEF SamePrice
<1>4. \A i \in 0..MaxChanges : <<g, "night", i>> \in NightOf(g)
  BY DEF NightOf
<1>5. (NightRows(g))'
  BY <1>1, <1>2, <1>3, <1>4 DEF NightRows
<1>6. (OneFee(g))'
  BY <1>1 DEF OneFee
<1>7. ASSUME NEW s, Wanted(g, s) PROVE (Wanted(g, s))'
  BY <1>1, <1>2, <1>3, <1>7 DEF Wanted
<1>8. \A specs : PlanGood(g, specs) => (PlanGood(g, specs))'
  BY <1>7 DEF PlanGood
<1> QED BY <1>5, <1>6, <1>8

\* What is posted to a night makes its rows add up to its price.
Priced ==
    \A g \in Stays : \/ (PostedNights(g))' = PostedNights(g)
                     \/ (NightVoided(g))'
                     \/ (NightSum(g))' = house[g].price

LEMMA NothingIsPriced == ASSUME Typed, Typed', NothingPosted PROVE Priced
BY SameNights, AllUntouched DEF Priced

-----------------------------------------------------------------------------
(* Choosing a folio and planning a posting *)

LEMMA FirstIsOne ==
    ASSUME FolioTypeOK, NEW S \in SUBSET Folios, S # {}
    PROVE  FirstOf(S) \in S
<1> DEFINE W == {folio[f].window : f \in S}
<1>1. W \in SUBSET Nat /\ W # {}
  BY DEF FolioTypeOK, FolioRows
<1>2. PICK w \in W : \A v \in W : w <= v
  <2> HIDE DEF W
  <2> QED BY <1>1, LeastNat
<1>3. \E f \in S : \A o \in S : folio[f].window <= folio[o].window
  BY <1>2
<1> QED BY <1>3 DEF FirstOf

LEMMA ResolveIsOpen ==
    ASSUME FolioTypeOK, NEW r \in Folios \union {None}, NEW g \in Stays
    PROVE  /\ Resolve(r, g) \in Folios \union {None}
           /\ Resolve(r, g) = None => OpenOf(g) = {}
           /\ Resolve(r, g) # None => IsOpen(Resolve(r, g))
<1>1. OpenOf(g) \in SUBSET Folios /\ \A f \in OpenOf(g) : IsOpen(f)
  BY DEF OpenOf
<1>2. OpenOf(g) # {} => FirstOf(OpenOf(g)) \in OpenOf(g)
  BY <1>1, FirstIsOne
<1>3. None \notin Folios
  BY FolioAssumption
<1> QED BY <1>1, <1>2, <1>3 DEF Resolve

Specs == [key : Items, amount : Int]

LEMMA ConstantTypes ==
    /\ \A a \in Prices : a \in Int
    /\ LateFee \in Int /\ MaxChanges \in Nat /\ MaxDepartures \in Nat
    /\ \A a \in Amounts : a \in Int
BY FolioAssumption

LEMMA PlanNightGood ==
    ASSUME FolioTypeOK, Bounds, NEW g \in Stays, NightRows(g), NEW s \in PlanNight(g)
    PROVE  s \in Specs /\ Wanted(g, s) /\ s.key \in NightOf(g)
<1>1. /\ s = [key |-> <<g, "night", Posts(g)>>, amount |-> house[g].price - NightSum(g)]
      /\ house[g].price # NightSum(g) /\ ~NightVoided(g)
  BY DEF PlanNight, Posts
<1>2. /\ Posts(g) \in Nat /\ house[g].changes \in Nat /\ house[g].changes <= MaxChanges /\ MaxChanges \in Nat
      /\ Posts(g) <= house[g].changes + 1 /\ Posts(g) # house[g].changes + 1
  BY <1>1, FolioAssumption DEF NightRows, Bounds, FolioTypeOK
<1>3. Posts(g) <= house[g].changes /\ Posts(g) \in 0..MaxChanges
  BY <1>2
<1>4. house[g].price \in Int /\ NightSum(g) \in Int
  <2>1. house[g].price \in Prices
    BY DEF FolioTypeOK
  <2>2. NightSum(g) \in Int
    BY TypeGivesTyped, NightSumType
  <2> QED BY <2>1, <2>2, ConstantTypes
<1>5. s.key \in Items /\ s.key \in NightOf(g)
  BY <1>1, <1>3, ItemKeys DEF NightOf
<1> QED BY <1>1, <1>3, <1>4, <1>5 DEF Wanted, Specs

LEMMA PlanLateGood ==
    ASSUME NEW g \in Stays, NEW n \in 1..MaxDepartures, NEW late, NEW s \in PlanLate(g, n, late)
    PROVE  s \in Specs /\ Wanted(g, s) /\ s.key = <<g, "late", n>>
<1>1. s = [key |-> <<g, "late", n>>, amount |-> LateFee] /\ LiveFees(g) = {}
  BY DEF PlanLate
<1>2. s.key \in LateOf(g) /\ s.key \in Items /\ LateFee \in Int
  BY <1>1, ItemKeys, FolioAssumption DEF LateOf
<1> QED BY <1>1, <1>2 DEF Specs, Wanted

-----------------------------------------------------------------------------
(* Steps that leave the accounts alone *)

AccountsGood ==
    /\ TotalsAreTrue /\ ClosedIsSettled /\ Placed /\ VoidsCancelOut /\ PayStages /\ AskedIsPosted

LEMMA AccountsKept ==
    ASSUME IInv, folio' = folio, item' = item, pay' = pay
    PROVE  AccountsGood' /\ Typed /\ Typed' /\ NothingPosted
<1>1. Typed /\ Typed'
  BY TypeGivesTyped DEF IInv, Typed
<1>2. AccountsGood'
  <2>1. TotalsAreTrue /\ ClosedIsSettled /\ Placed /\ VoidsCancelOut /\ PayStages /\ AskedIsPosted
    BY DEF IInv
  <2>2. TotalsAreTrue'
    BY <2>1 DEF TotalsAreTrue, Balance, Charged, Paid
  <2>3. ClosedIsSettled'
    BY <2>1 DEF ClosedIsSettled, Balance, Charged, Paid, Awaited
  <2>4. Placed'
    BY <2>1 DEF Placed
  <2>5. VoidsCancelOut' /\ PayStages' /\ AskedIsPosted'
    BY <2>1 DEF VoidsCancelOut, PayStages, AskedIsPosted, Free
  <2> QED BY <2>2, <2>3, <2>4, <2>5 DEF AccountsGood
<1>3. NothingPosted
  BY DEF NothingPosted
<1> QED BY <1>1, <1>2, <1>3

LEMMA CountsKept ==
    ASSUME ops \in Nat, quiet \subseteq Stays, Op \/ Unasked \/ OwnDoing
    PROVE  ops' \in Nat /\ quiet' \subseteq Stays
BY DEF Op, Unasked, OwnDoing

\* What a posting reads and plans under the lock of the reservation.
LEMMA BeginKeeps ==
    ASSUME IInv, Op \/ Unasked \/ OwnDoing,
           NEW g \in Stays, NEW kind \in {"night", "external", "settle"}, NEW specs \in SUBSET Specs,
           NEW target \in Folios \union {None}, NEW event \in inbox \union {None},
           target = None => OpenOf(g) = {},
           event # None => event.stay = g,
           PlanGood(g, specs),
           Begin(g, kind, specs, target, event)
    PROVE  IInv' /\ Priced
<1> DEFINE j == [kind |-> kind, specs |-> specs, target |-> target, opens |-> specs # {} /\ OpenOf(g) = {}, event |-> event]
<1>1. /\ job' = [job EXCEPT ![g] = j]
      /\ folio' = folio /\ item' = item /\ pay' = pay /\ route' = route
      /\ house' = house /\ inbox' = inbox /\ deciding' = deciding
  BY DEF Begin, accounts
<1>2. AccountsGood' /\ Typed /\ Typed' /\ NothingPosted
  BY <1>1, AccountsKept
<1>3. FolioTypeOK'
  <2>1. j \in Jobs
    BY DEF Jobs, Specs
  <2>2. job' \in [Stays -> Jobs \union {None}]
    <3> HIDE DEF j
    <3> QED BY <1>1, <2>1 DEF IInv, FolioTypeOK
  <2>3. Jobs' = Jobs
    BY <1>1 DEF Jobs
  <2>4. ops' \in Nat /\ quiet' \subseteq Stays
    BY CountsKept DEF IInv, FolioTypeOK
  <2> HIDE DEF j
  <2> QED BY <1>1, <1>2, <2>2, <2>3, <2>4 DEF IInv, FolioTypeOK, Typed
<1>4. Decisions' /\ Bounds'
  BY <1>1 DEF IInv, Decisions, Bounds, Free
<1>5. \A h \in Stays : /\ (NightRows(h))' /\ (OneFee(h))'
                       /\ \A ss : PlanGood(h, ss) => (PlanGood(h, ss))'
  <2> TAKE h \in Stays
  <2>1. NightRows(h) /\ OneFee(h) /\ SamePrice(h)
    BY <1>1 DEF IInv, Stayed, SamePrice
  <2> QED BY <1>2, <2>1, StayKept, AllUntouched
<1>6. Work'
  <2> SUFFICES ASSUME NEW h \in Stays, (Locked(h))' PROVE (JobGood(h, job[h]))'
    BY DEF Work
  <2>1. CASE h = g
    <3>1. job'[g] = j
      BY <1>1 DEF IInv, FolioTypeOK
    <3>2. (PlanGood(g, specs))'
      BY <1>5
    <3>3. j.specs # {} /\ j.target = None => j.opens
      BY Zenon
    <3>4. j.event # None => j.event.stay = g
      OBVIOUS
    <3>5. j.specs = specs
      OBVIOUS
    <3> HIDE DEF j
    <3> QED BY <2>1, <3>1, <3>2, <3>3, <3>4, <3>5 DEF JobGood, PlanGood, Wanted
  <2>2. CASE h # g
    <3>1. job'[h] = job[h]
      BY <1>1, <2>2 DEF IInv, FolioTypeOK
    <3>2. JobGood(h, job[h])
      BY <3>1 DEF IInv, Work, Locked
    <3>3. (PlanGood(h, job[h].specs))'
      <4>1. PICK ss : ss = job[h].specs
        OBVIOUS
      <4>2. (PlanGood(h, ss))'
        BY <1>5, <3>2, <4>1 DEF JobGood
      <4> QED BY <3>1, <4>1, <4>2 DEF PlanGood, Wanted
    <3> QED BY <3>1, <3>2, <3>3 DEF JobGood
  <2> QED BY <2>1, <2>2
<1> QED BY <1>2, <1>3, <1>4, <1>5, <1>6, NothingIsPriced DEF IInv, AccountsGood, Stayed

LEMMA JobKept ==
    ASSUME IInv, Typed, Typed', NEW h \in Stays, Untouched(h), SamePrice(h)
    PROVE  /\ (NightRows(h))' /\ (OneFee(h))'
           /\ (Locked(h))' /\ job'[h] = job[h] => (JobGood(h, job[h]))'
<1>1. /\ (NightRows(h))' /\ (OneFee(h))'
      /\ \A specs : PlanGood(h, specs) => (PlanGood(h, specs))'
  BY StayKept DEF IInv, Stayed
<1>2. ASSUME (Locked(h))', job'[h] = job[h] PROVE (JobGood(h, job[h]))'
  <2>1. JobGood(h, job[h])
    BY <1>2 DEF IInv, Work, Locked
  <2>2. PICK ss : ss = job[h].specs
    OBVIOUS
  <2>3. (PlanGood(h, ss))'
    BY <1>1, <2>1, <2>2 DEF JobGood
  <2>4. (PlanGood(h, job[h].specs))'
    BY <1>2, <2>2, <2>3 DEF PlanGood, Wanted
  <2> QED BY <1>2, <2>1, <2>4 DEF JobGood
<1> QED BY <1>1, <1>2

\* A step that leaves the accounts and the nights alone: locks are kept or let
\* go, or taken for work without charges.
LEMMA QuietKeeps ==
    ASSUME IInv, folio' = folio, item' = item, pay' = pay,
           FolioTypeOK', Decisions', Bounds', \A h \in Stays : SamePrice(h),
           \A h \in Stays : (Locked(h))' =>
               \/ job'[h] = job[h]
               \/ job'[h].specs = {} /\ job'[h].event = None
               \/ /\ Locked(h) /\ job'[h].specs = job[h].specs /\ job'[h].event = job[h].event
                  /\ job'[h].target = None => job'[h].opens
    PROVE  IInv' /\ Priced
<1>1. AccountsGood' /\ Typed /\ Typed' /\ NothingPosted
  BY AccountsKept
<1>2. \A h \in Stays : /\ (NightRows(h))' /\ (OneFee(h))'
                       /\ \A specs : PlanGood(h, specs) => (PlanGood(h, specs))'
  <2> TAKE h \in Stays
  <2> QED BY <1>1, StayKept, AllUntouched DEF IInv, Stayed
<1>3. ASSUME NEW h \in Stays, (Locked(h))' PROVE (JobGood(h, job[h]))'
  <2>1. CASE job'[h] = job[h]
    BY <1>1, <1>3, <2>1, JobKept, AllUntouched
  <2>2. CASE job'[h].specs = {} /\ job'[h].event = None
    BY <2>2 DEF JobGood, PlanGood
  <2>3. CASE /\ Locked(h) /\ job'[h].specs = job[h].specs /\ job'[h].event = job[h].event
             /\ job'[h].target = None => job'[h].opens
    <3>1. JobGood(h, job[h])
      BY <2>3 DEF IInv, Work
    <3>2. PICK ss : ss = job[h].specs
      OBVIOUS
    <3>3. (PlanGood(h, ss))'
      BY <1>2, <3>1, <3>2 DEF JobGood
    <3>4. (PlanGood(h, job[h].specs))'
      BY <2>3, <3>2, <3>3 DEF PlanGood, Wanted
    <3>5. (job[h].event # None => job[h].event.stay = h)'
      BY <2>3, <3>1 DEF JobGood
    <3> QED BY <2>3, <3>4, <3>5 DEF JobGood
  <2> QED BY <1>3, <2>1, <2>2, <2>3
<1> QED BY <1>1, <1>2, <1>3, NothingIsPriced DEF IInv, AccountsGood, Stayed, Work

LEMMA BeginRouteKeeps ==
    ASSUME IInv, NEW g \in Stays, NEW f \in Folios, BeginRoute(g, f)
    PROVE  IInv' /\ Priced
<1> DEFINE j == [kind |-> "route", specs |-> {}, target |-> f, opens |-> FALSE, event |-> None]
<1>1. /\ job' = [job EXCEPT ![g] = j]
      /\ folio' = folio /\ item' = item /\ pay' = pay /\ route' = route
      /\ house' = house /\ inbox' = inbox /\ deciding' = deciding
  BY DEF BeginRoute, accounts
<1>2. j \in Jobs
  BY DEF Jobs
<1>3. Jobs' = Jobs
  BY <1>1 DEF Jobs
<1>4. \A h \in Stays : job'[h] = IF h = g THEN j ELSE job[h]
  BY <1>1 DEF IInv, FolioTypeOK
<1>5. j.specs = {} /\ j.event = None
  OBVIOUS
<1> HIDE DEF j
<1>6. ops' \in Nat /\ quiet' \subseteq Stays
  BY CountsKept DEF IInv, FolioTypeOK, BeginRoute
<1>7. FolioTypeOK'
  BY <1>1, <1>2, <1>3, <1>6 DEF IInv, FolioTypeOK
<1>8. Decisions' /\ Bounds'
  BY <1>1 DEF IInv, Decisions, Bounds, Free
<1>9. \A h \in Stays : SamePrice(h)
  BY <1>1 DEF SamePrice
<1> QED BY <1>1, <1>4, <1>5, <1>7, <1>8, <1>9, QuietKeeps

\* The lock of a reservation is let go.
LEMMA AbortKeeps ==
    ASSUME IInv, NEW g \in Stays, Abort(g)
    PROVE  IInv' /\ Priced
<1>1. /\ job' = [job EXCEPT ![g] = None]
      /\ folio' = folio /\ item' = item /\ pay' = pay /\ route' = route
      /\ house' = house /\ inbox' = inbox /\ deciding' = deciding
  BY DEF Abort, accounts
<1>2. Jobs' = Jobs
  BY <1>1 DEF Jobs
<1>3. \A h \in Stays : job'[h] = IF h = g THEN None ELSE job[h]
  BY <1>1 DEF IInv, FolioTypeOK
<1>4. ops' \in Nat /\ quiet' \subseteq Stays
  BY CountsKept DEF IInv, FolioTypeOK, Abort
<1>5. FolioTypeOK'
  BY <1>1, <1>2, <1>4 DEF IInv, FolioTypeOK
<1>6. Decisions' /\ Bounds'
  BY <1>1 DEF IInv, Decisions, Bounds, Free
<1>7. \A h \in Stays : SamePrice(h) /\ ((Locked(h))' => job'[h] = job[h])
  BY <1>1, <1>3 DEF SamePrice, Locked
<1> QED BY <1>1, <1>5, <1>6, <1>7, QuietKeeps

LEMMA SetRouteKeeps ==
    ASSUME IInv, NEW g \in Stays, SetRoute(g)
    PROVE  IInv' /\ Priced
<1>1. /\ job' = [job EXCEPT ![g] = None] /\ route' = [route EXCEPT ![g] = job[g].target]
      /\ folio' = folio /\ item' = item /\ pay' = pay
      /\ house' = house /\ inbox' = inbox /\ deciding' = deciding
      /\ job[g] # None
  BY DEF SetRoute, Locked
<1>2. Jobs' = Jobs
  BY <1>1 DEF Jobs
<1>3. \A h \in Stays : job'[h] = IF h = g THEN None ELSE job[h]
  BY <1>1 DEF IInv, FolioTypeOK
<1>4. ops' \in Nat /\ quiet' \subseteq Stays
  BY CountsKept DEF IInv, FolioTypeOK, SetRoute
<1>5. job[g].target \in Folios \union {None}
  BY <1>1 DEF IInv, FolioTypeOK, Jobs
<1>6. FolioTypeOK'
  BY <1>1, <1>2, <1>4, <1>5 DEF IInv, FolioTypeOK
<1>7. Decisions' /\ Bounds'
  BY <1>1 DEF IInv, Decisions, Bounds, Free
<1>8. \A h \in Stays : SamePrice(h) /\ ((Locked(h))' => job'[h] = job[h])
  BY <1>1, <1>3 DEF SamePrice, Locked
<1> QED BY <1>1, <1>6, <1>7, <1>8, QuietKeeps

LEMMA RemoveRouteKeeps ==
    ASSUME IInv, NEW g \in Stays, RemoveRoute(g)
    PROVE  IInv' /\ Priced
<1>1. /\ route' = [route EXCEPT ![g] = None]
      /\ folio' = folio /\ item' = item /\ pay' = pay
      /\ house' = house /\ inbox' = inbox /\ deciding' = deciding /\ job' = job
  BY DEF RemoveRoute
<1>2. Jobs' = Jobs
  BY <1>1 DEF Jobs
<1>3. ops' \in Nat /\ quiet' \subseteq Stays
  BY CountsKept DEF IInv, FolioTypeOK, RemoveRoute
<1>4. FolioTypeOK'
  BY <1>1, <1>2, <1>3 DEF IInv, FolioTypeOK
<1>5. Decisions' /\ Bounds'
  BY <1>1 DEF IInv, Decisions, Bounds, Free
<1>6. \A h \in Stays : SamePrice(h) /\ job'[h] = job[h]
  BY <1>1 DEF SamePrice
<1> QED BY <1>1, <1>4, <1>5, <1>6, QuietKeeps

\* A read of what is to be decided; the item is not free.
LEMMA ReadDecisionKeeps ==
    ASSUME IInv, NEW k \in Items, NEW granted \in BOOLEAN, ReadDecision(k, granted)
    PROVE  IInv' /\ Priced
<1>1. /\ deciding' = deciding \union {[key |-> k, at |-> item[k].at, granted |-> granted]}
      /\ folio' = folio /\ item' = item /\ pay' = pay /\ route' = route
      /\ house' = house /\ inbox' = inbox /\ job' = job
      /\ item[k].void = "asked"
  BY DEF ReadDecision, accounts
<1>2. Jobs' = Jobs
  BY <1>1 DEF Jobs
<1>3. ops' \in Nat /\ quiet' \subseteq Stays
  BY CountsKept DEF IInv, FolioTypeOK, ReadDecision
<1>4. item[k].at \in Folios /\ item[k].at # None
  BY <1>1, FolioAssumption DEF IInv, AskedIsPosted, FolioTypeOK, ItemRows, Free
<1>5. FolioTypeOK'
  BY <1>1, <1>2, <1>3, <1>4 DEF IInv, FolioTypeOK
<1>6. Bounds'
  BY <1>1 DEF IInv, Bounds
<1>7. Decisions'
  BY <1>1, <1>4 DEF IInv, Decisions, Free
<1>8. \A h \in Stays : SamePrice(h) /\ job'[h] = job[h]
  BY <1>1 DEF SamePrice
<1> QED BY <1>1, <1>5, <1>6, <1>7, <1>8, QuietKeeps

LEMMA RetargetKeeps ==
    ASSUME IInv, NEW g \in Stays, Retarget(g)
    PROVE  IInv' /\ Priced
<1> DEFINE t == Resolve(IF job[g].kind = "external" THEN None ELSE route[g], g)
           o == job[g].opens \/ OpenOf(g) = {}
<1>1. /\ job' = [job EXCEPT ![g].target = t, ![g].opens = o]
      /\ folio' = folio /\ item' = item /\ pay' = pay /\ route' = route
      /\ house' = house /\ inbox' = inbox /\ deciding' = deciding
      /\ Locked(g)
  BY DEF Retarget, accounts, Posting
<1>2. Jobs' = Jobs
  BY <1>1 DEF Jobs
<1>3. job[g] \in Jobs
  BY <1>1 DEF IInv, FolioTypeOK, Locked
<1>4. t \in Folios \union {None} /\ (t = None => OpenOf(g) = {})
  <2>1. (IF job[g].kind = "external" THEN None ELSE route[g]) \in Folios \union {None}
    BY DEF IInv, FolioTypeOK
  <2>2. FolioTypeOK
    BY DEF IInv
  <2> QED BY <2>1, <2>2, ResolveIsOpen
<1>5. o \in BOOLEAN /\ (t = None => o)
  <2>1. job[g].opens \in BOOLEAN
    BY <1>3 DEF Jobs
  <2> HIDE DEF t
  <2> QED BY <1>4, <2>1
<1> HIDE DEF t, o
<1> DEFINE j == [job[g] EXCEPT !.target = t, !.opens = o]
<1>6. j \in Jobs /\ j.specs = job[g].specs /\ j.event = job[g].event /\ j.target = t /\ j.opens = o
  BY <1>3, <1>4, <1>5 DEF Jobs
<1>7. \A h \in Stays : job'[h] = IF h = g THEN j ELSE job[h]
  BY <1>1 DEF IInv, FolioTypeOK
<1>8. job' \in [Stays -> Jobs \union {None}]
  <2>1. job' = [h \in Stays |-> job'[h]]
    BY <1>1 DEF IInv, FolioTypeOK
  <2>2. \A h \in Stays : job'[h] \in Jobs \union {None}
    <3> HIDE DEF j
    <3> QED BY <1>6, <1>7 DEF IInv, FolioTypeOK
  <2> QED BY <2>1, <2>2
<1> HIDE DEF j
<1>9. ops' \in Nat /\ quiet' \subseteq Stays
  BY CountsKept DEF IInv, FolioTypeOK, Retarget
<1>10. FolioTypeOK'
  BY <1>1, <1>2, <1>8, <1>9 DEF IInv, FolioTypeOK
<1>11. Decisions' /\ Bounds'
  BY <1>1 DEF IInv, Decisions, Bounds, Free
<1>12. \A h \in Stays : SamePrice(h)
  BY <1>1 DEF SamePrice
<1> QED BY <1>1, <1>5, <1>6, <1>7, <1>10, <1>11, <1>12, QuietKeeps

LEMMA BeginRoomChargesKeeps ==
    ASSUME IInv, NEW g \in Stays, BeginRoomCharges(g)
    PROVE  IInv' /\ Priced
<1>1. PICK specs, t : /\ specs = PlanNight(g) /\ t = Resolve(route[g], g)
                      /\ Begin(g, "night", specs, t, None) /\ OwnDoing
  BY DEF BeginRoomCharges
<1>2. FolioTypeOK /\ Bounds /\ NightRows(g) /\ route[g] \in Folios \union {None}
  BY DEF IInv, Stayed, FolioTypeOK
<1>3. t \in Folios \union {None} /\ (t = None => OpenOf(g) = {})
  BY <1>1, <1>2, ResolveIsOpen
<1>4. \A s \in specs : s \in Specs /\ Wanted(g, s) /\ s.key \in NightOf(g)
  BY <1>1, <1>2, PlanNightGood
<1>5. specs \in SUBSET Specs /\ PlanGood(g, specs)
  BY <1>4, ItemKeys DEF PlanGood
<1> QED BY <1>1, <1>3, <1>5, BeginKeeps

LEMMA BeginExternalKeeps ==
    ASSUME IInv, NEW g \in Stays, NEW c \in Charges, NEW a \in Amounts, BeginExternal(g, c, a)
    PROVE  IInv' /\ Priced
<1> DEFINE s == [key |-> <<c, "charge", 0>>, amount |-> a]
<1>1. PICK t : t = Resolve(None, g) /\ Begin(g, "external", {s}, t, None) /\ Op
  BY DEF BeginExternal
<1>2. t \in Folios \union {None} /\ (t = None => OpenOf(g) = {})
  BY <1>1, ResolveIsOpen DEF IInv
<1>3. s.key \in ChargeItems /\ s \in Specs
  BY ItemKeys, ConstantTypes DEF ChargeItems, Specs
<1> HIDE DEF s
<1>4. {s} \in SUBSET Specs /\ PlanGood(g, {s})
  BY <1>3 DEF PlanGood, Wanted
<1> QED BY <1>1, <1>2, <1>4, BeginKeeps

LEMMA BeginSettleKeeps ==
    ASSUME IInv, NEW g \in Stays, NEW e \in inbox, BeginSettle(g, e)
    PROVE  IInv' /\ Priced
<1>1. PICK specs, t : /\ specs = PlanNight(g) \union PlanLate(g, e.n, e.late) /\ t = Resolve(route[g], g)
                      /\ Begin(g, "settle", specs, t, e) /\ OwnDoing /\ e.stay = g /\ e.kind = "out"
  BY DEF BeginSettle
<1>2. FolioTypeOK /\ Bounds /\ NightRows(g) /\ route[g] \in Folios \union {None}
  BY DEF IInv, Stayed, FolioTypeOK
<1>3. t \in Folios \union {None} /\ (t = None => OpenOf(g) = {})
  BY <1>1, <1>2, ResolveIsOpen
<1>4. \A s \in PlanNight(g) : s \in Specs /\ Wanted(g, s) /\ s.key \in NightOf(g)
  BY <1>2, PlanNightGood
<1>5. e.n \in 1..MaxDepartures
  <2>1. e.n \in Nat /\ e.n >= 1 /\ e.n <= house[g].departures /\ house[g].departures <= MaxDepartures /\ house[g].departures \in Nat
    BY <1>1, <1>2 DEF Bounds, FolioTypeOK, Events
  <2> QED BY <2>1, ConstantTypes
<1>6. \A s \in PlanLate(g, e.n, e.late) : s \in Specs /\ Wanted(g, s) /\ s.key = <<g, "late", e.n>>
  BY <1>5, PlanLateGood
<1>7. \A s \in specs : s \in Specs /\ Wanted(g, s)
  BY <1>1, <1>4, <1>6
<1>8. \A s \in specs : s.key \in LateOf(g) => s.key = <<g, "late", e.n>>
  BY <1>1, <1>4, <1>6, ItemKeys
<1>9. specs \in SUBSET Specs /\ PlanGood(g, specs)
  BY <1>7, <1>8 DEF PlanGood
<1> QED BY <1>1, <1>3, <1>9, BeginKeeps

\* An event leaves the queue, or stays, while nothing posts for its stay.
LEMMA EventGone ==
    ASSUME IInv, NEW g \in Stays, NEW e, inbox' \in {inbox, inbox \ {e}}, e # None => e.stay = g,
           \A h \in Stays \ {g} : job'[h] = job[h], job'[g] = None, DOMAIN job' = Stays,
           job' = [h \in Stays |-> job'[h]]
    PROVE  job' \in [Stays -> (Jobs \union {None})']
<1>1. ASSUME NEW h \in Stays PROVE job'[h] \in Jobs' \union {None}
  <2>1. CASE h = g
    BY <2>1
  <2>2. CASE h # g /\ job[h] = None
    BY <2>2
  <2>3. CASE h # g /\ job[h] # None
    <3>1. job[h] \in Jobs
      BY <2>3 DEF IInv, FolioTypeOK
    <3>2. job[h].event # None => job[h].event.stay = h
      BY <2>3 DEF IInv, Work, Locked, JobGood
    <3>3. job[h].event \in inbox' \union {None}
      BY <2>3, <3>1, <3>2 DEF Jobs
    <3>4. job[h] \in Jobs'
      BY <3>1, <3>3 DEF Jobs
    <3> QED BY <2>3, <3>4
  <2> QED BY <2>1, <2>2, <2>3
<1> QED BY <1>1

LEMMA SkipSettleKeeps ==
    ASSUME IInv, NEW g \in Stays, NEW e \in inbox, SkipSettle(g, e)
    PROVE  IInv' /\ Priced
<1>1. /\ inbox' = inbox \ {e} /\ e.stay = g /\ job[g] = None
      /\ folio' = folio /\ item' = item /\ pay' = pay /\ route' = route
      /\ house' = house /\ job' = job /\ deciding' = deciding
  BY DEF SkipSettle, accounts, Locked
<1>2. job' \in [Stays -> (Jobs \union {None})']
  <2>1. DOMAIN job' = Stays /\ job' = [h \in Stays |-> job'[h]]
    BY <1>1 DEF IInv, FolioTypeOK
  <2> QED BY <1>1, <2>1, EventGone
<1>3. ops' \in Nat /\ quiet' \subseteq Stays
  BY CountsKept DEF IInv, FolioTypeOK, SkipSettle
<1>4. FolioTypeOK'
  BY <1>1, <1>2, <1>3 DEF IInv, FolioTypeOK
<1>5. Decisions' /\ Bounds'
  BY <1>1 DEF IInv, Decisions, Bounds, Free
<1>6. \A h \in Stays : SamePrice(h) /\ job'[h] = job[h]
  BY <1>1 DEF SamePrice
<1> QED BY <1>1, <1>4, <1>5, <1>6, QuietKeeps

-----------------------------------------------------------------------------
(* The stay *)

LEMMA HouseIsRow ==
    ASSUME FolioTypeOK, NEW g \in Stays
    PROVE  house[g] \in [in : BOOLEAN, price : Prices, late : BOOLEAN, due : Int, changes : Nat, departures : Nat]
BY DEF FolioTypeOK

LEMMA ChangePriceKeeps ==
    ASSUME IInv, NEW g \in Stays, NEW a \in Prices, ChangePrice(g, a)
    PROVE  IInv' /\ Priced
<1>1. /\ house' = [house EXCEPT ![g].price = a, ![g].changes = @ + 1]
      /\ folio' = folio /\ item' = item /\ pay' = pay /\ route' = route
      /\ inbox' = inbox /\ job' = job /\ deciding' = deciding
      /\ job[g] = None /\ house[g].changes < MaxChanges
  BY DEF ChangePrice, accounts, Locked
<1>2. AccountsGood' /\ Typed /\ Typed' /\ NothingPosted
  BY <1>1, AccountsKept
<1>3. \A h \in Stays : house[h] \in [in : BOOLEAN, price : Prices, late : BOOLEAN, due : Int, changes : Nat, departures : Nat]
  BY HouseIsRow DEF IInv
<1>4. \A h \in Stays :
        /\ h # g => house'[h] = house[h]
        /\ house'[h].departures = house[h].departures
        /\ house'[g].changes = house[g].changes + 1
  BY <1>1, <1>3 DEF IInv, FolioTypeOK
<1>5. house' \in [Stays -> [in : BOOLEAN, price : Prices, late : BOOLEAN, due : Int, changes : Nat, departures : Nat]]
  BY <1>1 DEF IInv, FolioTypeOK
<1>6. ops' \in Nat /\ quiet' \subseteq Stays /\ Jobs' = Jobs
  BY <1>1, CountsKept DEF IInv, FolioTypeOK, ChangePrice, Jobs
<1>7. FolioTypeOK'
  BY <1>1, <1>5, <1>6 DEF IInv, FolioTypeOK
<1>8. Decisions' /\ Bounds'
  <2>1. \A h \in Stays : house'[h].changes <= MaxChanges /\ house'[h].departures <= MaxDepartures
    <3>1. house[g].changes \in Nat /\ MaxChanges \in Nat /\ house[g].changes < MaxChanges
      BY <1>1, <1>3, ConstantTypes
    <3>2. \A h \in Stays : house[h].changes <= MaxChanges /\ house[h].departures <= MaxDepartures
      BY DEF IInv, Bounds
    <3> QED BY <1>4, <3>1, <3>2
  <2>2. \A e \in inbox : e.stay \in Stays
    BY DEF IInv, FolioTypeOK, Events
  <2> QED BY <1>1, <1>4, <2>1, <2>2 DEF IInv, Decisions, Bounds, Free
<1>9. ASSUME NEW h \in Stays PROVE (NightRows(h))' /\ (OneFee(h))' /\ ((Locked(h))' => (JobGood(h, job[h]))')
  <2>1. CASE h = g
    <3>1. /\ \A k \in NightOf(g) : (Free(k))' <=> Free(k)
          /\ (PostedNights(g))' = PostedNights(g)
          /\ (LiveFees(g))' \subseteq LiveFees(g)
      BY <1>2, SameNights, AllUntouched
    <3>2. (Posts(g))' = Posts(g)
      BY <3>1 DEF Posts
    <3>3. NightRows(g) /\ OneFee(g)
      BY DEF IInv, Stayed
    <3>4. house[g].changes \in Nat
      BY <1>3
    <3>5. \A i \in 0..MaxChanges : <<g, "night", i>> \in NightOf(g)
      BY DEF NightOf
    <3>6. (NightRows(g))'
      BY <1>4, <3>1, <3>2, <3>3, <3>4, <3>5 DEF NightRows
    <3>7. (OneFee(g))'
      BY <3>1, <3>3 DEF OneFee
    <3>8. ~(Locked(g))'
      BY <1>1 DEF Locked
    <3> QED BY <2>1, <3>6, <3>7, <3>8
  <2>2. CASE h # g
    <3>1. SamePrice(h)
      BY <1>4, <2>2 DEF SamePrice
    <3> QED BY <1>1, <1>2, <3>1, JobKept, AllUntouched
  <2> QED BY <2>1, <2>2
<1> QED BY <1>2, <1>7, <1>8, <1>9, NothingIsPriced DEF IInv, AccountsGood, Stayed, Work

LEMMA SpecSumType ==
    ASSUME NEW specs \in SUBSET Specs, IsFiniteSet(specs)
    PROVE  SumFunction([s \in specs |-> s.amount]) \in Int
<1> DEFINE f == [s \in specs |-> s.amount]
<1>1. \A s \in specs : f[s] \in Int
  BY DEF Specs
<1>2. SumFunction(f) = Total(f, specs)
  <2>1. f = [s \in specs |-> f[s]]
    OBVIOUS
  <2> HIDE DEF f
  <2> QED BY <2>1 DEF Total
<1> HIDE DEF f
<1>3. SumFunction(f) \in Int
  BY <1>1, <1>2, TotalType
<1> QED BY <1>3 DEF f

LEMMA DueType ==
    ASSUME IInv, NEW g \in Stays, NEW late \in BOOLEAN, house[g].departures + 1 <= MaxDepartures
    PROVE  OwnBalance(g) + Pending(g, late) \in Int
<1>1. OwnBalance(g) \in Int
  <2> DEFINE F == {o \in Folios : folio[o].of = g /\ folio[o].status # "TRANSFERRED"}
             b == [f \in F |-> Balance(f)]
  <2>1. IsFiniteSet(F)
    BY FolioAssumption, FS_Subset
  <2>2. \A f \in F : b[f] \in Int
    BY TypedTotals DEF IInv, FolioTypeOK, Balance, Charged, Paid
  <2>3. b = [f \in F |-> b[f]]
    OBVIOUS
  <2>4. OwnBalance(g) = SumFunction(b)
    BY DEF OwnBalance
  <2> HIDE DEF F, b
  <2>5. SumFunction(b) = Total(b, F)
    BY <2>3 DEF Total
  <2> QED BY <2>1, <2>2, <2>4, <2>5, TotalType
<1>2. Pending(g, late) \in Int
  <2> DEFINE n == house[g].departures + 1
             specs == PlanNight(g) \union PlanLate(g, n, late)
  <2>1. n \in 1..MaxDepartures
    BY ConstantTypes DEF IInv, FolioTypeOK
  <2>2. \A s \in specs : s \in Specs
    BY <2>1, PlanNightGood, PlanLateGood DEF IInv, Stayed
  <2>3. IsFiniteSet(specs)
    <3>1. IsFiniteSet(PlanNight(g))
      BY FS_EmptySet, FS_Singleton DEF PlanNight
    <3>2. IsFiniteSet(PlanLate(g, n, late))
      BY FS_EmptySet, FS_Singleton DEF PlanLate
    <3> QED BY <3>1, <3>2, FS_Union
  <2>4. Pending(g, late) = 0 \/ Pending(g, late) = SumFunction([s \in specs |-> s.amount])
    BY DEF Pending
  <2> HIDE DEF specs
  <2>5. SumFunction([s \in specs |-> s.amount]) \in Int
    BY <2>2, <2>3, SpecSumType
  <2> QED BY <2>4, <2>5
<1> QED BY <1>1, <1>2

LEMMA LongerInbox ==
    ASSUME FolioTypeOK, NEW g \in Stays, NEW e, inbox' = inbox \union {e}, job' = job
    PROVE  job' \in [Stays -> (Jobs \union {None})']
<1>1. \A j \in Jobs : j \in Jobs'
  BY DEF Jobs
<1> QED BY <1>1 DEF FolioTypeOK

LEMMA CheckOutKeeps ==
    ASSUME IInv, NEW g \in Stays, NEW late \in BOOLEAN, CheckOut(g, late)
    PROVE  IInv' /\ Priced
<1>1. PICK due, n, e :
        /\ due = OwnBalance(g) + Pending(g, late) /\ n = house[g].departures + 1
        /\ e = [kind |-> "out", stay |-> g, n |-> n, late |-> late, fees |-> {}]
        /\ house' = [house EXCEPT ![g].in = FALSE, ![g].late = late, ![g].due = due, ![g].departures = n]
        /\ inbox' = inbox \union {e}
        /\ n <= MaxDepartures
        /\ folio' = folio /\ item' = item /\ pay' = pay /\ route' = route
        /\ job' = job /\ deciding' = deciding
  BY DEF CheckOut, Leave, accounts
<1>2. \A h \in Stays : house[h] \in [in : BOOLEAN, price : Prices, late : BOOLEAN, due : Int, changes : Nat, departures : Nat]
  BY HouseIsRow DEF IInv
<1>3. n \in Nat /\ n = house[g].departures + 1 /\ n >= 1
  BY <1>1, <1>2
<1>4. due \in Int
  BY <1>1, DueType
<1>5. house' \in [Stays -> [in : BOOLEAN, price : Prices, late : BOOLEAN, due : Int, changes : Nat, departures : Nat]]
  BY <1>1, <1>3, <1>4 DEF IInv, FolioTypeOK
<1>6. \A h \in Stays :
        /\ house'[h].price = house[h].price /\ house'[h].changes = house[h].changes
        /\ h # g => house'[h].departures = house[h].departures
        /\ house'[g].departures = n
  BY <1>1, <1>2 DEF IInv, FolioTypeOK
<1>7. /\ e \in Events
      /\ e.stay = g /\ e.n = n /\ e.fees = {}
  BY <1>1, <1>3 DEF Events
<1>8. ops' \in Nat /\ quiet' \subseteq Stays
  BY DEF CheckOut, Leave, IInv, FolioTypeOK
<1>9. FolioTypeOK'
  <2>1. job' \in [Stays -> (Jobs \union {None})']
    BY <1>1, LongerInbox DEF IInv
  <2>2. inbox' \subseteq Events
    BY <1>1, <1>7 DEF IInv, FolioTypeOK
  <2> QED BY <1>1, <1>5, <1>8, <2>1, <2>2 DEF IInv, FolioTypeOK
<1>10. Decisions'
  BY <1>1 DEF IInv, Decisions, Free
<1>11. Bounds'
  <2>1. \A d \in inbox : d.stay \in Stays /\ d.n \in Nat
    BY DEF IInv, FolioTypeOK, Events
  <2>2. \A h \in Stays : house[h].departures <= house'[h].departures /\ house[h].departures \in Nat /\ house'[h].departures \in Nat
    BY <1>2, <1>3, <1>6
  <2>3. \A d \in inbox : d.n <= house'[d.stay].departures
    BY <2>1, <2>2 DEF IInv, Bounds
  <2>4. e.n <= house'[e.stay].departures /\ e.n >= 1 /\ e.fees \subseteq LateOf(e.stay)
    BY <1>3, <1>6, <1>7
  <2>5. \A h \in Stays : house'[h].changes <= MaxChanges /\ house'[h].departures <= MaxDepartures
    BY <1>1, <1>6 DEF IInv, Bounds
  <2> QED BY <1>1, <2>3, <2>4, <2>5 DEF IInv, Bounds
<1>12. \A h \in Stays : SamePrice(h)
  BY <1>6 DEF SamePrice
<1> QED BY <1>1, <1>9, <1>10, <1>11, <1>12, QuietKeeps

LEMMA RevertCheckOutKeeps ==
    ASSUME IInv, NEW g \in Stays, RevertCheckOut(g)
    PROVE  IInv' /\ Priced
<1>1. PICK n, e, yes, no, due :
        /\ yes = TRUE /\ no = FALSE /\ due = 0
        /\ n = house[g].departures
        /\ e = [kind |-> "back", stay |-> g, n |-> n, late |-> FALSE, fees |-> {k \in LateOf(g) : ~Free(k)}]
        /\ house' = [house EXCEPT ![g].in = yes, ![g].late = no, ![g].due = due]
        /\ inbox' = inbox \union {e}
        /\ folio' = folio /\ item' = item /\ pay' = pay /\ route' = route
        /\ job' = job /\ deciding' = deciding
  BY DEF RevertCheckOut, accounts
<1>2. \A h \in Stays : house[h] \in [in : BOOLEAN, price : Prices, late : BOOLEAN, due : Int, changes : Nat, departures : Nat]
  BY HouseIsRow DEF IInv
<1>3. n \in Nat /\ n = house[g].departures
  BY <1>1, <1>2
<1>4. house' \in [Stays -> [in : BOOLEAN, price : Prices, late : BOOLEAN, due : Int, changes : Nat, departures : Nat]]
  <2>1. house' = [house EXCEPT ![g].in = yes, ![g].late = no, ![g].due = due]
    BY <1>1
  <2>4. yes = TRUE /\ no = FALSE /\ due = 0
    BY <1>1
  <2>5. yes \in BOOLEAN /\ no \in BOOLEAN
    BY <2>4, Zenon
  <2>3. yes \in BOOLEAN /\ no \in BOOLEAN /\ due \in Int
    BY <2>4, <2>5
  <2>2. house \in [Stays -> [in : BOOLEAN, price : Prices, late : BOOLEAN, due : Int, changes : Nat, departures : Nat]]
    BY DEF IInv, FolioTypeOK
  <2> QED BY <2>1, <2>2, <2>3
<1>5. \A h \in Stays :
        /\ house'[h].price = house[h].price /\ house'[h].changes = house[h].changes
        /\ house'[h].departures = house[h].departures
  BY <1>1, <1>2 DEF IInv, FolioTypeOK
<1>6. /\ e \in Events
      /\ e.stay = g /\ e.n = n /\ e.fees \subseteq LateOf(g) /\ e.kind = "back"
  BY <1>1, <1>3, ItemKeys DEF Events
<1>7. ops' \in Nat /\ quiet' \subseteq Stays
  BY CountsKept DEF RevertCheckOut, IInv, FolioTypeOK
<1>8. FolioTypeOK'
  <2>1. job' \in [Stays -> (Jobs \union {None})']
    BY <1>1, LongerInbox DEF IInv
  <2>2. inbox' \subseteq Events
    BY <1>1, <1>6 DEF IInv, FolioTypeOK
  <2> QED BY <1>1, <1>4, <1>7, <2>1, <2>2 DEF IInv, FolioTypeOK
<1>9. Decisions'
  BY <1>1 DEF IInv, Decisions, Free
<1>10. Bounds'
  <2>1. \A d \in inbox : d.stay \in Stays /\ d.n \in Nat
    BY DEF IInv, FolioTypeOK, Events
  <2>2. \A d \in inbox : d.n <= house'[d.stay].departures
    BY <1>5, <2>1 DEF IInv, Bounds
  <2>3. e.n <= house'[e.stay].departures
    BY <1>3, <1>5, <1>6
  <2>4. \A h \in Stays : house'[h].changes <= MaxChanges /\ house'[h].departures <= MaxDepartures
    BY <1>5 DEF IInv, Bounds
  <2>5. inbox' = inbox \union {e}
    BY <1>1
  <2> QED BY <1>6, <2>2, <2>3, <2>4, <2>5 DEF IInv, Bounds
<1>11. \A h \in Stays : SamePrice(h)
  BY <1>5 DEF SamePrice
<1> QED BY <1>1, <1>8, <1>9, <1>10, <1>11, QuietKeeps

-----------------------------------------------------------------------------
(* Steps of the staff that change the accounts *)

LEMMA RefreshIs ==
    ASSUME Typed', NEW fs \in [Folios -> FolioRows], NEW S, Refresh(fs, S)
    PROVE  /\ folio' \in [Folios -> FolioRows]
           /\ \A f \in Folios : /\ folio'[f].of = fs[f].of /\ folio'[f].status = fs[f].status
                                /\ folio'[f].window = fs[f].window
           /\ \A f \in Folios \ S : folio'[f].charges = fs[f].charges /\ folio'[f].balance = fs[f].balance
           /\ \A f \in Folios \intersect S :
                 /\ folio'[f].charges = SumAt(item', f)
                 /\ folio'[f].balance = SumAt(item', f) - SumAt(PostedRows(pay'), f)
<1> DEFINE c(f) == SumAt(item', f)
           b(f) == SumAt(item', f) - SumAt(PostedRows(pay'), f)
<1>1. \A f : c(f) \in Int /\ b(f) \in Int
  <2>1. item' \in [Items -> ItemRows] /\ pay' \in [Pays -> PayRows]
    BY DEF Typed
  <2>2. \A f : SumAt(item', f) \in Int /\ SumAt(PostedRows(pay'), f) \in Int
    BY <2>1, TypedTotals
  <2> QED BY <2>2
<1>2. folio' = [f \in Folios |-> IF f \in S THEN [fs[f] EXCEPT !.charges = c(f), !.balance = b(f)] ELSE fs[f]]
  BY DEF Refresh
<1> HIDE DEF c, b
<1>3. \A f \in Folios : fs[f] \in FolioRows
  OBVIOUS
<1>4. \A f \in Folios : [fs[f] EXCEPT !.charges = c(f), !.balance = b(f)] \in FolioRows
  BY <1>1, <1>3 DEF FolioRows
<1>5. folio' \in [Folios -> FolioRows]
  BY <1>2, <1>3, <1>4
<1>6. \A f \in Folios : /\ folio'[f].of = fs[f].of /\ folio'[f].status = fs[f].status
                        /\ folio'[f].window = fs[f].window
  BY <1>2, <1>3 DEF FolioRows
<1>7. \A f \in Folios \ S : folio'[f].charges = fs[f].charges /\ folio'[f].balance = fs[f].balance
  BY <1>2
<1>8. \A f \in Folios \intersect S : folio'[f].charges = c(f) /\ folio'[f].balance = b(f)
  BY <1>2, <1>3 DEF FolioRows
<1> QED BY <1>5, <1>6, <1>7, <1>8 DEF c, b

\* The totals are computed again for open folios, and no folio changes otherwise.
LEMMA SameFolios ==
    ASSUME IInv, Typed', NEW S, Refresh(folio, S), \A f \in S : IsOpen(f)
    PROVE  /\ folio' \in [Folios -> FolioRows]
           /\ \A f \in Folios : folio'[f].of = folio[f].of /\ folio'[f].status = folio[f].status
           /\ \A f \in Folios : FolioStep(f, S)
<1>1. PICK fs : fs = folio
  OBVIOUS
<1>2. fs \in [Folios -> FolioRows] /\ Refresh(fs, S)
  BY <1>1 DEF IInv, FolioTypeOK, Refresh
<1>3. /\ folio' \in [Folios -> FolioRows]
      /\ \A f \in Folios : folio'[f].of = fs[f].of /\ folio'[f].status = fs[f].status
      /\ \A f \in Folios \ S : folio'[f].charges = fs[f].charges /\ folio'[f].balance = fs[f].balance
      /\ \A f \in Folios \intersect S :
            /\ folio'[f].charges = SumAt(item', f)
            /\ folio'[f].balance = SumAt(item', f) - SumAt(PostedRows(pay'), f)
  BY <1>2, RefreshIs
<1>4. ASSUME NEW f \in Folios PROVE FolioStep(f, S)
  BY <1>1, <1>3 DEF FolioStep, IsOpen
<1> QED BY <1>1, <1>3, <1>4

LEMMA SameRows == \A S : /\ \A r : PayStep(r, r, S) /\ ItemStep(r, r, S)
BY DEF PayStep, ItemStep, Alike

\* What is left to show of a step on the accounts that posts no night or fee.
LEMMA AccountsStepKeeps ==
    ASSUME IInv, Op \/ Unasked \/ OwnDoing, Typed', folio' \in [Folios -> FolioRows],
           \A f \in Folios : folio'[f].of = None <=> folio'[f].status = "NEW",
           NEW S, Bookkeeping(S), NothingPosted, PayStages',
           route' \in [Stays -> Folios \union {None}],
           house' = house, inbox' \subseteq inbox, deciding' \subseteq deciding,
           job' = job, job' \in [Stays -> (Jobs \union {None})']
    PROVE  IInv' /\ Priced
<1>1. FolioTypeOK'
  <2>1. ops' \in Nat /\ quiet' \subseteq Stays
    BY CountsKept DEF IInv, FolioTypeOK
  <2> QED BY <2>1 DEF IInv, FolioTypeOK, Typed
<1>2. Typed
  BY TypeGivesTyped DEF IInv
<1>3. TotalsAreTrue' /\ ClosedIsSettled' /\ Placed' /\ VoidsCancelOut'
  BY <1>2, BookkeepingKeeps DEF IInv
<1>4. \A k \in Items : item'[k] = item[k] \/ item'[k].at # None
  BY FolioAssumption DEF Bookkeeping, ItemStep
<1>5. AskedIsPosted'
  BY <1>4 DEF IInv, AskedIsPosted, Free
<1>6. Decisions'
  <2>1. \A d \in deciding : d.key \in Items
    BY DEF IInv, FolioTypeOK
  <2> QED BY <1>4, <2>1 DEF IInv, Decisions, Free
<1>7. Bounds'
  BY DEF IInv, Bounds
<1>8. \A h \in Stays : SamePrice(h)
  BY DEF SamePrice
<1>9. \A h \in Stays : (NightRows(h))' /\ (OneFee(h))' /\ ((Locked(h))' => (JobGood(h, job[h]))')
  BY <1>2, <1>8, JobKept, AllUntouched
<1> QED BY <1>1, <1>2, <1>3, <1>5, <1>6, <1>7, <1>9, NothingIsPriced DEF IInv, Stayed, Work

\* The same, with the queue as it was.
LEMMA StaffStepKeeps ==
    ASSUME IInv, Op \/ Unasked \/ OwnDoing, Typed', folio' \in [Folios -> FolioRows],
           \A f \in Folios : folio'[f].of = None <=> folio'[f].status = "NEW",
           NEW S, Bookkeeping(S), NothingPosted, PayStages',
           route' \in [Stays -> Folios \union {None}],
           house' = house, inbox' = inbox, deciding' \subseteq deciding, job' = job
    PROVE  IInv' /\ Priced
<1>1. (Jobs \union {None})' = Jobs \union {None}
  BY DEF Jobs
<1>2. job' \in [Stays -> (Jobs \union {None})']
  BY <1>1 DEF IInv, FolioTypeOK
<1> QED BY <1>2, AccountsStepKeeps

LEMMA PostChargeKeeps ==
    ASSUME IInv, NEW f \in Folios, NEW c \in Charges, NEW a \in Amounts, PostCharge(f, c, a)
    PROVE  IInv' /\ Priced
<1>1. PICK k : k = <<c, "charge", 0>>
  OBVIOUS
<1>2. /\ Op /\ IsOpen(f) /\ item[k].at = None
      /\ item' = [item EXCEPT ![k] = ItemAt(f, a)] /\ pay' = pay
      /\ Refresh(folio, {f})
      /\ route' = route /\ house' = house /\ inbox' = inbox /\ job' = job /\ deciding' = deciding
  BY <1>1 DEF PostCharge, Free
<1>3. k \in Items /\ k \in ChargeItems
  BY <1>1, ItemKeys DEF ChargeItems
<1>4. ItemAt(f, a) \in ItemRows
  BY ConstantTypes DEF ItemAt, ItemRows
<1>5. Typed'
  BY <1>2, <1>4 DEF IInv, FolioTypeOK, Typed
<1>6. /\ folio' \in [Folios -> FolioRows]
      /\ \A g \in Folios : folio'[g].of = folio[g].of /\ folio'[g].status = folio[g].status
      /\ \A g \in Folios : FolioStep(g, {f})
  BY <1>2, <1>5, SameFolios
<1>7. \A q \in Items : item'[q] = IF q = k THEN ItemAt(f, a) ELSE item[q]
  BY <1>2 DEF IInv, FolioTypeOK
<1>8. Bookkeeping({f})
  <2>1. item[k].back = None
    BY <1>2, <1>3 DEF IInv, VoidsCancelOut
  <2>2. ItemStep(item[k], ItemAt(f, a), {f})
    BY <1>2, <1>6, <2>1 DEF ItemStep, ItemAt, Within, Reversal, IsOpen
  <2>3. \A q \in Items : ItemStep(item[q], item'[q], {f})
    BY <1>7, <2>2, SameRows
  <2>4. \A p \in Pays : PayStep(pay[p], pay'[p], {f})
    BY <1>2, SameRows
  <2> QED BY <1>6, <2>3, <2>4 DEF Bookkeeping
<1>9. NothingPosted
  BY <1>3, <1>7 DEF NothingPosted
<1>10. PayStages'
  BY <1>2 DEF IInv, PayStages
<1> QED BY <1>2, <1>5, <1>6, <1>8, <1>9, <1>10, StaffStepKeeps DEF IInv, FolioTypeOK

\* Only the mark of a request changes.
LEMMA RequestVoidKeeps ==
    ASSUME IInv, NEW k \in Items, RequestVoid(k)
    PROVE  IInv' /\ Priced
<1>1. /\ Op /\ item[k].at # None /\ IsOpen(item[k].at) /\ item[k].void = "no"
      /\ item' = [item EXCEPT ![k].void = "asked"]
      /\ folio' = folio /\ pay' = pay
      /\ route' = route /\ house' = house /\ inbox' = inbox /\ job' = job /\ deciding' = deciding
  BY DEF RequestVoid, Free
<1>2. item[k] \in ItemRows
  BY DEF IInv, FolioTypeOK
<1>3. [item[k] EXCEPT !.void = "asked"] \in ItemRows
  BY <1>2 DEF ItemRows
<1>4. Typed'
  BY <1>1, <1>3 DEF IInv, FolioTypeOK, Typed
<1>5. \A q \in Items : item'[q] = IF q = k THEN [item[k] EXCEPT !.void = "asked"] ELSE item[q]
  BY <1>1 DEF IInv, FolioTypeOK
<1>6. /\ item'[k].at = item[k].at /\ item'[k].back = item[k].back
      /\ item'[k].amount = item[k].amount /\ item'[k].void = "asked"
  BY <1>2, <1>5 DEF ItemRows
<1>7. Bookkeeping({})
  <2>1. item[k].back = None /\ item[k].at \in Folios
    BY <1>1, <1>2 DEF IInv, VoidsCancelOut, ItemRows
  <2>2. ItemStep(item[k], item'[k], {})
    BY <1>1, <1>6, <2>1 DEF ItemStep, Alike, Reversal, IsOpen
  <2>3. \A q \in Items : ItemStep(item[q], item'[q], {})
    BY <1>5, <2>2, SameRows
  <2>4. \A p \in Pays : PayStep(pay[p], pay'[p], {})
    BY <1>1, SameRows
  <2>5. \A f \in Folios : FolioStep(f, {})
    BY <1>1 DEF FolioStep
  <2> QED BY <2>3, <2>4, <2>5 DEF Bookkeeping
<1>8. NothingPosted
  BY <1>1, <1>5, <1>6 DEF NothingPosted
<1>9. PayStages'
  BY <1>1 DEF IInv, PayStages
<1>10. folio' \in [Folios -> FolioRows] /\ route' \in [Stays -> Folios \union {None}]
       /\ \A f \in Folios : folio'[f].of = None <=> folio'[f].status = "NEW"
  BY <1>1 DEF IInv, FolioTypeOK
<1> QED BY <1>1, <1>4, <1>7, <1>8, <1>9, <1>10, StaffStepKeeps

\* The place of a row that is not free is a folio that is open or closed.
LEMMA PlaceIsUsed ==
    ASSUME IInv, NEW k \in Items, item[k].at # None
    PROVE  item[k].at \in Folios /\ folio[item[k].at].status \in {"OPEN", "CLOSED"}
<1>1. item[k].at \in Folios
  BY DEF IInv, FolioTypeOK, ItemRows
<1>2. k \in At(item, item[k].at)
  BY DEF At, IInv, FolioTypeOK
<1>3. folio[item[k].at].status \notin {"NEW", "TRANSFERRED"}
  BY <1>1, <1>2 DEF IInv, Placed
<1>4. folio[item[k].at] \in FolioRows
  BY <1>1 DEF IInv, FolioTypeOK
<1> QED BY <1>1, <1>3, <1>4 DEF FolioRows

LEMMA ReversedIs ==
    ASSUME NEW S, IInv, \A k \in S : item[k].at # None, NEW next, next = Reversed(item, S)
    PROVE  /\ next \in [Items -> ItemRows]
           /\ \A k \in Items \ S : next[k] = item[k]
           /\ \A k \in Items \intersect S : /\ next[k].at = item[k].at /\ next[k].amount = item[k].amount
                                            /\ next[k].void = "done" /\ next[k].back = item[k].at
<1>1. \A k \in Items : item[k] \in ItemRows
  BY DEF IInv, FolioTypeOK
<1>2. next = [k \in Items |-> IF k \in S THEN [item[k] EXCEPT !.void = "done", !.back = item[k].at] ELSE item[k]]
  BY DEF Reversed, IInv, FolioTypeOK
<1>3. \A k \in Items : [item[k] EXCEPT !.void = "done", !.back = item[k].at] \in ItemRows
  BY <1>1 DEF ItemRows
<1>4. next \in [Items -> ItemRows]
  BY <1>1, <1>2, <1>3
<1>5. \A k \in Items \ S : next[k] = item[k]
  BY <1>2
<1>6. ASSUME NEW k \in Items, k \in S
      PROVE  /\ next[k].at = item[k].at /\ next[k].amount = item[k].amount
             /\ next[k].void = "done" /\ next[k].back = item[k].at
  <2>1. next[k] = [item[k] EXCEPT !.void = "done", !.back = item[k].at]
    BY <1>2, <1>6
  <2>2. item[k] \in ItemRows
    BY <1>1
  <2> QED BY <2>1, <2>2 DEF ItemRows
<1> QED BY <1>4, <1>5, <1>6

LEMMA DecideKeeps ==
    ASSUME IInv, NEW d \in deciding, Decide(d)
    PROVE  IInv' /\ Priced
<1>1. d.key \in Items /\ d.at \in Folios /\ item[d.key].at # None
  BY DEF IInv, Decisions, FolioTypeOK, Free
<1>2. PICK k, at : k = d.key /\ at = item[k].at
  OBVIOUS
<1>3. at \in Folios /\ at # None /\ folio[at].status \in {"OPEN", "CLOSED"} /\ k \in Items
  BY <1>1, <1>2, PlaceIsUsed
<1>4. /\ route' = route /\ house' = house /\ inbox' = inbox /\ job' = job /\ deciding' \subseteq deciding
      /\ pay' = pay /\ (Op \/ Unasked)
  BY DEF Decide, Delivered, Op, Unasked
<1>5. PayStages' /\ route' \in [Stays -> Folios \union {None}]
  BY <1>4 DEF IInv, PayStages, FolioTypeOK
<1>6. \A S : \A p \in Pays : PayStep(pay[p], pay'[p], S)
  BY <1>4, SameRows
<1>7. CASE d.granted /\ IsOpen(d.at)
  <2>1. PICK S : S = {q \in {k} : item[k].void # "done"}
    OBVIOUS
  <2>2. IsOpen(at) /\ item' = Reversed(item, S) /\ Refresh(folio, {at})
    BY <1>2, <1>7, <2>1 DEF Decide
  <2>3. \A q \in S : item[q].at # None
    BY <1>2, <1>3, <2>1
  <2>4. PICK next : next = item'
    OBVIOUS
  <2>5. /\ next \in [Items -> ItemRows]
        /\ \A q \in Items \ S : next[q] = item[q]
        /\ \A q \in Items \intersect S : /\ next[q].at = item[q].at /\ next[q].amount = item[q].amount
                                         /\ next[q].void = "done" /\ next[q].back = item[q].at
    BY <2>2, <2>3, <2>4, ReversedIs
  <2>6. Typed'
    BY <1>4, <2>4, <2>5 DEF Typed, IInv, FolioTypeOK
  <2>7. /\ folio' \in [Folios -> FolioRows]
        /\ \A f \in Folios : folio'[f].of = folio[f].of /\ folio'[f].status = folio[f].status
        /\ \A f \in Folios : FolioStep(f, {at})
    BY <2>2, <2>6, SameFolios
  <2>8. ASSUME NEW q \in Items PROVE ItemStep(item[q], next[q], {at})
    <3>1. CASE q \notin S
      BY <2>5, <3>1, SameRows
    <3>2. CASE q \in S
      <4>1. q = k /\ item[k].void # "done"
        BY <2>1, <3>2
      <4>2. item[k].back = None
        BY <1>3, <4>1 DEF IInv, VoidsCancelOut
      <4>3. /\ next[k].at = at /\ next[k].amount = item[k].amount
            /\ next[k].void = "done" /\ next[k].back = at
        BY <1>2, <1>3, <2>5, <3>2, <4>1
      <4>4. folio'[at].status = "OPEN"
        BY <1>3, <2>2, <2>7 DEF IsOpen
      <4> QED BY <1>2, <1>3, <4>1, <4>2, <4>3, <4>4 DEF ItemStep, Within, Reversal
    <3> QED BY <3>1, <3>2
  <2>9. Bookkeeping({at})
    BY <1>6, <2>4, <2>7, <2>8 DEF Bookkeeping
  <2>10. NothingPosted
    BY <2>4, <2>5 DEF NothingPosted
  <2> QED BY <1>4, <1>5, <2>6, <2>7, <2>9, <2>10, StaffStepKeeps DEF IInv, FolioTypeOK
<1>8. CASE ~(d.granted /\ IsOpen(d.at))
  <2>1. PICK v : v = IF item[k].void = "asked" THEN "no" ELSE item[k].void
    OBVIOUS
  <2>2. item' = [item EXCEPT ![k].void = v] /\ folio' = folio
    BY <1>2, <1>8, <2>1 DEF Decide
  <2>3. item[k] \in ItemRows
    BY <1>3 DEF IInv, FolioTypeOK
  <2>4. [item[k] EXCEPT !.void = v] \in ItemRows
    BY <2>1, <2>3 DEF ItemRows
  <2>5. Typed'
    BY <1>4, <2>2, <2>4 DEF IInv, FolioTypeOK, Typed
  <2>6. \A q \in Items : item'[q] = IF q = k THEN [item[k] EXCEPT !.void = v] ELSE item[q]
    BY <2>2 DEF IInv, FolioTypeOK
  <2>7. /\ item'[k].at = at /\ item'[k].back = item[k].back
        /\ item'[k].amount = item[k].amount /\ item'[k].void = v
    BY <1>2, <1>3, <2>3, <2>6 DEF ItemRows
  <2>8. ItemStep(item[k], item'[k], {})
    <3>1. CASE item[k].void = "asked"
      <4>1. item[k].back = None /\ v = "no"
        BY <1>3, <2>1, <3>1 DEF IInv, VoidsCancelOut
      <4> QED BY <1>2, <1>3, <2>2, <2>7, <4>1 DEF ItemStep, Alike, Reversal
    <3>2. CASE item[k].void # "asked"
      <4>1. item'[k] = item[k]
        BY <1>3, <2>1, <2>3, <2>6, <3>2 DEF ItemRows
      <4> QED BY <4>1, SameRows
    <3> QED BY <3>1, <3>2
  <2>9. Bookkeeping({})
    <3>1. \A q \in Items : ItemStep(item[q], item'[q], {})
      BY <2>6, <2>8, SameRows
    <3>2. \A f \in Folios : FolioStep(f, {})
      BY <2>2 DEF FolioStep
    <3> QED BY <1>6, <3>1, <3>2 DEF Bookkeeping
  <2>10. NothingPosted
    BY <1>2, <2>1, <2>6, <2>7 DEF NothingPosted
  <2>11. folio' \in [Folios -> FolioRows] /\ \A f \in Folios : folio'[f].of = None <=> folio'[f].status = "NEW"
    BY <2>2 DEF IInv, FolioTypeOK
  <2> QED BY <1>4, <1>5, <2>5, <2>9, <2>10, <2>11, StaffStepKeeps
<1> QED BY <1>7, <1>8

LEMMA TransferKeeps ==
    ASSUME IInv, NEW k \in Items, NEW t \in Folios, Transfer(k, t)
    PROVE  IInv' /\ Priced
<1>1. PICK s : s = item[k].at
  OBVIOUS
<1>2. /\ Op /\ s # None /\ IsOpen(s) /\ IsOpen(t) /\ item[k].void = "no"
      /\ item' = [item EXCEPT ![k].at = t] /\ pay' = pay
      /\ Refresh(folio, {s, t})
      /\ route' = route /\ house' = house /\ inbox' = inbox /\ job' = job /\ deciding' = deciding
  BY <1>1 DEF Transfer, Free
<1>3. item[k] \in ItemRows
  BY DEF IInv, FolioTypeOK
<1>4. [item[k] EXCEPT !.at = t] \in ItemRows
  BY <1>3 DEF ItemRows
<1>5. Typed'
  BY <1>2, <1>4 DEF IInv, FolioTypeOK, Typed
<1>6. /\ folio' \in [Folios -> FolioRows]
      /\ \A g \in Folios : folio'[g].of = folio[g].of /\ folio'[g].status = folio[g].status
      /\ \A g \in Folios : FolioStep(g, {s, t})
  BY <1>2, <1>5, SameFolios
<1>7. \A q \in Items : item'[q] = IF q = k THEN [item[k] EXCEPT !.at = t] ELSE item[q]
  BY <1>2 DEF IInv, FolioTypeOK
<1>8. item'[k].at = t /\ item'[k].back = item[k].back /\ item'[k].amount = item[k].amount /\ item'[k].void = "no"
  BY <1>2, <1>3, <1>7 DEF ItemRows
<1>9. Bookkeeping({s, t})
  <2>1. item[k].back = None
    BY <1>2 DEF IInv, VoidsCancelOut
  <2>2. ItemStep(item[k], item'[k], {s, t})
    BY <1>1, <1>2, <1>6, <1>8, <2>1 DEF ItemStep, Within, Reversal, IsOpen
  <2>3. \A q \in Items : ItemStep(item[q], item'[q], {s, t})
    BY <1>7, <2>2, SameRows
  <2>4. \A p \in Pays : PayStep(pay[p], pay'[p], {s, t})
    BY <1>2, SameRows
  <2> QED BY <1>6, <2>3, <2>4 DEF Bookkeeping
<1>10. NothingPosted
  BY <1>1, <1>2, <1>7, <1>8, FolioAssumption DEF NothingPosted
<1>11. PayStages'
  BY <1>2 DEF IInv, PayStages
<1> QED BY <1>2, <1>5, <1>6, <1>9, <1>10, <1>11, StaffStepKeeps DEF IInv, FolioTypeOK

\* A folio that is not in use owes nothing.
LEMMA UnusedIsZero ==
    ASSUME IInv, NEW n \in Unused
    PROVE  /\ n \in Folios /\ folio[n].charges = 0 /\ folio[n].balance = 0 /\ folio[n].status = "NEW"
           /\ At(item, n) = {} /\ Back(item, n) = {} /\ At(pay, n) = {} /\ Back(pay, n) = {}
<1>1. n \in Folios /\ folio[n].status = "NEW"
  BY DEF Unused
<1>2. At(item, n) = {} /\ Back(item, n) = {} /\ At(pay, n) = {} /\ Back(pay, n) = {}
  BY <1>1 DEF IInv, Placed
<1>3. SumAt(item, n) = 0
  BY <1>2, SumAtOfNone
<1>4. At(PostedRows(pay), n) = {} /\ Back(PostedRows(pay), n) = {}
  BY <1>2 DEF At, Back, PostedRows
<1>5. SumAt(PostedRows(pay), n) = 0
  BY <1>4, SumAtOfNone
<1> QED BY <1>1, <1>2, <1>3, <1>5 DEF IInv, TotalsAreTrue, Charged, Balance, Paid

LEMMA NewFolioIs ==
    ASSUME IInv, NEW g \in Stays
    PROVE  /\ NewFolio(g) \in FolioRows /\ NewFolio(g).of = g /\ NewFolio(g).status = "OPEN"
           /\ NewFolio(g).charges = 0 /\ NewFolio(g).balance = 0
<1>1. Cardinality({f \in Folios : folio[f].of = g}) \in Nat
  <2>1. IsFiniteSet({f \in Folios : folio[f].of = g})
    BY FolioAssumption, FS_Subset
  <2> QED BY <2>1, FS_CardinalityType
<1> QED BY <1>1 DEF NewFolio, NextWindow, FolioRows

LEMMA OpenIsOfStay ==
    ASSUME IInv, NEW f \in Folios, IsOpen(f)
    PROVE  folio[f].of \in Stays
BY FolioAssumption DEF IInv, FolioTypeOK, FolioRows, IsOpen

LEMMA SplitKeeps ==
    ASSUME IInv, NEW f \in Folios, NEW n \in Folios, NEW routed \in BOOLEAN, NEW M \in SUBSET At(item, f),
           Split(f, n, M, routed)
    PROVE  IInv' /\ Priced
<1>1. PICK g, new, fs, S :
        g = folio[f].of /\ new = NewFolio(g) /\ fs = [folio EXCEPT ![n] = new] /\ S = {f, n}
  OBVIOUS
<1>2. /\ Op /\ IsOpen(f) /\ n \in Unused
      /\ \A k \in M : item[k].void = "no"
      /\ item' = [k \in Items |-> IF k \in M THEN [item[k] EXCEPT !.at = n] ELSE item[k]] /\ pay' = pay
      /\ Refresh(fs, S)
      /\ route' = IF routed THEN [route EXCEPT ![g] = n] ELSE route
      /\ house' = house /\ inbox' = inbox /\ job' = job /\ deciding' = deciding
  BY <1>1 DEF Split
<1>3. g \in Stays
  BY <1>1, <1>2, OpenIsOfStay
<1>4. new \in FolioRows /\ new.of = g /\ new.status = "OPEN" /\ new.charges = 0 /\ new.balance = 0
  BY <1>1, <1>3, NewFolioIs
<1>5. /\ folio[n].charges = 0 /\ folio[n].balance = 0 /\ folio[n].status = "NEW"
      /\ f # n
  BY <1>2, UnusedIsZero DEF IsOpen
<1>6. fs \in [Folios -> FolioRows] /\ \A h \in Folios : fs[h] = IF h = n THEN new ELSE folio[h]
  BY <1>1, <1>4 DEF IInv, FolioTypeOK
<1>7. \A k \in Items : item[k] \in ItemRows
  BY DEF IInv, FolioTypeOK
<1>8. \A k \in Items : [item[k] EXCEPT !.at = n] \in ItemRows
  BY <1>7 DEF ItemRows
<1>9. Typed'
  BY <1>2, <1>7, <1>8 DEF IInv, FolioTypeOK, Typed
<1>10. /\ folio' \in [Folios -> FolioRows]
       /\ \A h \in Folios : folio'[h].of = fs[h].of /\ folio'[h].status = fs[h].status
       /\ \A h \in Folios \ S : folio'[h].charges = fs[h].charges /\ folio'[h].balance = fs[h].balance
       /\ \A h \in Folios \intersect S :
             /\ folio'[h].charges = SumAt(item', h)
             /\ folio'[h].balance = SumAt(item', h) - SumAt(PostedRows(pay'), h)
  BY <1>2, <1>6, <1>9, RefreshIs
<1>11. ASSUME NEW k \in M
       PROVE  k \in Items /\ item[k].at = f /\ item[k].void = "no" /\ item[k].back = None
  <2>1. k \in Items /\ item[k].at = f
    BY DEF At, IInv, FolioTypeOK
  <2> QED BY <1>2, <2>1 DEF IInv, VoidsCancelOut
<1>12. ASSUME NEW k \in Items, k \in M
       PROVE  /\ item'[k].at = n /\ item'[k].void = "no" /\ item'[k].back = None
              /\ item'[k].amount = item[k].amount
  <2>1. item'[k] = [item[k] EXCEPT !.at = n]
    BY <1>2, <1>12
  <2>2. item[k] \in ItemRows
    BY <1>7
  <2> QED BY <1>11, <1>12, <2>1, <2>2 DEF ItemRows
<1>13. \A k \in Items : k \notin M => item'[k] = item[k]
  BY <1>2
<1>14. Bookkeeping(S)
  <2>1. ASSUME NEW k \in Items PROVE ItemStep(item[k], item'[k], S)
    <3>1. CASE k \in M
      <4>1. folio'[n].status = "OPEN"
        BY <1>4, <1>6, <1>10
      <4> QED BY <1>1, <1>11, <1>12, <3>1, <4>1 DEF ItemStep, Within, Reversal
    <3>2. CASE k \notin M
      BY <1>13, <3>2, SameRows
    <3> QED BY <3>1, <3>2
  <2>2. \A p \in Pays : PayStep(pay[p], pay'[p], S)
    BY <1>2, SameRows
  <2>3. \A h \in Folios : FolioStep(h, S)
    BY <1>1, <1>2, <1>4, <1>5, <1>6, <1>10 DEF FolioStep, IsOpen
  <2> QED BY <2>1, <2>2, <2>3 DEF Bookkeeping
<1>15. NothingPosted
  BY <1>11, <1>12, <1>13, FolioAssumption DEF NothingPosted
<1>16. PayStages' /\ route' \in [Stays -> Folios \union {None}]
  BY <1>2 DEF IInv, PayStages, FolioTypeOK
<1>17. \A h \in Folios : folio'[h].of = None <=> folio'[h].status = "NEW"
  BY <1>3, <1>4, <1>6, <1>10, FolioAssumption DEF IInv, FolioTypeOK
<1> QED BY <1>2, <1>9, <1>10, <1>14, <1>15, <1>16, <1>17, StaffStepKeeps

LEMMA ItemsMoved ==
    ASSUME IInv, NEW s, NEW t \in Folios, NEW next, next = Moved(item, s, t)
    PROVE  /\ next \in [Items -> ItemRows]
           /\ \A k \in Items : /\ next[k].at = IF item[k].at = s THEN t ELSE item[k].at
                               /\ next[k].back = IF item[k].back = s THEN t ELSE item[k].back
                               /\ next[k].amount = item[k].amount /\ next[k].void = item[k].void
                               /\ item[k].at # s /\ item[k].back # s => next[k] = item[k]
<1>1. \A k \in Items : item[k] \in ItemRows
  BY DEF IInv, FolioTypeOK
<1>2. next = [k \in Items |-> [item[k] EXCEPT !.at = IF @ = s THEN t ELSE @, !.back = IF @ = s THEN t ELSE @]]
  BY DEF Moved, IInv, FolioTypeOK
<1>3. ASSUME NEW k \in Items
      PROVE  /\ next[k] \in ItemRows
             /\ next[k].at = IF item[k].at = s THEN t ELSE item[k].at
             /\ next[k].back = IF item[k].back = s THEN t ELSE item[k].back
             /\ next[k].amount = item[k].amount /\ next[k].void = item[k].void
             /\ item[k].at # s /\ item[k].back # s => next[k] = item[k]
  <2>1. PICK r : r = item[k] /\ r \in ItemRows
    BY <1>1
  <2>2. next[k] = [r EXCEPT !.at = IF r.at = s THEN t ELSE r.at, !.back = IF r.back = s THEN t ELSE r.back]
    BY <1>2, <2>1 DEF ItemRows
  <2> QED BY <2>1, <2>2 DEF ItemRows
<1> QED BY <1>2, <1>3

LEMMA PaysMoved ==
    ASSUME IInv, NEW s, NEW t \in Folios, NEW next, next = Moved(pay, s, t)
    PROVE  /\ next \in [Pays -> PayRows]
           /\ \A k \in Pays : /\ next[k].at = IF pay[k].at = s THEN t ELSE pay[k].at
                              /\ next[k].back = IF pay[k].back = s THEN t ELSE pay[k].back
                              /\ next[k].amount = pay[k].amount /\ next[k].void = pay[k].void
                              /\ next[k].status = pay[k].status
                              /\ pay[k].at # s /\ pay[k].back # s => next[k] = pay[k]
<1>1. \A k \in Pays : pay[k] \in PayRows
  BY DEF IInv, FolioTypeOK
<1>2. next = [k \in Pays |-> [pay[k] EXCEPT !.at = IF @ = s THEN t ELSE @, !.back = IF @ = s THEN t ELSE @]]
  BY DEF Moved, IInv, FolioTypeOK
<1>3. ASSUME NEW k \in Pays
      PROVE  /\ next[k] \in PayRows
             /\ next[k].at = IF pay[k].at = s THEN t ELSE pay[k].at
             /\ next[k].back = IF pay[k].back = s THEN t ELSE pay[k].back
             /\ next[k].amount = pay[k].amount /\ next[k].void = pay[k].void
             /\ next[k].status = pay[k].status
             /\ pay[k].at # s /\ pay[k].back # s => next[k] = pay[k]
  <2>1. PICK r : r = pay[k] /\ r \in PayRows
    BY <1>1
  <2>2. next[k] = [r EXCEPT !.at = IF r.at = s THEN t ELSE r.at, !.back = IF r.back = s THEN t ELSE r.back]
    BY <1>2, <2>1 DEF PayRows
  <2> QED BY <2>1, <2>2 DEF PayRows
<1> QED BY <1>2, <1>3

LEMMA MergeKeeps ==
    ASSUME IInv, NEW s \in Folios, NEW t \in Folios, Merge(s, t)
    PROVE  IInv' /\ Priced
<1>1. PICK fs, S : fs = [folio EXCEPT ![s].status = "TRANSFERRED"] /\ S = {s, t}
  OBVIOUS
<1>2. /\ Op /\ s # t /\ IsOpen(s) /\ IsOpen(t)
      /\ item' = Moved(item, s, t) /\ pay' = Moved(pay, s, t)
      /\ Refresh(fs, S)
      /\ house' = house /\ inbox' = inbox /\ job' = job /\ deciding' = deciding
  BY <1>1 DEF Merge
<1>3. PICK items, pays : items = item' /\ pays = pay'
  OBVIOUS
<1>4. /\ items \in [Items -> ItemRows]
      /\ \A k \in Items : /\ items[k].at = IF item[k].at = s THEN t ELSE item[k].at
                          /\ items[k].back = IF item[k].back = s THEN t ELSE item[k].back
                          /\ items[k].amount = item[k].amount /\ items[k].void = item[k].void
                          /\ item[k].at # s /\ item[k].back # s => items[k] = item[k]
  BY <1>2, <1>3, ItemsMoved
<1>5. /\ pays \in [Pays -> PayRows]
      /\ \A k \in Pays : /\ pays[k].at = IF pay[k].at = s THEN t ELSE pay[k].at
                         /\ pays[k].back = IF pay[k].back = s THEN t ELSE pay[k].back
                         /\ pays[k].amount = pay[k].amount /\ pays[k].void = pay[k].void
                         /\ pays[k].status = pay[k].status
                         /\ pay[k].at # s /\ pay[k].back # s => pays[k] = pay[k]
  BY <1>2, <1>3, PaysMoved
<1>6. Typed'
  BY <1>3, <1>4, <1>5 DEF Typed
<1>7. fs \in [Folios -> FolioRows]
      /\ \A f \in Folios : /\ fs[f].of = folio[f].of
                           /\ fs[f].charges = folio[f].charges /\ fs[f].balance = folio[f].balance
                           /\ fs[f].status = IF f = s THEN "TRANSFERRED" ELSE folio[f].status
  BY <1>1 DEF IInv, FolioTypeOK, FolioRows
<1>8. /\ folio' \in [Folios -> FolioRows]
      /\ \A f \in Folios : folio'[f].of = fs[f].of /\ folio'[f].status = fs[f].status
      /\ \A f \in Folios \ S : folio'[f].charges = fs[f].charges /\ folio'[f].balance = fs[f].balance
      /\ \A f \in Folios \intersect S :
            /\ folio'[f].charges = SumAt(item', f)
            /\ folio'[f].balance = SumAt(item', f) - SumAt(PostedRows(pay'), f)
  BY <1>2, <1>6, <1>7, RefreshIs
<1>9. folio'[t].status = "OPEN" /\ folio'[s].status = "TRANSFERRED" /\ s # None /\ t # None
  BY <1>2, <1>7, <1>8, FolioAssumption DEF IsOpen
<1>10. Bookkeeping(S)
  <2>1. ASSUME NEW k \in Items PROVE ItemStep(item[k], items[k], S)
    <3>1. CASE item[k].at = s
      <4>1. item[k].back \in {s, None}
        BY <3>1 DEF IInv, VoidsCancelOut
      <4>2. Reversal(items[k])
        BY <1>4, <1>9, <3>1 DEF IInv, VoidsCancelOut, Reversal
      <4> QED BY <1>1, <1>4, <1>9, <3>1, <4>1, <4>2 DEF ItemStep, Within
    <3>2. CASE item[k].at # s
      <4>1. item[k].back # s
        BY <1>9, <3>2 DEF IInv, VoidsCancelOut
      <4> QED BY <1>4, <3>2, <4>1, SameRows
    <3> QED BY <3>1, <3>2
  <2>2. ASSUME NEW k \in Pays PROVE PayStep(pay[k], pays[k], S)
    <3>1. CASE pay[k].at = s
      <4>1. pay[k].back \in {s, None}
        BY <3>1 DEF IInv, VoidsCancelOut
      <4>2. Reversal(pays[k])
        BY <1>5, <1>9, <3>1 DEF IInv, VoidsCancelOut, Reversal
      <4> QED BY <1>1, <1>5, <1>9, <3>1, <4>1, <4>2 DEF PayStep, Within
    <3>2. CASE pay[k].at # s
      <4>1. pay[k].back # s
        BY <1>9, <3>2 DEF IInv, VoidsCancelOut
      <4> QED BY <1>5, <3>2, <4>1, SameRows
    <3> QED BY <3>1, <3>2
  <2>3. /\ At(items, s) = {} /\ Back(items, s) = {}
        /\ At(pays, s) = {} /\ Back(pays, s) = {}
    <3>1. \A k \in Items : items[k].at # s /\ items[k].back # s
      BY <1>2, <1>4
    <3>2. \A k \in Pays : pays[k].at # s /\ pays[k].back # s
      BY <1>2, <1>5
    <3> QED BY <1>4, <1>5, <3>1, <3>2 DEF At, Back
  <2>4. \A f \in Folios : FolioStep(f, S)
    BY <1>1, <1>2, <1>3, <1>7, <1>8, <2>3 DEF FolioStep, IsOpen
  <2> QED BY <1>3, <2>1, <2>2, <2>4 DEF Bookkeeping
<1>11. NothingPosted
  BY <1>3, <1>4, <1>9 DEF NothingPosted
<1>12. PayStages'
  BY <1>3, <1>5, <1>9 DEF IInv, PayStages
<1>13. route' \in [Stays -> Folios \union {None}]
  BY DEF Merge, IInv, FolioTypeOK
<1>14. \A f \in Folios : folio'[f].of = None <=> folio'[f].status = "NEW"
  BY <1>2, <1>7, <1>8 DEF IInv, FolioTypeOK, IsOpen
<1> QED BY <1>2, <1>6, <1>8, <1>10, <1>11, <1>12, <1>13, <1>14, StaffStepKeeps

LEMMA CloseKeeps ==
    ASSUME IInv, NEW f \in Folios, Op \/ Unasked, Close(f)
    PROVE  IInv' /\ Priced
<1>1. PICK fs : fs = [folio EXCEPT ![f].status = "CLOSED"]
  OBVIOUS
<1>2. /\ IsOpen(f) /\ Balance(f) = 0 /\ ~Awaited(f)
      /\ item' = item /\ pay' = pay /\ Refresh(fs, {f})
      /\ route' = Without(route, {f})
      /\ house' = house /\ inbox' = inbox /\ job' = job /\ deciding' = deciding
  BY <1>1 DEF Close
<1>3. Typed'
  BY <1>2 DEF IInv, FolioTypeOK, Typed
<1>4. fs \in [Folios -> FolioRows]
      /\ \A g \in Folios : /\ fs[g].of = folio[g].of
                           /\ fs[g].charges = folio[g].charges /\ fs[g].balance = folio[g].balance
                           /\ fs[g].status = IF g = f THEN "CLOSED" ELSE folio[g].status
  BY <1>1 DEF IInv, FolioTypeOK, FolioRows
<1>5. /\ folio' \in [Folios -> FolioRows]
      /\ \A g \in Folios : folio'[g].of = fs[g].of /\ folio'[g].status = fs[g].status
      /\ \A g \in Folios \ {f} : folio'[g].charges = fs[g].charges /\ folio'[g].balance = fs[g].balance
      /\ \A g \in Folios \intersect {f} :
            /\ folio'[g].charges = SumAt(item', g)
            /\ folio'[g].balance = SumAt(item', g) - SumAt(PostedRows(pay'), g)
  BY <1>2, <1>3, <1>4, RefreshIs
<1>6. folio'[f].balance = 0 /\ ~(Awaited(f))'
  <2>1. folio'[f].balance = SumAt(item, f) - SumAt(PostedRows(pay), f)
    BY <1>2, <1>5
  <2>2. ~(Awaited(f))'
    BY <1>2 DEF Awaited
  <2> QED BY <1>2, <2>1, <2>2 DEF Balance, Charged, Paid
<1>7. Bookkeeping({f})
  <2>1. \A g \in Folios : FolioStep(g, {f})
    BY <1>4, <1>5, <1>6 DEF FolioStep
  <2> QED BY <1>2, <2>1, SameRows DEF Bookkeeping
<1>8. NothingPosted /\ PayStages'
  BY <1>2 DEF NothingPosted, IInv, PayStages
<1>9. route' \in [Stays -> Folios \union {None}]
  BY <1>2 DEF Without, IInv, FolioTypeOK
<1>10. \A g \in Folios : folio'[g].of = None <=> folio'[g].status = "NEW"
  BY <1>2, <1>4, <1>5 DEF IInv, FolioTypeOK, IsOpen
<1> QED BY <1>2, <1>3, <1>5, <1>7, <1>8, <1>9, <1>10, StaffStepKeeps

LEMMA ReopenFolioKeeps ==
    ASSUME IInv, NEW f \in Folios, ReopenFolio(f)
    PROVE  IInv' /\ Priced
<1>1. /\ folio[f].status = "CLOSED" /\ folio' = [folio EXCEPT ![f].status = "OPEN"]
      /\ item' = item /\ pay' = pay /\ route' = route
      /\ house' = house /\ inbox' = inbox /\ job' = job /\ deciding' = deciding /\ Op
  BY DEF ReopenFolio
<1>2. Typed' /\ folio' \in [Folios -> FolioRows]
  BY <1>1 DEF IInv, FolioTypeOK, Typed, FolioRows
<1>3. \A g \in Folios : /\ folio'[g].of = folio[g].of
                        /\ folio'[g].charges = folio[g].charges /\ folio'[g].balance = folio[g].balance
                        /\ folio'[g].status = IF g = f THEN "OPEN" ELSE folio[g].status
  BY <1>1 DEF IInv, FolioTypeOK, FolioRows
<1>4. Bookkeeping({})
  <2>1. \A g \in Folios : FolioStep(g, {})
    BY <1>3 DEF FolioStep
  <2> QED BY <1>1, <2>1, SameRows DEF Bookkeeping
<1>5. NothingPosted /\ PayStages'
  BY <1>1 DEF NothingPosted, IInv, PayStages
<1>6. route' \in [Stays -> Folios \union {None}]
  BY <1>1 DEF IInv, FolioTypeOK
<1>7. \A g \in Folios : folio'[g].of = None <=> folio'[g].status = "NEW"
  BY <1>1, <1>3 DEF IInv, FolioTypeOK
<1> QED BY <1>1, <1>2, <1>4, <1>5, <1>6, <1>7, StaffStepKeeps

LEMMA OpenFolioKeeps ==
    ASSUME IInv, NEW g \in Stays, NEW n \in Folios, OpenFolio(g, n)
    PROVE  IInv' /\ Priced
<1>1. PICK new : new = NewFolio(g)
  OBVIOUS
<1>2. /\ n \in Unused /\ folio' = [folio EXCEPT ![n] = new]
      /\ item' = item /\ pay' = pay /\ route' = route
      /\ house' = house /\ inbox' = inbox /\ job' = job /\ deciding' = deciding /\ Op
  BY <1>1 DEF OpenFolio
<1>3. new \in FolioRows /\ new.of = g /\ new.status = "OPEN" /\ new.charges = 0 /\ new.balance = 0
  BY <1>1, NewFolioIs
<1>4. folio[n].charges = 0 /\ folio[n].balance = 0 /\ folio[n].status = "NEW"
  BY <1>2, UnusedIsZero
<1>5. Typed' /\ folio' \in [Folios -> FolioRows] /\ \A h \in Folios : folio'[h] = IF h = n THEN new ELSE folio[h]
  BY <1>2, <1>3 DEF IInv, FolioTypeOK, Typed
<1>6. Bookkeeping({})
  <2>1. \A h \in Folios : FolioStep(h, {})
    BY <1>3, <1>4, <1>5 DEF FolioStep
  <2> QED BY <1>2, <2>1, SameRows DEF Bookkeeping
<1>7. NothingPosted /\ PayStages'
  BY <1>2 DEF NothingPosted, IInv, PayStages
<1>8. route' \in [Stays -> Folios \union {None}]
  BY <1>2 DEF IInv, FolioTypeOK
<1>9. \A h \in Folios : folio'[h].of = None <=> folio'[h].status = "NEW"
  BY <1>3, <1>5, FolioAssumption DEF IInv, FolioTypeOK
<1> QED BY <1>2, <1>5, <1>6, <1>7, <1>8, <1>9, StaffStepKeeps

\* The settlement of a check-out is taken back: live fees only, each reversed
\* where it is, on a folio that is open or opened for it.
LEMMA UndoSettleKeeps ==
    ASSUME IInv, NEW g \in Stays, NEW e \in inbox, UndoSettle(g, e)
    PROVE  IInv' /\ Priced
<1>1. PICK fees, places, first, reopened, fs :
        /\ fees = e.fees \intersect LiveFees(g)
        /\ places = {item[k].at : k \in fees}
        /\ first = IF OpenOf(g) = {} /\ {f \in Folios : folio[f].of = g /\ folio[f].status = "CLOSED"} # {}
                   THEN {FirstOf({f \in Folios : folio[f].of = g /\ folio[f].status = "CLOSED"})} ELSE {}
        /\ reopened = first \union places
        /\ fs = [f \in Folios |-> IF f \in first \union places THEN [folio[f] EXCEPT !.status = "OPEN"] ELSE folio[f]]
  OBVIOUS
<1>2. /\ e.stay = g /\ job[g] = None
      /\ item' = Reversed(item, fees) /\ pay' = pay
      /\ Refresh(fs, places)
      /\ inbox' \in {inbox, inbox \ {e}} /\ (Op \/ Unasked)
      /\ route' = route /\ house' = house /\ job' = job /\ deciding' = deciding
  BY <1>1 DEF UndoSettle, Locked, Handled, Op, Unasked
<1>3. \A k \in fees : k \in Items /\ item[k].at # None /\ item[k].void # "done"
  BY <1>1, ItemKeys DEF LiveFees, Free
<1>4. \A k \in fees : item[k].at \in Folios /\ folio[item[k].at].status \in {"OPEN", "CLOSED"}
  BY <1>3, PlaceIsUsed
<1>5. \A f \in places : f \in Folios /\ folio[f].status \in {"OPEN", "CLOSED"}
  BY <1>1, <1>4
<1>6. \A f \in first : f \in Folios /\ folio[f].status = "CLOSED"
  <2> DEFINE closed == {f \in Folios : folio[f].of = g /\ folio[f].status = "CLOSED"}
  <2>1. closed # {} => FirstOf(closed) \in closed
    BY FirstIsOne DEF IInv
  <2> QED BY <1>1, <2>1
<1>7. \A f \in reopened : f \in Folios /\ folio[f].status \in {"OPEN", "CLOSED"}
  BY <1>1, <1>5, <1>6
<1>8. fs \in [Folios -> FolioRows]
      /\ \A f \in Folios : /\ fs[f].of = folio[f].of
                           /\ fs[f].charges = folio[f].charges /\ fs[f].balance = folio[f].balance
                           /\ fs[f].status = IF f \in reopened THEN "OPEN" ELSE folio[f].status
  <2>1. fs = [f \in Folios |-> IF f \in reopened THEN [folio[f] EXCEPT !.status = "OPEN"] ELSE folio[f]]
    BY <1>1
  <2>2. \A f \in Folios : folio[f] \in FolioRows
    BY DEF IInv, FolioTypeOK
  <2>3. \A r \in FolioRows : /\ [r EXCEPT !.status = "OPEN"] \in FolioRows
                             /\ [r EXCEPT !.status = "OPEN"].of = r.of
                             /\ [r EXCEPT !.status = "OPEN"].charges = r.charges
                             /\ [r EXCEPT !.status = "OPEN"].balance = r.balance
                             /\ [r EXCEPT !.status = "OPEN"].status = "OPEN"
    BY DEF FolioRows
  <2> QED BY <2>1, <2>2, <2>3
<1>9. PICK next : next = item'
  OBVIOUS
<1>10. /\ next \in [Items -> ItemRows]
       /\ \A q \in Items \ fees : next[q] = item[q]
       /\ \A q \in Items \intersect fees : /\ next[q].at = item[q].at /\ next[q].amount = item[q].amount
                                           /\ next[q].void = "done" /\ next[q].back = item[q].at
  BY <1>2, <1>3, <1>9, ReversedIs
<1>11. Typed'
  BY <1>2, <1>9, <1>10 DEF Typed, IInv, FolioTypeOK
<1>12. /\ folio' \in [Folios -> FolioRows]
       /\ \A f \in Folios : folio'[f].of = fs[f].of /\ folio'[f].status = fs[f].status
       /\ \A f \in Folios \ places : folio'[f].charges = fs[f].charges /\ folio'[f].balance = fs[f].balance
       /\ \A f \in Folios \intersect places :
             /\ folio'[f].charges = SumAt(item', f)
             /\ folio'[f].balance = SumAt(item', f) - SumAt(PostedRows(pay'), f)
  BY <1>2, <1>8, <1>11, RefreshIs
<1>13. Bookkeeping(places)
  <2>1. ASSUME NEW k \in Items PROVE ItemStep(item[k], next[k], places)
    <3>1. CASE k \notin fees
      BY <1>10, <3>1, SameRows
    <3>2. CASE k \in fees
      <4>1. item[k].back = None
        BY <1>3, <3>2 DEF IInv, VoidsCancelOut
      <4>2. item[k].at \in places /\ item[k].at \in reopened
        BY <1>1, <3>2
      <4>3. folio'[item[k].at].status = "OPEN"
        BY <1>4, <1>8, <1>12, <3>2, <4>2
      <4> QED BY <1>4, <1>10, <3>2, <4>1, <4>2, <4>3 DEF ItemStep, Within, Reversal
    <3> QED BY <3>1, <3>2
  <2>2. \A p \in Pays : PayStep(pay[p], pay'[p], places)
    BY <1>2, SameRows
  <2>3. \A f \in Folios : FolioStep(f, places)
    <3>1. \A f \in places : f \in reopened
      BY <1>1
    <3> QED BY <1>7, <1>8, <1>12, <3>1 DEF FolioStep
  <2> QED BY <1>9, <2>1, <2>2, <2>3 DEF Bookkeeping
<1>14. NothingPosted
  BY <1>9, <1>10 DEF NothingPosted
<1>15. PayStages' /\ route' \in [Stays -> Folios \union {None}]
  BY <1>2 DEF IInv, PayStages, FolioTypeOK
<1>16. \A f \in Folios : folio'[f].of = None <=> folio'[f].status = "NEW"
  <2>1. \A f \in reopened : folio[f].of # None
    BY <1>7 DEF IInv, FolioTypeOK
  <2> QED BY <1>8, <1>12, <2>1 DEF IInv, FolioTypeOK
<1>17. job' \in [Stays -> (Jobs \union {None})']
  <2>1. DOMAIN job' = Stays /\ job' = [h \in Stays |-> job'[h]]
    BY <1>2 DEF IInv, FolioTypeOK
  <2> QED BY <1>2, <2>1, EventGone
<1>18. inbox' \subseteq inbox /\ deciding' \subseteq deciding
  BY <1>2
<1> QED BY <1>2, <1>11, <1>12, <1>13, <1>14, <1>15, <1>16, <1>17, <1>18, AccountsStepKeeps

-----------------------------------------------------------------------------
(* A posting is written *)

\* What becomes of a row when specs are posted to folio f.
RowPosted(r, n, k, specs, f) ==
    \/ n = r /\ ~(r.at = None /\ \E s \in specs : s.key = k)
    \/ r.at = None /\ \E s \in specs : s.key = k /\ n = ItemAt(f, s.amount)

LEMMA PostedIs ==
    ASSUME IInv, NEW specs \in SUBSET Specs, NEW f, \A s \in specs : f \in Folios,
           NEW next, next = Posted(item, specs, f)
    PROVE  /\ next \in [Items -> ItemRows]
           /\ \A k \in Items : RowPosted(item[k], next[k], k, specs, f)
<1>1. ASSUME NEW k \in Items
      PROVE  /\ next[k] \in ItemRows
             /\ RowPosted(item[k], next[k], k, specs, f)
  <2>1. CASE item[k].at = None /\ \E s \in specs : s.key = k
    <3>1. PICK s : s = CHOOSE x \in specs : x.key = k
      OBVIOUS
    <3>2. s \in specs /\ s.key = k
      BY <2>1, <3>1
    <3>3. next[k] = ItemAt(f, s.amount)
      BY <2>1, <3>1 DEF Posted
    <3>4. ItemAt(f, s.amount) \in ItemRows
      BY <3>2 DEF ItemAt, ItemRows, Specs
    <3> QED BY <2>1, <3>2, <3>3, <3>4 DEF RowPosted
  <2>2. CASE ~(item[k].at = None /\ \E s \in specs : s.key = k)
    <3>1. next[k] = item[k]
      BY <2>2 DEF Posted
    <3> QED BY <2>2, <3>1 DEF IInv, FolioTypeOK, RowPosted
  <2> QED BY <2>1, <2>2
<1>2. next = [k \in Items |-> next[k]]
  BY DEF Posted
<1> QED BY <1>1, <1>2

\* One more row of the night, for what is missing of its price.
LEMMA NightPosted ==
    ASSUME IInv, Typed', house' = house, NEW g \in Stays, NEW s \in Specs,
           s.key = <<g, "night", Posts(g)>>, Posts(g) <= house[g].changes,
           NightVoided(g) \/ s.amount = house[g].price - NightSum(g),
           item'[s.key].at # None, item'[s.key].amount = s.amount,
           \A k \in NightOf(g) \ {s.key} : item'[k] = item[k]
    PROVE  /\ (NightRows(g))'
           /\ ~(NightVoided(g))' => (NightSum(g))' = house[g].price
<1>1. /\ NightRows(g) /\ Typed /\ house[g].changes \in Nat /\ house[g].changes <= MaxChanges
      /\ house[g].price \in Int /\ MaxChanges \in Nat
  BY HouseIsRow, TypeGivesTyped, ConstantTypes DEF IInv, Stayed, Bounds
<1>2. Posts(g) \in Nat /\ Posts(g) \in 0..MaxChanges
  BY <1>1 DEF NightRows
<1>3. PICK k, n : k = s.key /\ n = Posts(g)
  OBVIOUS
<1>4. k \in NightOf(g) /\ k \in Items /\ k = <<g, "night", n>> /\ item[k].at = None
  <2>1. Free(<<g, "night", n>>)
    BY <1>1, <1>2, <1>3 DEF NightRows
  <2> QED BY <1>2, <1>3, <2>1, ItemKeys DEF NightOf, Free
<1>5. PICK P : P = PostedNights(g)
  OBVIOUS
<1>6. IsFiniteSet(P) /\ P \subseteq Items /\ NightSum(g) \in Int /\ k \notin P /\ P \subseteq NightOf(g)
  BY <1>1, <1>4, <1>5, NightSumType DEF PostedNights, Free
<1>7. (PostedNights(g))' = P \union {k}
  BY <1>3, <1>4, <1>5 DEF PostedNights, Free
<1>8. Cardinality(P \union {k}) = n + 1 /\ n = Cardinality(P)
  BY <1>3, <1>5, <1>6, FS_AddElement DEF Posts
<1>9. (Posts(g))' = n + 1
  BY <1>7, <1>8 DEF Posts
<1>10. \A q \in P : item'[q] = item[q] /\ item[q].amount \in Int
  BY <1>1, <1>3, <1>6 DEF Typed, ItemRows
<1>11. (NightSum(g))' = s.amount + NightSum(g)
  <2>1. PICK a : a = [q \in Items |-> item'[q].amount]
    OBVIOUS
  <2>2. \A q \in P \union {k} : a[q] \in Int
    BY <1>6, <1>4, <2>1 DEF Typed, ItemRows
  <2>3. IsFiniteSet(P \union {k})
    BY <1>6, FS_AddElement
  <2>4. Total(a, P \union {k}) = a[k] + Total(a, (P \union {k}) \ {k})
    BY <2>2, <2>3, TotalWithout
  <2>5. (P \union {k}) \ {k} = P
    BY <1>6
  <2>6. (NightSum(g))' = Total(a, P \union {k})
    <3>1. (NightSum(g))' = SumFunction([q \in P \union {k} |-> item'[q].amount])
      BY <1>7 DEF NightSum
    <3>2. \A q \in P \union {k} : item'[q].amount = a[q]
      BY <1>4, <1>6, <2>1
    <3>3. [q \in P \union {k} |-> item'[q].amount] = [q \in P \union {k} |-> a[q]]
      BY <3>2
    <3> QED BY <3>1, <3>3 DEF Total
  <2>7. NightSum(g) = Total(a, P)
    <3>1. \A q \in P : item[q].amount = a[q]
      BY <1>6, <1>10, <2>1
    <3>2. [q \in P |-> item[q].amount] = [q \in P |-> a[q]]
      BY <3>1
    <3> QED BY <1>5, <3>2 DEF NightSum, Total
  <2>8. a[k] = s.amount
    BY <1>3, <1>4, <2>1
  <2> QED BY <2>4, <2>5, <2>6, <2>7, <2>8
<1>12. NightVoided(g) => (NightVoided(g))'
  BY <1>5, <1>7, <1>10 DEF NightVoided
<1>13. (NightVoided(g))' \/ (NightSum(g))' = house[g].price
  <2>1. CASE NightVoided(g)
    BY <1>12, <2>1
  <2>2. CASE s.amount = house[g].price - NightSum(g)
    BY <1>1, <1>6, <1>11, <2>2
  <2> QED BY <2>1, <2>2
<1>14. \A i \in 0..MaxChanges : ~(Free(<<g, "night", i>>))' <=> i < n + 1
  <2> TAKE i \in 0..MaxChanges
  <2>1. <<g, "night", i>> \in NightOf(g) /\ (~Free(<<g, "night", i>>) <=> i < n)
    BY <1>1, <1>3 DEF NightRows, NightOf
  <2>2. CASE i = n
    BY <1>2, <1>3, <1>4, <2>2 DEF Free
  <2>3. CASE i # n
    <3>1. <<g, "night", i>> # k
      BY <1>4, <2>3
    <3>2. item'[<<g, "night", i>>] = item[<<g, "night", i>>]
      BY <1>3, <2>1, <3>1
    <3> QED BY <1>2, <1>3, <2>1, <2>3, <3>2 DEF Free
  <2> QED BY <2>2, <2>3
<1>15. (NightRows(g))'
  <2>1. n + 1 \in Nat /\ n + 1 <= house'[g].changes + 1
    BY <1>1, <1>2, <1>3
  <2> QED BY <1>9, <1>13, <1>14, <2>1 DEF NightRows
<1> QED BY <1>13, <1>15

\* What the rows of the other stays are is not touched by a posting.
LEMMA PostedElsewhere ==
    ASSUME NEW g \in Stays, NEW h \in Stays, h # g, NEW specs, PlanGood(g, specs),
           \A k \in Items : item'[k] # item[k] => \E s \in specs : s.key = k
    PROVE  Untouched(h)
<1>1. \A s \in specs : s.key \in ChargeItems \/ s.key \in NightOf(g) \/ s.key \in LateOf(g) \/ s.key = <<g, "night", Posts(g)>>
  BY DEF PlanGood, Wanted
<1>2. \A k \in NightOf(h) \union LateOf(h) : k \in Items /\ k \notin ChargeItems \union NightOf(g) \union LateOf(g)
  BY ItemKeys
<1>3. \A k \in NightOf(h) \union LateOf(h) : k # <<g, "night", Posts(g)>>
  BY DEF NightOf, LateOf
<1>4. \A k \in NightOf(h) \union LateOf(h) : item'[k] = item[k]
  BY <1>1, <1>2, <1>3
<1> QED BY <1>4 DEF Untouched

\* The night and the fee of the stay whose posting is written.
LEMMA OwnPosted ==
    ASSUME IInv, Typed', house' = house, NEW g \in Stays,
           NEW specs \in SUBSET Specs, PlanGood(g, specs), NEW f \in Folios \union {None}, specs # {} => f \in Folios,
           \A k \in Items : RowPosted(item[k], item'[k], k, specs, f)
    PROVE  /\ (NightRows(g))' /\ (OneFee(g))'
           /\ \/ (PostedNights(g))' = PostedNights(g)
              \/ (NightVoided(g))'
              \/ (NightSum(g))' = house[g].price
<1>1. NightRows(g) /\ OneFee(g) /\ Typed /\ house[g].changes <= MaxChanges
  BY TypeGivesTyped DEF IInv, Stayed, Bounds
<1>2. NightOf(g) \subseteq Items /\ LateOf(g) \subseteq Items
  BY ItemKeys
<1>3. \A s \in specs : Wanted(g, s)
  BY DEF PlanGood
<1>4. f # None \/ specs = {}
  BY FolioAssumption
<1>5. (OneFee(g))'
  <2>1. CASE \E s \in specs : s.key \in LateOf(g)
    <3>1. PICK s \in specs : s.key \in LateOf(g)
      BY <2>1
    <3>2. LiveFees(g) = {}
      BY <1>3, <3>1, ItemKeys DEF Wanted, LateOf, ChargeItems
    <3>3. \A x \in specs : x.key \in LateOf(g) => x.key = s.key
      BY <3>1 DEF PlanGood
    <3>4. \A k \in LateOf(g) : k # s.key => item'[k] = item[k]
      BY <1>2, <3>3 DEF RowPosted
    <3>5. (LiveFees(g))' \subseteq {s.key}
      BY <3>2, <3>4 DEF LiveFees, Free
    <3> QED BY <3>5 DEF OneFee
  <2>2. CASE ~\E s \in specs : s.key \in LateOf(g)
    <3>1. \A k \in LateOf(g) : item'[k] = item[k]
      BY <1>2, <2>2 DEF RowPosted
    <3>2. (LiveFees(g))' = LiveFees(g)
      BY <3>1 DEF LiveFees, Free
    <3> QED BY <1>1, <3>2 DEF OneFee
  <2> QED BY <2>1, <2>2
<1>6. CASE \E s \in specs : s.key \in NightOf(g)
  <2>1. PICK s \in specs : s.key \in NightOf(g)
    BY <1>6
  <2>2. PICK k : k = <<g, "night", Posts(g)>>
    OBVIOUS
  <2>3. \A x \in specs : x.key \in NightOf(g) =>
          x.key = k /\ Posts(g) <= house[g].changes /\ (NightVoided(g) \/ x.amount = house[g].price - NightSum(g))
    BY <1>3, <2>2, ItemKeys DEF Wanted
  <2>4. s.key = k /\ Posts(g) <= house[g].changes /\ k \in NightOf(g) /\ k \in Items
    BY <1>2, <2>1, <2>3
  <2>5. item[k].at = None
    <3>1. Posts(g) \in Nat /\ house[g].changes \in Nat /\ MaxChanges \in Nat
      BY <1>1, HouseIsRow, ConstantTypes DEF NightRows, IInv
    <3>2. Posts(g) \in 0..MaxChanges
      BY <1>1, <2>4, <3>1
    <3> QED BY <1>1, <2>2, <3>1, <3>2 DEF NightRows, Free
  <2>6. PICK x \in specs : x.key = k /\ item'[k] = ItemAt(f, x.amount)
    BY <2>4, <2>5 DEF RowPosted
  <2>7. item'[k].at # None /\ item'[k].amount = x.amount
    BY <1>4, <2>6 DEF ItemAt
  <2>8. \A q \in NightOf(g) \ {k} : item'[q] = item[q]
    BY <1>2, <2>3 DEF RowPosted
  <2>9. x \in Specs /\ (NightVoided(g) \/ x.amount = house[g].price - NightSum(g))
    BY <2>3, <2>4, <2>6
  <2> QED BY <1>5, <2>2, <2>4, <2>6, <2>7, <2>8, <2>9, NightPosted
<1>7. CASE ~\E s \in specs : s.key \in NightOf(g)
  <2>1. \A k \in NightOf(g) : item'[k] = item[k]
    BY <1>2, <1>7 DEF RowPosted
  <2>2. (PostedNights(g))' = PostedNights(g) /\ \A k \in PostedNights(g) : k \in NightOf(g)
    BY <2>1 DEF PostedNights, Free
  <2>3. (Posts(g))' = Posts(g)
    BY <2>2 DEF Posts
  <2>4. (NightVoided(g))' <=> NightVoided(g)
    BY <2>1, <2>2 DEF NightVoided
  <2>5. (NightSum(g))' = NightSum(g)
    <3>1. [k \in (PostedNights(g))' |-> item'[k].amount] = [k \in PostedNights(g) |-> item[k].amount]
      BY <2>1, <2>2
    <3> QED BY <3>1 DEF NightSum
  <2>6. \A i \in 0..MaxChanges : (Free(<<g, "night", i>>))' <=> Free(<<g, "night", i>>)
    BY <2>1 DEF Free, NightOf
  <2>7. (NightRows(g))'
    BY <1>1, <2>3, <2>4, <2>5, <2>6 DEF NightRows
  <2> QED BY <1>5, <2>2, <2>7
<1> QED BY <1>6, <1>7

\* A posting is written to a folio that is open by then, be it new; those of
\* the stay that are settled are closed with it.
LEMMA CommitKeeps ==
    ASSUME IInv, NEW g \in Stays, Locked(g), NEW f \in Folios \union {None}, NEW fs \in [Folios -> FolioRows],
           \A o \in Folios : /\ fs[o].of = None <=> fs[o].status = "NEW"
                             /\ fs[o].charges = folio[o].charges /\ fs[o].balance = folio[o].balance
                             /\ \/ fs[o].status = folio[o].status
                                \/ folio[o].status = "NEW" /\ fs[o].status = "OPEN",
           job[g].specs # {} => f \in Folios /\ fs[f].status = "OPEN",
           Commit(g, f, fs)
    PROVE  IInv' /\ Priced
<1>1. PICK specs, e, kind : specs = job[g].specs /\ e = job[g].event /\ kind = job[g].kind
  OBVIOUS
<1>2. specs \in SUBSET Specs /\ PlanGood(g, specs) /\ (e # None => e.stay = g)
  <2>1. job[g] \in Jobs /\ JobGood(g, job[g])
    BY DEF Locked, IInv, FolioTypeOK, Work
  <2> QED BY <1>1, <2>1 DEF Jobs, JobGood, Specs
<1>3. PICK own, settled, closed, S, next :
        /\ own = {o \in Folios : fs[o].of = g /\ fs[o].status = "OPEN"}
        /\ settled = {o \in own : SumAt(item', o) = SumAt(PostedRows(pay), o) /\ ~Awaited(o)}
        /\ closed = IF kind = "settle" THEN settled ELSE {}
        /\ S = (IF specs = {} THEN {} ELSE {f}) \union (IF kind = "settle" THEN own ELSE {})
        /\ next = [o \in Folios |-> IF o \in closed THEN [fs[o] EXCEPT !.status = "CLOSED"] ELSE fs[o]]
  OBVIOUS
<1>4. /\ item' = Posted(item, specs, f) /\ pay' = pay
      /\ Refresh(next, S)
      /\ route' = Without(route, closed)
      /\ inbox' \in {inbox, inbox \ {e}} /\ job' = [job EXCEPT ![g] = None]
      /\ ops' \in {ops, ops + 1} /\ quiet' = quiet \intersect {g}
      /\ house' = house /\ deciding' = deciding
  <2>1. item' = Posted(item, job[g].specs, f)
    BY DEF Commit
  <2> QED BY <1>1, <1>3, <2>1 DEF Commit, Handled
<1>5. PICK items : items = item'
  OBVIOUS
<1>6. items \in [Items -> ItemRows] /\ \A k \in Items : RowPosted(item[k], items[k], k, specs, f)
  <2>1. (\A s \in specs : f \in Folios) /\ items = Posted(item, specs, f)
    BY <1>1, <1>4, <1>5
  <2>2. specs \in SUBSET Specs
    BY <1>2
  <2> QED BY <2>1, <2>2, PostedIs
<1>7. Typed /\ Typed'
  BY <1>4, <1>5, <1>6, TypeGivesTyped DEF Typed, IInv
<1>8. \A o \in closed : /\ o \in own /\ o \in S /\ o \in Folios /\ fs[o].status = "OPEN"
                        /\ SumAt(item', o) = SumAt(PostedRows(pay'), o) /\ ~Awaited(o)
  BY <1>3, <1>4
<1>9. /\ next \in [Folios -> FolioRows]
      /\ \A o \in Folios : /\ next[o].of = fs[o].of
                           /\ next[o].charges = folio[o].charges /\ next[o].balance = folio[o].balance
                           /\ next[o].status = IF o \in closed THEN "CLOSED" ELSE fs[o].status
  <2>1. \A r \in FolioRows : /\ [r EXCEPT !.status = "CLOSED"] \in FolioRows
                             /\ [r EXCEPT !.status = "CLOSED"].of = r.of
                             /\ [r EXCEPT !.status = "CLOSED"].charges = r.charges
                             /\ [r EXCEPT !.status = "CLOSED"].balance = r.balance
                             /\ [r EXCEPT !.status = "CLOSED"].status = "CLOSED"
    BY DEF FolioRows
  <2> QED BY <1>3, <2>1
<1>10. /\ folio' \in [Folios -> FolioRows]
       /\ \A o \in Folios : folio'[o].of = next[o].of /\ folio'[o].status = next[o].status
       /\ \A o \in Folios \ S : folio'[o].charges = next[o].charges /\ folio'[o].balance = next[o].balance
       /\ \A o \in Folios \intersect S :
             /\ folio'[o].charges = SumAt(item', o)
             /\ folio'[o].balance = SumAt(item', o) - SumAt(PostedRows(pay'), o)
  BY <1>4, <1>7, <1>9, RefreshIs
<1>11. \A o \in S : o \in Folios /\ fs[o].status = "OPEN"
  BY <1>1, <1>3
<1>12. ASSUME NEW k \in Items, item[k].at = None
       PROVE  item[k].back = None
  BY <1>12 DEF IInv, VoidsCancelOut
<1>13. ASSUME NEW k \in Items PROVE ItemStep(item[k], items[k], S)
  <2>1. CASE items[k] = item[k]
    BY <2>1, SameRows
  <2>2. CASE item[k].at = None /\ \E s \in specs : s.key = k /\ items[k] = ItemAt(f, s.amount)
    <3>1. specs # {} /\ items[k].at = f /\ items[k].back = None /\ items[k].void = "no"
      BY <2>2 DEF ItemAt
    <3>2. f \in S /\ f \in Folios /\ fs[f].status = "OPEN"
      BY <1>1, <1>3, <3>1
    <3>3. folio'[f].status \in {"OPEN", "CLOSED"}
      BY <1>9, <1>10, <3>2
    <3> QED BY <1>12, <2>2, <3>1, <3>2, <3>3 DEF ItemStep, Within, Reversal
  <2> QED BY <1>6, <2>1, <2>2 DEF RowPosted
<1>14. ASSUME NEW o \in Folios PROVE FolioStep(o, S)
  <2>1. CASE o \in closed
    <3>1. ASSUME NEW k \in Items, items[k].at = o, items[k].void = "asked" PROVE FALSE
      <4>1. items[k] = item[k]
        BY <1>6, <3>1 DEF ItemAt, RowPosted
      <4>2. k \in At(item, o)
        BY <3>1, <4>1 DEF At, IInv, FolioTypeOK
      <4> QED BY <1>8, <2>1, <3>1, <4>1, <4>2 DEF Awaited
    <3>2. ~(Awaited(o))'
      <4>1. ~\E k \in At(items, o) : items[k].void = "asked"
        BY <1>6, <3>1 DEF At
      <4>2. ~\E p \in At(pay, o) : pay[p].void = "asked" \/ pay[p].status = "PENDING"
        BY <1>8, <2>1 DEF Awaited
      <4> QED BY <1>4, <1>5, <4>1, <4>2 DEF Awaited
    <3>3. folio'[o].balance = SumAt(item', o) - SumAt(PostedRows(pay'), o) /\ folio'[o].charges = SumAt(item', o)
      BY <1>8, <1>10, <2>1
    <3>4. SumAt(item', o) \in Int /\ SumAt(item', o) = SumAt(PostedRows(pay'), o)
      <4>1. items \in [Items -> ItemRows] /\ pay \in [Pays -> PayRows]
        BY <1>6, <1>7 DEF Typed
      <4>2. SumAt(items, o) \in Int
        BY <4>1, TypedTotals
      <4> QED BY <1>5, <1>8, <2>1, <4>2
    <3>5. folio'[o].balance = 0 /\ folio'[o].status = "CLOSED" /\ o \in S
      BY <1>8, <1>9, <1>10, <2>1, <3>3, <3>4
    <3> QED BY <3>2, <3>3, <3>5 DEF FolioStep
  <2>2. CASE o \notin closed
    <3>1. folio'[o].status = fs[o].status
      BY <1>9, <1>10, <2>2
    <3>2. folio'[o].status = "CLOSED" => folio[o].status = "CLOSED" /\ o \notin S
      BY <1>11, <3>1
    <3>3. folio'[o].status \in {"NEW", "TRANSFERRED"} => folio[o].status \in {"NEW", "TRANSFERRED"}
      BY <3>1
    <3> QED BY <1>9, <1>10, <3>2, <3>3 DEF FolioStep
  <2> QED BY <2>1, <2>2
<1>15. Bookkeeping(S)
  BY <1>4, <1>5, <1>13, <1>14, SameRows DEF Bookkeeping
<1>16. TotalsAreTrue' /\ ClosedIsSettled' /\ Placed' /\ VoidsCancelOut'
  BY <1>7, <1>15, BookkeepingKeeps DEF IInv
<1>17. \A k \in Items : items[k] = item[k] \/ items[k].at # None
  BY <1>13, FolioAssumption DEF ItemStep
<1>18. AskedIsPosted' /\ Decisions' /\ PayStages'
  <2>1. \A d \in deciding : d.key \in Items
    BY DEF IInv, FolioTypeOK
  <2> QED BY <1>4, <1>5, <1>17, <2>1 DEF IInv, AskedIsPosted, Decisions, Free, PayStages
<1>19. Bounds'
  BY <1>4 DEF IInv, Bounds
<1>20. \A h \in Stays : job'[h] = IF h = g THEN None ELSE job[h]
  BY <1>4 DEF IInv, FolioTypeOK
<1>21. FolioTypeOK'
  <2>1. job' \in [Stays -> (Jobs \union {None})']
    <3>1. DOMAIN job' = Stays /\ job' = [h \in Stays |-> job'[h]]
      BY <1>4 DEF IInv, FolioTypeOK
    <3>2. inbox' \in {inbox, inbox \ {e}} /\ job'[g] = None /\ \A h \in Stays \ {g} : job'[h] = job[h]
      BY <1>4, <1>20
    <3> QED BY <1>2, <3>1, <3>2, EventGone
  <2>2. route' \in [Stays -> Folios \union {None}]
    BY <1>4 DEF Without, IInv, FolioTypeOK
  <2>3. \A o \in Folios : folio'[o].of = None <=> folio'[o].status = "NEW"
    BY <1>8, <1>9, <1>10
  <2> QED BY <1>4, <1>7, <1>10, <2>1, <2>2, <2>3 DEF IInv, FolioTypeOK, Typed
<1>22. ASSUME NEW h \in Stays, h # g
       PROVE  /\ (NightRows(h))' /\ (OneFee(h))' /\ ((Locked(h))' => (JobGood(h, job[h]))')
              /\ (PostedNights(h))' = PostedNights(h)
  <2>1. \A k \in Items : item'[k] # item[k] => \E s \in specs : s.key = k
    BY <1>5, <1>6 DEF RowPosted
  <2>2. Untouched(h)
    BY <1>2, <1>22, <2>1, PostedElsewhere
  <2>3. SamePrice(h)
    BY <1>4 DEF SamePrice
  <2> QED BY <1>7, <1>20, <1>22, <2>2, <2>3, JobKept, SameNights
<1>23. /\ (NightRows(g))' /\ (OneFee(g))'
       /\ \/ (PostedNights(g))' = PostedNights(g)
          \/ (NightVoided(g))'
          \/ (NightSum(g))' = house[g].price
  BY <1>1, <1>2, <1>4, <1>5, <1>6, <1>7, OwnPosted
<1>24. ~(Locked(g))'
  BY <1>20 DEF Locked
<1>25. Stayed' /\ Work'
  BY <1>22, <1>23, <1>24 DEF Stayed, Work
<1>26. Priced
  BY <1>22, <1>23 DEF Priced
<1> QED BY <1>16, <1>18, <1>19, <1>21, <1>25, <1>26 DEF IInv

LEMMA CommitPostingKeeps ==
    ASSUME IInv, NEW g \in Stays, CommitPosting(g)
    PROVE  IInv' /\ Priced
<1>1. PICK f, same : f = job[g].target /\ same = folio
  OBVIOUS
<1>2. Locked(g) /\ f \in Folios \union {None}
  <2>1. Locked(g)
    BY DEF CommitPosting, Posting
  <2> QED BY <1>1, <2>1 DEF Locked, IInv, FolioTypeOK, Jobs
<1>3. job[g].specs # {} /\ f = None => job[g].opens
  BY <1>1, <1>2 DEF IInv, Work, JobGood
<1>4. /\ same \in [Folios -> FolioRows]
      /\ \A o \in Folios : /\ same[o].of = None <=> same[o].status = "NEW"
                           /\ same[o].charges = folio[o].charges /\ same[o].balance = folio[o].balance
                           /\ same[o].status = folio[o].status
  BY <1>1 DEF IInv, FolioTypeOK
<1>5. CASE job[g].specs = {} /\ Commit(g, f, same)
  BY <1>2, <1>4, <1>5, CommitKeeps
<1>6. CASE job[g].specs # {} /\ ~job[g].opens /\ IsOpen(f) /\ Commit(g, f, same)
  <2>1. f \in Folios /\ same[f].status = "OPEN"
    BY <1>1, <1>2, <1>3, <1>6 DEF IsOpen
  <2> QED BY <1>2, <1>4, <1>6, <2>1, CommitKeeps
<1>7. ASSUME NEW n \in Unused, f # None => IsOpen(f),
             Commit(g, IF f = None THEN n ELSE f, [folio EXCEPT ![n] = NewFolio(g)])
      PROVE  IInv' /\ Priced
  <2>1. PICK new, fs, at : new = NewFolio(g) /\ fs = [folio EXCEPT ![n] = new] /\ at = (IF f = None THEN n ELSE f)
    OBVIOUS
  <2>2. new \in FolioRows /\ new.of = g /\ new.status = "OPEN" /\ new.charges = 0 /\ new.balance = 0
    BY <2>1, NewFolioIs
  <2>3. n \in Folios /\ folio[n].charges = 0 /\ folio[n].balance = 0 /\ folio[n].status = "NEW"
    BY UnusedIsZero
  <2>4. /\ fs \in [Folios -> FolioRows]
        /\ \A o \in Folios : fs[o] = IF o = n THEN new ELSE folio[o]
    BY <2>1, <2>2, <2>3 DEF IInv, FolioTypeOK
  <2>5. \A o \in Folios : /\ fs[o].of = None <=> fs[o].status = "NEW"
                          /\ fs[o].charges = folio[o].charges /\ fs[o].balance = folio[o].balance
                          /\ \/ fs[o].status = folio[o].status
                             \/ folio[o].status = "NEW" /\ fs[o].status = "OPEN"
    BY <2>2, <2>3, <2>4, FolioAssumption DEF IInv, FolioTypeOK
  <2>6. at \in Folios /\ fs[at].status = "OPEN"
    BY <1>2, <1>7, <2>1, <2>2, <2>3, <2>4 DEF IsOpen
  <2>7. Commit(g, at, fs)
    BY <1>7, <2>1
  <2> QED BY <1>2, <2>4, <2>5, <2>6, <2>7, CommitKeeps
<1> QED BY <1>1, <1>5, <1>6, <1>7 DEF CommitPosting

-----------------------------------------------------------------------------
(* Payments *)

\* What waits for a decision is on an open folio.
LEMMA AwaitedIsOpen ==
    ASSUME IInv, NEW p \in Pays, pay[p].status = "PENDING" \/ pay[p].void = "asked"
    PROVE  pay[p].at \in Folios /\ folio[pay[p].at].status = "OPEN"
<1>1. pay[p].at # None
  BY DEF IInv, PayStages
<1>2. pay[p].at \in Folios
  BY <1>1 DEF IInv, FolioTypeOK, PayRows
<1>3. p \in At(pay, pay[p].at)
  BY DEF At, IInv, FolioTypeOK
<1>4. folio[pay[p].at].status \notin {"NEW", "TRANSFERRED"}
  BY <1>2, <1>3 DEF IInv, Placed
<1>5. folio[pay[p].at].status # "CLOSED"
  BY <1>2, <1>3 DEF IInv, ClosedIsSettled, Awaited
<1>6. folio[pay[p].at] \in FolioRows
  BY <1>2 DEF IInv, FolioTypeOK
<1> QED BY <1>2, <1>4, <1>5, <1>6 DEF FolioRows

\* Items and the nights are not touched by a step on one payment.
LEMMA OnePayKeeps ==
    ASSUME IInv, Op, NEW p \in Pays, NEW r \in PayRows, pay' = [pay EXCEPT ![p] = r], item' = item,
           folio' \in [Folios -> FolioRows],
           \A f \in Folios : folio'[f].of = None <=> folio'[f].status = "NEW",
           NEW S, \A f \in Folios : FolioStep(f, S), PayStep(pay[p], r, S),
           r.status = "NONE" <=> r.at = None, r.void # "no" => r.status = "POSTED",
           route' = route, house' = house, inbox' = inbox, job' = job, deciding' = deciding
    PROVE  IInv' /\ Priced
<1>1. \A q \in Pays : pay'[q] = IF q = p THEN r ELSE pay[q]
  BY DEF IInv, FolioTypeOK
<1>2. Typed'
  BY DEF IInv, FolioTypeOK, Typed
<1>3. Bookkeeping(S)
  BY <1>1, SameRows DEF Bookkeeping
<1>4. NothingPosted
  BY DEF NothingPosted
<1>5. PayStages'
  BY <1>1 DEF IInv, PayStages
<1>6. route' \in [Stays -> Folios \union {None}] /\ deciding' \subseteq deciding
  BY DEF IInv, FolioTypeOK
<1> QED BY <1>2, <1>3, <1>4, <1>5, <1>6, StaffStepKeeps

LEMMA StatusType == ASSUME NEW a \in Int PROVE StatusOf(a) \in {"PENDING", "POSTED"}
BY DEF StatusOf

LEMMA WriteKeeps ==
    ASSUME IInv, NEW p \in Pays, NEW f \in Folios, NEW a \in Int, NEW fs \in [Folios -> FolioRows],
           \A o \in Folios : /\ fs[o].of = None <=> fs[o].status = "NEW"
                             /\ fs[o].charges = folio[o].charges /\ fs[o].balance = folio[o].balance
                             /\ \/ fs[o].status = folio[o].status
                                \/ folio[o].status = "NEW" /\ fs[o].status = "OPEN",
           fs[f].status = "OPEN",
           Write(p, f, a, fs)
    PROVE  IInv' /\ Priced
<1>1. PICK st, r, S : /\ st = StatusOf(a) /\ r = PayAt(f, a, st)
                      /\ S = IF StatusOf(a) = "POSTED" THEN {f} ELSE {}
  OBVIOUS
<1>2. /\ Op /\ pay[p].status = "NONE"
      /\ pay' = [pay EXCEPT ![p] = r] /\ item' = item
      /\ Refresh(fs, S)
      /\ route' = route /\ house' = house /\ inbox' = inbox /\ job' = job /\ deciding' = deciding
  BY <1>1 DEF Write
<1>3. st \in {"PENDING", "POSTED"}
  BY <1>1, StatusType
<1>4. r \in PayRows /\ r.at = f /\ r.back = None /\ r.void = "no" /\ r.status = st
  BY <1>1, <1>3 DEF PayAt, PayRows
<1>5. pay[p].at = None /\ pay[p].back = None
  <2>1. pay[p].at = None /\ pay[p].void = "no"
    BY <1>2 DEF IInv, PayStages
  <2> QED BY <2>1 DEF IInv, VoidsCancelOut
<1>6. Typed'
  BY <1>2, <1>4 DEF IInv, FolioTypeOK, Typed
<1>7. /\ folio' \in [Folios -> FolioRows]
      /\ \A o \in Folios : folio'[o].of = fs[o].of /\ folio'[o].status = fs[o].status
      /\ \A o \in Folios \ S : folio'[o].charges = fs[o].charges /\ folio'[o].balance = fs[o].balance
      /\ \A o \in Folios \intersect S :
            /\ folio'[o].charges = SumAt(item', o)
            /\ folio'[o].balance = SumAt(item', o) - SumAt(PostedRows(pay'), o)
  BY <1>2, <1>6, RefreshIs
<1>8. \A o \in S : o = f
  BY <1>1
<1>9. \A o \in Folios : FolioStep(o, S)
  BY <1>7, <1>8 DEF FolioStep
<1>10. PayStep(pay[p], r, S)
  <2>1. st # "POSTED" \/ Within(pay[p], r, S)
    BY <1>1, <1>4, <1>5 DEF Within
  <2>2. Reversal(r) /\ folio'[r.at].status = "OPEN"
    BY <1>4, <1>7 DEF Reversal
  <2> QED BY <1>2, <1>4, <2>1, <2>2 DEF PayStep
<1>11. r.status # "NONE" /\ r.at # None
  BY <1>3, <1>4, FolioAssumption
<1>12. \A o \in Folios : folio'[o].of = None <=> folio'[o].status = "NEW"
  BY <1>7
<1> QED BY <1>2, <1>4, <1>7, <1>9, <1>10, <1>11, <1>12, OnePayKeeps

LEMMA WriteSameKeeps ==
    ASSUME IInv, NEW p \in Pays, NEW f \in Folios, NEW a \in Int, IsOpen(f), Write(p, f, a, folio)
    PROVE  IInv' /\ Priced
<1>1. PICK fs : fs = folio
  OBVIOUS
<1>2. Write(p, f, a, fs)
  BY <1>1
<1>3. fs \in [Folios -> FolioRows] /\ fs[f].status = "OPEN"
      /\ \A o \in Folios : /\ fs[o].of = None <=> fs[o].status = "NEW"
                           /\ fs[o].charges = folio[o].charges /\ fs[o].balance = folio[o].balance
                           /\ fs[o].status = folio[o].status
  BY <1>1 DEF IInv, FolioTypeOK, IsOpen
<1> QED BY <1>2, <1>3, WriteKeeps

LEMMA ReceiveKeeps ==
    ASSUME IInv, NEW f \in Folios, NEW p \in Pays, NEW a \in Amounts, Receive(f, p, a)
    PROVE  IInv' /\ Priced
BY ConstantTypes, WriteSameKeeps DEF Receive

LEMMA RequestRefundKeeps ==
    ASSUME IInv, NEW f \in Folios, NEW p \in Pays, NEW a \in Amounts, RequestRefund(f, p, a)
    PROVE  IInv' /\ Priced
<1>1. a \in Int
  BY ConstantTypes
<1>2. PICK b \in Int : b = -a
  BY <1>1
<1>3. IsOpen(f) /\ Write(p, f, b, folio)
  BY <1>2 DEF RequestRefund
<1> QED BY <1>3, WriteSameKeeps

LEMMA ReceiveForStayKeeps ==
    ASSUME IInv, NEW g \in Stays, NEW n \in Folios, NEW p \in Pays, NEW a \in Amounts, ReceiveForStay(g, n, p, a)
    PROVE  IInv' /\ Priced
<1>1. PICK new, fs : new = NewFolio(g) /\ fs = [folio EXCEPT ![n] = new]
  OBVIOUS
<1>2. n \in Unused /\ Write(p, n, a, fs)
  BY <1>1 DEF ReceiveForStay
<1>3. new \in FolioRows /\ new.of = g /\ new.status = "OPEN" /\ new.charges = 0 /\ new.balance = 0
  BY <1>1, NewFolioIs
<1>4. folio[n].charges = 0 /\ folio[n].balance = 0 /\ folio[n].status = "NEW"
  BY <1>2, UnusedIsZero
<1>5. fs \in [Folios -> FolioRows] /\ \A o \in Folios : fs[o] = IF o = n THEN new ELSE folio[o]
  BY <1>1, <1>3 DEF IInv, FolioTypeOK
<1>6. \A o \in Folios : /\ fs[o].of = None <=> fs[o].status = "NEW"
                        /\ fs[o].charges = folio[o].charges /\ fs[o].balance = folio[o].balance
                        /\ \/ fs[o].status = folio[o].status
                           \/ folio[o].status = "NEW" /\ fs[o].status = "OPEN"
  BY <1>3, <1>4, <1>5, FolioAssumption DEF IInv, FolioTypeOK
<1>7. fs[n].status = "OPEN" /\ a \in Int
  BY <1>3, <1>5, ConstantTypes
<1> QED BY <1>2, <1>5, <1>6, <1>7, WriteKeeps

LEMMA RequestPaymentVoidKeeps ==
    ASSUME IInv, NEW p \in Pays, RequestPaymentVoid(p)
    PROVE  IInv' /\ Priced
<1>1. PICK r : r = [pay[p] EXCEPT !.void = "asked"]
  OBVIOUS
<1>2. /\ Op /\ pay[p].status = "POSTED" /\ pay[p].void = "no" /\ IsOpen(pay[p].at)
      /\ pay' = [pay EXCEPT ![p] = r] /\ item' = item /\ folio' = folio
      /\ route' = route /\ house' = house /\ inbox' = inbox /\ job' = job /\ deciding' = deciding
  BY <1>1 DEF RequestPaymentVoid
<1>3. pay[p] \in PayRows
  BY DEF IInv, FolioTypeOK
<1>4. /\ r \in PayRows /\ r.at = pay[p].at /\ r.back = pay[p].back /\ r.amount = pay[p].amount
      /\ r.status = "POSTED" /\ r.void = "asked"
  BY <1>1, <1>2, <1>3 DEF PayRows
<1>5. pay[p].at # None /\ pay[p].at \in Folios /\ pay[p].back = None
  BY <1>2, <1>3 DEF IInv, PayStages, VoidsCancelOut, PayRows
<1>6. PayStep(pay[p], r, {})
  BY <1>2, <1>4, <1>5 DEF PayStep, Alike, Reversal, IsOpen
<1>7. \A f \in Folios : FolioStep(f, {})
  BY <1>2 DEF FolioStep
<1>8. folio' \in [Folios -> FolioRows] /\ \A f \in Folios : folio'[f].of = None <=> folio'[f].status = "NEW"
  BY <1>2 DEF IInv, FolioTypeOK
<1> QED BY <1>2, <1>4, <1>5, <1>6, <1>7, <1>8, OnePayKeeps

LEMMA DecidePendingKeeps ==
    ASSUME IInv, NEW p \in Pays, NEW granted \in BOOLEAN, DecidePending(p, granted)
    PROVE  IInv' /\ Priced
<1>1. PICK at, st, r, S :
        /\ at = pay[p].at
        /\ st = IF granted /\ IsOpen(pay[p].at) THEN "POSTED" ELSE "DECLINED"
        /\ r = [pay[p] EXCEPT !.status = st]
        /\ S = IF granted /\ IsOpen(pay[p].at) THEN {at} ELSE {}
  OBVIOUS
<1>2. /\ Op /\ pay[p].status = "PENDING"
      /\ pay' = [pay EXCEPT ![p] = r] /\ item' = item
      /\ Refresh(folio, S)
      /\ route' = route /\ house' = house /\ inbox' = inbox /\ job' = job /\ deciding' = deciding
  BY <1>1 DEF DecidePending
<1>3. at \in Folios /\ folio[at].status = "OPEN" /\ at # None
  BY <1>1, <1>2, AwaitedIsOpen, FolioAssumption
<1>4. pay[p] \in PayRows
  BY DEF IInv, FolioTypeOK
<1>5. /\ r \in PayRows /\ r.at = at /\ r.back = pay[p].back /\ r.amount = pay[p].amount
      /\ r.status = st /\ r.void = pay[p].void
  BY <1>1, <1>4 DEF PayRows
<1>6. pay[p].void = "no" /\ pay[p].back = None
  BY <1>2 DEF IInv, PayStages, VoidsCancelOut
<1>7. Typed'
  BY <1>2, <1>5 DEF IInv, FolioTypeOK, Typed
<1>8. /\ folio' \in [Folios -> FolioRows]
      /\ \A f \in Folios : folio'[f].of = folio[f].of /\ folio'[f].status = folio[f].status
      /\ \A f \in Folios : FolioStep(f, S)
  <2>1. \A f \in S : IsOpen(f)
    BY <1>1, <1>3 DEF IsOpen
  <2> QED BY <1>2, <1>7, <2>1, SameFolios
<1>9. PayStep(pay[p], r, S)
  <2>1. st # "POSTED" \/ Within(pay[p], r, S)
    BY <1>1, <1>5, <1>6 DEF Within
  <2>2. Reversal(r) /\ folio'[r.at].status = "OPEN"
    BY <1>3, <1>5, <1>6, <1>8 DEF Reversal
  <2> QED BY <1>2, <1>3, <1>5, <2>1, <2>2 DEF PayStep
<1>10. \A f \in Folios : folio'[f].of = None <=> folio'[f].status = "NEW"
  BY <1>8 DEF IInv, FolioTypeOK
<1>11. r.status # "NONE" /\ r.at # None /\ r.void = "no"
  BY <1>1, <1>3, <1>5, <1>6
<1> QED BY <1>2, <1>5, <1>8, <1>9, <1>10, <1>11, OnePayKeeps

LEMMA DecidePaymentVoidKeeps ==
    ASSUME IInv, NEW p \in Pays, NEW granted \in BOOLEAN, DecidePaymentVoid(p, granted)
    PROVE  IInv' /\ Priced
<1>1. PICK at, applied : at = pay[p].at /\ (applied <=> granted /\ IsOpen(pay[p].at) /\ pay[p].status = "POSTED")
  OBVIOUS
<1>2. PICK r, S :
        /\ r = IF applied THEN [pay[p] EXCEPT !.void = "done", !.back = at] ELSE [pay[p] EXCEPT !.void = "no"]
        /\ S = IF applied THEN {at} ELSE {}
  OBVIOUS
<1>3. pay[p] \in PayRows /\ DOMAIN pay = Pays
  BY DEF IInv, FolioTypeOK
<1>4. Reversed(pay, {p}) = [pay EXCEPT ![p] = [pay[p] EXCEPT !.void = "done", !.back = pay[p].at]]
  BY <1>3 DEF Reversed, IInv, FolioTypeOK
<1>5. /\ Op /\ pay[p].void = "asked"
      /\ pay' = [pay EXCEPT ![p] = r] /\ item' = item
      /\ Refresh(folio, S)
      /\ route' = route /\ house' = house /\ inbox' = inbox /\ job' = job /\ deciding' = deciding
  BY <1>1, <1>2, <1>4 DEF DecidePaymentVoid
<1>6. at \in Folios /\ folio[at].status = "OPEN" /\ at # None
  BY <1>1, <1>5, AwaitedIsOpen, FolioAssumption
<1>7. pay[p].status = "POSTED" /\ pay[p].back = None
  BY <1>5 DEF IInv, PayStages, VoidsCancelOut
<1>8. /\ r \in PayRows /\ r.at = at /\ r.amount = pay[p].amount /\ r.status = "POSTED"
      /\ IF applied THEN r.void = "done" /\ r.back = at ELSE r.void = "no" /\ r.back = None
  BY <1>1, <1>2, <1>3, <1>6, <1>7 DEF PayRows
<1>9. Typed'
  BY <1>5, <1>8 DEF IInv, FolioTypeOK, Typed
<1>10. /\ folio' \in [Folios -> FolioRows]
       /\ \A f \in Folios : folio'[f].of = folio[f].of /\ folio'[f].status = folio[f].status
       /\ \A f \in Folios : FolioStep(f, S)
  <2>1. \A f \in S : IsOpen(f)
    BY <1>2, <1>6 DEF IsOpen
  <2> QED BY <1>5, <1>9, <2>1, SameFolios
<1>11. PayStep(pay[p], r, S)
  <2>1. Alike(pay[p], r) \/ Within(pay[p], r, S)
    BY <1>1, <1>2, <1>7, <1>8 DEF Within, Alike
  <2>2. Reversal(r) /\ folio'[r.at].status = "OPEN"
    BY <1>6, <1>8, <1>10 DEF Reversal
  <2> QED BY <1>6, <1>7, <1>8, <2>1, <2>2 DEF PayStep
<1>12. \A f \in Folios : folio'[f].of = None <=> folio'[f].status = "NEW"
  BY <1>10 DEF IInv, FolioTypeOK
<1> QED BY <1>5, <1>6, <1>8, <1>10, <1>11, <1>12, OnePayKeeps

-----------------------------------------------------------------------------
(* The invariant holds in every state *)

LEMMA InitHolds == Init => IInv
<1> SUFFICES ASSUME Init PROVE IInv
  OBVIOUS
<1>1. PICK first \in [Stays -> Folios] :
        /\ \A g, h \in Stays : first[g] = first[h] => g = h
        /\ folio = [f \in Folios |->
             IF \E g \in Stays : first[g] = f
             THEN [of |-> CHOOSE g \in Stays : first[g] = f, window |-> 1, status |-> "OPEN", charges |-> 0, balance |-> 0]
             ELSE [of |-> None, window |-> 0, status |-> "NEW", charges |-> 0, balance |-> 0]]
  BY DEF Init
<1>2. ASSUME NEW f \in Folios
      PROVE  /\ folio[f] \in FolioRows /\ folio[f].charges = 0 /\ folio[f].balance = 0
             /\ folio[f].of = None <=> folio[f].status = "NEW"
             /\ folio[f].status \in {"NEW", "OPEN"}
  <2>1. CASE \E g \in Stays : first[g] = f
    <3>1. PICK g : g = CHOOSE x \in Stays : first[x] = f
      OBVIOUS
    <3>2. g \in Stays /\ g # None
      BY <2>1, <3>1, FolioAssumption
    <3>3. folio[f] = [of |-> g, window |-> 1, status |-> "OPEN", charges |-> 0, balance |-> 0]
      BY <1>1, <2>1, <3>1
    <3> QED BY <3>2, <3>3 DEF FolioRows
  <2>2. CASE ~\E g \in Stays : first[g] = f
    <3>1. folio[f] = [of |-> None, window |-> 0, status |-> "NEW", charges |-> 0, balance |-> 0]
      BY <1>1, <2>2
    <3> QED BY <3>1 DEF FolioRows
  <2> QED BY <2>1, <2>2
<1>3. folio \in [Folios -> FolioRows]
  <2>1. folio = [f \in Folios |-> folio[f]]
    BY <1>1
  <2> QED BY <1>2, <2>1
<1>4. /\ item = [k \in Items |-> NoItem]
      /\ pay = [p \in Pays |-> [at |-> None, amount |-> 0, status |-> "NONE", void |-> "no", back |-> None]]
      /\ route = [g \in Stays |-> None]
      /\ inbox = {} /\ deciding = {} /\ quiet = {}
      /\ job = [g \in Stays |-> None]
      /\ ops = 0
  BY DEF Init
<1>5. \A g \in Stays : \E a \in Prices :
        house[g] = [in |-> TRUE, price |-> a, late |-> FALSE, due |-> 0, changes |-> 0, departures |-> 0]
  BY DEF Init
<1>6. house \in [Stays -> [in : BOOLEAN, price : Prices, late : BOOLEAN, due : Int, changes : Nat, departures : Nat]]
  <2>1. house = [g \in Stays |-> house[g]]
    BY DEF Init
  <2>2. \A a \in Prices :
          [in |-> TRUE, price |-> a, late |-> FALSE, due |-> 0, changes |-> 0, departures |-> 0]
             \in [in : BOOLEAN, price : Prices, late : BOOLEAN, due : Int, changes : Nat, departures : Nat]
    OBVIOUS
  <2> QED BY <1>5, <2>1, <2>2
<1>7. Typed
  BY <1>4 DEF Typed, NoItem, ItemRows, PayRows
<1>8. FolioTypeOK
  BY <1>2, <1>3, <1>4, <1>6, <1>7 DEF FolioTypeOK, Typed
<1>9. \A k \in Items : item[k].at = None /\ item[k].back = None /\ item[k].void = "no"
  BY <1>4 DEF NoItem
<1>10. \A p \in Pays : pay[p].at = None /\ pay[p].back = None /\ pay[p].void = "no" /\ pay[p].status = "NONE"
  BY <1>4
<1>11. ASSUME NEW f \in Folios
       PROVE  /\ At(item, f) = {} /\ Back(item, f) = {} /\ At(pay, f) = {} /\ Back(pay, f) = {}
              /\ At(PostedRows(pay), f) = {} /\ Back(PostedRows(pay), f) = {}
  <2>1. f # None
    BY FolioAssumption
  <2> QED BY <1>7, <1>9, <1>10, <2>1 DEF At, Back, Typed, PostedRows
<1>12. TotalsAreTrue
  <2>1. \A f \in Folios : SumAt(item, f) = 0 /\ SumAt(PostedRows(pay), f) = 0
    BY <1>11, SumAtOfNone
  <2> QED BY <1>2, <2>1 DEF TotalsAreTrue, Charged, Balance, Paid
<1>13. ClosedIsSettled
  BY <1>2 DEF ClosedIsSettled
<1>14. Placed /\ VoidsCancelOut /\ PayStages /\ AskedIsPosted
  BY <1>9, <1>10, <1>11 DEF Placed, VoidsCancelOut, PayStages, AskedIsPosted
<1>15. Decisions
  BY <1>4 DEF Decisions
<1>16. Bounds
  <2>1. ASSUME NEW g \in Stays PROVE house[g].changes = 0 /\ house[g].departures = 0
    <3>1. PICK a : house[g] = [in |-> TRUE, price |-> a, late |-> FALSE, due |-> 0, changes |-> 0, departures |-> 0]
      BY <1>5
    <3> QED BY <3>1
  <2> QED BY <1>4, <2>1, ConstantTypes DEF Bounds
<1>17. ASSUME NEW g \in Stays PROVE NightRows(g) /\ OneFee(g)
  <2>0. PICK a : house[g] = [in |-> TRUE, price |-> a, late |-> FALSE, due |-> 0, changes |-> 0, departures |-> 0]
    BY <1>5
  <2>1. PostedNights(g) = {} /\ LiveFees(g) = {} /\ \A i \in 0..MaxChanges : Free(<<g, "night", i>>)
    BY <1>9, ItemKeys DEF PostedNights, LiveFees, Free
  <2>2. Posts(g) = 0
    BY <2>1, FS_EmptySet DEF Posts
  <2>3. house[g].changes = 0
    BY <2>0
  <2>4. OneFee(g)
    BY <2>1 DEF OneFee
  <2>5. \A i \in 0..MaxChanges : ~(i < 0)
    BY ConstantTypes
  <2> QED BY <2>1, <2>2, <2>3, <2>4, <2>5 DEF NightRows
<1>18. Stayed /\ Work
  BY <1>4, <1>17 DEF Stayed, Work, Locked
<1> QED BY <1>8, <1>12, <1>13, <1>14, <1>15, <1>16, <1>18 DEF IInv

LEMMA FolioStepKeeps == ASSUME IInv, FolioNext PROVE IInv' /\ Priced
<1>1. CASE \E f \in Folios, c \in Charges, a \in Amounts : PostCharge(f, c, a)
  BY <1>1, PostChargeKeeps
<1>2. CASE \E k \in Items : RequestVoid(k) \/ ReadDecision(k, TRUE) \/ ReadDecision(k, FALSE)
  BY <1>2, RequestVoidKeeps, ReadDecisionKeeps
<1>3. CASE \E d \in deciding : Decide(d)
  BY <1>3, DecideKeeps
<1>4. CASE \E k \in Items, t \in Folios : Transfer(k, t)
  BY <1>4, TransferKeeps
<1>5. CASE \E f, n \in Folios, routed \in BOOLEAN : \E S \in SUBSET At(item, f) : Split(f, n, S, routed)
  BY <1>5, SplitKeeps
<1>6. CASE \E s, t \in Folios : Merge(s, t)
  BY <1>6, MergeKeeps
<1>7. CASE \E g \in Stays, f \in Folios : BeginRoute(g, f) \/ OpenFolio(g, f)
  BY <1>7, BeginRouteKeeps, OpenFolioKeeps
<1>8. CASE \E f \in Folios : CloseFolio(f) \/ CloseFolioIfSettled(f) \/ ReopenFolio(f)
  BY <1>8, CloseKeeps, ReopenFolioKeeps DEF CloseFolio, CloseFolioIfSettled
<1>9. CASE \E g \in Stays, c \in Charges, a \in Amounts : BeginExternal(g, c, a)
  BY <1>9, BeginExternalKeeps
<1>10. CASE \E g \in Stays, e \in inbox : BeginSettle(g, e) \/ SkipSettle(g, e) \/ UndoSettle(g, e)
  BY <1>10, BeginSettleKeeps, SkipSettleKeeps, UndoSettleKeeps
<1>11. CASE \E g \in Stays, a \in Prices : ChangePrice(g, a)
  BY <1>11, ChangePriceKeeps
<1>12. CASE \E g \in Stays, late \in BOOLEAN : CheckOut(g, late)
  BY <1>12, CheckOutKeeps
<1>13. CASE \E g \in Stays : SetRoute(g) \/ RemoveRoute(g) \/ RevertCheckOut(g)
  BY <1>13, SetRouteKeeps, RemoveRouteKeeps, RevertCheckOutKeeps
<1>14. CASE \E g \in Stays : BeginRoomCharges(g) \/ Retarget(g) \/ CommitPosting(g) \/ Abort(g)
  BY <1>14, BeginRoomChargesKeeps, RetargetKeeps, CommitPostingKeeps, AbortKeeps
<1> QED BY <1>1, <1>2, <1>3, <1>4, <1>5, <1>6, <1>7, <1>8, <1>9, <1>10, <1>11, <1>12, <1>13, <1>14 DEF FolioNext

LEMMA StepKeeps == ASSUME IInv, Next PROVE IInv' /\ Priced
<1>1. CASE FolioNext
  BY <1>1, FolioStepKeeps
<1>2. CASE \E f \in Folios, p \in Pays, a \in Amounts : a > 0 /\ (Receive(f, p, a) \/ RequestRefund(f, p, a))
  BY <1>2, ReceiveKeeps, RequestRefundKeeps
<1>3. CASE \E g \in Stays, n \in Folios, p \in Pays, a \in Amounts : a > 0 /\ ReceiveForStay(g, n, p, a)
  BY <1>3, ReceiveForStayKeeps
<1>4. CASE \E p \in Pays : RequestPaymentVoid(p)
  BY <1>4, RequestPaymentVoidKeeps
<1>5. CASE \E p \in Pays : \E granted \in BOOLEAN : DecidePending(p, granted) \/ DecidePaymentVoid(p, granted)
  BY <1>5, DecidePendingKeeps, DecidePaymentVoidKeeps
<1> QED BY <1>1, <1>2, <1>3, <1>4, <1>5 DEF Next

LEMMA StutterKeeps == ASSUME IInv, UNCHANGED vars PROVE IInv' /\ Priced
<1>1. /\ folio' = folio /\ item' = item /\ pay' = pay /\ route' = route /\ house' = house
      /\ inbox' = inbox /\ job' = job /\ deciding' = deciding /\ ops' = ops /\ quiet' = quiet
  BY DEF vars
<1>2. Jobs' = Jobs
  BY <1>1 DEF Jobs
<1>3. FolioTypeOK'
  BY <1>1, <1>2 DEF IInv, FolioTypeOK
<1>4. Decisions' /\ Bounds'
  BY <1>1 DEF IInv, Decisions, Bounds, Free
<1>5. \A h \in Stays : SamePrice(h) /\ job'[h] = job[h]
  BY <1>1 DEF SamePrice
<1> QED BY <1>1, <1>3, <1>4, <1>5, QuietKeeps

LEMMA InvariantHolds == Spec => []IInv
<1>1. Init => IInv
  BY InitHolds
<1>2. IInv /\ [Next]_vars => IInv'
  BY StepKeeps, StutterKeeps
<1> QED BY <1>1, <1>2, PTL DEF Spec

\* Every row, folio, job and event is one of the kinds that the code writes.
THEOREM Typing == Spec => []FolioTypeOK
BY InvariantHolds, PTL DEF IInv

\* The stored totals are the sums of the rows: refreshFolioTotals is called for
\* every folio that an operation touches.
THEOREM StoredTotals == Spec => []TotalsAreTrue
BY InvariantHolds, PTL DEF IInv

\* A closed folio stays settled until it is reopened (closeLocked and everything
\* that asks for an open folio under its lock).
THEOREM ClosedStaysSettled == Spec => []ClosedIsSettled
BY InvariantHolds, PTL DEF IInv

\* A folio that was merged into another one stays empty (mergeFolios).
THEOREM MergedStaysEmpty == Spec => []MergedIsEmpty
<1>1. IInv => MergedIsEmpty
  BY DEF IInv, Placed, MergedIsEmpty
<1> QED BY <1>1, InvariantHolds, PTL

\* A voided row and its reversal are never separated (reverseItems).
THEOREM VoidsStayTogether == Spec => []VoidsCancelOut
BY InvariantHolds, PTL DEF IInv

\* At most one late fee of a stay is in force (settleStayOnCheckOut).
THEOREM LateFeeIsOnce == Spec => []OneLateFee
<1>1. IInv => OneLateFee
  <2> SUFFICES ASSUME IInv, NEW g \in Stays PROVE Cardinality(LiveFees(g)) <= 1
    BY DEF OneLateFee
  <2>1. OneFee(g)
    BY DEF IInv, Stayed
  <2>2. CASE LiveFees(g) = {}
    BY <2>2, FS_EmptySet
  <2>3. CASE LiveFees(g) # {}
    <3>1. PICK k : k \in LiveFees(g)
      BY <2>3
    <3>2. LiveFees(g) = {k}
      BY <2>1, <3>1 DEF OneFee
    <3>3. Cardinality({k}) = 1
      BY FS_Singleton
    <3> QED BY <3>2, <3>3
  <2> QED BY <2>2, <2>3
<1> QED BY <1>1, InvariantHolds, PTL

\* A posting leaves the rows of a night at its price, however often the night
\* run, the button and the settlement ran before (planRoomPostings).
THEOREM NightIsChargedOnce == Spec => NightIsCharged
<1>1. IInv /\ [Next]_vars =>
        [\A g \in Stays : Locked(g) /\ ~Locked(g)' /\ (PostedNights(g))' # PostedNights(g) /\ ~(NightVoided(g))'
           => (NightSum(g))' = house[g].price]_vars
  BY StepKeeps, StutterKeeps DEF Priced
<1> QED BY <1>1, InvariantHolds, PTL DEF Spec, NightIsCharged

-----------------------------------------------------------------------------
(* Money given back was taken *)

LEMMA TotalSame ==
    ASSUME NEW f, NEW g, NEW S, \A x \in S : f[x] = g[x]
    PROVE  Total(f, S) = Total(g, S)
<1>1. [x \in S |-> f[x]] = [x \in S |-> g[x]]
  OBVIOUS
<1> QED BY <1>1 DEF Total

LEMMA TotalAdd ==
    ASSUME NEW f, NEW g, NEW h, NEW S, IsFiniteSet(S),
           \A x \in S : f[x] \in Int /\ g[x] \in Int /\ h[x] = f[x] + g[x]
    PROVE  Total(h, S) = Total(f, S) + Total(g, S)
<1> DEFINE Bad == {n \in Nat : \E s \in SUBSET S : Cardinality(s) = n /\ Total(h, s) # Total(f, s) + Total(g, s)}
<1>1. SUFFICES ASSUME Bad # {} PROVE FALSE
  <2>1. Cardinality(S) \in Nat
    BY FS_CardinalityType
  <2> QED BY <2>1
<1>2. PICK n \in Bad : \A m \in Bad : n <= m
  <2> HIDE DEF Bad
  <2>1. Bad \in SUBSET Nat
    BY DEF Bad
  <2> QED BY <2>1, <1>1, LeastNat
<1>3. PICK s \in SUBSET S : Cardinality(s) = n /\ Total(h, s) # Total(f, s) + Total(g, s)
  BY <1>2
<1>4. IsFiniteSet(s)
  BY FS_Subset
<1>5. s # {}
  <2>1. s = {} => Total(f, s) = 0 /\ Total(g, s) = 0 /\ Total(h, s) = 0
    BY <1>4, TotalRec
  <2> QED BY <2>1, <1>3
<1> DEFINE t == s \ {Chosen(s)}
<1>6. t \in SUBSET S /\ Cardinality(t) \in Nat /\ Cardinality(t) < n /\ Chosen(s) \in S /\ IsFiniteSet(t)
  BY <1>3, <1>4, <1>5, SmallerWithout
<1>7. Total(h, t) = Total(f, t) + Total(g, t)
  BY <1>2, <1>6
<1>8. /\ Total(f, s) = f[Chosen(s)] + Total(f, t) /\ Total(g, s) = g[Chosen(s)] + Total(g, t)
      /\ Total(h, s) = h[Chosen(s)] + Total(h, t)
  BY <1>4, <1>5, TotalRec
<1> HIDE DEF t
<1>9. Total(f, t) \in Int /\ Total(g, t) \in Int
  BY <1>6, TotalType
<1>10. PICK c : c = Chosen(s)
  OBVIOUS
<1>11. f[c] \in Int /\ g[c] \in Int /\ h[c] = f[c] + g[c]
  BY <1>6, <1>10
<1> QED BY <1>3, <1>7, <1>8, <1>9, <1>10, <1>11

LEMMA TotalOfZeros ==
    ASSUME NEW f, NEW S, IsFiniteSet(S), \A x \in S : f[x] = 0
    PROVE  Total(f, S) = 0
<1>1. Total(f, S) = Total(f, S) + Total(f, S)
  BY TotalAdd
<1>2. Total(f, S) \in Int
  BY TotalType
<1> QED BY <1>1, <1>2

\* Rows that add nothing may be left out.
LEMMA TotalOfPart ==
    ASSUME NEW f, NEW S, IsFiniteSet(S), \A x \in S : f[x] \in Int, NEW T \in SUBSET S, \A x \in S \ T : f[x] = 0
    PROVE  Total(f, S) = Total(f, T)
<1>1. IsFiniteSet(T) /\ IsFiniteSet(S \ T) /\ T \union (S \ T) = S /\ T \cap (S \ T) = {}
  BY FS_Subset
<1>2. PICK R : R = S \ T
  OBVIOUS
<1>3. IsFiniteSet(R) /\ T \union R = S /\ T \cap R = {} /\ \A x \in R : f[x] = 0
  BY <1>1, <1>2
<1>4. Total(f, R) = 0
  BY <1>3, TotalOfZeros
<1>5. \A x \in T \union R : f[x] \in Int
  BY <1>3
<1>6. Total(f, T \union R) = Total(f, T) + Total(f, R)
  BY <1>1, <1>3, <1>5, TotalUnion
<1>7. Total(f, T) \in Int
  BY <1>1, TotalType
<1>8. Total(f, T \union R) = Total(f, S)
  BY <1>3
<1> QED BY <1>4, <1>6, <1>7, <1>8

LEMMA TotalGrows ==
    ASSUME NEW f, NEW g, NEW S, IsFiniteSet(S), \A x \in S : f[x] \in Int /\ g[x] \in Int /\ f[x] <= g[x]
    PROVE  Total(f, S) <= Total(g, S)
<1>1. PICK d : d = [x \in S |-> g[x] - f[x]]
  OBVIOUS
<1>2. \A x \in S : d[x] \in Nat /\ d[x] \in Int /\ g[x] = f[x] + d[x]
  BY <1>1
<1>3. Total(g, S) = Total(f, S) + Total(d, S)
  BY <1>2, TotalAdd
<1>4. Total(d, S) \in Nat
  BY <1>2, TotalNat
<1>5. Total(f, S) \in Int
  BY TotalType
<1> QED BY <1>3, <1>4, <1>5

\* What a payment adds to the money of a folio: what was taken counts even if it
\* was voided since, what is given back counts as soon as it is asked for.
Worth(r) ==
    IF \/ r.status = "POSTED" /\ r.amount > 0
       \/ r.amount < 0 /\ r.status \in {"PENDING", "POSTED"} /\ r.void # "done"
    THEN r.amount ELSE 0
WorthAt(rows, f) == [p \in Pays |-> IF rows[p].at = f THEN Worth(rows[p]) ELSE 0]
Money(rows, f) == Total(WorthAt(rows, f), Pays)
Covered == \A f \in Folios : Money(pay, f) >= 0

LEMMA WorthType ==
    ASSUME NEW rows \in [Pays -> PayRows]
    PROVE  /\ \A f : \A p \in Pays : WorthAt(rows, f)[p] \in Int
           /\ \A f : Money(rows, f) \in Int
<1>1. ASSUME NEW p \in Pays PROVE Worth(rows[p]) \in Int
  <2>1. rows[p].amount \in Int
    BY DEF PayRows
  <2> QED BY <2>1 DEF Worth
<1>2. \A f : \A p \in Pays : WorthAt(rows, f)[p] \in Int
  BY <1>1 DEF WorthAt
<1>3. \A f : Money(rows, f) \in Int
  BY <1>2, TotalType, FolioAssumption DEF Money
<1> QED BY <1>2, <1>3

\* The property counts the same money.
LEMMA CoveredIsGivenWasTaken ==
    ASSUME Typed, Covered
    PROVE  GivenWasTaken
<1> SUFFICES ASSUME NEW f \in Folios
             PROVE  Sum(pay, {p \in At(pay, f) : pay[p].status = "POSTED" /\ pay[p].amount > 0})
                    + Sum(pay, {p \in At(pay, f) : pay[p].amount < 0 /\ pay[p].status \in {"PENDING", "POSTED"}
                                                    /\ pay[p].void # "done"}) >= 0
  BY DEF GivenWasTaken
<1> DEFINE taken == {p \in At(pay, f) : pay[p].status = "POSTED" /\ pay[p].amount > 0}
           given == {p \in At(pay, f) : pay[p].amount < 0 /\ pay[p].status \in {"PENDING", "POSTED"}
                                        /\ pay[p].void # "done"}
<1>1. \A p \in At(pay, f) : p \in Pays /\ pay[p].at = f /\ pay[p].amount \in Int
  BY DEF At, Typed, PayRows
<1>2. taken \in SUBSET Pays /\ given \in SUBSET Pays /\ taken \cap given = {}
  BY <1>1
<1>3. ASSUME NEW p \in taken \union given PROVE WorthAt(pay, f)[p] = pay[p].amount
  <2>1. p \in At(pay, f) /\ p \in Pays /\ pay[p].at = f
    BY <1>1
  <2>2. WorthAt(pay, f)[p] = Worth(pay[p])
    BY <2>1 DEF WorthAt
  <2>3. \/ pay[p].status = "POSTED" /\ pay[p].amount > 0
        \/ pay[p].amount < 0 /\ pay[p].status \in {"PENDING", "POSTED"} /\ pay[p].void # "done"
    OBVIOUS
  <2>4. Worth(pay[p]) = pay[p].amount
    <3>1. CASE pay[p].status = "POSTED" /\ pay[p].amount > 0
      BY <3>1 DEF Worth
    <3>2. CASE pay[p].amount < 0 /\ pay[p].status \in {"PENDING", "POSTED"} /\ pay[p].void # "done"
      BY <3>2 DEF Worth
    <3> QED BY <2>3, <3>1, <3>2
  <2> QED BY <2>2, <2>4
<1>4. \A p \in Pays \ (taken \union given) : WorthAt(pay, f)[p] = 0
  BY DEF WorthAt, Worth, At, Typed
<1> HIDE DEF taken, given
<1>5. PICK w : w = WorthAt(pay, f)
  OBVIOUS
<1>6. \A p \in Pays : w[p] \in Int
  BY <1>5, WorthType DEF Typed
<1>7. IsFiniteSet(taken) /\ IsFiniteSet(given)
  BY <1>2, FS_Subset, FolioAssumption
<1>8. PICK both : both = taken \union given
  OBVIOUS
<1>9. Total(w, Pays) = Total(w, both)
  <2>1. both \in SUBSET Pays /\ \A p \in Pays \ both : w[p] = 0
    BY <1>2, <1>4, <1>5, <1>8
  <2> QED BY <1>6, <2>1, TotalOfPart, FolioAssumption
<1>10. Total(w, taken \union given) = Total(w, taken) + Total(w, given)
  BY <1>2, <1>6, <1>7, TotalUnion
<1>11. \A S \in {taken, given} : Sum(pay, S) = Total(w, S)
  <2> TAKE S \in {taken, given}
  <2>1. [p \in S |-> pay[p].amount] = [p \in S |-> w[p]]
    BY <1>3, <1>5
  <2> QED BY <2>1 DEF Sum, Total
<1>12. Total(w, Pays) >= 0
  BY <1>5 DEF Covered, Money
<1>13. Sum(pay, taken) + Sum(pay, given) >= 0
  BY <1>8, <1>9, <1>10, <1>11, <1>12
<1> QED BY <1>13 DEF taken, given

LEMMA PayIsTyped == IInv => pay \in [Pays -> PayRows] /\ IsFiniteSet(Pays)
BY FolioAssumption DEF IInv, FolioTypeOK

\* One payment changes, and no folio has less for it.
LEMMA MoreMoney ==
    ASSUME IInv, Covered, NEW p \in Pays, NEW r \in PayRows, pay' = [pay EXCEPT ![p] = r],
           \/ r.at = pay[p].at /\ Worth(pay[p]) <= Worth(r)
           \/ Worth(pay[p]) = 0 /\ Worth(r) >= 0
    PROVE  Covered'
<1>1. pay \in [Pays -> PayRows] /\ IsFiniteSet(Pays)
  BY PayIsTyped
<1>2. PICK next : next = pay'
  OBVIOUS
<1>3. next \in [Pays -> PayRows] /\ \A q \in Pays : next[q] = IF q = p THEN r ELSE pay[q]
  BY <1>1, <1>2
<1>4. ASSUME NEW f \in Folios PROVE Money(next, f) >= 0
  <2>1. PICK old, new : old = WorthAt(pay, f) /\ new = WorthAt(next, f)
    OBVIOUS
  <2>2. \A q \in Pays : old[q] \in Int /\ new[q] \in Int
    BY <1>1, <1>3, <2>1, WorthType
  <2>3. \A q \in Pays : /\ old[q] = IF pay[q].at = f THEN Worth(pay[q]) ELSE 0
                        /\ new[q] = IF next[q].at = f THEN Worth(next[q]) ELSE 0
    BY <2>1 DEF WorthAt
  <2>4. \A q \in Pays : q # p => old[q] <= new[q]
    <3>1. \A q \in Pays : q # p => next[q] = pay[q]
      BY <1>3
    <3>2. \A q \in Pays : q # p => old[q] = new[q]
      BY <2>3, <3>1
    <3> QED BY <2>2, <3>2
  <2>5. old[p] <= new[p]
    BY <1>3, <2>2, <2>3
  <2>6. Total(old, Pays) <= Total(new, Pays)
    BY <1>1, <2>2, <2>4, <2>5, TotalGrows
  <2>7. Total(old, Pays) \in Int /\ Total(new, Pays) \in Int /\ Total(old, Pays) >= 0
    BY <1>1, <2>1, <2>2, TotalType DEF Covered, Money
  <2> QED BY <2>1, <2>6, <2>7 DEF Money
<1> QED BY <1>2, <1>4 DEF Covered

LEMMA MergeCovers ==
    ASSUME IInv, Covered, NEW s \in Folios, NEW t \in Folios, Merge(s, t)
    PROVE  Covered'
<1>1. pay \in [Pays -> PayRows] /\ IsFiniteSet(Pays)
  BY PayIsTyped
<1>2. PICK next : next = pay'
  OBVIOUS
<1>3. s # t /\ next = Moved(pay, s, t)
  BY <1>2 DEF Merge
<1>4. /\ next \in [Pays -> PayRows]
      /\ \A k \in Pays : /\ next[k].at = IF pay[k].at = s THEN t ELSE pay[k].at
                         /\ next[k].amount = pay[k].amount /\ next[k].void = pay[k].void
                         /\ next[k].status = pay[k].status
  BY <1>3, PaysMoved
<1>5. \A k \in Pays : Worth(next[k]) = Worth(pay[k])
  BY <1>4 DEF Worth
<1>6. ASSUME NEW f \in Folios PROVE Money(next, f) >= 0
  <2>1. PICK old, gone, new : old = WorthAt(pay, f) /\ gone = WorthAt(pay, s) /\ new = WorthAt(next, f)
    OBVIOUS
  <2>2. \A q \in Pays : old[q] \in Int /\ gone[q] \in Int /\ new[q] \in Int
    BY <1>1, <1>4, <2>1, WorthType
  <2>3. \A q \in Pays : /\ old[q] = IF pay[q].at = f THEN Worth(pay[q]) ELSE 0
                        /\ gone[q] = IF pay[q].at = s THEN Worth(pay[q]) ELSE 0
                        /\ new[q] = IF next[q].at = f THEN Worth(pay[q]) ELSE 0
    BY <1>5, <2>1 DEF WorthAt
  <2>4. Total(old, Pays) >= 0 /\ Total(gone, Pays) >= 0 /\ Total(old, Pays) \in Int /\ Total(gone, Pays) \in Int
    BY <1>1, <2>1, <2>2, TotalType DEF Covered, Money
  <2>5. CASE f = s
    <3>1. \A q \in Pays : new[q] = 0
      BY <1>3, <1>4, <2>3, <2>5
    <3>2. Total(new, Pays) = 0
      BY <1>1, <3>1, TotalOfZeros
    <3> QED BY <2>1, <3>2 DEF Money
  <2>6. CASE f = t
    <3>1. \A q \in Pays : new[q] = old[q] + gone[q]
      <4> TAKE q \in Pays
      <4>1. PICK w : w = Worth(pay[q]) /\ (pay[q].at = t => old[q] = w) /\ (pay[q].at = s => gone[q] = w)
                     /\ (next[q].at = t => new[q] = w)
        BY <2>3, <2>6
      <4>2. /\ pay[q].at # t => old[q] = 0
            /\ pay[q].at # s => gone[q] = 0
            /\ next[q].at # t => new[q] = 0
        BY <2>3, <2>6
      <4>3. next[q].at = IF pay[q].at = s THEN t ELSE pay[q].at
        BY <1>4
      <4>4. CASE pay[q].at = s
        BY <1>3, <2>2, <4>1, <4>2, <4>3, <4>4
      <4>5. CASE pay[q].at # s
        BY <2>2, <4>1, <4>2, <4>3, <4>5
      <4> QED BY <4>4, <4>5
    <3>2. Total(new, Pays) = Total(old, Pays) + Total(gone, Pays)
      BY <1>1, <2>2, <3>1, TotalAdd
    <3> QED BY <2>1, <2>4, <3>2 DEF Money
  <2>7. CASE f # s /\ f # t
    <3>1. \A q \in Pays : next[q].at = f <=> pay[q].at = f
      BY <1>4, <2>7
    <3>2. \A q \in Pays : new[q] = old[q]
      BY <2>3, <3>1
    <3>3. Total(new, Pays) = Total(old, Pays)
      BY <3>2, TotalSame
    <3> QED BY <2>1, <2>4, <3>3 DEF Money
  <2> QED BY <2>5, <2>6, <2>7
<1> QED BY <1>2, <1>6 DEF Covered

\* What may be refunded was taken: the posted payments, less the reversals, and
\* the refunds that wait.
LEMMA NetIsMoney ==
    ASSUME IInv, NEW f \in Folios
    PROVE  /\ PostedNet(f) \in Int /\ PendingRefunds(f) \in Int
           /\ PostedNet(f) + PendingRefunds(f) <= Money(pay, f)
<1>1. pay \in [Pays -> PayRows] /\ IsFiniteSet(Pays) /\ f # None
  BY PayIsTyped, FolioAssumption
<1>2. PICK A, B, C :
        /\ A = [p \in Pays |-> IF pay[p].status = "POSTED" /\ pay[p].at = f THEN pay[p].amount ELSE 0]
        /\ B = [p \in Pays |-> IF pay[p].status = "POSTED" /\ pay[p].back = f THEN pay[p].amount ELSE 0]
        /\ C = [p \in Pays |-> IF pay[p].status = "PENDING" /\ pay[p].amount < 0 /\ pay[p].at = f THEN pay[p].amount ELSE 0]
  OBVIOUS
<1>3. \A p \in Pays : pay[p].amount \in Int
  BY <1>1 DEF PayRows
<1>4. \A p \in Pays : A[p] \in Int /\ B[p] \in Int /\ C[p] \in Int
  BY <1>2, <1>3
<1>5. PostedNet(f) = Total(A, Pays) - Total(B, Pays)
  <2>1. PICK R : R = PostedRows(pay)
    OBVIOUS
  <2>2. DOMAIN R = {p \in Pays : pay[p].status = "POSTED"} /\ \A p \in DOMAIN R : R[p] = pay[p]
    BY <1>1, <2>1 DEF PostedRows
  <2>3. PICK S, T : S = At(R, f) /\ T = Back(R, f)
    OBVIOUS
  <2>4. /\ S = {p \in Pays : pay[p].status = "POSTED" /\ pay[p].at = f}
        /\ T = {p \in Pays : pay[p].status = "POSTED" /\ pay[p].back = f}
    BY <2>2, <2>3 DEF At, Back
  <2>5. PostedNet(f) = Total(AmountOf(R), S) - Total(AmountOf(R), T)
    BY <2>1, <2>3, SumAtIsTotal DEF PostedNet, Paid
  <2>6. (\A p \in S : AmountOf(R)[p] = A[p]) /\ \A p \in T : AmountOf(R)[p] = B[p]
    BY <1>2, <2>2, <2>4 DEF AmountOf
  <2>7. Total(AmountOf(R), S) = Total(A, S) /\ Total(AmountOf(R), T) = Total(B, T)
    BY <2>6, TotalSame
  <2>8. Total(A, Pays) = Total(A, S)
    <3>1. S \in SUBSET Pays /\ \A p \in Pays \ S : A[p] = 0
      BY <1>2, <2>4
    <3> QED BY <1>1, <1>4, <3>1, TotalOfPart
  <2>9. Total(B, Pays) = Total(B, T)
    <3>1. T \in SUBSET Pays /\ \A p \in Pays \ T : B[p] = 0
      BY <1>2, <2>4
    <3> QED BY <1>1, <1>4, <3>1, TotalOfPart
  <2> QED BY <2>5, <2>7, <2>8, <2>9
<1>6. PendingRefunds(f) = Total(C, Pays)
  <2>1. PICK S : S = {p \in At(pay, f) : pay[p].status = "PENDING" /\ pay[p].amount < 0}
    OBVIOUS
  <2>2. S = {p \in Pays : pay[p].status = "PENDING" /\ pay[p].amount < 0 /\ pay[p].at = f}
    BY <1>1, <2>1 DEF At
  <2>3. S \in SUBSET Pays /\ (\A p \in Pays \ S : C[p] = 0) /\ \A p \in S : C[p] = pay[p].amount
    BY <1>2, <2>2
  <2>4. Total(C, Pays) = Total(C, S)
    BY <1>1, <1>4, <2>3, TotalOfPart
  <2>5. [p \in S |-> pay[p].amount] = [p \in S |-> C[p]]
    BY <2>3
  <2>6. PendingRefunds(f) = SumFunction([p \in S |-> pay[p].amount])
    BY <2>1 DEF PendingRefunds, Sum
  <2> QED BY <2>4, <2>5, <2>6 DEF Total
<1>7. PICK W, L, M : W = WorthAt(pay, f) /\ L = [p \in Pays |-> A[p] + C[p]] /\ M = [p \in Pays |-> W[p] + B[p]]
  OBVIOUS
<1>8. \A p \in Pays : W[p] \in Int
  BY <1>1, <1>7, WorthType
<1>9. \A p \in Pays : L[p] \in Int /\ M[p] \in Int /\ L[p] = A[p] + C[p] /\ M[p] = W[p] + B[p]
  BY <1>4, <1>7, <1>8
<1>10. ASSUME NEW p \in Pays PROVE L[p] <= M[p]
  <2>1. PICK a, st, v, at, back :
          /\ a = pay[p].amount /\ st = pay[p].status /\ v = pay[p].void /\ at = pay[p].at /\ back = pay[p].back
    OBVIOUS
  <2>2. a \in Int /\ (v # "no" => st = "POSTED") /\ back = IF v = "done" THEN at ELSE None
    BY <1>3, <2>1 DEF IInv, PayStages, VoidsCancelOut
  <2>3. /\ A[p] = IF st = "POSTED" /\ at = f THEN a ELSE 0
        /\ B[p] = IF st = "POSTED" /\ back = f THEN a ELSE 0
        /\ C[p] = IF st = "PENDING" /\ a < 0 /\ at = f THEN a ELSE 0
    BY <1>2, <2>1
  <2>4. W[p] = IF at = f THEN Worth(pay[p]) ELSE 0
    BY <1>7, <2>1 DEF WorthAt
  <2>5. Worth(pay[p]) = IF \/ st = "POSTED" /\ a > 0
                           \/ a < 0 /\ st \in {"PENDING", "POSTED"} /\ v # "done"
                        THEN a ELSE 0
    BY <2>1 DEF Worth
  <2>6. CASE at # f
    <3>1. back # f
      BY <1>1, <2>2, <2>6
    <3> QED BY <1>9, <2>3, <2>4, <2>6, <3>1
  <2>7. CASE at = f /\ st = "POSTED" /\ v = "done"
    <3>1. A[p] = a /\ B[p] = a /\ C[p] = 0
      BY <2>2, <2>3, <2>7
    <3>2. W[p] = IF a > 0 THEN a ELSE 0
      BY <2>4, <2>5, <2>7
    <3>3. W[p] >= 0
      BY <2>2, <3>2
    <3> QED BY <1>8, <1>9, <2>2, <3>1, <3>3
  <2>8. CASE at = f /\ st = "POSTED" /\ v # "done"
    <3>1. A[p] = a /\ B[p] = 0 /\ C[p] = 0
      BY <1>1, <2>2, <2>3, <2>8
    <3>2. W[p] = a
      BY <2>2, <2>4, <2>5, <2>8
    <3> QED BY <1>9, <2>2, <3>1, <3>2
  <2>9. CASE at = f /\ st = "PENDING"
    <3>1. A[p] = 0 /\ B[p] = 0 /\ v = "no"
      BY <2>2, <2>3, <2>9
    <3>2. C[p] = (IF a < 0 THEN a ELSE 0) /\ W[p] = (IF a < 0 THEN a ELSE 0)
      BY <2>3, <2>4, <2>5, <2>9, <3>1
    <3> QED BY <1>4, <1>9, <3>1, <3>2
  <2>10. CASE at = f /\ st \notin {"POSTED", "PENDING"}
    <3>1. A[p] = 0 /\ B[p] = 0 /\ C[p] = 0 /\ W[p] = 0
      BY <2>3, <2>4, <2>5, <2>10
    <3> QED BY <1>9, <3>1
  <2> QED BY <2>6, <2>7, <2>8, <2>9, <2>10
<1>11. /\ Total(L, Pays) = Total(A, Pays) + Total(C, Pays)
       /\ Total(M, Pays) = Total(W, Pays) + Total(B, Pays)
  <2>1. Total(L, Pays) = Total(A, Pays) + Total(C, Pays)
    BY <1>1, <1>4, <1>9, TotalAdd
  <2>2. Total(M, Pays) = Total(W, Pays) + Total(B, Pays)
    BY <1>1, <1>4, <1>8, <1>9, TotalAdd
  <2> QED BY <2>1, <2>2
<1>12. Total(L, Pays) <= Total(M, Pays)
  BY <1>1, <1>9, <1>10, TotalGrows
<1>13. Total(A, Pays) \in Int /\ Total(B, Pays) \in Int /\ Total(C, Pays) \in Int /\ Total(W, Pays) \in Int
  BY <1>1, <1>4, <1>8, TotalType
<1> QED BY <1>5, <1>6, <1>7, <1>11, <1>12, <1>13 DEF Money

\* A refund takes no more than what may be refunded.
LEMMA RefundCovers ==
    ASSUME IInv, Covered, NEW f \in Folios, NEW p \in Pays, NEW a \in Amounts, a > 0, RequestRefund(f, p, a)
    PROVE  Covered'
<1>1. pay \in [Pays -> PayRows] /\ IsFiniteSet(Pays) /\ f # None
  BY PayIsTyped, FolioAssumption
<1>2. a \in Int
  BY ConstantTypes
<1>3. PICK b, r, next : b = -a /\ r = PayAt(f, b, "PENDING") /\ next = pay'
  OBVIOUS
<1>4. b \in Int /\ b < 0 /\ b = -a /\ StatusOf(b) = "PENDING"
  BY <1>2, <1>3 DEF StatusOf
<1>5. a <= Refundable(f) /\ Write(p, f, b, folio)
  BY <1>3 DEF RequestRefund
<1>6. pay[p].status = "NONE" /\ next = [pay EXCEPT ![p] = r]
  BY <1>3, <1>4, <1>5 DEF Write
<1>7. r \in PayRows /\ r.at = f /\ Worth(r) = b
  <2>1. r = [at |-> f, amount |-> b, status |-> "PENDING", void |-> "no", back |-> None]
    BY <1>3 DEF PayAt
  <2>2. r \in PayRows
    BY <1>4, <2>1 DEF PayRows
  <2>3. Worth(r) = b
    BY <1>4, <2>1 DEF Worth
  <2> QED BY <2>1, <2>2, <2>3
<1>8. pay[p].at = None
  BY <1>6 DEF IInv, PayStages
<1>9. next \in [Pays -> PayRows] /\ \A q \in Pays : next[q] = IF q = p THEN r ELSE pay[q]
  BY <1>1, <1>6, <1>7
<1>10. Money(pay, f) >= a
  <2>1. /\ PostedNet(f) \in Int /\ PendingRefunds(f) \in Int
        /\ PostedNet(f) + PendingRefunds(f) <= Money(pay, f)
    BY NetIsMoney
  <2>2. Money(pay, f) \in Int
    BY <1>1, WorthType
  <2> QED BY <1>2, <1>5, <2>1, <2>2 DEF Refundable
<1>11. ASSUME NEW o \in Folios PROVE Money(next, o) >= 0
  <2>1. PICK old, new : old = WorthAt(pay, o) /\ new = WorthAt(next, o)
    OBVIOUS
  <2>2. \A q \in Pays : old[q] \in Int /\ new[q] \in Int
    BY <1>1, <1>9, <2>1, WorthType
  <2>3. \A q \in Pays : /\ old[q] = IF pay[q].at = o THEN Worth(pay[q]) ELSE 0
                        /\ new[q] = IF next[q].at = o THEN Worth(next[q]) ELSE 0
    BY <2>1 DEF WorthAt
  <2>4. \A q \in Pays : q # p => next[q] = pay[q]
    BY <1>9
  <2>5. \A q \in Pays : q # p => new[q] = old[q]
    BY <2>3, <2>4
  <2>6. old[p] = 0
    BY <1>8, <2>3, FolioAssumption
  <2>7. CASE o # f
    <3>1. new[p] = 0
      BY <1>7, <1>9, <2>3, <2>7
    <3>2. \A q \in Pays : new[q] = old[q]
      BY <2>5, <2>6, <3>1
    <3>3. Total(new, Pays) = Total(old, Pays)
      BY <3>2, TotalSame
    <3> QED BY <2>1, <3>3 DEF Covered, Money
  <2>8. CASE o = f
    <3>1. new[p] = b
      BY <1>7, <1>9, <2>3, <2>8
    <3>2. PICK d : d = [q \in Pays |-> IF q = p THEN b ELSE 0]
      OBVIOUS
    <3>3. \A q \in Pays : d[q] \in Int /\ old[q] \in Int /\ new[q] = old[q] + d[q]
      BY <1>4, <2>2, <2>5, <2>6, <3>1, <3>2
    <3>4. Total(new, Pays) = Total(old, Pays) + Total(d, Pays)
      BY <1>1, <3>3, TotalAdd
    <3>5. Total(d, Pays) = b
      <4>1. PICK rest : rest = Pays \ {p}
        OBVIOUS
      <4>2. IsFiniteSet(rest) /\ \A q \in rest : d[q] = 0
        BY <1>1, <3>2, <4>1, FS_Subset
      <4>3. Total(d, rest) = 0
        BY <4>2, TotalOfZeros
      <4>4. Total(d, Pays) = d[p] + Total(d, Pays \ {p})
        BY <1>1, <3>3, TotalWithout
      <4>5. d[p] = b
        BY <3>2
      <4> QED BY <1>4, <4>1, <4>3, <4>4, <4>5
    <3>6. Total(old, Pays) \in Int /\ Total(old, Pays) >= a
      <4>1. Total(old, Pays) \in Int
        BY <1>1, <2>2, TotalType
      <4> QED BY <1>10, <2>1, <2>8, <4>1 DEF Money
    <3>7. Total(new, Pays) >= 0
      BY <1>2, <1>4, <3>4, <3>5, <3>6
    <3> QED BY <2>1, <3>7 DEF Money
  <2> QED BY <2>7, <2>8
<1> QED BY <1>3, <1>11 DEF Covered

LEMMA PayKept == FolioNext => pay' = pay \/ \E s, t \in Folios : Merge(s, t)
<1> SUFFICES ASSUME FolioNext, ~(\E s, t \in Folios : Merge(s, t)) PROVE pay' = pay
  OBVIOUS
<1> QED
  BY DEF FolioNext, PostCharge, RequestVoid, ReadDecision, Decide, Transfer, Split, BeginRoute, OpenFolio,
     CloseFolio, CloseFolioIfSettled, Close, ReopenFolio, BeginExternal, Begin, BeginSettle, SkipSettle, UndoSettle,
     ChangePrice, CheckOut, Leave, SetRoute, RemoveRoute, RevertCheckOut, BeginRoomCharges, Retarget,
     CommitPosting, Commit, Abort, accounts

LEMMA SameMoney == ASSUME Covered, pay' = pay PROVE Covered'
BY DEF Covered

\* Money that comes in, voids and decisions leave what was given covered.
LEMMA PaymentCovers ==
    ASSUME IInv, Covered, NEW p \in Pays,
           \/ \E f \in Folios, a \in Amounts : a > 0 /\ Receive(f, p, a)
           \/ \E g \in Stays, n \in Folios, a \in Amounts : a > 0 /\ ReceiveForStay(g, n, p, a)
           \/ RequestPaymentVoid(p)
           \/ \E granted \in BOOLEAN : DecidePending(p, granted) \/ DecidePaymentVoid(p, granted)
    PROVE  Covered'
<1>1. pay[p] \in PayRows /\ pay[p].amount \in Int
  BY PayIsTyped DEF PayRows
<1>2. ASSUME NEW f \in Folios, NEW a \in Amounts, a > 0, NEW fs, Write(p, f, a, fs)
      PROVE  Covered'
  <2>1. a \in Int
    BY ConstantTypes
  <2>2. PICK st, r : st = StatusOf(a) /\ r = PayAt(f, a, st)
    OBVIOUS
  <2>3. pay[p].status = "NONE" /\ pay' = [pay EXCEPT ![p] = r]
    BY <1>2, <2>2 DEF Write
  <2>4. st \in {"PENDING", "POSTED"}
    BY <2>1, <2>2, StatusType
  <2>5. r \in PayRows /\ r.amount = a
    BY <2>1, <2>2, <2>4 DEF PayAt, PayRows
  <2>6. Worth(pay[p]) = 0
    BY <2>3 DEF Worth
  <2>7. Worth(r) >= 0
    BY <1>2, <2>1, <2>5 DEF Worth
  <2> QED BY <2>3, <2>5, <2>6, <2>7, MoreMoney
<1>3. CASE \E f \in Folios, a \in Amounts : a > 0 /\ Receive(f, p, a)
  <2>1. PICK f \in Folios, a \in Amounts : a > 0 /\ Receive(f, p, a)
    BY <1>3
  <2>2. PICK fs : fs = folio
    OBVIOUS
  <2>3. Write(p, f, a, fs)
    BY <2>1, <2>2 DEF Receive
  <2> QED BY <1>2, <2>1, <2>3
<1>4. CASE \E g \in Stays, n \in Folios, a \in Amounts : a > 0 /\ ReceiveForStay(g, n, p, a)
  <2>1. PICK g \in Stays, n \in Folios, a \in Amounts : a > 0 /\ ReceiveForStay(g, n, p, a)
    BY <1>4
  <2>2. PICK fs : fs = [folio EXCEPT ![n] = NewFolio(g)]
    OBVIOUS
  <2>3. Write(p, n, a, fs)
    BY <2>1, <2>2 DEF ReceiveForStay
  <2> QED BY <1>2, <2>1, <2>3
<1>5. CASE RequestPaymentVoid(p)
  <2>1. PICK r : r = [pay[p] EXCEPT !.void = "asked"]
    OBVIOUS
  <2>2. pay' = [pay EXCEPT ![p] = r] /\ pay[p].void = "no"
    BY <1>5, <2>1 DEF RequestPaymentVoid
  <2>3. /\ r \in PayRows /\ r.at = pay[p].at /\ r.amount = pay[p].amount
        /\ r.status = pay[p].status /\ r.void = "asked"
    BY <1>1, <2>1 DEF PayRows
  <2>4. Worth(r) = Worth(pay[p])
    BY <2>2, <2>3 DEF Worth
  <2>5. Worth(pay[p]) \in Int
    BY <1>1 DEF Worth
  <2>6. Worth(pay[p]) <= Worth(r)
    BY <2>4, <2>5
  <2> QED BY <2>2, <2>3, <2>6, MoreMoney
<1>6. ASSUME NEW granted \in BOOLEAN, DecidePending(p, granted) PROVE Covered'
  <2>1. PICK st, r : /\ st = IF granted /\ IsOpen(pay[p].at) THEN "POSTED" ELSE "DECLINED"
                     /\ r = [pay[p] EXCEPT !.status = st]
    OBVIOUS
  <2>2. pay[p].status = "PENDING" /\ pay' = [pay EXCEPT ![p] = r]
    BY <1>6, <2>1 DEF DecidePending
  <2>3. st \in {"POSTED", "DECLINED"}
    BY <2>1
  <2>4. /\ r \in PayRows /\ r.at = pay[p].at /\ r.amount = pay[p].amount
        /\ r.status = st /\ r.void = pay[p].void
    BY <1>1, <2>1, <2>3 DEF PayRows
  <2>5. pay[p].void = "no"
    BY <2>2 DEF IInv, PayStages
  <2>6. Worth(pay[p]) = IF pay[p].amount < 0 THEN pay[p].amount ELSE 0
    BY <1>1, <2>2, <2>5 DEF Worth
  <2>7. CASE st = "POSTED"
    <3>1. Worth(r) = pay[p].amount
      <4>1. CASE pay[p].amount > 0
        BY <2>4, <2>7, <4>1 DEF Worth
      <4>2. CASE pay[p].amount < 0
        BY <2>4, <2>5, <2>7, <4>2 DEF Worth
      <4>3. CASE pay[p].amount = 0
        BY <2>4, <4>3 DEF Worth
      <4> QED BY <1>1, <4>1, <4>2, <4>3
    <3>2. Worth(pay[p]) <= Worth(r)
      BY <1>1, <2>6, <3>1
    <3> QED BY <2>2, <2>4, <3>2, MoreMoney
  <2>8. CASE st = "DECLINED"
    <3>1. Worth(r) = 0
      BY <2>4, <2>8 DEF Worth
    <3>2. Worth(pay[p]) <= Worth(r)
      BY <1>1, <2>6, <3>1
    <3> QED BY <2>2, <2>4, <3>2, MoreMoney
  <2> QED BY <2>3, <2>7, <2>8
<1>7. ASSUME NEW granted \in BOOLEAN, DecidePaymentVoid(p, granted) PROVE Covered'
  <2>1. Reversed(pay, {p}) = [pay EXCEPT ![p] = [pay[p] EXCEPT !.void = "done", !.back = pay[p].at]]
    BY PayIsTyped DEF Reversed
  <2>2. PICK r : pay' = [pay EXCEPT ![p] = r]
                 /\ r \in {[pay[p] EXCEPT !.void = "done", !.back = pay[p].at], [pay[p] EXCEPT !.void = "no"]}
    BY <1>7, <2>1 DEF DecidePaymentVoid
  <2>3. pay[p].void = "asked" /\ pay[p].status = "POSTED"
    BY <1>7 DEF DecidePaymentVoid, IInv, PayStages
  <2>4. /\ r \in PayRows /\ r.at = pay[p].at /\ r.amount = pay[p].amount
        /\ r.status = "POSTED" /\ r.void \in {"no", "done"}
    BY <1>1, <2>2, <2>3 DEF PayRows
  <2>5. CASE pay[p].amount > 0
    <3>1. Worth(r) = pay[p].amount /\ Worth(pay[p]) = pay[p].amount
      BY <2>3, <2>4, <2>5 DEF Worth
    <3>2. Worth(pay[p]) <= Worth(r)
      BY <1>1, <3>1
    <3> QED BY <2>2, <2>4, <3>2, MoreMoney
  <2>6. CASE pay[p].amount < 0
    <3>1. Worth(pay[p]) = pay[p].amount
      BY <2>3, <2>6 DEF Worth
    <3>2. Worth(r) \in {0, pay[p].amount}
      BY <2>4 DEF Worth
    <3>3. Worth(pay[p]) <= Worth(r)
      BY <1>1, <2>6, <3>1, <3>2
    <3> QED BY <2>2, <2>4, <3>3, MoreMoney
  <2>7. CASE pay[p].amount = 0
    <3>1. Worth(r) = 0 /\ Worth(pay[p]) = 0
      BY <2>4, <2>7 DEF Worth
    <3>2. Worth(pay[p]) <= Worth(r)
      BY <3>1
    <3> QED BY <2>2, <2>4, <3>2, MoreMoney
  <2> QED BY <1>1, <2>5, <2>6, <2>7
<1> QED BY <1>3, <1>4, <1>5, <1>6, <1>7

LEMMA CoveredStep == IInv /\ Covered /\ [Next]_vars => Covered'
<1> SUFFICES ASSUME IInv, Covered, [Next]_vars PROVE Covered'
  OBVIOUS
<1>1. CASE FolioNext
  BY <1>1, PayKept, SameMoney, MergeCovers
<1>2. CASE \E f \in Folios, p \in Pays, a \in Amounts : a > 0 /\ (Receive(f, p, a) \/ RequestRefund(f, p, a))
  BY <1>2, PaymentCovers, RefundCovers
<1>3. CASE \E g \in Stays, n \in Folios, p \in Pays, a \in Amounts : a > 0 /\ ReceiveForStay(g, n, p, a)
  BY <1>3, PaymentCovers
<1>4. CASE \E p \in Pays : \/ RequestPaymentVoid(p)
                           \/ \E granted \in BOOLEAN : DecidePending(p, granted) \/ DecidePaymentVoid(p, granted)
  BY <1>4, PaymentCovers
<1>5. CASE UNCHANGED vars
  BY <1>5, SameMoney DEF vars
<1> QED BY <1>1, <1>2, <1>3, <1>4, <1>5 DEF Next

LEMMA CoveredInit == Init => Covered
<1> SUFFICES ASSUME Init, NEW f \in Folios PROVE Money(pay, f) >= 0
  BY DEF Covered
<1>1. PICK w : w = WorthAt(pay, f)
  OBVIOUS
<1>2. \A p \in Pays : pay[p].at = None
  BY DEF Init
<1>3. \A p \in Pays : w[p] = 0
  BY <1>1, <1>2, FolioAssumption DEF WorthAt
<1>4. Total(w, Pays) = 0
  BY <1>3, TotalOfZeros, FolioAssumption
<1> QED BY <1>1, <1>4 DEF Money

\* On every folio, what is given back or waits to be was taken there or came
\* there with the payments of a merged folio (refundableAmount).
THEOREM GivenBackWasTaken == Spec => []GivenWasTaken
<1>1. IInv /\ Covered => GivenWasTaken
  BY CoveredIsGivenWasTaken, TypeGivesTyped DEF IInv
<1> QED BY <1>1, InvariantHolds, CoveredInit, CoveredStep, PTL DEF Spec

-----------------------------------------------------------------------------
(* A settlement posts what the check-out counted *)

NightDue(g) == IF PlanNight(g) = {} THEN 0 ELSE house[g].price - NightSum(g)
FeeDue(g, late) == IF late /\ LiveFees(g) = {} THEN LateFee ELSE 0

\* Room charges of the stay go to a folio of another stay.
Elsewhere(g) == route[g] # None /\ IsOpen(route[g]) /\ folio[route[g]].of # g

\* What is not posted yet to the stay's own folios.
Owing(g, late) == IF Elsewhere(g) THEN 0 ELSE NightDue(g) + FeeDue(g, late)

\* The event of the first check-out.
OutEvent(g) == [kind |-> "out", stay |-> g, n |-> 1, late |-> house[g].late, fees |-> {}]

\* Before its first check-out a stay is in house, and has neither events nor a
\* late fee.
Fresh(g) ==
    house[g].departures = 0 =>
        /\ house[g].in
        /\ \A e \in inbox : e.stay # g
        /\ \A k \in LateOf(g) : Free(k)
        /\ Locked(g) => \A s \in job[g].specs : s.key \notin LateOf(g)

\* After it the only event is that of the check-out, ...
Left(g) == ~house[g].in /\ house[g].departures = 1 /\ \A e \in inbox : e.stay = g => e = OutEvent(g)

\* ... while it may come what is due is the balance and what is owing, and then
\* the balance, ...
Counted(g) ==
    /\ OutEvent(g) \in inbox =>
          /\ OwnBalance(g) + Owing(g, house[g].late) = house[g].due
          /\ \A k \in LateOf(g) : item[k].void # "done"
    /\ OutEvent(g) \notin inbox => OwnBalance(g) = house[g].due /\ PlanNight(g) = {}

\* ... and a posting writes what is missing to where it belongs.
OwnPosting(g, j) ==
    /\ OutEvent(g) \in inbox
    /\ j.target = Resolve(route[g], g)
    /\ j.opens <=> j.specs # {} /\ OpenOf(g) = {}
    /\ \/ j.kind = "night" /\ j.specs = PlanNight(g) /\ j.event = None
       \/ /\ j.kind = "settle" /\ j.event = OutEvent(g)
          /\ j.specs = PlanNight(g) \union PlanLate(g, 1, house[g].late)

QuietGood(g) == Left(g) /\ Counted(g) /\ (Locked(g) => OwnPosting(g, job[g]))

CountInv == (\A g \in Stays : Fresh(g)) /\ \A g \in quiet : QuietGood(g)

\* A sum over one.
LEMMA TotalOfOne ==
    ASSUME NEW f, NEW x, f[x] \in Int
    PROVE  Total(f, {x}) = f[x]
<1>1. IsFiniteSet({x}) /\ {x} \ {x} = {}
  BY FS_Singleton
<1>2. Total(f, {x}) = f[x] + Total(f, {x} \ {x})
  BY <1>1, TotalWithout
<1> QED BY <1>1, <1>2, SumOfNone

\* The plan for the night is the night that is due.
LEMMA NightPlanIs ==
    ASSUME IInv, NEW g \in Stays
    PROVE  /\ NightDue(g) \in Int
           /\ \/ PlanNight(g) = {} /\ NightDue(g) = 0
              \/ PlanNight(g) = {[key |-> <<g, "night", Posts(g)>>, amount |-> NightDue(g)]}
<1>1. NightSum(g) \in Int
  BY TypeGivesTyped, NightSumType DEF IInv
<1>2. house[g].price \in Int
  BY ConstantTypes DEF IInv, FolioTypeOK
<1>3. \/ PlanNight(g) = {}
      \/ PlanNight(g) = {[key |-> <<g, "night", Posts(g)>>, amount |-> house[g].price - NightSum(g)]}
  BY DEF PlanNight, Posts
<1>4. PlanNight(g) # {} => NightDue(g) = house[g].price - NightSum(g)
  BY DEF NightDue
<1>5. PlanNight(g) = {} => NightDue(g) = 0
  BY DEF NightDue
<1> QED BY <1>1, <1>2, <1>3, <1>4, <1>5

\* The plan of a late fee is the fee that is due, or nothing.
LEMMA LatePlanIs ==
    ASSUME NEW g \in Stays, NEW n, NEW late
    PROVE  /\ FeeDue(g, late) \in Int
           /\ \/ PlanLate(g, n, late) = {} /\ FeeDue(g, late) = 0
              \/ PlanLate(g, n, late) = {[key |-> <<g, "late", n>>, amount |-> FeeDue(g, late)]}
<1>1. LateFee \in Int
  BY ConstantTypes
<1> QED BY <1>1 DEF FeeDue, PlanLate

\* What is pending for the check-out is what is owing.
LEMMA PendingIs ==
    ASSUME IInv, NEW g \in Stays, NEW late
    PROVE  Pending(g, late) = Owing(g, late) /\ Owing(g, late) \in Int
<1>1. PICK n, P, L, d, c : /\ n = house[g].departures + 1
                           /\ P = PlanNight(g) /\ L = PlanLate(g, n, late)
                           /\ d = NightDue(g) /\ c = FeeDue(g, late)
  OBVIOUS
<1>2. d \in Int /\ ((P = {} /\ d = 0) \/ P = {[key |-> <<g, "night", Posts(g)>>, amount |-> d]})
  BY <1>1, NightPlanIs
<1>3. c \in Int /\ ((L = {} /\ c = 0) \/ L = {[key |-> <<g, "late", n>>, amount |-> c]})
  BY <1>1, LatePlanIs
<1>4. PICK a : a = [s \in P \union L |-> s.amount]
  OBVIOUS
<1>5. Total(a, P) = d
  <2>1. CASE P = {}
    BY <1>2, <2>1, SumOfNone
  <2>2. CASE P # {}
    <3>1. PICK s : P = {s} /\ s.amount = d
      BY <1>2, <2>2
    <3>2. a[s] = d
      BY <1>4, <3>1
    <3> QED BY <1>2, <3>1, <3>2, TotalOfOne
  <2> QED BY <2>1, <2>2
<1>6. Total(a, L) = c
  <2>1. CASE L = {}
    BY <1>3, <2>1, SumOfNone
  <2>2. CASE L # {}
    <3>1. PICK s : L = {s} /\ s.amount = c
      BY <1>3, <2>2
    <3>2. a[s] = c
      BY <1>4, <3>1
    <3> QED BY <1>3, <3>1, <3>2, TotalOfOne
  <2> QED BY <2>1, <2>2
<1>7. P \cap L = {}
  <2>1. \A s \in P : s.key[2] = "night"
    BY <1>2
  <2>2. \A s \in L : s.key[2] = "late"
    BY <1>3
  <2>3. "night" # "late"
    OBVIOUS
  <2> QED BY <2>1, <2>2, <2>3
<1>8. IsFiniteSet(P) /\ IsFiniteSet(L)
  <2>1. (\A x : IsFiniteSet({x})) /\ IsFiniteSet({})
    BY FS_Singleton, FS_EmptySet
  <2> QED BY <1>2, <1>3, <2>1
<1>9. \A s \in P \union L : a[s] \in Int
  BY <1>2, <1>3, <1>4
<1>10. Total(a, P \union L) = d + c
  BY <1>5, <1>6, <1>7, <1>8, <1>9, TotalUnion
<1>11. SumFunction([s \in P \union L |-> s.amount]) = d + c
  <2>1. [s \in P \union L |-> a[s]] = [s \in P \union L |-> s.amount]
    BY <1>4
  <2> QED BY <1>10, <2>1 DEF Total
<1> QED BY <1>1, <1>2, <1>3, <1>11 DEF Pending, Owing, Elsewhere

\* A sum in which some parts are new, and one of them more.
LEMMA AccountGrows ==
    ASSUME NEW F \in SUBSET Folios, NEW G \in SUBSET Folios, F \subseteq G,
           NEW b, NEW c, NEW d \in Int, NEW f, f \in G \/ d = 0,
           \A o \in F : b[o] \in Int,
           \A o \in G : c[o] = (IF o \in F THEN b[o] ELSE 0) + (IF o = f THEN d ELSE 0)
    PROVE  Total(c, G) = Total(b, F) + d
<1>1. PICK w, e : w = [o \in G |-> IF o \in F THEN b[o] ELSE 0] /\ e = [o \in G |-> IF o = f THEN d ELSE 0]
  OBVIOUS
<1>2. IsFiniteSet(G)
  BY FolioAssumption, FS_Subset
<1>3. \A o \in G : w[o] \in Int /\ e[o] \in Int /\ c[o] = w[o] + e[o]
  BY <1>1
<1>4. Total(c, G) = Total(w, G) + Total(e, G)
  BY <1>2, <1>3, TotalAdd
<1>5. Total(w, G) = Total(b, F)
  <2>1. \A o \in G \ F : w[o] = 0
    BY <1>1
  <2>2. Total(w, G) = Total(w, F)
    BY <1>2, <1>3, <2>1, TotalOfPart
  <2>3. \A o \in F : w[o] = b[o]
    BY <1>1
  <2> QED BY <2>2, <2>3, TotalSame
<1>6. Total(e, G) = d
  <2>1. CASE f \in G
    <3>1. \A o \in G \ {f} : e[o] = 0
      BY <1>1
    <3>2. {f} \in SUBSET G /\ e[f] = d
      BY <1>1, <2>1
    <3>3. Total(e, G) = Total(e, {f})
      BY <1>2, <1>3, <3>1, <3>2, TotalOfPart
    <3> QED BY <3>2, <3>3, TotalOfOne
  <2>2. CASE f \notin G
    <3>1. \A o \in G : e[o] = 0
      BY <1>1, <2>2
    <3> QED BY <1>2, <2>2, <3>1, TotalOfZeros
  <2> QED BY <2>1, <2>2
<1>7. Total(b, F) \in Int
  <2>1. IsFiniteSet(F)
    BY FolioAssumption, FS_Subset
  <2> QED BY <2>1, TotalType
<1> QED BY <1>4, <1>5, <1>6, <1>7

\* New rows on one folio add their amounts to it, and to no other.
LEMMA RowsAdded ==
    ASSUME IInv, NEW items \in [Items -> ItemRows], NEW K \in SUBSET Items, NEW f \in Folios,
           \A k \in K : Free(k) /\ items[k].at = f /\ items[k].back = None,
           \A k \in Items \ K : items[k] = item[k]
    PROVE  /\ SumAt(items, f) = SumAt(item, f) + Total(AmountOf(items), K)
           /\ \A o \in Folios : o # f => SumAt(items, o) = SumAt(item, o)
<1>1. item \in [Items -> ItemRows] /\ None \notin Folios
  BY FolioAssumption DEF IInv, FolioTypeOK
<1>2. \A k \in K : item[k].at = None /\ item[k].back = None
  BY DEF IInv, VoidsCancelOut, Free
<1>3. \A o \in Folios : Back(items, o) = Back(item, o)
  BY <1>1, <1>2 DEF Back
<1>4. \A o \in Folios : o # f => At(items, o) = At(item, o)
  BY <1>1, <1>2 DEF At
<1>5. At(items, f) = At(item, f) \union K
  BY <1>1, <1>2 DEF At
<1>6. \A o \in Folios : At(item, o) \subseteq Items \ K /\ Back(item, o) \subseteq Items \ K
  BY <1>1, <1>2 DEF At, Back
<1>7. \A o \in Folios : o # f => SumAt(items, o) = SumAt(item, o)
  <2> SUFFICES ASSUME NEW o \in Folios, o # f PROVE SumAt(items, o) = SumAt(item, o)
    OBVIOUS
  <2>1. \A k \in At(item, o) \union Back(item, o) : items[k].amount = item[k].amount
    BY <1>6
  <2> QED BY <1>3, <1>4, <2>1, SumAtSame
<1>8. PICK a, b, A, B : /\ a = AmountOf(items) /\ b = AmountOf(item)
                        /\ A = At(item, f) /\ B = Back(item, f)
  OBVIOUS
<1>9. A \subseteq Items \ K /\ B \subseteq Items \ K /\ IsFiniteSet(A) /\ IsFiniteSet(K) /\ IsFiniteSet(B)
  BY <1>6, <1>8, ItemsFinite, FS_Subset
<1>10. /\ \A k \in Items : a[k] \in Int /\ b[k] \in Int
       /\ \A k \in Items \ K : a[k] = b[k]
  BY <1>1, <1>8 DEF AmountOf, ItemRows
<1>11. Total(a, A \union K) = Total(a, A) + Total(a, K)
  <2>1. A \cap K = {} /\ \A k \in A \union K : a[k] \in Int
    BY <1>9, <1>10
  <2> QED BY <1>9, <2>1, TotalUnion
<1>12. Total(a, A) = Total(b, A) /\ Total(a, B) = Total(b, B)
  <2>1. (\A k \in A : a[k] = b[k]) /\ (\A k \in B : a[k] = b[k])
    BY <1>9, <1>10
  <2> QED BY <2>1, TotalSame
<1>13. Total(a, A) \in Int /\ Total(a, B) \in Int /\ Total(a, K) \in Int
  <2>1. (\A k \in A : a[k] \in Int) /\ (\A k \in B : a[k] \in Int) /\ \A k \in K : a[k] \in Int
    BY <1>9, <1>10
  <2> QED BY <1>9, <2>1, TotalType
<1>14. SumAt(items, f) = Total(a, A \union K) - Total(a, B) /\ SumAt(item, f) = Total(b, A) - Total(b, B)
  BY <1>3, <1>5, <1>8, SumAtIsTotal
<1>15. SumAt(items, f) = SumAt(item, f) + Total(a, K)
  BY <1>11, <1>12, <1>13, <1>14
<1> QED BY <1>7, <1>8, <1>15

\* Nothing, or one row that can be posted.
Single(specs, k, a) ==
    \/ specs = {} /\ a = 0
    \/ specs = {[key |-> k, amount |-> a]} /\ k \in Items /\ Free(k)

\* A night or nothing and a fee or nothing are posted.
LEMMA PostingAdds ==
    ASSUME IInv, NEW f \in Folios \union {None}, NEW P, NEW L, NEW d \in Int, NEW c \in Int, NEW n, NEW l,
           Single(P, n, d), Single(L, l, c), n # l,
           NEW specs, specs = P \union L, specs # {} => f \in Folios, NEW sum, sum = d + c
    PROVE  \A o \in Folios : SumAt(Posted(item, specs, f), o) = SumAt(item, o) + (IF o = f THEN sum ELSE 0)
<1> USE DEF Single
<1>1. PICK items : items = Posted(item, specs, f)
  OBVIOUS
<1>2. specs \in SUBSET Specs /\ \A s \in specs : s.key \in Items /\ Free(s.key)
  BY <1>1 DEF Specs
<1>3. items \in [Items -> ItemRows] /\ \A k \in Items : RowPosted(item[k], items[k], k, specs, f)
  <2>1. \A s \in specs : f \in Folios
    BY <1>1
  <2>2. items = Posted(item, specs, f)
    BY <1>1
  <2> QED BY <1>2, <2>1, <2>2, PostedIs
<1>4. \A o \in Folios : SumAt(item, o) \in Int
  <2>1. item \in [Items -> ItemRows] /\ pay \in [Pays -> PayRows]
    BY DEF IInv, FolioTypeOK
  <2> QED BY <2>1, TypedTotals
<1>5. CASE specs = {}
  <2>1. d = 0 /\ c = 0
    BY <1>1, <1>5
  <2>2. \A k \in Items : items[k] = item[k]
    BY <1>3, <1>5 DEF RowPosted
  <2>3. items = item
    <3>1. DOMAIN items = Items /\ items = [k \in Items |-> items[k]]
      BY <1>3
    <3>2. item = [k \in Items |-> item[k]]
      BY DEF IInv, FolioTypeOK
    <3> QED BY <2>2, <3>1, <3>2
  <2> QED BY <1>1, <1>4, <2>1, <2>3
<1>6. CASE specs # {}
  <2>1. f \in Folios /\ f # None
    BY <1>1, <1>6, FolioAssumption
  <2>2. PICK N, M, K : /\ N = (IF P = {} THEN {} ELSE {n}) /\ M = (IF L = {} THEN {} ELSE {l})
                       /\ K = N \union M
    OBVIOUS
  <2>3. K \in SUBSET Items /\ N \cap M = {} /\ IsFiniteSet(N) /\ IsFiniteSet(M)
    BY <2>2, FS_EmptySet, FS_Singleton
  <2>4. \A k \in Items : (\E s \in specs : s.key = k) <=> k \in K
    BY <1>1, <2>2
  <2>5. \A k \in K : Free(k) /\ item[k].at = None
    BY <1>2, <2>3, <2>4 DEF Free
  <2>6. \A k \in K : /\ items[k].at = f /\ items[k].back = None
                     /\ \E s \in specs : s.key = k /\ items[k].amount = s.amount
    <3> SUFFICES ASSUME NEW k \in K
                 PROVE  /\ items[k].at = f /\ items[k].back = None
                        /\ \E s \in specs : s.key = k /\ items[k].amount = s.amount
      OBVIOUS
    <3>1. k \in Items /\ item[k].at = None /\ \E s \in specs : s.key = k
      BY <2>3, <2>4, <2>5
    <3>2. RowPosted(item[k], items[k], k, specs, f)
      BY <1>3, <3>1
    <3>3. PICK s \in specs : s.key = k /\ items[k] = ItemAt(f, s.amount)
      BY <3>1, <3>2 DEF RowPosted
    <3>4. items[k].at = f /\ items[k].back = None /\ items[k].amount = s.amount
      BY <3>3 DEF ItemAt
    <3> QED BY <3>3, <3>4
  <2>7. \A k \in Items \ K : items[k] = item[k]
    BY <1>3, <2>4 DEF RowPosted
  <2>8. PICK a : a = AmountOf(items)
    OBVIOUS
  <2>9. \A k \in Items : a[k] = items[k].amount
    BY <1>3, <2>8 DEF AmountOf
  <2>10. Total(a, N) = d
    <3>1. CASE P = {}
      BY <2>2, <3>1, SumOfNone
    <3>2. CASE P # {}
      <4>1. N = {n} /\ n \in K
        BY <2>2, <3>2
      <4>2. PICK s \in specs : s.key = n /\ items[n].amount = s.amount
        BY <2>6, <4>1
      <4>3. s.amount = d
        BY <1>1, <4>2
      <4>4. a[n] = d
        BY <2>3, <2>9, <4>1, <4>2, <4>3
      <4> QED BY <4>1, <4>4, TotalOfOne
    <3> QED BY <3>1, <3>2
  <2>11. Total(a, M) = c
    <3>1. CASE L = {}
      BY <2>2, <3>1, SumOfNone
    <3>2. CASE L # {}
      <4>1. M = {l} /\ l \in K
        BY <2>2, <3>2
      <4>2. PICK s \in specs : s.key = l /\ items[l].amount = s.amount
        BY <2>6, <4>1
      <4>3. s.amount = c
        BY <1>1, <4>2
      <4>4. a[l] = c
        BY <2>3, <2>9, <4>1, <4>2, <4>3
      <4> QED BY <4>1, <4>4, TotalOfOne
    <3> QED BY <3>1, <3>2
  <2>12. Total(a, N \union M) = d + c
    <3>1. \A k \in N \union M : a[k] \in Int
      BY <1>3, <2>2, <2>3, <2>9 DEF ItemRows
    <3> QED BY <2>3, <2>10, <2>11, <3>1, TotalUnion
  <2>13. /\ SumAt(items, f) = SumAt(item, f) + Total(AmountOf(items), K)
         /\ \A o \in Folios : o # f => SumAt(items, o) = SumAt(item, o)
    <3>1. \A k \in K : Free(k) /\ items[k].at = f /\ items[k].back = None
      BY <2>5, <2>6
    <3> QED BY <1>3, <2>1, <2>3, <2>7, <3>1, RowsAdded
  <2>14. Total(AmountOf(items), K) = d + c
    BY <2>2, <2>8, <2>12
  <2>15. ASSUME NEW o \in Folios, o # f PROVE SumAt(items, o) = SumAt(item, o) + 0
    <3>1. SumAt(items, o) = SumAt(item, o) /\ SumAt(item, o) \in Int
      BY <1>4, <2>13, <2>15
    <3> QED BY <3>1
  <2>16. SumAt(items, f) = SumAt(item, f) + (d + c)
    BY <2>13, <2>14
  <2> QED BY <1>1, <2>15, <2>16
<1> QED BY <1>5, <1>6

\* The rows that a posting of the stay will write are free.
LEMMA PlannedAreFree ==
    ASSUME IInv, NEW g \in Stays
    PROVE  \A s \in PlanNight(g) : s.key \in Items /\ Free(s.key) /\ s.key = <<g, "night", Posts(g)>>
<1> SUFFICES ASSUME NEW s \in PlanNight(g)
             PROVE  s.key \in Items /\ Free(s.key) /\ s.key = <<g, "night", Posts(g)>>
  OBVIOUS
<1>1. NightRows(g) /\ Bounds /\ FolioTypeOK
  BY DEF IInv, Stayed
<1>2. s \in Specs /\ Wanted(g, s) /\ s.key \in NightOf(g)
  BY <1>1, PlanNightGood
<1>3. s.key = <<g, "night", Posts(g)>> /\ Posts(g) <= house[g].changes
  <2>1. s.key \notin ChargeItems /\ s.key \notin LateOf(g)
    BY <1>2, ItemKeys
  <2> QED BY <1>2, <2>1 DEF Wanted
<1>4. Posts(g) \in 0..MaxChanges
  <2>1. Posts(g) \in Nat /\ house[g].changes \in Nat /\ house[g].changes <= MaxChanges /\ MaxChanges \in Nat
    BY <1>1, HouseIsRow, ConstantTypes DEF NightRows, Bounds
  <2> QED BY <1>3, <2>1
<1>5. Free(<<g, "night", Posts(g)>>)
  BY <1>1, <1>4, ConstantTypes DEF NightRows
<1> QED BY <1>2, <1>3, <1>5, ItemKeys

\* When the night is posted, or nothing was missing, nothing is.
LEMMA NightIsDone ==
    ASSUME IInv, NEW g \in Stays, house' = house, NEW specs, PlanNight(g) \subseteq specs,
           \A s \in specs \ PlanNight(g) : s.key \notin NightOf(g),
           NEW f \in Folios \union {None}, specs # {} => f \in Folios,
           \A k \in Items : RowPosted(item[k], item'[k], k, specs, f),
           Priced
    PROVE  (PlanNight(g))' = {}
<1>1. \A s \in PlanNight(g) : s.key \in Items /\ Free(s.key) /\ s.key = <<g, "night", Posts(g)>>
  BY PlannedAreFree
<1>2. house'[g].price = house[g].price /\ NightOf(g) \subseteq Items
  BY ItemKeys
<1>3. CASE PlanNight(g) = {}
  <2>1. \A k \in NightOf(g) : item'[k] = item[k]
    BY <1>2, <1>3 DEF RowPosted
  <2>2. (PostedNights(g))' = PostedNights(g) /\ \A k \in PostedNights(g) : k \in NightOf(g)
    BY <2>1 DEF PostedNights, Free
  <2>3. (NightVoided(g))' <=> NightVoided(g)
    BY <2>1, <2>2 DEF NightVoided
  <2>4. (NightSum(g))' = NightSum(g)
    <3>1. [k \in (PostedNights(g))' |-> item'[k].amount] = [k \in PostedNights(g) |-> item[k].amount]
      BY <2>1, <2>2
    <3> QED BY <3>1 DEF NightSum
  <2> QED BY <1>2, <1>3, <2>3, <2>4 DEF PlanNight
<1>4. CASE PlanNight(g) # {}
  <2>1. PICK s \in PlanNight(g) : s.key \in Items /\ Free(s.key) /\ s.key = <<g, "night", Posts(g)>>
    BY <1>1, <1>4
  <2>2. PICK k : k = s.key
    OBVIOUS
  <2>3. k \in NightOf(g)
    BY <2>1, <2>2, PlanNightGood DEF IInv, Stayed
  <2>4. s \in specs /\ f \in Folios /\ f # None
    BY <2>1, FolioAssumption
  <2>5. RowPosted(item[k], item'[k], k, specs, f) /\ item[k].at = None
    BY <2>1, <2>2 DEF Free
  <2>6. PICK x \in specs : item'[k] = ItemAt(f, x.amount)
    BY <2>2, <2>4, <2>5 DEF RowPosted
  <2>7. item'[k].at # None
    BY <2>4, <2>6 DEF ItemAt
  <2>8. k \in (PostedNights(g))' /\ k \notin PostedNights(g)
    BY <2>3, <2>5, <2>7 DEF PostedNights, Free
  <2>9. (NightVoided(g))' \/ (NightSum(g))' = house'[g].price
    BY <1>2, <2>8 DEF Priced
  <2> QED BY <2>9 DEF PlanNight
<1> QED BY <1>3, <1>4

\* The folios of a stay, those that were merged away left out.
OwnFolios(fs, g) == {o \in Folios : fs[o].of = g /\ fs[o].status # "TRANSFERRED"}

\* The balance of a stay grows by what is posted to a folio of its own.
LEMMA BalanceGrows ==
    ASSUME IInv, NEW g \in Stays, pay' = pay, NEW d \in Int, NEW f,
           OwnFolios(folio, g) \subseteq OwnFolios(folio', g),
           \A o \in OwnFolios(folio', g) : o \in OwnFolios(folio, g) \/ o \in Unused,
           \A o \in OwnFolios(folio', g) : SumAt(item', o) = SumAt(item, o) + (IF o = f THEN d ELSE 0),
           f \in OwnFolios(folio', g) \/ d = 0
    PROVE  (OwnBalance(g))' = OwnBalance(g) + d
<1>1. PICK F, G, b, c : /\ F = OwnFolios(folio, g) /\ G = OwnFolios(folio', g)
                        /\ b = [o \in Folios |-> SumAt(item, o) - SumAt(PostedRows(pay), o)]
                        /\ c = [o \in Folios |-> SumAt(item', o) - SumAt(PostedRows(pay'), o)]
  OBVIOUS
<1>2. F \in SUBSET Folios /\ G \in SUBSET Folios /\ F \subseteq G
  BY <1>1 DEF OwnFolios
<1>3. \A o : SumAt(item, o) \in Int /\ SumAt(PostedRows(pay), o) \in Int
  <2>1. item \in [Items -> ItemRows] /\ pay \in [Pays -> PayRows]
    BY DEF IInv, FolioTypeOK
  <2> QED BY <2>1, TypedTotals
<1>4. \A o \in F : b[o] \in Int
  BY <1>1, <1>2, <1>3
<1>5. ASSUME NEW o \in G PROVE c[o] = (IF o \in F THEN b[o] ELSE 0) + (IF o = f THEN d ELSE 0)
  <2>1. PICK x, y, z : /\ x = SumAt(item, o) /\ y = SumAt(PostedRows(pay), o)
                       /\ z = IF o = f THEN d ELSE 0
    OBVIOUS
  <2>2. x \in Int /\ y \in Int /\ z \in Int
    BY <1>3, <2>1
  <2>3. o \in Folios /\ SumAt(item', o) = x + z
    BY <1>1, <1>2, <1>5, <2>1
  <2>4. c[o] = (x + z) - y /\ b[o] = x - y
    BY <1>1, <2>1, <2>3
  <2>5. CASE o \in F
    BY <2>1, <2>2, <2>4, <2>5
  <2>6. CASE o \notin F
    <3>1. o \in Unused
      BY <1>1, <1>5, <2>6
    <3>2. folio[o].balance = 0
      BY <3>1, UnusedIsZero
    <3>3. x - y = 0
      BY <2>1, <2>3, <3>2 DEF IInv, TotalsAreTrue, Balance, Charged, Paid
    <3> QED BY <2>1, <2>2, <2>4, <2>6, <3>3
  <2> QED BY <2>5, <2>6
<1>6. Total(c, G) = Total(b, F) + d
  <2>1. f \in G \/ d = 0
    BY <1>1
  <2> QED BY <1>2, <1>4, <1>5, <2>1, AccountGrows
<1>7. OwnBalance(g) = Total(b, F)
  <2>1. {o \in Folios : folio[o].of = g /\ folio[o].status # "TRANSFERRED"} = F
    BY <1>1 DEF OwnFolios
  <2>2. OwnBalance(g) = SumFunction([o \in F |-> Balance(o)])
    BY <2>1 DEF OwnBalance
  <2>3. [o \in F |-> Balance(o)] = [o \in F |-> b[o]]
    BY <1>1, <1>2 DEF Balance, Charged, Paid
  <2> QED BY <2>2, <2>3 DEF Total
<1>8. (OwnBalance(g))' = Total(c, G)
  <2>1. {o \in Folios : folio'[o].of = g /\ folio'[o].status # "TRANSFERRED"} = G
    BY <1>1 DEF OwnFolios
  <2>2. (OwnBalance(g))' = SumFunction([o \in G |-> (Balance(o))'])
    BY <2>1 DEF OwnBalance
  <2>3. [o \in G |-> (Balance(o))'] = [o \in G |-> c[o]]
    BY <1>1, <1>2 DEF Balance, Charged, Paid
  <2> QED BY <2>2, <2>3 DEF Total
<1> QED BY <1>6, <1>7, <1>8

\* The balance of the own folios of a stay is an integer.
LEMMA OwnBalanceType ==
    ASSUME IInv, NEW g \in Stays
    PROVE  OwnBalance(g) \in Int
<1> DEFINE F == {o \in Folios : folio[o].of = g /\ folio[o].status # "TRANSFERRED"}
           b == [f \in F |-> Balance(f)]
<1>1. IsFiniteSet(F)
  BY FolioAssumption, FS_Subset
<1>2. \A f \in F : b[f] \in Int
  BY TypedTotals DEF IInv, FolioTypeOK, Balance, Charged, Paid
<1>3. b = [f \in F |-> b[f]]
  OBVIOUS
<1>4. OwnBalance(g) = SumFunction(b)
  BY DEF OwnBalance
<1> HIDE DEF F, b
<1>5. SumFunction(b) = Total(b, F)
  BY <1>3 DEF Total
<1> QED BY <1>1, <1>2, <1>4, <1>5, TotalType

\* The event of a check-out is none of the things that None is not.
LEMMA OutEventIs ==
    ASSUME IInv, NEW g \in Stays
    PROVE  OutEvent(g) \in Events /\ OutEvent(g) # None /\ OutEvent(g).stay = g
<1>1. house[g].late \in BOOLEAN
  BY HouseIsRow DEF IInv
<1>2. OutEvent(g) \in Events /\ OutEvent(g).stay = g
  BY <1>1 DEF OutEvent, Events
<1> QED BY <1>2, FolioAssumption

\* A posting of a quiet stay turns what is owing into balance.
LEMMA CommitCounts ==
    ASSUME IInv, Typed', Priced, NEW g \in Stays, QuietGood(g), Locked(g),
           NEW f \in Folios \union {None}, NEW fs \in [Folios -> FolioRows],
           \A o \in Folios : \/ fs[o] = folio[o]
                             \/ o \in Unused /\ fs[o].of = g /\ fs[o].status = "OPEN",
           job[g].specs # {} => /\ f \in Folios /\ fs[f].status = "OPEN"
                                /\ IF Elsewhere(g) THEN f = route[g] ELSE fs[f].of = g,
           Commit(g, f, fs)
    PROVE  (QuietGood(g))'
<1>1. PICK late, kind, specs, event, P, L, d, c :
        /\ late = house[g].late /\ kind = job[g].kind /\ specs = job[g].specs /\ event = job[g].event
        /\ P = PlanNight(g) /\ d = NightDue(g)
        /\ L = (IF kind = "settle" THEN PlanLate(g, 1, late) ELSE {})
        /\ c = (IF kind = "settle" THEN FeeDue(g, late) ELSE 0)
  OBVIOUS
<1>2. /\ OutEvent(g) \in inbox
      /\ \/ kind = "night" /\ specs = P /\ event = None
         \/ kind = "settle" /\ specs = P \union PlanLate(g, 1, late) /\ event = OutEvent(g)
  BY <1>1 DEF QuietGood, OwnPosting
<1>3. /\ specs = P \union L
      /\ d \in Int /\ ((P = {} /\ d = 0) \/ P = {[key |-> <<g, "night", Posts(g)>>, amount |-> d]})
      /\ c \in Int /\ ((L = {} /\ c = 0) \/ L = {[key |-> <<g, "late", 1>>, amount |-> c]})
      /\ FeeDue(g, late) \in Int
  <2>1. d \in Int /\ ((P = {} /\ d = 0) \/ P = {[key |-> <<g, "night", Posts(g)>>, amount |-> d]})
    BY <1>1, NightPlanIs
  <2>2. /\ FeeDue(g, late) \in Int
        /\ \/ PlanLate(g, 1, late) = {} /\ FeeDue(g, late) = 0
           \/ PlanLate(g, 1, late) = {[key |-> <<g, "late", 1>>, amount |-> FeeDue(g, late)]}
    BY LatePlanIs
  <2> QED BY <1>1, <1>2, <2>1, <2>2
<1>4. PICK n, l : n = <<g, "night", Posts(g)>> /\ l = <<g, "late", 1>>
  OBVIOUS
<1>5. /\ n # l
      /\ P # {} => n \in Items /\ Free(n)
      /\ l \in Items /\ l \in LateOf(g)
      /\ L # {} => Free(l)
      /\ \A k \in LateOf(g) : item[k].void # "done"
  <2>1. \A k \in LateOf(g) : item[k].void # "done"
    BY <1>2 DEF QuietGood, Counted
  <2>2. 1 \in 1..MaxDepartures
    BY ConstantTypes DEF QuietGood, Left, IInv, Bounds
  <2>3. l \in LateOf(g) /\ l \in Items
    BY <1>4, <2>2, ItemKeys DEF LateOf
  <2>4. P # {} => n \in Items /\ Free(n)
    BY <1>1, <1>4, PlannedAreFree
  <2>5. L # {} => LiveFees(g) = {}
    BY <1>1 DEF PlanLate
  <2>6. L # {} => Free(l)
    BY <2>1, <2>3, <2>5 DEF LiveFees
  <2> QED BY <1>4, <2>1, <2>3, <2>4, <2>6
<1>6. PICK own, settled, closed, S, next :
        /\ own = {o \in Folios : fs[o].of = g /\ fs[o].status = "OPEN"}
        /\ settled = {o \in own : SumAt(item', o) = SumAt(PostedRows(pay), o) /\ ~Awaited(o)}
        /\ closed = IF kind = "settle" THEN settled ELSE {}
        /\ S = (IF specs = {} THEN {} ELSE {f}) \union (IF kind = "settle" THEN own ELSE {})
        /\ next = [o \in Folios |-> IF o \in closed THEN [fs[o] EXCEPT !.status = "CLOSED"] ELSE fs[o]]
  OBVIOUS
<1>7. /\ item' = Posted(item, specs, f) /\ pay' = pay
      /\ Refresh(next, S)
      /\ route' = Without(route, closed)
      /\ inbox' \in {inbox, inbox \ {event}} /\ job' = [job EXCEPT ![g] = None]
      /\ house' = house
  <2>1. item' = Posted(item, job[g].specs, f)
    BY DEF Commit
  <2> QED BY <1>1, <1>6, <2>1 DEF Commit, Handled
<1>8. PICK items : items = item'
  OBVIOUS
<1>9. \A o \in Folios : SumAt(items, o) = SumAt(item, o) + (IF o = f THEN d + c ELSE 0)
  <2>1. items = Posted(item, specs, f) /\ specs = P \union L
    BY <1>3, <1>7, <1>8
  <2>2. specs # {} => f \in Folios
    BY <1>1
  <2>3. Single(P, n, d) /\ Single(L, l, c)
    BY <1>3, <1>4, <1>5 DEF Single
  <2>4. d \in Int /\ c \in Int /\ n # l /\ f \in Folios \union {None}
    BY <1>3, <1>5
  <2>5. \A o \in Folios : SumAt(Posted(item, specs, f), o) = SumAt(item, o) + (IF o = f THEN d + c ELSE 0)
    BY <2>1, <2>2, <2>3, <2>4, PostingAdds
  <2> QED BY <2>1, <2>5
<1>10. \A k \in Items : RowPosted(item[k], items[k], k, specs, f)
  <2>1. (\A s \in specs : f \in Folios) /\ items = Posted(item, specs, f)
    BY <1>1, <1>7, <1>8
  <2>2. specs \in SUBSET Specs
    BY <1>1 DEF Specs, Jobs, Locked, IInv, FolioTypeOK
  <2> QED BY <2>1, <2>2, PostedIs
<1>11. \A o \in Folios : /\ folio'[o].of = fs[o].of
                         /\ folio'[o].status = IF o \in closed THEN "CLOSED" ELSE fs[o].status
  <2>1. \A r \in FolioRows : /\ [r EXCEPT !.status = "CLOSED"] \in FolioRows
                             /\ [r EXCEPT !.status = "CLOSED"].of = r.of
                             /\ [r EXCEPT !.status = "CLOSED"].status = "CLOSED"
    BY DEF FolioRows
  <2>2. /\ next \in [Folios -> FolioRows]
        /\ \A o \in Folios : /\ next[o].of = fs[o].of
                             /\ next[o].status = IF o \in closed THEN "CLOSED" ELSE fs[o].status
    BY <1>6, <2>1
  <2>3. \A o \in Folios : folio'[o].of = next[o].of /\ folio'[o].status = next[o].status
    BY <1>7, <2>2, RefreshIs
  <2> QED BY <2>2, <2>3
<1>12. PICK F, G : F = OwnFolios(folio, g) /\ G = OwnFolios(folio', g)
  OBVIOUS
<1>13. \A o \in Folios : o \in G <=> fs[o].of = g /\ fs[o].status # "TRANSFERRED"
  <2>1. \A o \in closed : fs[o].status = "OPEN"
    BY <1>6
  <2> QED BY <1>11, <1>12, <2>1 DEF OwnFolios
<1>14. F \subseteq G /\ \A o \in G : o \in F \/ o \in Unused
  BY <1>12, <1>13 DEF OwnFolios
<1>15. PICK D : D = IF Elsewhere(g) THEN 0 ELSE d + c
  OBVIOUS
<1>16. specs = {} => d = 0 /\ c = 0
  BY <1>3
<1>17. Elsewhere(g) /\ specs # {} => f \notin G
  <2> SUFFICES ASSUME Elsewhere(g), specs # {} PROVE f \notin G
    OBVIOUS
  <2>1. f = route[g] /\ f \in Folios /\ folio[f].status = "OPEN" /\ folio[f].of # g
    BY <1>1 DEF Elsewhere, IsOpen
  <2>2. fs[f] = folio[f]
    BY <2>1 DEF Unused
  <2> QED BY <1>13, <2>1, <2>2
<1>18. ~Elsewhere(g) /\ specs # {} => f \in G
  BY <1>1, <1>13
<1>19. (OwnBalance(g))' = OwnBalance(g) + D
  <2>1. D \in Int
    BY <1>3, <1>15
  <2>2. ASSUME NEW o \in G PROVE SumAt(items, o) = SumAt(item, o) + (IF o = f THEN D ELSE 0)
    <3>1. o \in Folios
      BY <1>12, <2>2 DEF OwnFolios
    <3>2. SumAt(items, o) = SumAt(item, o) + (IF o = f THEN d + c ELSE 0)
      BY <1>9, <3>1
    <3>3. o = f => D = d + c
      BY <1>15, <1>16, <1>17, <2>2
    <3> QED BY <3>2, <3>3
  <2>3. \A o \in OwnFolios(folio', g) : SumAt(item', o) = SumAt(item, o) + (IF o = f THEN D ELSE 0)
    BY <1>8, <1>12, <2>2
  <2>4. f \in OwnFolios(folio', g) \/ D = 0
    BY <1>12, <1>15, <1>16, <1>18
  <2>5. /\ OwnFolios(folio, g) \subseteq OwnFolios(folio', g)
        /\ \A o \in OwnFolios(folio', g) : o \in OwnFolios(folio, g) \/ o \in Unused
    BY <1>12, <1>14
  <2> QED BY <1>7, <2>1, <2>3, <2>4, <2>5, BalanceGrows
<1>20. (PlanNight(g))' = {}
  <2>1. PlanNight(g) \subseteq specs /\ \A s \in specs \ PlanNight(g) : s.key \notin NightOf(g)
    BY <1>1, <1>3, <1>4, <1>5, ItemKeys
  <2>2. \A k \in Items : RowPosted(item[k], item'[k], k, specs, f)
    BY <1>8, <1>10
  <2>3. specs # {} => f \in Folios
    BY <1>1
  <2> QED BY <1>7, <2>1, <2>2, <2>3, NightIsDone
<1>21. OutEvent(g) # None /\ (OutEvent(g))' = OutEvent(g)
  BY <1>7, OutEventIs DEF OutEvent
<1>22. (Left(g))' /\ ~(Locked(g))'
  <2>1. job'[g] = None
    BY <1>7 DEF IInv, FolioTypeOK
  <2>2. Left(g)
    BY DEF QuietGood
  <2> QED BY <1>7, <1>21, <2>1, <2>2 DEF Left, Locked
<1>23. OwnBalance(g) \in Int /\ OwnBalance(g) + Owing(g, late) = house[g].due
  BY <1>1, <1>2, OwnBalanceType DEF QuietGood, Counted
<1>24. CASE kind = "settle"
  <2>1. Owing(g, late) = D
    BY <1>1, <1>15, <1>24 DEF Owing
  <2>2. (OwnBalance(g))' = house'[g].due
    BY <1>7, <1>19, <1>23, <2>1
  \* If the event comes again there is nothing left to post.
  <2>3. \A k \in LateOf(g) : k \in Items /\ RowPosted(item[k], item'[k], k, specs, f)
    BY <1>8, <1>10, ItemKeys
  <2>4. \A k \in LateOf(g) : item'[k].void # "done"
    <3> SUFFICES ASSUME NEW k \in LateOf(g) PROVE item'[k].void # "done"
      OBVIOUS
    <3>1. RowPosted(item[k], item'[k], k, specs, f) /\ item[k].void # "done"
      BY <1>5, <2>3
    <3>2. \A a : ItemAt(f, a).void = "no"
      BY DEF ItemAt
    <3> QED BY <3>1, <3>2 DEF RowPosted
  <2>5. late => (LiveFees(g))' # {}
    <3>1. CASE L = {}
      <4> SUFFICES ASSUME late PROVE (LiveFees(g))' # {}
        OBVIOUS
      <4>1. LiveFees(g) # {}
        BY <1>1, <1>24, <3>1 DEF PlanLate
      <4>2. PICK k \in LateOf(g) : item[k].at # None
        BY <4>1 DEF LiveFees, Free
      <4>3. item'[k] = item[k]
        BY <2>3, <4>2 DEF RowPosted
      <4> QED BY <2>4, <4>2, <4>3 DEF LiveFees, Free
    <3>2. CASE L # {}
      <4>1. PICK s \in specs : s.key = l
        BY <1>3, <1>4, <3>2
      <4>2. item[l].at = None /\ RowPosted(item[l], item'[l], l, specs, f)
        BY <1>5, <2>3, <3>2 DEF Free
      <4>3. f \in Folios /\ f # None
        BY <1>1, <4>1, FolioAssumption
      <4>4. item'[l].at = f
        <5>1. \A a : ItemAt(f, a).at = f
          BY DEF ItemAt
        <5>2. \E x \in specs : item'[l] = ItemAt(f, x.amount)
          BY <4>1, <4>2 DEF RowPosted
        <5> QED BY <5>1, <5>2
      <4> QED BY <1>5, <2>4, <4>3, <4>4 DEF LiveFees, Free
    <3> QED BY <3>1, <3>2
  <2>6. (Owing(g, late))' = 0
    BY <1>20, <2>5 DEF Owing, NightDue, FeeDue
  <2>7. (Owing(g, house[g].late))' = 0
    BY <1>1, <1>7, <2>6
  <2>8. (OwnBalance(g))' + (Owing(g, house[g].late))' = house'[g].due
    BY <1>3, <1>15, <1>19, <1>23, <2>2, <2>7
  <2>9. (Counted(g))'
    BY <1>20, <1>21, <2>2, <2>4, <2>8 DEF Counted
  <2> QED BY <1>22, <2>9 DEF QuietGood
<1>25. CASE kind = "night"
  <2>1. OutEvent(g) \in inbox' /\ c = 0 /\ specs = P /\ closed = {}
    BY <1>1, <1>2, <1>6, <1>7, <1>21, <1>25
  <2>2. \A k \in LateOf(g) : item'[k].void # "done" /\ item'[k] = item[k]
    <3> SUFFICES ASSUME NEW k \in LateOf(g) PROVE item'[k] = item[k]
      BY <1>5
    <3>1. k \in Items
      BY ItemKeys
    <3>2. \A s \in specs : s.key # k
      <4>1. \A s \in specs : s.key = n
        BY <1>3, <1>4, <2>1
      <4>2. n # k
        BY <1>4 DEF LateOf
      <4> QED BY <4>1, <4>2
    <3> QED BY <1>8, <1>10, <3>1, <3>2 DEF RowPosted
  <2>3. (FeeDue(g, late))' = FeeDue(g, late)
    <3>1. (LiveFees(g))' = LiveFees(g)
      BY <2>2 DEF LiveFees, Free
    <3> QED BY <3>1 DEF FeeDue
  <2>4. (NightDue(g))' = 0
    BY <1>20 DEF NightDue
  <2>5. (Elsewhere(g))' <=> Elsewhere(g)
    <3>1. route'[g] = route[g] /\ route[g] \in Folios \union {None}
      BY <1>7, <2>1 DEF Without, IInv, FolioTypeOK
    <3>2. CASE route[g] = None
      BY <3>1, <3>2 DEF Elsewhere
    <3>3. CASE route[g] # None
      <4>1. PICK r \in Folios : r = route[g]
        BY <3>1, <3>3
      <4>2. folio'[r].of = fs[r].of /\ folio'[r].status = fs[r].status
        BY <1>11, <2>1
      <4>3. CASE fs[r] = folio[r]
        BY <3>1, <4>1, <4>2, <4>3 DEF Elsewhere, IsOpen
      <4>4. CASE r \in Unused /\ fs[r].of = g
        <5>1. folio[r].status # "OPEN"
          BY <4>4 DEF Unused
        <5> QED BY <3>1, <4>1, <4>2, <4>4, <5>1 DEF Elsewhere, IsOpen
      <4> QED BY <4>3, <4>4
    <3> QED BY <3>2, <3>3
  <2>6. (Owing(g, late))' = IF Elsewhere(g) THEN 0 ELSE FeeDue(g, late)
    BY <1>3, <2>3, <2>4, <2>5 DEF Owing
  <2>7. (OwnBalance(g))' + (Owing(g, late))' = house[g].due
    <3>1. CASE Elsewhere(g)
      <4>1. D = 0 /\ (Owing(g, late))' = 0 /\ Owing(g, late) = 0
        BY <1>15, <2>6, <3>1 DEF Owing
      <4> QED BY <1>19, <1>23, <4>1
    <3>2. CASE ~Elsewhere(g)
      <4>1. D = d /\ (Owing(g, late))' = FeeDue(g, late) /\ Owing(g, late) = d + FeeDue(g, late)
        BY <1>1, <1>3, <1>15, <2>1, <2>6, <3>2 DEF Owing
      <4> QED BY <1>3, <1>19, <1>23, <4>1
    <3> QED BY <3>1, <3>2
  <2>8. (Owing(g, house[g].late))' = (Owing(g, late))' /\ house'[g].due = house[g].due
    BY <1>1, <1>7
  <2>9. (Counted(g))'
    BY <1>21, <2>1, <2>2, <2>7, <2>8 DEF Counted
  <2> QED BY <1>22, <2>9 DEF QuietGood
<1> QED BY <1>2, <1>24, <1>25

\* Where a posting of the room charges goes.
LEMMA TargetIs ==
    ASSUME IInv, NEW g \in Stays, NEW t, t = Resolve(route[g], g)
    PROVE  /\ t \in Folios \union {None}
           /\ t = None => OpenOf(g) = {} /\ ~Elsewhere(g)
           /\ t # None => folio[t].status = "OPEN" /\ IF Elsewhere(g) THEN t = route[g] ELSE folio[t].of = g
<1>1. FolioTypeOK /\ route[g] \in Folios \union {None}
  BY DEF IInv, FolioTypeOK
<1>2. /\ t \in Folios \union {None} /\ (t = None => OpenOf(g) = {})
      /\ t # None => IsOpen(t)
  BY <1>1, ResolveIsOpen
<1>3. CASE route[g] # None /\ IsOpen(route[g])
  BY <1>2, <1>3 DEF Resolve, Elsewhere, IsOpen
<1>4. CASE ~(route[g] # None /\ IsOpen(route[g]))
  <2>1. ~Elsewhere(g)
    BY <1>4 DEF Elsewhere
  <2>2. CASE OpenOf(g) # {}
    <3>1. OpenOf(g) \in SUBSET Folios
      BY DEF OpenOf
    <3>2. FirstOf(OpenOf(g)) \in OpenOf(g)
      BY <1>1, <2>2, <3>1, FirstIsOne
    <3>3. t = FirstOf(OpenOf(g))
      BY <1>4, <2>2 DEF Resolve
    <3>4. t \in Folios /\ t # None /\ folio[t].of = g /\ IsOpen(t)
      BY <3>2, <3>3, FolioAssumption DEF OpenOf
    <3> QED BY <1>2, <2>1, <3>4 DEF IsOpen
  <2>3. CASE OpenOf(g) = {}
    <3>1. t = None
      BY <1>4, <2>3 DEF Resolve
    <3> QED BY <1>2, <2>1, <3>1
  <2> QED BY <2>2, <2>3
<1> QED BY <1>3, <1>4

\* A committed posting moves what was owing to the balance of the own folios.
LEMMA PostingCounts ==
    ASSUME IInv, Typed', Priced, NEW g \in Stays, QuietGood(g), CommitPosting(g)
    PROVE  (QuietGood(g))'
<1>1. PICK t, same : t = job[g].target /\ same = folio
  OBVIOUS
<1>2. Locked(g)
  BY DEF CommitPosting, Posting
<1>3. t = Resolve(route[g], g) /\ (job[g].opens <=> job[g].specs # {} /\ OpenOf(g) = {})
  BY <1>1, <1>2 DEF QuietGood, OwnPosting
<1>4. /\ t \in Folios \union {None}
      /\ t = None => OpenOf(g) = {} /\ ~Elsewhere(g)
      /\ t # None => folio[t].status = "OPEN" /\ IF Elsewhere(g) THEN t = route[g] ELSE folio[t].of = g
  BY <1>3, TargetIs
<1>5. same \in [Folios -> FolioRows] /\ \A o \in Folios : same[o] = folio[o]
  BY <1>1 DEF IInv, FolioTypeOK
<1>6. CASE job[g].specs = {} /\ Commit(g, t, same)
  BY <1>2, <1>4, <1>5, <1>6, CommitCounts
<1>7. CASE job[g].specs # {} /\ ~job[g].opens /\ Commit(g, t, same)
  <2>1. t # None
    BY <1>3, <1>4, <1>7
  <2>2. /\ t \in Folios /\ same[t].status = "OPEN"
        /\ IF Elsewhere(g) THEN t = route[g] ELSE same[t].of = g
    BY <1>1, <1>4, <2>1
  <2> QED BY <1>2, <1>4, <1>5, <1>7, <2>2, CommitCounts
<1>8. ASSUME NEW n \in Unused, Commit(g, IF t = None THEN n ELSE t, [folio EXCEPT ![n] = NewFolio(g)])
      PROVE  (QuietGood(g))'
  <2>1. PICK new, fs, at : new = NewFolio(g) /\ fs = [folio EXCEPT ![n] = new] /\ at = (IF t = None THEN n ELSE t)
    OBVIOUS
  <2>2. new \in FolioRows /\ new.of = g /\ new.status = "OPEN"
    BY <2>1, NewFolioIs
  <2>3. n \in Folios /\ folio[n].status = "NEW"
    BY UnusedIsZero
  <2>4. fs \in [Folios -> FolioRows] /\ \A o \in Folios : fs[o] = IF o = n THEN new ELSE folio[o]
    BY <2>1, <2>2, <2>3 DEF IInv, FolioTypeOK
  <2>5. \A o \in Folios : fs[o] = folio[o] \/ (o \in Unused /\ fs[o].of = g /\ fs[o].status = "OPEN")
    BY <1>8, <2>2, <2>4
  <2>6. at \in Folios /\ fs[at].status = "OPEN" /\ IF Elsewhere(g) THEN at = route[g] ELSE fs[at].of = g
    <3>1. CASE t = None
      BY <1>4, <2>1, <2>2, <2>3, <2>4, <3>1
    <3>2. CASE t # None
      <4>1. t # n /\ at = t /\ t \in Folios
        BY <1>4, <2>1, <2>3, <3>2
      <4>2. fs[at] = folio[t]
        BY <2>4, <4>1
      <4> QED BY <1>4, <3>2, <4>1, <4>2
    <3> QED BY <3>1, <3>2
  <2>7. Commit(g, at, fs)
    BY <1>8, <2>1
  <2> QED BY <1>2, <2>4, <2>5, <2>6, <2>7, CommitCounts
<1> QED BY <1>1, <1>6, <1>7, <1>8 DEF CommitPosting

\* What a quiet stay goes by is as it was.
LEMMA QuietKept ==
    ASSUME NEW g \in Stays, QuietGood(g),
           folio' = folio, item' = item, pay' = pay, route' = route, house' = house,
           \A e \in inbox' : e \in inbox, OutEvent(g) \in inbox => OutEvent(g) \in inbox',
           (Locked(g))' => (OwnPosting(g, job[g]))'
    PROVE  (QuietGood(g))'
<1>1. (OutEvent(g))' = OutEvent(g)
  BY DEF OutEvent
<1>2. (Left(g))'
  BY <1>1 DEF QuietGood, Left
<1>3. /\ (OwnBalance(g))' = OwnBalance(g) /\ (PlanNight(g))' = PlanNight(g)
      /\ (Owing(g, house[g].late))' = Owing(g, house[g].late)
      /\ \A k \in LateOf(g) : (Free(k))' <=> Free(k)
  BY DEF OwnBalance, Balance, Charged, Paid, PlanNight, NightSum, NightVoided, PostedNights,
         Owing, Elsewhere, NightDue, FeeDue, LiveFees, Free, IsOpen
<1>4. (Counted(g))'
  <2>1. OutEvent(g) \in inbox' <=> OutEvent(g) \in inbox
    OBVIOUS
  <2> QED BY <1>1, <1>3, <2>1 DEF QuietGood, Counted
<1> QED BY <1>2, <1>4 DEF QuietGood

\* A posting under way goes on being right while the accounts stay as they are.
LEMMA SamePosting ==
    ASSUME NEW g \in Stays, QuietGood(g), NEW j, OwnPosting(g, j),
           folio' = folio, item' = item, route' = route, house' = house, inbox' = inbox
    PROVE  (OwnPosting(g, j))'
<1>1. (OutEvent(g))' = OutEvent(g)
  BY DEF OutEvent
<1>2. /\ (Resolve(route[g], g))' = Resolve(route[g], g) /\ (OpenOf(g))' = OpenOf(g)
      /\ (PlanNight(g))' = PlanNight(g) /\ (PlanLate(g, 1, house[g].late))' = PlanLate(g, 1, house[g].late)
  BY DEF Resolve, OpenOf, FirstOf, IsOpen, PlanNight, NightSum, NightVoided, PostedNights, PlanLate, LiveFees, Free
<1> QED BY <1>1, <1>2 DEF OwnPosting

\* A row of a night or a fee stays free, but for a posting.
FreeStays == \A k \in Items \ ChargeItems : Free(k) => item'[k].at = None

\* A stay that was never checked out.
LEMMA FreshKept ==
    ASSUME NEW g \in Stays, Fresh(g), FreeStays,
           house'[g].departures = 0 => house[g].departures = 0 /\ house'[g].in,
           house'[g].departures = 0 => \A e \in inbox' : e \in inbox \/ e.stay # g,
           job'[g] = None \/ job'[g] = job[g] \/ \A s \in job'[g].specs : s.key \notin LateOf(g)
    PROVE  (Fresh(g))'
<1> SUFFICES ASSUME house'[g].departures = 0
             PROVE  /\ house'[g].in /\ \A e \in inbox' : e.stay # g
                    /\ \A k \in LateOf(g) : item'[k].at = None
                    /\ job'[g] # None => \A s \in job'[g].specs : s.key \notin LateOf(g)
  BY DEF Fresh, Free, Locked
<1>1. LateOf(g) \subseteq Items \ ChargeItems
  BY ItemKeys
<1> QED BY <1>1 DEF Fresh, FreeStays, Locked

\* Nothing but postings, and the charges of the staff, makes a row of a free one.
LEMMA FreeRows ==
    ASSUME IInv, FolioNext, \A g \in Stays : ~CommitPosting(g)
    PROVE  FreeStays
<1> USE DEF FreeStays, Free
<1>1. item \in [Items -> ItemRows] /\ None \notin Folios
  BY FolioAssumption DEF IInv, FolioTypeOK
<1>2. ASSUME item' = item PROVE FreeStays
  BY <1>2
<1>3. CASE \E f \in Folios, c \in Charges, a \in Amounts : PostCharge(f, c, a)
  BY <1>1, <1>3 DEF PostCharge, ChargeItems
<1>4. CASE \E k \in Items : RequestVoid(k)
  BY <1>1, <1>4 DEF RequestVoid, ItemRows
<1>5. \A S : \A k \in Items : (Reversed(item, S))[k].at = item[k].at
  BY <1>1 DEF Reversed, ItemRows
<1>6. CASE \E d \in deciding : Decide(d)
  <2>1. PICK d \in deciding : Decide(d)
    BY <1>6
  <2>2. CASE \E S : item' = Reversed(item, S)
    BY <1>5, <2>2
  <2>3. CASE item' = [item EXCEPT ![d.key].void = IF @ = "asked" THEN "no" ELSE @]
    BY <1>1, <2>3 DEF ItemRows
  <2> QED BY <2>1, <2>2, <2>3 DEF Decide
<1>7. CASE \E k \in Items, t \in Folios : Transfer(k, t)
  BY <1>1, <1>7 DEF Transfer, ItemRows
<1>8. CASE \E f, n \in Folios, routed \in BOOLEAN : \E S \in SUBSET At(item, f) : Split(f, n, S, routed)
  <2>1. PICK f \in Folios, n \in Folios, routed \in BOOLEAN : \E S \in SUBSET At(item, f) : Split(f, n, S, routed)
    BY <1>8
  <2>2. PICK S \in SUBSET At(item, f) : Split(f, n, S, routed)
    BY <2>1
  <2>3. \A k \in S : item[k].at # None
    BY <1>1 DEF At
  <2> QED BY <1>1, <2>2, <2>3 DEF Split
<1>9. CASE \E s, t \in Folios : Merge(s, t)
  <2>1. PICK s \in Folios, t \in Folios : Merge(s, t)
    BY <1>9
  <2>2. item' = Moved(item, s, t)
    BY <2>1 DEF Merge
  <2>3. \A k \in Items : item'[k].at = IF item[k].at = s THEN t ELSE item[k].at
    BY <1>1, <2>2 DEF Moved, ItemRows
  <2> QED BY <1>1, <2>3
<1>10. CASE \E g \in Stays, e \in inbox : UndoSettle(g, e)
  <2>1. \E S : item' = Reversed(item, S)
    BY <1>10 DEF UndoSettle
  <2> QED BY <1>5, <2>1
<1>11. CASE \E k \in Items : ReadDecision(k, TRUE) \/ ReadDecision(k, FALSE)
  BY <1>2, <1>11 DEF ReadDecision, accounts
<1>12. CASE \E g \in Stays, f \in Folios : BeginRoute(g, f) \/ OpenFolio(g, f)
  BY <1>2, <1>12 DEF BeginRoute, OpenFolio, accounts
<1>13. CASE \E f \in Folios : CloseFolio(f) \/ CloseFolioIfSettled(f) \/ ReopenFolio(f)
  BY <1>2, <1>13 DEF CloseFolio, CloseFolioIfSettled, ReopenFolio, Close
<1>14. CASE \E g \in Stays, c \in Charges, a \in Amounts : BeginExternal(g, c, a)
  BY <1>2, <1>14 DEF BeginExternal, Begin, accounts
<1>15. CASE \E g \in Stays, e \in inbox : BeginSettle(g, e) \/ SkipSettle(g, e)
  BY <1>2, <1>15 DEF BeginSettle, Begin, SkipSettle, accounts
<1>16. CASE \E g \in Stays, a \in Prices : ChangePrice(g, a)
  BY <1>2, <1>16 DEF ChangePrice, accounts
<1>17. CASE \E g \in Stays, late \in BOOLEAN : CheckOut(g, late)
  BY <1>2, <1>17 DEF CheckOut, Leave, accounts
<1>18. CASE \E g \in Stays : SetRoute(g) \/ RemoveRoute(g) \/ RevertCheckOut(g)
  BY <1>2, <1>18 DEF SetRoute, RemoveRoute, RevertCheckOut, accounts
<1>19. CASE \E g \in Stays : BeginRoomCharges(g) \/ Retarget(g) \/ Abort(g)
  BY <1>2, <1>19 DEF BeginRoomCharges, Begin, Retarget, Abort, accounts
<1> QED BY <1>3, <1>4, <1>6, <1>7, <1>8, <1>9, <1>10, <1>11, <1>12, <1>13, <1>14, <1>15, <1>16, <1>17, <1>18, <1>19
        DEF FolioNext

\* The steps of the staff on the accounts, and the decisions: none is quiet.
Loud == quiet' = {} /\ house' = house /\ inbox' = inbox /\ job' = job

\* A loud step leaves no stay quiet.
LEMMA LoudCounts ==
    ASSUME CountInv, FreeStays, Loud
    PROVE  CountInv'
<1>1. ASSUME NEW g \in Stays PROVE (Fresh(g))'
  <2>1. Fresh(g) /\ house'[g] = house[g] /\ job'[g] = job[g] /\ \A e \in inbox' : e \in inbox
    BY DEF CountInv, Loud
  <2>2. house[g].departures = 0 => house[g].in
    BY <2>1 DEF Fresh
  <2> QED BY <2>1, <2>2, FreshKept
<1> QED BY <1>1 DEF CountInv, Loud

\* Most of what the staff do is loud: the account of a check-out ends there.
LEMMA LoudSteps ==
    ASSUME \/ \E f \in Folios, c \in Charges, a \in Amounts : PostCharge(f, c, a)
           \/ \E k \in Items : RequestVoid(k) \/ ReadDecision(k, TRUE) \/ ReadDecision(k, FALSE)
           \/ \E d \in deciding : Decide(d)
           \/ \E k \in Items, t \in Folios : Transfer(k, t)
           \/ \E f, n \in Folios, routed \in BOOLEAN : \E S \in SUBSET At(item, f) : Split(f, n, S, routed)
           \/ \E s, t \in Folios : Merge(s, t)
           \/ \E g \in Stays, f \in Folios : OpenFolio(g, f)
           \/ \E f \in Folios : CloseFolio(f) \/ CloseFolioIfSettled(f) \/ ReopenFolio(f)
           \/ \E g \in Stays : RemoveRoute(g)
    PROVE  Loud
BY DEF PostCharge, RequestVoid, ReadDecision, Decide, Transfer, Split, Merge, OpenFolio, CloseFolio,
       CloseFolioIfSettled, Close, ReopenFolio, RemoveRoute, Op, Unasked, Loud, Delivered

\* Payments leave items alone, and are not quiet either.
LEMMA PaymentsAreLoud ==
    ASSUME IInv, Next
    PROVE  FolioNext \/ (Loud /\ FreeStays)
<1>1. ASSUME item' = item PROVE FreeStays
  BY <1>1 DEF FreeStays, Free
<1>2. ASSUME NEW p, NEW f, NEW a, NEW fs, Write(p, f, a, fs) PROVE Loud /\ FreeStays
  BY <1>1, <1>2 DEF Write, Op, Loud
<1>3. CASE \E f \in Folios, p \in Pays, a \in Amounts : a > 0 /\ (Receive(f, p, a) \/ RequestRefund(f, p, a))
  BY <1>2, <1>3 DEF Receive, RequestRefund
<1>4. CASE \E g \in Stays, n \in Folios, p \in Pays, a \in Amounts : a > 0 /\ ReceiveForStay(g, n, p, a)
  BY <1>2, <1>4 DEF ReceiveForStay
<1>5. CASE \E p \in Pays : RequestPaymentVoid(p)
  BY <1>1, <1>5 DEF RequestPaymentVoid, Op, Loud
<1>6. CASE \E p \in Pays : \E granted \in BOOLEAN : DecidePending(p, granted) \/ DecidePaymentVoid(p, granted)
  BY <1>1, <1>6 DEF DecidePending, DecidePaymentVoid, Op, Loud
<1> QED BY <1>3, <1>4, <1>5, <1>6 DEF Next

\* Steps that only lock or unlock a stay: a quiet stay has a posting of its own
\* and the event of its check-out is not handled by anything else.
LEMMA JobStepCounts ==
    ASSUME IInv, CountInv, NEW h \in Stays,
           folio' = folio, item' = item, pay' = pay, route' = route, house' = house, inbox' = inbox,
           \A g \in Stays \ {h} : job'[g] = job[g],
           job'[h] # None => \A s \in job'[h].specs : s.key \in LateOf(h) => house[h].departures # 0,
           \A g \in quiet' : g \in quiet,
           h \in quiet' /\ job'[h] # None => OwnPosting(h, job'[h])
    PROVE  CountInv'
<1>1. FreeStays
  BY DEF FreeStays, Free
<1>2. ASSUME NEW g \in Stays PROVE (Fresh(g))'
  <2>1. Fresh(g) /\ house'[g] = house[g] /\ \A e \in inbox' : e \in inbox
    BY DEF CountInv
  <2>2. CASE house[g].departures = 0
    <3>1. job'[g] = None \/ job'[g] = job[g] \/ \A s \in job'[g].specs : s.key \notin LateOf(g)
      BY <2>2
    <3>2. house[g].in
      BY <2>1, <2>2 DEF Fresh
    <3> QED BY <1>1, <2>1, <3>1, <3>2, FreshKept
  <2>3. CASE house[g].departures # 0
    BY <2>1, <2>3 DEF Fresh
  <2> QED BY <2>2, <2>3
<1>3. ASSUME NEW g \in quiet' PROVE (QuietGood(g))'
  <2>1. g \in Stays /\ QuietGood(g)
    BY <1>3 DEF CountInv, IInv, FolioTypeOK
  <2>2. job'[g] # None => OwnPosting(g, job'[g])
    <3>1. CASE g = h
      BY <1>3, <3>1
    <3>2. CASE g # h
      BY <2>1, <3>2 DEF QuietGood, Locked
    <3> QED BY <3>1, <3>2
  <2>3. PICK j : j = job'[g]
    OBVIOUS
  <2>4. j # None => (OwnPosting(g, j))'
    BY <2>1, <2>2, <2>3, SamePosting
  <2>5. (Locked(g))' => (OwnPosting(g, job[g]))'
    BY <2>3, <2>4 DEF Locked, OwnPosting
  <2> QED BY <2>1, <2>5, QuietKept
<1> QED BY <1>2, <1>3 DEF CountInv

\* What begins for a stay.
LEMMA BeginsIs ==
    ASSUME IInv, NEW g \in Stays, NEW kind, NEW specs, NEW target, NEW event, Begin(g, kind, specs, target, event),
           NEW opens \in BOOLEAN, opens <=> specs # {} /\ OpenOf(g) = {},
           NEW j, j = [kind |-> kind, specs |-> specs, target |-> target, opens |-> opens, event |-> event]
    PROVE  /\ folio' = folio /\ item' = item /\ pay' = pay /\ route' = route /\ house' = house /\ inbox' = inbox
           /\ \A h \in Stays \ {g} : job'[h] = job[h]
           /\ job'[g] = j
BY DEF Begin, accounts, IInv, FolioTypeOK

\* The night run plans the missing night.
LEMMA BeginRoomChargesCounts ==
    ASSUME IInv, CountInv, NEW g \in Stays, BeginRoomCharges(g)
    PROVE  CountInv'
<1>1. PICK specs, t, opens, j :
        /\ specs = PlanNight(g) /\ t = Resolve(route[g], g) /\ opens \in BOOLEAN /\ (opens <=> specs # {} /\ OpenOf(g) = {})
        /\ j = [kind |-> "night", specs |-> specs, target |-> t, opens |-> opens, event |-> None]
  OBVIOUS
<1>2. Begin(g, "night", specs, t, None) /\ quiet' = quiet /\ specs # {}
  BY <1>1 DEF BeginRoomCharges, OwnDoing
<1>3. /\ folio' = folio /\ item' = item /\ pay' = pay /\ route' = route /\ house' = house /\ inbox' = inbox
      /\ \A h \in Stays \ {g} : job'[h] = job[h]
      /\ job'[g] = j
  BY <1>1, <1>2, BeginsIs
<1>4. \A s \in j.specs : s.key \notin LateOf(g)
  BY <1>1, PlannedAreFree DEF LateOf
<1>5. g \in quiet => OwnPosting(g, j)
  <2> SUFFICES ASSUME g \in quiet PROVE OwnPosting(g, j)
    OBVIOUS
  <2>1. OutEvent(g) \in inbox
    BY <1>1, <1>2 DEF CountInv, QuietGood, Counted
  <2>2. j.kind = "night" /\ j.specs = specs /\ j.target = t /\ j.opens = opens /\ j.event = None
    BY <1>1
  <2> QED BY <1>1, <2>1, <2>2 DEF OwnPosting
<1> QED BY <1>2, <1>3, <1>4, <1>5, JobStepCounts

\* A charge from outside is no posting of its own: the stay is quiet no more.
LEMMA BeginExternalCounts ==
    ASSUME IInv, CountInv, NEW g \in Stays, NEW c \in Charges, NEW a \in Amounts, BeginExternal(g, c, a)
    PROVE  CountInv'
<1>1. PICK s, t, opens, j :
        /\ s = [key |-> <<c, "charge", 0>>, amount |-> a] /\ t = Resolve(None, g) /\ opens \in BOOLEAN /\ (opens <=> OpenOf(g) = {})
        /\ j = [kind |-> "external", specs |-> {s}, target |-> t, opens |-> opens, event |-> None]
  OBVIOUS
<1>2. Begin(g, "external", {s}, t, None) /\ quiet' = {}
  BY <1>1 DEF BeginExternal, Op
<1>3. /\ folio' = folio /\ item' = item /\ pay' = pay /\ route' = route /\ house' = house /\ inbox' = inbox
      /\ \A h \in Stays \ {g} : job'[h] = job[h]
      /\ job'[g] = j
  BY <1>1, <1>2, BeginsIs
<1>4. \A x \in j.specs : x.key \notin LateOf(g)
  BY <1>1, ItemKeys DEF ChargeItems
<1> QED BY <1>2, <1>3, <1>4, JobStepCounts

\* The settlement of the first check-out plans what is owing.
LEMMA BeginSettleCounts ==
    ASSUME IInv, CountInv, NEW g \in Stays, NEW e \in inbox, BeginSettle(g, e)
    PROVE  CountInv'
<1>1. PICK specs, t, opens, j :
        /\ specs = PlanNight(g) \union PlanLate(g, e.n, e.late) /\ t = Resolve(route[g], g)
        /\ opens \in BOOLEAN /\ (opens <=> specs # {} /\ OpenOf(g) = {})
        /\ j = [kind |-> "settle", specs |-> specs, target |-> t, opens |-> opens, event |-> e]
  OBVIOUS
<1>2. Begin(g, "settle", specs, t, e) /\ quiet' = quiet /\ e.stay = g
  BY <1>1 DEF BeginSettle, OwnDoing
<1>3. /\ folio' = folio /\ item' = item /\ pay' = pay /\ route' = route /\ house' = house /\ inbox' = inbox
      /\ \A h \in Stays \ {g} : job'[h] = job[h]
      /\ job'[g] = j
  BY <1>1, <1>2, BeginsIs
<1>4. house[g].departures # 0
  BY <1>2 DEF CountInv, Fresh
<1>5. g \in quiet => OwnPosting(g, j)
  <2> SUFFICES ASSUME g \in quiet PROVE OwnPosting(g, j)
    OBVIOUS
  <2>1. e = OutEvent(g)
    BY <1>2 DEF CountInv, QuietGood, Left
  <2>2. e.n = 1 /\ e.late = house[g].late
    BY <2>1 DEF OutEvent
  <2>3. j.kind = "settle" /\ j.specs = specs /\ j.target = t /\ j.opens = opens /\ j.event = e
    BY <1>1
  <2> QED BY <1>1, <2>1, <2>2, <2>3 DEF OwnPosting
<1> QED BY <1>2, <1>3, <1>4, <1>5, JobStepCounts

\* The target moves along with the route.
LEMMA RetargetCounts ==
    ASSUME IInv, CountInv, NEW g \in Stays, Retarget(g)
    PROVE  CountInv'
<1>1. PICK t, x : t = Resolve(IF job[g].kind = "external" THEN None ELSE route[g], g) /\ x = (job[g].opens \/ OpenOf(g) = {})
  OBVIOUS
<1>2. /\ folio' = folio /\ item' = item /\ pay' = pay /\ route' = route /\ house' = house /\ inbox' = inbox
      /\ job' = [job EXCEPT ![g] = [job[g] EXCEPT !.target = t, !.opens = x]] /\ quiet' = quiet
  BY <1>1 DEF Retarget, accounts, OwnDoing
<1>3. Locked(g) /\ job[g] \in Jobs
  BY DEF Retarget, Posting, Locked, IInv, FolioTypeOK
<1>4. (\A h \in Stays \ {g} : job'[h] = job[h]) /\ job'[g].specs = job[g].specs
  BY <1>2, <1>3 DEF Jobs, IInv, FolioTypeOK
<1>5. \A s \in job'[g].specs : s.key \in LateOf(g) => house[g].departures # 0
  BY <1>3, <1>4 DEF CountInv, Fresh
\* The folio of a quiet stay's posting stays open.
<1>6. g \notin quiet
  <2> SUFFICES ASSUME g \in quiet PROVE FALSE
    OBVIOUS
  <2>1. job[g].target = Resolve(route[g], g) /\ job[g].target # None /\ ~IsOpen(job[g].target)
    BY <1>3 DEF CountInv, QuietGood, OwnPosting, Retarget
  <2> QED BY <2>1, TargetIs DEF IsOpen
<1> QED BY <1>2, <1>4, <1>5, <1>6, JobStepCounts

\* Routing, and giving up a posting.
LEMMA OtherJobsCount ==
    ASSUME IInv, CountInv, NEW g \in Stays, Abort(g) \/ SetRoute(g) \/ \E f \in Folios : BeginRoute(g, f)
    PROVE  CountInv'
<1>1. CASE Abort(g)
  <2>1. /\ folio' = folio /\ item' = item /\ pay' = pay /\ route' = route /\ house' = house /\ inbox' = inbox
        /\ \A h \in Stays \ {g} : job'[h] = job[h]
        /\ job'[g] = None /\ quiet' = quiet
    BY <1>1 DEF Abort, accounts, OwnDoing, IInv, FolioTypeOK
  <2> QED BY <2>1, JobStepCounts
<1>2. CASE \E f \in Folios : BeginRoute(g, f)
  <2>1. /\ folio' = folio /\ item' = item /\ pay' = pay /\ route' = route /\ house' = house /\ inbox' = inbox
        /\ \A h \in Stays \ {g} : job'[h] = job[h]
        /\ job'[g].specs = {} /\ quiet' = {}
    BY <1>2 DEF BeginRoute, accounts, Op, IInv, FolioTypeOK
  <2> QED BY <2>1, JobStepCounts
<1>3. CASE SetRoute(g)
  <2>1. /\ item' = item /\ house' = house /\ inbox' = inbox /\ quiet' = {}
        /\ \A h \in Stays \ {g} : job'[h] = job[h]
        /\ job'[g] = None
    BY <1>3 DEF SetRoute, Unasked, IInv, FolioTypeOK
  <2>2. FreeStays
    BY <2>1 DEF FreeStays, Free
  <2>3. ASSUME NEW h \in Stays PROVE (Fresh(h))'
    <3>1. Fresh(h) /\ house'[h] = house[h] /\ (job'[h] = None \/ job'[h] = job[h]) /\ \A e \in inbox' : e \in inbox
      BY <2>1 DEF CountInv
    <3>2. house[h].departures = 0 => house[h].in
      BY <3>1 DEF Fresh
    <3> QED BY <2>2, <3>1, <3>2, FreshKept
  <2> QED BY <2>1, <2>3 DEF CountInv
<1> QED BY <1>1, <1>2, <1>3

\* A skipped settlement is never that of a quiet stay, which has left.
LEMMA SkipSettleCounts ==
    ASSUME IInv, CountInv, NEW h \in Stays, NEW e \in inbox, SkipSettle(h, e)
    PROVE  CountInv'
<1>1. /\ folio' = folio /\ item' = item /\ pay' = pay /\ route' = route /\ house' = house /\ job' = job
      /\ inbox' = inbox \ {e} /\ e.stay = h /\ house[h].in /\ quiet' = quiet
  BY DEF SkipSettle, accounts, OwnDoing
<1>2. FreeStays
  BY <1>1 DEF FreeStays, Free
<1>3. ASSUME NEW g \in Stays PROVE (Fresh(g))'
  <2>1. Fresh(g) /\ house'[g] = house[g] /\ job'[g] = job[g] /\ \A d \in inbox' : d \in inbox
    BY <1>1 DEF CountInv
  <2>2. house[g].departures = 0 => house[g].in
    BY <2>1 DEF Fresh
  <2> QED BY <1>2, <2>1, <2>2, FreshKept
<1>4. ASSUME NEW g \in quiet' PROVE (QuietGood(g))'
  <2>1. g \in Stays /\ QuietGood(g)
    BY <1>1, <1>4 DEF CountInv, IInv, FolioTypeOK
  <2>2. g # h
    BY <1>1, <2>1 DEF QuietGood, Left
  <2>3. OutEvent(g) # e
    BY <1>1, <2>1, <2>2, OutEventIs
  <2>4. (Locked(g))' => (OwnPosting(g, job[g]))'
    <3>1. (OutEvent(g))' = OutEvent(g)
      BY <1>1 DEF OutEvent
    <3>2. /\ (Resolve(route[g], g))' = Resolve(route[g], g) /\ (OpenOf(g))' = OpenOf(g)
          /\ (PlanNight(g))' = PlanNight(g) /\ (PlanLate(g, 1, house[g].late))' = PlanLate(g, 1, house[g].late)
      BY <1>1 DEF Resolve, OpenOf, FirstOf, IsOpen, PlanNight, NightSum, NightVoided, PostedNights,
                  PlanLate, LiveFees, Free
    <3>3. Locked(g) => OwnPosting(g, job[g])
      BY <2>1 DEF QuietGood
    <3> QED BY <1>1, <2>3, <3>1, <3>2, <3>3 DEF OwnPosting, Locked
  <2> QED BY <1>1, <2>1, <2>3, <2>4, QuietKept
<1> QED BY <1>3, <1>4 DEF CountInv

\* A revert is not quiet.
LEMMA UndoSettleCounts ==
    ASSUME CountInv, FreeStays, NEW h \in Stays, NEW e \in inbox, UndoSettle(h, e)
    PROVE  CountInv'
<1>1. quiet' = {} /\ house' = house /\ job' = job /\ inbox' \in {inbox, inbox \ {e}}
  BY DEF UndoSettle, Handled
<1>2. ASSUME NEW g \in Stays PROVE (Fresh(g))'
  <2>1. Fresh(g) /\ house'[g] = house[g] /\ job'[g] = job[g] /\ \A d \in inbox' : d \in inbox
    BY <1>1 DEF CountInv
  <2>2. house[g].departures = 0 => house[g].in
    BY <2>1 DEF Fresh
  <2> QED BY <2>1, <2>2, FreshKept
<1> QED BY <1>1, <1>2 DEF CountInv

\* A change of price is not quiet.
LEMMA ChangePriceCounts ==
    ASSUME IInv, CountInv, FreeStays, NEW h \in Stays, NEW a \in Prices, ChangePrice(h, a)
    PROVE  CountInv'
<1>1. /\ quiet' = {} /\ inbox' = inbox /\ job' = job
      /\ house' = [house EXCEPT ![h].price = a, ![h].changes = @ + 1]
  BY DEF ChangePrice, Op
<1>2. ASSUME NEW g \in Stays PROVE (Fresh(g))'
  <2>1. Fresh(g) /\ job'[g] = job[g] /\ \A d \in inbox' : d \in inbox
    BY <1>1 DEF CountInv
  <2>2. house'[g].departures = house[g].departures /\ house'[g].in = house[g].in
    BY <1>1, HouseIsRow DEF IInv, FolioTypeOK
  <2>3. house[g].departures = 0 => house'[g].in
    BY <2>1, <2>2 DEF Fresh
  <2> QED BY <2>1, <2>2, <2>3, FreshKept
<1> QED BY <1>1, <1>2 DEF CountInv

\* A check-out can be reverted only after a first one, and not quietly.
LEMMA RevertCheckOutCounts ==
    ASSUME IInv, CountInv, FreeStays, NEW h \in Stays, RevertCheckOut(h)
    PROVE  CountInv'
<1>1. PICK fees, e, yes, no, due :
        /\ e = [kind |-> "back", stay |-> h, n |-> house[h].departures, late |-> FALSE, fees |-> fees]
        /\ house' = [house EXCEPT ![h].in = yes, ![h].late = no, ![h].due = due]
        /\ quiet' = {} /\ inbox' = inbox \union {e} /\ job' = job /\ ~house[h].in
  BY DEF RevertCheckOut, Op
<1>5. e.stay = h
  BY <1>1
<1>2. ASSUME NEW g \in Stays PROVE (Fresh(g))'
  <2>1. Fresh(g) /\ job'[g] = job[g]
    BY <1>1 DEF CountInv
  <2>2. house'[g].departures = house[g].departures /\ (g # h => house'[g].in = house[g].in)
    BY <1>1, HouseIsRow DEF IInv, FolioTypeOK
  <2>3. house[h].departures # 0
    BY <1>1 DEF CountInv, Fresh
  <2>4. house[g].departures = 0 => g # h /\ house'[g].in
    BY <2>1, <2>2, <2>3 DEF Fresh
  <2>5. house[g].departures = 0 => \A d \in inbox' : d \in inbox \/ d.stay # g
    BY <1>1, <1>5, <2>4
  <2> QED BY <2>1, <2>2, <2>4, <2>5, FreshKept
<1> QED BY <1>1, <1>2 DEF CountInv

\* The first check-out starts the account of what is due.
LEMMA CheckOutCounts ==
    ASSUME IInv, CountInv, FreeStays, NEW h \in Stays, NEW late \in BOOLEAN, CheckOut(h, late)
    PROVE  CountInv'
<1>1. PICK due, n, e :
        /\ due = OwnBalance(h) + Pending(h, late) /\ n = house[h].departures + 1
        /\ e = [kind |-> "out", stay |-> h, n |-> n, late |-> late, fees |-> {}]
        /\ house' = [house EXCEPT ![h].in = FALSE, ![h].late = late, ![h].due = due, ![h].departures = n]
        /\ inbox' = inbox \union {e} /\ quiet' = (IF n = 1 THEN {h} ELSE {})
        /\ folio' = folio /\ item' = item /\ pay' = pay /\ route' = route
        /\ job' = job /\ ~Locked(h)
  BY DEF CheckOut, Leave, accounts
<1>2. house[h].departures \in Nat /\ e.stay = h
  BY <1>1, HouseIsRow DEF IInv
<1>3. /\ house'[h].in = FALSE /\ house'[h].late = late /\ house'[h].due = due /\ house'[h].departures = n
      /\ house'[h].price = house[h].price
      /\ \A g \in Stays : g # h => house'[g] = house[g]
  BY <1>1, HouseIsRow DEF IInv, FolioTypeOK
<1>4. ASSUME NEW g \in Stays PROVE (Fresh(g))'
  <2>1. CASE g = h
    BY <1>1, <1>2, <1>3, <2>1 DEF Fresh
  <2>2. CASE g # h
    <3>1. Fresh(g) /\ job'[g] = job[g] /\ house'[g] = house[g] /\ \A d \in inbox' : d \in inbox \/ d.stay # g
      BY <1>1, <1>2, <1>3, <2>2 DEF CountInv
    <3>2. house[g].departures = 0 => house[g].in
      BY <3>1 DEF Fresh
    <3> QED BY <3>1, <3>2, FreshKept
  <2> QED BY <2>1, <2>2
<1>5. ASSUME NEW g \in quiet' PROVE (QuietGood(g))'
  <2>1. g = h /\ n = 1 /\ house[h].departures = 0
    BY <1>1, <1>2, <1>5
  <2>2. (\A d \in inbox : d.stay # h) /\ \A k \in LateOf(h) : Free(k)
    BY <2>1 DEF CountInv, Fresh
  <2>3. (OutEvent(h))' = e
    BY <1>1, <1>3, <2>1 DEF OutEvent
  <2>4. (Left(h))'
    BY <1>1, <1>3, <2>1, <2>2, <2>3 DEF Left
  <2>5. Pending(h, late) = Owing(h, late)
    BY PendingIs
  <2>6. (Owing(h, late))' = Owing(h, late) /\ (OwnBalance(h))' = OwnBalance(h)
    <3>1. (OwnBalance(h))' = OwnBalance(h)
      BY <1>1 DEF OwnBalance, Balance, Charged, Paid
    <3>2. (NightSum(h))' = NightSum(h) /\ (NightVoided(h))' = NightVoided(h) /\ (PostedNights(h))' = PostedNights(h)
      BY <1>1 DEF NightSum, NightVoided, PostedNights, Free
    <3>3. (PlanNight(h))' = PlanNight(h)
      BY <1>3, <3>2 DEF PlanNight
    <3>4. (NightDue(h))' = NightDue(h)
      BY <1>3, <3>2, <3>3 DEF NightDue
    <3>5. (FeeDue(h, late))' = FeeDue(h, late)
      BY <1>1 DEF FeeDue, LiveFees, Free
    <3>6. (Elsewhere(h))' <=> Elsewhere(h)
      BY <1>1 DEF Elsewhere, IsOpen
    <3> QED BY <3>1, <3>4, <3>5, <3>6 DEF Owing
  <2>7. (Owing(h, house[h].late))' = (Owing(h, late))'
    BY <1>3
  <2>8. (Counted(h))'
    <3>1. \A k \in LateOf(h) : item'[k].void # "done"
      BY <1>1, <2>2, ItemKeys DEF IInv, AskedIsPosted
    <3> QED BY <1>1, <1>3, <2>2, <2>3, <2>5, <2>6, <2>7, <3>1 DEF Counted
  <2>9. ~(Locked(h))'
    BY <1>1 DEF Locked
  <2> QED BY <2>1, <2>4, <2>8, <2>9 DEF QuietGood
<1> QED BY <1>4, <1>5 DEF CountInv

\* A posting counts for a quiet stay of its own, and no other stay is quiet then.
LEMMA CommitPostingCounts ==
    ASSUME IInv, CountInv, NEW h \in Stays, CommitPosting(h)
    PROVE  CountInv'
<1>1. IInv' /\ Priced /\ Typed'
  <2>1. IInv' /\ Priced
    BY CommitPostingKeeps
  <2> QED BY <2>1, TypeGivesTyped DEF IInv, FolioTypeOK, Typed
<1>2. PICK f, fs : Commit(h, f, fs) /\ Locked(h) /\ (job[h].specs # {} => f \in Folios)
  <2>1. /\ Posting(h)
        /\ \E f, fs : Commit(h, f, fs) /\ (job[h].specs # {} => f \in Folios)
    <3>1. CASE job[h].specs = {}
      BY <3>1 DEF CommitPosting
    <3>2. CASE job[h].specs # {} /\ ~job[h].opens
      <4>1. Commit(h, job[h].target, folio) /\ Locked(h)
        BY <3>2 DEF CommitPosting, Posting
      <4>2. job[h].target \in Folios \union {None} /\ job[h].target # None
        BY <3>2, <4>1 DEF Locked, IInv, FolioTypeOK, Jobs, Work, JobGood
      <4> QED BY <4>1, <4>2 DEF CommitPosting
    <3>3. CASE job[h].opens
      <4>1. Locked(h) /\ job[h].target \in Folios \union {None}
        BY DEF CommitPosting, Posting, Locked, IInv, FolioTypeOK, Jobs
      <4> QED BY <3>3, <4>1 DEF CommitPosting, Unused
    <3> QED BY <3>1, <3>2, <3>3 DEF CommitPosting
  <2> QED BY <2>1 DEF Posting
<1>3. /\ item' = Posted(item, job[h].specs, f)
      /\ inbox' \in {inbox, inbox \ {job[h].event}} /\ job' = [job EXCEPT ![h] = None]
      /\ quiet' = quiet \intersect {h} /\ house' = house
  BY <1>2 DEF Commit, Handled
<1>4. PICK specs : specs = job[h].specs
  OBVIOUS
<1>5. specs \in SUBSET Specs /\ PlanGood(h, specs)
  <2>1. job[h] \in Jobs /\ JobGood(h, job[h])
    BY <1>2 DEF Locked, IInv, FolioTypeOK, Work
  <2> QED BY <1>4, <2>1 DEF Jobs, JobGood, Specs
<1>6. \A k \in Items : item'[k] # item[k] => \E s \in specs : s.key = k
  BY <1>3, <1>4 DEF Posted, IInv, FolioTypeOK
<1>7. \A g \in Stays : job'[g] = IF g = h THEN None ELSE job[g]
  BY <1>3 DEF IInv, FolioTypeOK
<1>8. ASSUME NEW g \in Stays PROVE (Fresh(g))'
  <2>1. Fresh(g)
    BY DEF CountInv
  <2>2. ASSUME house[g].departures = 0, NEW k \in LateOf(g) PROVE (Free(k))'
    <3>1. Free(k) /\ k \in Items
      BY <2>1, <2>2, ItemKeys DEF Fresh
    <3>2. item'[k].at = None
      <4>1. CASE g = h
        <5>1. \A s \in specs : s.key # k
          BY <1>2, <1>4, <2>1, <2>2, <4>1 DEF Fresh
        <5> QED BY <1>6, <3>1, <5>1 DEF Free
      <4>2. CASE g # h
        <5>1. Untouched(g)
          BY <1>5, <1>6, <4>2, PostedElsewhere
        <5> QED BY <3>1, <5>1 DEF Untouched, Free
      <4> QED BY <4>1, <4>2
    <3> QED BY <3>2 DEF Free
  <2> QED BY <1>3, <1>7, <2>1, <2>2 DEF Fresh, Locked
<1>9. ASSUME NEW g \in quiet' PROVE (QuietGood(g))'
  <2>1. g = h /\ QuietGood(h)
    BY <1>3, <1>9 DEF CountInv
  <2> QED BY <1>1, <2>1, PostingCounts
<1> QED BY <1>8, <1>9 DEF CountInv

\* Every step keeps the account of what is due.
LEMMA CountStep == ASSUME IInv, CountInv, Next PROVE CountInv'
<1>1. CASE Loud /\ FreeStays
  BY <1>1, LoudCounts
<1>2. CASE FolioNext
  <2>1. CASE \E g \in Stays : CommitPosting(g)
    BY <2>1, CommitPostingCounts
  <2>2. CASE ~\E g \in Stays : CommitPosting(g)
    <3>1. FreeStays
      BY <1>2, <2>2, FreeRows
    <3>2. CASE Loud
      BY <3>1, <3>2, LoudCounts
    <3>3. CASE \E g \in Stays, f \in Folios : BeginRoute(g, f)
      BY <3>3, OtherJobsCount
    <3>4. CASE \E g \in Stays, c \in Charges, a \in Amounts : BeginExternal(g, c, a)
      BY <3>4, BeginExternalCounts
    <3>5. CASE \E g \in Stays, e \in inbox : BeginSettle(g, e) \/ SkipSettle(g, e) \/ UndoSettle(g, e)
      BY <3>1, <3>5, BeginSettleCounts, SkipSettleCounts, UndoSettleCounts
    <3>6. CASE \E g \in Stays, a \in Prices : ChangePrice(g, a)
      BY <3>1, <3>6, ChangePriceCounts
    <3>7. CASE \E g \in Stays, late \in BOOLEAN : CheckOut(g, late)
      BY <3>1, <3>7, CheckOutCounts
    <3>8. CASE \E g \in Stays : SetRoute(g) \/ RevertCheckOut(g)
      BY <3>1, <3>8, OtherJobsCount, RevertCheckOutCounts
    <3>9. CASE \E g \in Stays : BeginRoomCharges(g) \/ Retarget(g) \/ Abort(g)
      BY <3>9, BeginRoomChargesCounts, RetargetCounts, OtherJobsCount
    <3> QED BY <1>2, <2>2, <3>2, <3>3, <3>4, <3>5, <3>6, <3>7, <3>8, <3>9, LoudSteps DEF FolioNext
  <2> QED BY <2>1, <2>2
<1> QED BY <1>1, <1>2, PaymentsAreLoud

\* So does doing nothing.
LEMMA CountStutters == ASSUME IInv, CountInv, UNCHANGED vars PROVE CountInv'
<1>1. /\ folio' = folio /\ item' = item /\ pay' = pay /\ route' = route /\ house' = house
      /\ inbox' = inbox /\ job' = job /\ quiet' = quiet
  BY DEF vars
<1>2. \A g \in Stays : (Fresh(g))'
  BY <1>1 DEF CountInv, Fresh, Free, Locked
<1>3. ASSUME NEW g \in quiet' PROVE (QuietGood(g))'
  <2>1. g \in Stays /\ QuietGood(g)
    BY <1>1, <1>3 DEF CountInv, IInv, FolioTypeOK
  <2>2. PICK j : j = job[g]
    OBVIOUS
  <2>3. j # None => OwnPosting(g, j)
    BY <2>1, <2>2 DEF QuietGood, Locked
  <2>4. j # None => (OwnPosting(g, j))'
    BY <1>1, <2>1, <2>3, SamePosting
  <2>5. (Locked(g))' => (OwnPosting(g, job[g]))'
    BY <1>1, <2>2, <2>4 DEF Locked, OwnPosting
  <2> QED BY <1>1, <2>1, <2>5, QuietKept
<1> QED BY <1>2, <1>3 DEF CountInv

\* No stay has left in the beginning.
LEMMA CountInit == Init => CountInv
<1> SUFFICES ASSUME Init PROVE CountInv
  OBVIOUS
<1>1. quiet = {} /\ inbox = {}
  BY DEF Init
<1>2. ASSUME NEW g \in Stays PROVE Fresh(g)
  <2>1. house[g].in /\ job[g] = None
    BY DEF Init
  <2>2. \A k \in LateOf(g) : Free(k)
    BY ItemKeys DEF Init, Free, NoItem
  <2> QED BY <1>1, <2>1, <2>2 DEF Fresh, Locked
<1> QED BY <1>1, <1>2 DEF CountInv

\* The guest leaves with the balance that the check-out counted: what it added
\* for postings still to come is what the night run and the settlement post
\* (pendingStayCharges and settleStayOnCheckOut).
THEOREM LeavesAsCounted == Spec => []SettlesAsCounted
<1>1. Init => CountInv
  BY CountInit
<1>2. IInv /\ CountInv /\ [Next]_vars => CountInv'
  BY CountStep, CountStutters
<1>3. IInv /\ CountInv => SettlesAsCounted
  <2> SUFFICES ASSUME IInv, CountInv, NEW g \in quiet, \A e \in inbox : e.stay # g
               PROVE  OwnBalance(g) = house[g].due
    BY DEF SettlesAsCounted
  <2>1. g \in Stays /\ Counted(g)
    BY DEF CountInv, QuietGood, IInv, FolioTypeOK
  <2>2. OutEvent(g) \notin inbox
    BY <2>1, OutEventIs
  <2> QED BY <2>1, <2>2 DEF Counted
<1> QED BY <1>1, <1>2, <1>3, InvariantHolds, PTL DEF Spec
=============================================================================
