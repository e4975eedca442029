-------------------------- MODULE SignedSumProofs --------------------------
(***************************************************************************)
(* What the totals of SignedSum do when one row is added to a ledger or    *)
(* taken out of it.  Cited by the proofs about every ledger of the project.*)
(***************************************************************************)
EXTENDS SignedSum, Functions, FiniteSetTheorems, TLAPS

(* The units of a finite set of rows are finitely many. *)
LEMMA UnitsFinite ==
  ASSUME NEW S, IsFiniteSet(S), NEW w, \A s \in S : w[s] \in Nat
  PROVE  IsFiniteSet(Units(S, w))
<1> DEFINE f == [s \in S |-> {s} \X (1 .. w[s])]
           T == {{s} \X (1 .. w[s]) : s \in S}
<1>1. f \in Surjection(S, T)
  BY DEF Surjection
<1>2. IsFiniteSet(T)
  BY <1>1, FS_Surjection
<1>3. ASSUME NEW s \in S PROVE IsFiniteSet({s} \X (1 .. w[s]))
  <2>1. IsFiniteSet(1 .. w[s])
    BY FS_Interval
  <2>2. IsFiniteSet({s})
    BY FS_Singleton
  <2>3. QED BY <2>1, <2>2, FS_Product
<1>4. \A t \in T : IsFiniteSet(t)
  BY <1>3
<1>5. IsFiniteSet(UNION T)
  BY <1>2, <1>4, FS_UNION
<1>6. QED BY <1>5 DEF Units

(* A row adds its own units and no other row's. *)
LEMMA UnitsAdd ==
  ASSUME NEW S, IsFiniteSet(S), NEW x, x \notin S, NEW w,
         \A s \in S \cup {x} : w[s] \in Nat
  PROVE  Cardinality(Units(S \cup {x}, w)) = Cardinality(Units(S, w)) + w[x]
<1> DEFINE one == {x} \X (1 .. w[x])
<1>0. w[x] \in Nat
  OBVIOUS
<1>1. Units(S \cup {x}, w) = Units(S, w) \cup one
  BY DEF Units
<1>2. Units(S, w) \cap one = {}
  BY DEF Units
<1>3. IsFiniteSet(Units(S, w))
  BY UnitsFinite
<1>4. IsFiniteSet(one) /\ Cardinality(one) = w[x]
  <2>1. IsFiniteSet(1 .. w[x]) /\ Cardinality(1 .. w[x]) = w[x]
    <3>1. IsFiniteSet(1 .. w[x]) /\ Cardinality(1 .. w[x]) = IF 1 > w[x] THEN 0 ELSE w[x] - 1 + 1
      BY <1>0, FS_Interval, SMTT(30)
    <3>2. QED BY <3>1, <1>0
  <2>2. IsFiniteSet({x}) /\ Cardinality({x}) = 1
    BY FS_Singleton
  <2>3. IsFiniteSet(one) /\ Cardinality(one) = Cardinality({x}) * Cardinality(1 .. w[x])
    BY <2>1, <2>2, FS_Product
  <2>4. Cardinality(one) = 1 * w[x]
    BY <2>1, <2>2, <2>3
  <2>5. QED BY <2>3, <2>4, <1>0
<1>5. Cardinality(Units(S, w) \cap one) = 0
  BY <1>2, FS_EmptySet
<1>6. /\ Cardinality(Units(S, w)) \in Nat
      /\ Cardinality(Units(S, w) \cup one)
           = Cardinality(Units(S, w)) + Cardinality(one) - Cardinality(Units(S, w) \cap one)
  BY <1>3, <1>4, FS_Union, FS_CardinalityType
<1>7. Cardinality(Units(S, w) \cup one) = Cardinality(Units(S, w)) + w[x]
  <2> HIDE DEF one
  <2>1. QED BY <1>0, <1>4, <1>5, <1>6
<1>8. QED BY <1>1, <1>7

(* The total of no rows is zero. *)
LEMMA NetEmpty == \A d : Net({}, d) = 0
<1>1. ASSUME NEW w PROVE Units({}, w) = {}
  BY DEF Units
<1>2. QED BY <1>1, FS_EmptySet DEF Net

(* The total of finitely many rows is an integer. *)
LEMMA NetInt ==
  ASSUME NEW D, NEW d \in [D -> Int], NEW S \in SUBSET D, IsFiniteSet(S)
  PROVE  Net(S, d) \in Int
<1>1. /\ \A s \in S : Gains(d)[s] \in Nat
      /\ \A s \in S : Losses(d)[s] \in Nat
  BY DEF Gains, Losses
<1>2. IsFiniteSet(Units(S, Gains(d))) /\ IsFiniteSet(Units(S, Losses(d)))
  BY <1>1, UnitsFinite
<1>3. QED BY <1>2, FS_CardinalityType DEF Net

(* Adding a row adds its quantity to the total. *)
LEMMA NetAdd ==
  ASSUME NEW D, NEW d \in [D -> Int], NEW S \in SUBSET D, IsFiniteSet(S),
         NEW x \in D \ S
  PROVE  Net(S \cup {x}, d) = Net(S, d) + d[x]
<1>1. /\ \A s \in S \cup {x} : Gains(d)[s] \in Nat
      /\ \A s \in S \cup {x} : Losses(d)[s] \in Nat
  BY DEF Gains, Losses
<1>2. /\ IsFiniteSet(Units(S, Gains(d)))
      /\ IsFiniteSet(Units(S, Losses(d)))
  BY <1>1, UnitsFinite
<1>3. /\ Cardinality(Units(S, Gains(d))) \in Nat
      /\ Cardinality(Units(S, Losses(d))) \in Nat
  BY <1>2, FS_CardinalityType
<1>4. /\ Cardinality(Units(S \cup {x}, Gains(d)))
           = Cardinality(Units(S, Gains(d))) + Gains(d)[x]
      /\ Cardinality(Units(S \cup {x}, Losses(d)))
           = Cardinality(Units(S, Losses(d))) + Losses(d)[x]
  BY <1>1, UnitsAdd
<1>5. Gains(d)[x] - Losses(d)[x] = d[x] /\ d[x] \in Int
  BY DEF Gains, Losses
<1>6. Gains(d)[x] \in Nat /\ Losses(d)[x] \in Nat
  BY <1>1
<1>7. QED BY <1>3, <1>4, <1>5, <1>6 DEF Net

(* Taking a row out takes its quantity off the total. *)
LEMMA NetRemove ==
  ASSUME NEW D, NEW d \in [D -> Int], NEW S \in SUBSET D, IsFiniteSet(S),
         NEW x \in S
  PROVE  Net(S \ {x}, d) = Net(S, d) - d[x]
<1> DEFINE R == S \ {x}
<1>1. R \in SUBSET D /\ IsFiniteSet(R) /\ x \in D \ R
  BY FS_RemoveElement
<1>2. Net(R \cup {x}, d) = Net(R, d) + d[x]
  BY <1>1, NetAdd
<1>3. R \cup {x} = S
  OBVIOUS
<1>4. Net(R, d) \in Int /\ d[x] \in Int
  BY <1>1, NetInt
<1>5. Net(S, d) = Net(R, d) + d[x]
  BY <1>2, <1>3
<1>6. QED
  <2> HIDE DEF R
  <2>1. Net(R, d) = Net(S, d) - d[x]
    BY <1>4, <1>5
  <2>2. QED BY <2>1 DEF R

(* The total of two sets of rows that share none is the sum of theirs.      *)
LEMMA UnitsUnion ==
  ASSUME NEW S, IsFiniteSet(S), NEW T, IsFiniteSet(T), S \cap T = {}, NEW w,
         \A x \in S \cup T : w[x] \in Nat
  PROVE  Cardinality(Units(S \cup T, w)) = Cardinality(Units(S, w)) + Cardinality(Units(T, w))
<1>1. IsFiniteSet(Units(S, w)) /\ IsFiniteSet(Units(T, w))
  BY UnitsFinite
<1>2. Units(S \cup T, w) = Units(S, w) \cup Units(T, w)
  BY DEF Units
<1>3. Units(S, w) \cap Units(T, w) = {}
  BY DEF Units
<1>4. /\ Cardinality(Units(S, w)) \in Nat /\ Cardinality(Units(T, w)) \in Nat
      /\ Cardinality(Units(S, w) \cup Units(T, w))
           = Cardinality(Units(S, w)) + Cardinality(Units(T, w)) - Cardinality({})
  BY <1>1, <1>3, FS_Union, FS_CardinalityType
<1>5. Cardinality({}) = 0
  BY FS_EmptySet
<1>6. \A a, b \in Nat : a + b - 0 = a + b
  OBVIOUS
<1>7. QED BY <1>2, <1>4, <1>5, <1>6, Zenon

LEMMA NetUnion ==
  ASSUME NEW D, NEW d \in [D -> Int], NEW S \in SUBSET D, IsFiniteSet(S),
         NEW T \in SUBSET D, IsFiniteSet(T), S \cap T = {}
  PROVE  Net(S \cup T, d) = Net(S, d) + Net(T, d)
<1>1. /\ \A x \in S \cup T : Gains(d)[x] \in Nat
      /\ \A x \in S \cup T : Losses(d)[x] \in Nat
  BY DEF Gains, Losses
<1>2. /\ Cardinality(Units(S \cup T, Gains(d)))
           = Cardinality(Units(S, Gains(d))) + Cardinality(Units(T, Gains(d)))
      /\ Cardinality(Units(S \cup T, Losses(d)))
           = Cardinality(Units(S, Losses(d))) + Cardinality(Units(T, Losses(d)))
  BY <1>1, UnitsUnion
<1>3. /\ IsFiniteSet(Units(S, Gains(d))) /\ IsFiniteSet(Units(T, Gains(d)))
      /\ IsFiniteSet(Units(S, Losses(d))) /\ IsFiniteSet(Units(T, Losses(d)))
  BY <1>1, UnitsFinite
<1>4. /\ Cardinality(Units(S, Gains(d))) \in Nat /\ Cardinality(Units(T, Gains(d))) \in Nat
      /\ Cardinality(Units(S, Losses(d))) \in Nat /\ Cardinality(Units(T, Losses(d))) \in Nat
  BY <1>3, FS_CardinalityType
<1>5. QED BY <1>2, <1>4 DEF Net

(* A total does not depend on how the rows are named.                       *)
LEMMA UnitsRenamed ==
  ASSUME NEW S, IsFiniteSet(S), NEW T, NEW f \in Bijection(S, T), NEW w, NEW v,
         \A s \in S : w[s] \in Nat /\ v[f[s]] = w[s]
  PROVE  Cardinality(Units(T, v)) = Cardinality(Units(S, w))
<1> DEFINE g == [u \in Units(S, w) |-> <<f[u[1]], u[2]>>]
<1>1. /\ f \in [S -> T]
      /\ \A s, t \in S : f[s] = f[t] => s = t
      /\ \A t \in T : \E s \in S : f[s] = t
  BY DEF Bijection, Injection, Surjection, IsInjective
<1>2. \A u \in Units(S, w) : u[1] \in S /\ u[2] \in 1 .. w[u[1]] /\ u = <<u[1], u[2]>>
  BY DEF Units
<1>3. \A x, n : <<x, n>> \in Units(T, v) <=> x \in T /\ n \in 1 .. v[x]
  BY DEF Units
<1>4. \A x, n : <<x, n>> \in Units(S, w) <=> x \in S /\ n \in 1 .. w[x]
  BY DEF Units
<1>5. g \in [Units(S, w) -> Units(T, v)]
  BY <1>1, <1>2, <1>3
<1>6. ASSUME NEW a \in Units(S, w), NEW b \in Units(S, w), g[a] = g[b] PROVE a = b
  <2>1. f[a[1]] = f[b[1]] /\ a[2] = b[2]
    BY <1>6
  <2>2. QED BY <1>1, <1>2, <2>1
<1>7. ASSUME NEW b \in Units(T, v) PROVE \E a \in Units(S, w) : g[a] = b
  <2>1. b[1] \in T /\ b[2] \in 1 .. v[b[1]] /\ b = <<b[1], b[2]>>
    BY DEF Units
  <2>2. PICK s \in S : f[s] = b[1]
    BY <1>1, <2>1
  <2>3. <<s, b[2]>> \in Units(S, w)
    BY <1>4, <2>1, <2>2
  <2>4. g[<<s, b[2]>>] = b
    BY <2>1, <2>2, <2>3
  <2>5. QED BY <2>3, <2>4
<1>8. g \in Bijection(Units(S, w), Units(T, v))
  <2> HIDE DEF g
  <2>1. QED BY <1>5, <1>6, <1>7 DEF Bijection, Injection, Surjection, IsInjective
<1>9. IsFiniteSet(Units(S, w))
  BY UnitsFinite
<1>10. QED BY <1>8, <1>9, FS_Bijection DEF ExistsBijection

LEMMA NetRenamed ==
  ASSUME NEW D, NEW d \in [D -> Int], NEW S \in SUBSET D, IsFiniteSet(S),
         NEW E, NEW e \in [E -> Int], NEW T \in SUBSET E,
         NEW f \in Bijection(S, T), \A s \in S : e[f[s]] = d[s]
  PROVE  Net(T, e) = Net(S, d)
<1>1. \A s \in S : f[s] \in E
  BY DEF Bijection, Injection
<1>2. /\ \A s \in S : Gains(d)[s] \in Nat /\ Gains(e)[f[s]] = Gains(d)[s]
      /\ \A s \in S : Losses(d)[s] \in Nat /\ Losses(e)[f[s]] = Losses(d)[s]
  BY <1>1 DEF Gains, Losses
<1>3. /\ Cardinality(Units(T, Gains(e))) = Cardinality(Units(S, Gains(d)))
      /\ Cardinality(Units(T, Losses(e))) = Cardinality(Units(S, Losses(d)))
  BY <1>2, UnitsRenamed
<1>4. QED BY <1>3 DEF Net

(* The total depends on nothing but the quantities of its rows.             *)
LEMMA NetSame ==
  ASSUME NEW D, NEW d \in [D -> Int], NEW S \in SUBSET D, IsFiniteSet(S),
         NEW E, NEW e \in [E -> Int], S \subseteq E, \A s \in S : e[s] = d[s]
  PROVE  Net(S, e) = Net(S, d)
<1> DEFINE f == [s \in S |-> s]
<1>1. f \in Bijection(S, S) /\ \A s \in S : e[f[s]] = d[s]
  BY DEF Bijection, Injection, Surjection, IsInjective
<1>2. S \in SUBSET E
  OBVIOUS
<1> HIDE DEF f
<1>3. QED BY <1>1, <1>2, NetRenamed

(* What holds of no rows, and of any rows and one more, holds of all of     *)
(* finitely many.                                                           *)
LEMMA RowByRow ==
  ASSUME NEW S, IsFiniteSet(S), NEW Good, {} \in Good,
         \A T \in SUBSET S : \A x \in S \ T : T \in Good => T \cup {x} \in Good
  PROVE  S \in Good
<1> DEFINE Bad == {T \in SUBSET S : T \notin Good}
<1>1. IsWellFoundedOn(StrictSubsetOrdering(S), SUBSET S)
  BY FS_FiniteSubsetsOfFinite, FS_StrictSubsetOrderingWellFounded, Zenon
<1>2. SUFFICES ASSUME Bad # {} PROVE FALSE
  OBVIOUS
<1>3. Bad \subseteq SUBSET S
  OBVIOUS
<1>4. PICK T \in Bad : \A U \in Bad : ~ (<<U, T>> \in StrictSubsetOrdering(S))
  <2> HIDE DEF Bad
  <2>1. QED BY <1>1, <1>2, <1>3, WFMin
<1>5. T # {} /\ T \in SUBSET S /\ T \notin Good
  OBVIOUS
<1>6. PICK x : x \in T
  BY <1>5
<1>7. /\ T \ {x} \in SUBSET S /\ x \in S \ (T \ {x}) /\ (T \ {x}) \cup {x} = T
      /\ <<T \ {x}, T>> \in StrictSubsetOrdering(S)
  BY <1>5, <1>6 DEF StrictSubsetOrdering
<1>8. T \ {x} \in Good
  BY <1>4, <1>7
<1>9. QED BY <1>5, <1>7, <1>8

(* A total of group totals is the total of all rows.                        *)
LEMMA NetGrouped ==
  ASSUME NEW D, NEW d \in [D -> Int], NEW S \in SUBSET D, IsFiniteSet(S),
         NEW A, IsFiniteSet(A), NEW h \in [A -> Int],
         NEW key, \A s \in S : key[s] \in A,
         \A a \in A : h[a] = Net({s \in S : key[s] = a}, d)
  PROVE  Net(A, h) = Net(S, d)
<1> DEFINE Of(B) == {s \in S : key[s] \in B}
           Good == {B \in SUBSET A : Net(B, h) = Net(Of(B), d)}
<1>1. {} \in Good
  <2>1. Of({}) = {}
    OBVIOUS
  <2>2. Net({}, h) = 0 /\ Net({}, d) = 0
    BY NetEmpty
  <2>3. QED BY <2>1, <2>2
<1>2. ASSUME NEW B \in SUBSET A, NEW a \in A \ B, B \in Good PROVE B \cup {a} \in Good
  <2> DEFINE mine == {s \in S : key[s] = a}
  <2>1. IsFiniteSet(B) /\ IsFiniteSet(Of(B)) /\ IsFiniteSet(mine)
    BY FS_Subset
  <2>2. Net(B \cup {a}, h) = Net(B, h) + h[a]
    BY <2>1, NetAdd
  <2>3. /\ Of(B \cup {a}) = Of(B) \cup mine /\ Of(B) \cap mine = {}
        /\ Of(B) \in SUBSET D /\ mine \in SUBSET D
    OBVIOUS
  <2>4. Net(B, h) = Net(Of(B), d) /\ h[a] = Net(mine, d)
    BY <1>2
  <2> HIDE DEF Of, mine
  <2>5. Net(Of(B) \cup mine, d) = Net(Of(B), d) + Net(mine, d)
    BY <2>1, <2>3, NetUnion
  <2>6. Net(B \cup {a}, h) = Net(Of(B \cup {a}), d)
    BY <2>2, <2>3, <2>4, <2>5
  <2>7. QED BY <2>6
<1>3. A \in Good
  <2> HIDE DEF Good
  <2>1. QED BY <1>1, <1>2, RowByRow
<1>4. Of(A) = S
  OBVIOUS
<1>5. QED BY <1>3, <1>4

(* A total of differences is the difference of the totals.                  *)
LEMMA NetDifference ==
  ASSUME NEW D, NEW f \in [D -> Int], NEW g \in [D -> Int], NEW d \in [D -> Int],
         NEW S \in SUBSET D, IsFiniteSet(S), \A s \in S : d[s] = f[s] - g[s]
  PROVE  Net(S, d) = Net(S, f) - Net(S, g)
<1> DEFINE Good == {B \in SUBSET S : Net(B, d) = Net(B, f) - Net(B, g)}
<1>1. {} \in Good
  BY NetEmpty
<1>2. ASSUME NEW B \in SUBSET S, NEW x \in S \ B, B \in Good PROVE B \cup {x} \in Good
  <2>1. IsFiniteSet(B) /\ B \in SUBSET D /\ x \in D \ B
    BY FS_Subset
  <2>2. /\ Net(B \cup {x}, d) = Net(B, d) + d[x]
        /\ Net(B \cup {x}, f) = Net(B, f) + f[x]
        /\ Net(B \cup {x}, g) = Net(B, g) + g[x]
    BY <2>1, NetAdd
  <2>3. Net(B, d) \in Int /\ Net(B, f) \in Int /\ Net(B, g) \in Int
    BY <2>1, NetInt
  <2>4. f[x] \in Int /\ g[x] \in Int /\ d[x] = f[x] - g[x] /\ Net(B, d) = Net(B, f) - Net(B, g)
    BY <1>2
  <2>5. Net(B \cup {x}, d) = Net(B \cup {x}, f) - Net(B \cup {x}, g)
    BY <2>2, <2>3, <2>4
  <2>6. QED BY <2>5
<1>3. S \in Good
  <2> HIDE DEF Good
  <2>1. QED BY <1>1, <1>2, RowByRow
<1>4. QED BY <1>3
=============================================================================
