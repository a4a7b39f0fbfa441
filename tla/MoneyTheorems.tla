--------------------------- MODULE MoneyTheorems ---------------------------
(***************************************************************************)
(* The laws of sums that the proofs about money rest on.                   *)
(***************************************************************************)
EXTENDS Money, FiniteSetTheorems, TLAPS

\* The units that a function of amounts stands for at x.
UnitsAt(f, x) == {x} \X (1..f[x])

\* The units at one argument are as many as the amount there.
LEMMA UnitsAtCount ==
  ASSUME NEW S, NEW f \in [S -> Nat], NEW x \in S
  PROVE  IsFiniteSet(UnitsAt(f, x)) /\ Cardinality(UnitsAt(f, x)) = f[x]
<1>1. IsFiniteSet({x}) /\ Cardinality({x}) = 1
  BY FS_Singleton
<1>2. f[x] \in Nat
  OBVIOUS
<1>3. IsFiniteSet(1..f[x]) /\ Cardinality(1..f[x]) = f[x]
  BY <1>2, FS_Interval
<1>4. IsFiniteSet({x} \X (1..f[x])) /\ Cardinality({x} \X (1..f[x])) = 1 * f[x]
  BY <1>1, <1>3, FS_Product
<1> QED
  BY <1>2, <1>4 DEF UnitsAt

\* Finitely many amounts have finitely many units, so their total is a number.
LEMMA UnitsFinite ==
  ASSUME NEW S, IsFiniteSet(S), NEW f \in [S -> Nat]
  PROVE  IsFiniteSet(Units(f)) /\ Total(f) \in Nat
<1> DEFINE T == {UnitsAt(f, x) : x \in S}
           g == [x \in S |-> UnitsAt(f, x)]
<1>1. g \in Surjection(S, T)
  BY DEF Surjection
<1>2. IsFiniteSet(T)
  BY <1>1, FS_Surjection
<1>3. \A U \in T : IsFiniteSet(U)
  BY UnitsAtCount
<1>4. IsFiniteSet(UNION T)
  <2> HIDE DEF T
  <2> QED BY <1>2, <1>3, FS_UNION
<1>5. Units(f) = UNION T
  BY DEF Units, UnitsAt
<1>6. IsFiniteSet(Units(f))
  BY <1>4, <1>5
<1> QED
  BY <1>6, FS_CardinalityType DEF Total

(***************************************************************************)
(* When one amount changes, the total changes by as much.                  *)
(***************************************************************************)
LEMMA TotalChange ==
  ASSUME NEW S, IsFiniteSet(S), NEW f \in [S -> Nat], NEW g \in [S -> Nat],
         NEW x \in S, \A y \in S \ {x} : g[y] = f[y]
  PROVE  Total(g) = Total(f) - f[x] + g[x]
<1> DEFINE R(h) == Units(h) \ UnitsAt(h, x)
<1>1. ASSUME NEW h \in [S -> Nat]
      PROVE  IsFiniteSet(R(h)) /\ Cardinality(R(h)) = Total(h) - h[x]
  <2>1. IsFiniteSet(Units(h)) /\ Total(h) \in Nat
    BY UnitsFinite
  <2>2. Cardinality(UnitsAt(h, x)) = h[x]
    BY UnitsAtCount
  <2>3. Units(h) \cap UnitsAt(h, x) = UnitsAt(h, x)
    BY DEF Units, UnitsAt
  <2>4. /\ IsFiniteSet(R(h))
        /\ Cardinality(R(h)) = Cardinality(Units(h)) - Cardinality(Units(h) \cap UnitsAt(h, x))
    BY <2>1, FS_Difference
  <2>5. Total(h) = Cardinality(Units(h))
    BY DEF Total
  <2> QED
    BY <2>2, <2>3, <2>4, <2>5
<1>2. R(f) = R(g)
  <2>1. ASSUME NEW h \in [S -> Nat]
        PROVE  R(h) = UNION {UnitsAt(h, y) : y \in S \ {x}}
    BY DEF Units, UnitsAt
  <2>2. \A y \in S \ {x} : UnitsAt(f, y) = UnitsAt(g, y)
    BY DEF UnitsAt
  <2> QED
    BY <2>1, <2>2
<1>3. Cardinality(R(f)) = Total(f) - f[x] /\ Cardinality(R(g)) = Total(g) - g[x]
  BY <1>1
<1>4. Total(f) \in Nat /\ Total(g) \in Nat /\ f[x] \in Nat /\ g[x] \in Nat
  BY UnitsFinite
<1> HIDE DEF R
<1> QED
  BY <1>2, <1>3, <1>4

\* A total with one more amount.
LEMMA TotalOfMore ==
  ASSUME NEW S, IsFiniteSet(S), NEW x, x \notin S, NEW T, T = S \cup {x},
         NEW f \in [S -> Nat], NEW g \in [T -> Nat], \A y \in S : g[y] = f[y]
  PROVE  Total(g) = Total(f) + g[x]
<1> DEFINE h == [g EXCEPT ![x] = 0]
<1>1. IsFiniteSet(T) /\ x \in T
  BY FS_AddElement
<1>2. h \in [T -> Nat] /\ h[x] = 0 /\ \A y \in T \ {x} : h[y] = g[y]
  OBVIOUS
<1>3. \A y \in S : h[y] = f[y]
  BY <1>2
<1>4. Units(h) = Units(f)
  <2>1. DOMAIN h = T /\ DOMAIN f = S /\ 1 .. h[x] = {}
    BY <1>2
  <2>2. Units(h) = UNION {{y} \X (1 .. h[y]) : y \in T}
    BY <2>1 DEF Units
  <2>3. Units(f) = UNION {{y} \X (1 .. f[y]) : y \in S}
    BY <2>1 DEF Units
  <2>4. {x} \X (1 .. h[x]) = {}
    BY <2>1
  <2> DEFINE F == UNION {{y} \X (1 .. f[y]) : y \in S}
  <2>5. F = UNION {{y} \X (1 .. h[y]) : y \in S}
    BY <1>3
  <2> HIDE DEF F, h
  <2>6. UNION {{y} \X (1 .. h[y]) : y \in S \cup {x}} = F \cup ({x} \X (1 .. h[x]))
    BY <2>5
  <2> QED
    BY <2>2, <2>3, <2>4, <2>6 DEF F
<1>5. Total(h) = Total(f)
  BY <1>4 DEF Total
<1>6. g \in [T -> Nat] /\ Total(f) \in Nat /\ g[x] \in Nat
  BY UnitsFinite
<1> HIDE DEF h
<1>7. Total(g) = Total(h) - h[x] + g[x]
  BY <1>1, <1>2, <1>6, TotalChange
<1> QED
  BY <1>2, <1>5, <1>6, <1>7

\* Amounts that are all zero have no units.
LEMMA TotalOfZeros ==
  ASSUME NEW S, NEW f \in [S -> Nat], \A x \in S : f[x] = 0
  PROVE  Total(f) = 0
<1>1. \A x \in S : 1..f[x] = {}
  OBVIOUS
<1>2. Units(f) = {}
  BY <1>1 DEF Units
<1> QED
  BY <1>2, FS_EmptySet DEF Total

\* A smaller family of amounts has a smaller total.
LEMMA TotalOfLess ==
  ASSUME NEW S, IsFiniteSet(S), NEW f \in [S -> Nat], NEW g \in [S -> Nat],
         \A x \in S : f[x] <= g[x]
  PROVE  Total(f) <= Total(g)
<1>1. \A x \in S : (1..f[x]) \subseteq (1..g[x])
  <2> SUFFICES ASSUME NEW x \in S PROVE (1..f[x]) \subseteq (1..g[x])
    OBVIOUS
  <2>1. f[x] \in Nat /\ g[x] \in Nat /\ f[x] <= g[x]
    OBVIOUS
  <2> QED
    BY <2>1
<1>2. Units(f) \subseteq Units(g)
  BY <1>1 DEF Units
<1>3. IsFiniteSet(Units(g))
  BY UnitsFinite
<1> QED
  BY <1>2, <1>3, FS_Subset DEF Total

\* No amount is more than the total.
LEMMA TotalCovers ==
  ASSUME NEW S, IsFiniteSet(S), NEW f \in [S -> Nat], NEW x \in S
  PROVE  f[x] <= Total(f)
<1>1. IsFiniteSet(Units(f))
  BY UnitsFinite
<1>2. UnitsAt(f, x) \subseteq Units(f)
  BY DEF Units, UnitsAt
<1>3. Cardinality(UnitsAt(f, x)) <= Cardinality(Units(f))
  BY <1>1, <1>2, FS_Subset
<1> QED
  BY <1>3, UnitsAtCount DEF Total

=============================================================================
