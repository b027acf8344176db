----------------------------- MODULE SumLemmas -----------------------------
(***************************************************************************)
(* What sums over finite sets (SumFunctionOnSet) come to.  The operator is *)
(* a fold, a recursive function over the subsets of its index set.  The    *)
(* lemmas that need induction argue from a least counterexample: a         *)
(* nonempty set of natural numbers has a least element.                    *)
(***************************************************************************)
EXTENDS Integers, FiniteSets, FiniteSetsExt, FiniteSetTheorems, WellFoundedInduction, TLAPS

\* A nonempty set of natural numbers has a least element.
LEMMA LeastElement ==
  ASSUME NEW T \in SUBSET Nat, T # {}
  PROVE  \E n \in T : \A m \in T : n <= m
<1> DEFINE R == OpToRel(<, Nat)
<1>1. IsWellFoundedOn(R, Nat)
  BY NatLessThanWellFounded
<1>2. \A m, n \in Nat : <<m, n>> \in R <=> m < n
  BY DEF OpToRel
<1> HIDE DEF R
<1>3. PICK n \in T : \A m \in T : <<m, n>> \notin R
  BY <1>1, WFMin
<1>4. \A m \in T : n <= m
  <2> SUFFICES ASSUME NEW m \in T PROVE n <= m
    OBVIOUS
  <2>1. m \in Nat /\ n \in Nat /\ ~(m < n)
    BY <1>2, <1>3
  <2> QED BY <2>1
<1> QED BY <1>4

Chosen(s) == CHOOSE x \in s : TRUE

LEMMA ChosenInSet == \A s : s # {} => Chosen(s) \in s
BY DEF Chosen

\* g is the table of the sums of f over the subsets in D.
SumsUp(g, f, D) ==
  g = [s \in D |-> IF s = {} THEN 0 ELSE f[Chosen(s)] + g[s \ {Chosen(s)}]]

\* The library's fold is the table that the CHOOSE of its definition picks.
LEMMA SumIsFold ==
  ASSUME NEW f, NEW S
  PROVE  SumFunctionOnSet(f, S) = (CHOOSE g : SumsUp(g, f, SUBSET S))[S]
BY DEF SumFunctionOnSet, FoldFunctionOnSet, MapThenFoldSet, SumsUp, Chosen

\* Cardinalities of the subsets of a finite set, and of one element less.
LEMMA Subsets ==
  ASSUME NEW S, IsFiniteSet(S), NEW s \in SUBSET S
  PROVE  /\ IsFiniteSet(s) /\ Cardinality(s) \in Nat
         /\ Cardinality(s) = 0 <=> s = {}
         /\ \A x \in s : /\ s \ {x} \in SUBSET S
                       /\ Cardinality(s \ {x}) = Cardinality(s) - 1
<1>1. IsFiniteSet(s)
  BY FS_Subset
<1> QED BY <1>1, FS_CardinalityType, FS_EmptySet, FS_RemoveElement

\* Two tables agree where both say something; stated for the largest such set.
LEMMA SumTablesAgree ==
  ASSUME NEW S, IsFiniteSet(S), NEW T, T \subseteq S, NEW f, NEW g, NEW h,
         SumsUp(g, f, SUBSET S), SumsUp(h, f, SUBSET T)
  PROVE  g[T] = h[T]
<1> DEFINE Differ == {n \in Nat : \E s \in SUBSET T : Cardinality(s) = n /\ g[s] # h[s]}
<1>1. ASSUME NEW s \in SUBSET T, g[s] # h[s]
      PROVE  FALSE
  <2>0. Cardinality(s) \in Differ
    BY <1>1, Subsets
  <2>1. PICK n \in Differ : \A m \in Differ : n <= m
    <3> HIDE DEF Differ
    <3>1. Differ \in SUBSET Nat
      BY DEF Differ
    <3> QED BY <2>0, <3>1, LeastElement
  <2>2. PICK u \in SUBSET T : Cardinality(u) = n /\ g[u] # h[u]
    BY <2>1
  <2>3. u \in SUBSET S
    OBVIOUS
  <2>4. /\ g[u] = IF u = {} THEN 0 ELSE f[Chosen(u)] + g[u \ {Chosen(u)}]
        /\ h[u] = IF u = {} THEN 0 ELSE f[Chosen(u)] + h[u \ {Chosen(u)}]
    BY <2>3 DEF SumsUp
  <2>5. u # {} /\ Chosen(u) \in u
    BY <2>2, <2>4, ChosenInSet
  <2>6. PICK v : v = u \ {Chosen(u)}
    OBVIOUS
  <2>7. v \in SUBSET T /\ Cardinality(v) = n - 1 /\ Cardinality(v) \in Nat
    BY <2>2, <2>3, <2>5, <2>6, Subsets
  <2>8. g[v] # h[v]
    BY <2>2, <2>4, <2>5, <2>6
  <2>9. n - 1 \in Differ /\ n \in Nat
    BY <2>1, <2>7, <2>8
  <2> QED BY <2>1, <2>9
<1> QED BY <1>1

\* There is a table for every finite set: of the least size for which the
\* subsets up to it have none, one could be built from the size below.
LEMMA SumTableExists ==
  ASSUME NEW S, IsFiniteSet(S), NEW f
  PROVE  \E g : SumsUp(g, f, SUBSET S)
<1> DEFINE UpTo(n) == {s \in SUBSET S : Cardinality(s) <= n}
           Lacking == {n \in Nat : ~ \E g : SumsUp(g, f, UpTo(n))}
<1>1. Lacking = {}
  <2> SUFFICES ASSUME Lacking # {} PROVE FALSE
    OBVIOUS
  <2>1. PICK n \in Lacking : \A m \in Lacking : n <= m
    <3> HIDE DEF Lacking
    <3>1. Lacking \in SUBSET Nat
      BY DEF Lacking
    <3> QED BY <3>1, LeastElement
  <2>2. n \in Nat /\ ~ \E g : SumsUp(g, f, UpTo(n))
    BY <2>1
  <2>3. CASE n = 0
    <3> DEFINE g == [s \in UpTo(0) |-> 0]
    <3>1. \A s \in UpTo(0) : s = {}
      BY Subsets
    <3>2. g = [s \in UpTo(0) |-> IF s = {} THEN 0 ELSE f[Chosen(s)] + g[s \ {Chosen(s)}]]
      BY <3>1
    <3> QED BY <2>2, <2>3, <3>2 DEF SumsUp
  <2>4. CASE n # 0
    <3>1. n - 1 \in Nat
      BY <2>2, <2>4
    <3>0. n - 1 \notin Lacking
      <4> HIDE DEF Lacking
      <4> QED BY <2>1, <2>2, <3>1
    <3>2. PICK h : SumsUp(h, f, UpTo(n - 1))
      BY <3>0, <3>1
    <3> DEFINE g == [s \in UpTo(n) |-> IF s = {} THEN 0 ELSE f[Chosen(s)] + h[s \ {Chosen(s)}]]
    <3>3. \A s \in UpTo(n - 1) : h[s] = IF s = {} THEN 0 ELSE f[Chosen(s)] + h[s \ {Chosen(s)}]
      BY <3>2 DEF SumsUp
    <3>4. \A s \in UpTo(n - 1) : s \in UpTo(n) /\ g[s] = h[s]
      <4> SUFFICES ASSUME NEW s \in UpTo(n - 1) PROVE s \in UpTo(n) /\ g[s] = h[s]
        OBVIOUS
      <4>1. s \in UpTo(n)
        BY <2>2, Subsets
      <4> QED BY <3>3, <4>1
    <3>5. \A s \in UpTo(n) : s # {} => s \ {Chosen(s)} \in UpTo(n - 1)
      <4> SUFFICES ASSUME NEW s \in UpTo(n), s # {} PROVE s \ {Chosen(s)} \in UpTo(n - 1)
        OBVIOUS
      <4>1. Chosen(s) \in s
        BY ChosenInSet
      <4>2. /\ s \ {Chosen(s)} \in SUBSET S /\ Cardinality(s \ {Chosen(s)}) = Cardinality(s) - 1
            /\ Cardinality(s) \in Nat
        BY <4>1, Subsets
      <4> QED BY <2>2, <4>2
    <3>6. g = [s \in UpTo(n) |-> IF s = {} THEN 0 ELSE f[Chosen(s)] + g[s \ {Chosen(s)}]]
      <4>1. \A s \in UpTo(n) : s # {} => g[s \ {Chosen(s)}] = h[s \ {Chosen(s)}]
        BY <3>4, <3>5
      <4> QED BY <4>1
    <3> QED BY <2>2, <3>6 DEF SumsUp
  <2> QED BY <2>3, <2>4
<1>2. Cardinality(S) \in Nat /\ UpTo(Cardinality(S)) = SUBSET S
  <2>1. Cardinality(S) \in Nat /\ \A s \in SUBSET S : Cardinality(s) <= Cardinality(S)
    BY FS_Subset, FS_CardinalityType
  <2> QED BY <2>1
<1>3. Cardinality(S) \notin Lacking
  BY <1>1
<1> QED BY <1>2, <1>3

-----------------------------------------------------------------------------
(* Facts to cite                                                            *)

\* The recursion equation of the fold.
LEMMA SumEquation ==
  ASSUME NEW S, IsFiniteSet(S), NEW f
  PROVE  SumFunctionOnSet(f, S) =
           IF S = {} THEN 0
           ELSE f[Chosen(S)] + SumFunctionOnSet(f, S \ {Chosen(S)})
<1>1. PICK g : g = CHOOSE h : SumsUp(h, f, SUBSET S)
  OBVIOUS
<1>2. SumsUp(g, f, SUBSET S) /\ SumFunctionOnSet(f, S) = g[S]
  BY <1>1, SumTableExists, SumIsFold
<1>3. g[S] = IF S = {} THEN 0 ELSE f[Chosen(S)] + g[S \ {Chosen(S)}]
  BY <1>2 DEF SumsUp
<1>4. SumFunctionOnSet(f, S \ {Chosen(S)}) = g[S \ {Chosen(S)}]
  <2>1. PICK T : T = S \ {Chosen(S)}
    OBVIOUS
  <2>2. T \in SUBSET S /\ IsFiniteSet(T)
    BY <2>1, FS_Subset
  <2>3. PICK h : h = CHOOSE i : SumsUp(i, f, SUBSET T)
    OBVIOUS
  <2>4. SumsUp(h, f, SUBSET T) /\ SumFunctionOnSet(f, T) = h[T]
    BY <2>2, <2>3, SumTableExists, SumIsFold
  <2>5. g[T] = h[T]
    BY <1>2, <2>2, <2>4, SumTablesAgree
  <2> QED BY <2>1, <2>4, <2>5
<1> QED BY <1>2, <1>3, <1>4

THEOREM SumEmpty == ASSUME NEW f PROVE SumFunctionOnSet(f, {}) = 0
BY SumEquation, FS_EmptySet

\* A sum of natural numbers is one.
THEOREM SumNat ==
  ASSUME NEW S, IsFiniteSet(S), NEW f, \A x \in S : f[x] \in Nat
  PROVE  SumFunctionOnSet(f, S) \in Nat
<1> DEFINE Bad == {n \in Nat : \E s \in SUBSET S : /\ Cardinality(s) = n
                                                  /\ SumFunctionOnSet(f, s) \notin Nat}
<1>1. Bad = {}
  <2> SUFFICES ASSUME Bad # {} PROVE FALSE
    OBVIOUS
  <2>1. PICK n \in Bad : \A m \in Bad : n <= m
    <3> HIDE DEF Bad
    <3>1. Bad \in SUBSET Nat
      BY DEF Bad
    <3> QED BY <3>1, LeastElement
  <2>2. PICK s \in SUBSET S : Cardinality(s) = n /\ SumFunctionOnSet(f, s) \notin Nat
    BY <2>1
  <2>3. SumFunctionOnSet(f, s) = IF s = {} THEN 0
                                ELSE f[Chosen(s)] + SumFunctionOnSet(f, s \ {Chosen(s)})
    BY Subsets, SumEquation
  <2>4. s # {} /\ Chosen(s) \in s
    BY <2>2, <2>3, ChosenInSet
  <2>5. PICK v : v = s \ {Chosen(s)}
    OBVIOUS
  <2>6. v \in SUBSET S /\ Cardinality(v) = n - 1 /\ Cardinality(v) \in Nat
    BY <2>2, <2>4, <2>5, Subsets
  <2>7. SumFunctionOnSet(f, v) \notin Nat
    BY <2>2, <2>3, <2>4, <2>5
  <2>8. n - 1 \in Bad /\ n \in Nat
    BY <2>6, <2>7
  <2> HIDE DEF Bad
  <2> QED BY <2>1, <2>8
<1> QED BY <1>1, FS_CardinalityType

\* Any element may be taken out first.
THEOREM SumTakeOut ==
  ASSUME NEW S, IsFiniteSet(S), NEW f, \A x \in S : f[x] \in Nat, NEW e \in S
  PROVE  SumFunctionOnSet(f, S) = f[e] + SumFunctionOnSet(f, S \ {e})
<1> DEFINE Splits(s, x) == SumFunctionOnSet(f, s) = f[x] + SumFunctionOnSet(f, s \ {x})
           Bad == {n \in Nat : \E s \in SUBSET S : Cardinality(s) = n /\ \E x \in s : ~Splits(s, x)}
<1>1. Bad = {}
  <2> SUFFICES ASSUME Bad # {} PROVE FALSE
    OBVIOUS
  <2>1. PICK n \in Bad : \A m \in Bad : n <= m
    <3> HIDE DEF Bad
    <3>1. Bad \in SUBSET Nat
      BY DEF Bad
    <3> QED BY <3>1, LeastElement
  <2>2. PICK s \in SUBSET S : Cardinality(s) = n /\ \E x \in s : ~Splits(s, x)
    BY <2>1
  <2>15. PICK x \in s : ~Splits(s, x)
    BY <2>2
  <2>3. PICK y : y = Chosen(s)
    OBVIOUS
  <2>4. y \in s /\ SumFunctionOnSet(f, s) = f[y] + SumFunctionOnSet(f, s \ {y})
    BY <2>2, <2>3, Subsets, SumEquation, ChosenInSet
  <2>5. x # y
    BY <2>15, <2>4
  <2>6. \A u \in s : /\ s \ {u} \in SUBSET S /\ IsFiniteSet(s \ {u})
                    /\ Cardinality(s \ {u}) = n - 1 /\ Cardinality(s \ {u}) \in Nat
    BY <2>2, Subsets
  <2>7. ASSUME NEW u \in s, NEW v \in s \ {u}
        PROVE  SumFunctionOnSet(f, s \ {u}) = f[v] + SumFunctionOnSet(f, (s \ {u}) \ {v})
    <3>1. n - 1 \in Nat /\ n \in Nat
      BY <2>1, <2>6
    <3>2. n - 1 \notin Bad
      <4> HIDE DEF Bad
      <4> QED BY <2>1, <3>1
    <3> QED BY <2>6, <3>1, <3>2
  <2>8. (s \ {x}) \ {y} = (s \ {y}) \ {x}
    OBVIOUS
  <2>9. PICK rest : rest = SumFunctionOnSet(f, (s \ {x}) \ {y})
    OBVIOUS
  <2>10. rest \in Nat
    <3>1. (s \ {x}) \ {y} \in SUBSET S /\ IsFiniteSet((s \ {x}) \ {y})
      BY FS_Subset
    <3> QED BY <2>9, <3>1, SumNat
  <2>11. /\ SumFunctionOnSet(f, s \ {x}) = f[y] + rest
         /\ SumFunctionOnSet(f, s \ {y}) = f[x] + rest
    <3>1. x \in s \ {y} /\ y \in s \ {x}
      BY <2>4, <2>5
    <3> QED BY <2>7, <2>8, <2>9, <2>4, <3>1
  <2>12. f[x] \in Nat /\ f[y] \in Nat
    BY <2>4
  <2> QED BY <2>15, <2>4, <2>10, <2>11, <2>12
<1>2. Cardinality(S) \in Nat
  BY FS_CardinalityType
<1> QED BY <1>1, <1>2

\* One more element.
THEOREM SumAdd ==
  ASSUME NEW S, IsFiniteSet(S), NEW f, NEW e, e \notin S, \A x \in S \cup {e} : f[x] \in Nat
  PROVE  SumFunctionOnSet(f, S \cup {e}) = f[e] + SumFunctionOnSet(f, S)
<1>1. IsFiniteSet(S \cup {e}) /\ e \in S \cup {e} /\ (S \cup {e}) \ {e} = S
  BY FS_AddElement
<1>2. SumFunctionOnSet(f, S \cup {e}) = f[e] + SumFunctionOnSet(f, (S \cup {e}) \ {e})
  BY <1>1, SumTakeOut
<1> QED BY <1>1, <1>2

\* The sum depends on the values at the index set only.
THEOREM SumSame ==
  ASSUME NEW S, IsFiniteSet(S), NEW f, NEW g, \A x \in S : f[x] = g[x]
  PROVE  SumFunctionOnSet(f, S) = SumFunctionOnSet(g, S)
<1> DEFINE Bad == {n \in Nat : \E s \in SUBSET S :
                     Cardinality(s) = n /\ SumFunctionOnSet(f, s) # SumFunctionOnSet(g, s)}
<1>1. Bad = {}
  <2> SUFFICES ASSUME Bad # {} PROVE FALSE
    OBVIOUS
  <2>1. PICK n \in Bad : \A m \in Bad : n <= m
    <3> HIDE DEF Bad
    <3>1. Bad \in SUBSET Nat
      BY DEF Bad
    <3> QED BY <3>1, LeastElement
  <2>2. PICK s \in SUBSET S : /\ Cardinality(s) = n
                            /\ SumFunctionOnSet(f, s) # SumFunctionOnSet(g, s)
    BY <2>1
  <2>3. /\ SumFunctionOnSet(f, s) = IF s = {} THEN 0
             ELSE f[Chosen(s)] + SumFunctionOnSet(f, s \ {Chosen(s)})
        /\ SumFunctionOnSet(g, s) = IF s = {} THEN 0
             ELSE g[Chosen(s)] + SumFunctionOnSet(g, s \ {Chosen(s)})
    BY Subsets, SumEquation
  <2>4. s # {} /\ Chosen(s) \in s /\ f[Chosen(s)] = g[Chosen(s)]
    BY <2>2, <2>3, ChosenInSet
  <2>5. PICK v : v = s \ {Chosen(s)}
    OBVIOUS
  <2>6. v \in SUBSET S /\ Cardinality(v) = n - 1 /\ Cardinality(v) \in Nat
    BY <2>2, <2>4, <2>5, Subsets
  <2>7. SumFunctionOnSet(f, v) # SumFunctionOnSet(g, v)
    BY <2>2, <2>3, <2>4, <2>5
  <2>8. n - 1 \in Bad /\ n \in Nat
    BY <2>6, <2>7
  <2> HIDE DEF Bad
  <2> QED BY <2>1, <2>8
<1> QED BY <1>1, FS_CardinalityType

\* Smaller summands, smaller sum.
THEOREM SumMonotone ==
  ASSUME NEW S, IsFiniteSet(S), NEW f, NEW g,
         \A x \in S : f[x] \in Nat /\ g[x] \in Nat /\ f[x] <= g[x]
  PROVE  SumFunctionOnSet(f, S) <= SumFunctionOnSet(g, S)
<1> DEFINE Exceeds(s) == ~(SumFunctionOnSet(f, s) <= SumFunctionOnSet(g, s))
           Bad == {n \in Nat : \E s \in SUBSET S : Cardinality(s) = n /\ Exceeds(s)}
<1>1. Bad = {}
  <2> SUFFICES ASSUME Bad # {} PROVE FALSE
    OBVIOUS
  <2>1. PICK n \in Bad : \A m \in Bad : n <= m
    <3> HIDE DEF Bad
    <3>1. Bad \in SUBSET Nat
      BY DEF Bad
    <3> QED BY <3>1, LeastElement
  <2>2. PICK s \in SUBSET S : Cardinality(s) = n /\ Exceeds(s)
    BY <2>1
  <2>3. /\ SumFunctionOnSet(f, s) = IF s = {} THEN 0
             ELSE f[Chosen(s)] + SumFunctionOnSet(f, s \ {Chosen(s)})
        /\ SumFunctionOnSet(g, s) = IF s = {} THEN 0
             ELSE g[Chosen(s)] + SumFunctionOnSet(g, s \ {Chosen(s)})
    BY Subsets, SumEquation
  <2>4. s # {} /\ Chosen(s) \in s
    BY <2>2, <2>3, ChosenInSet
  <2>5. PICK v : v = s \ {Chosen(s)}
    OBVIOUS
  <2>6. /\ v \in SUBSET S /\ Cardinality(v) = n - 1 /\ Cardinality(v) \in Nat
        /\ IsFiniteSet(v)
    BY <2>2, <2>4, <2>5, Subsets
  <2>7. SumFunctionOnSet(f, v) \in Nat /\ SumFunctionOnSet(g, v) \in Nat
    BY <2>6, SumNat
  <2>8. Exceeds(v)
    <3>1. /\ f[Chosen(s)] \in Nat /\ g[Chosen(s)] \in Nat
          /\ f[Chosen(s)] <= g[Chosen(s)]
      BY <2>4
    <3> QED BY <2>2, <2>3, <2>4, <2>5, <2>7, <3>1
  <2>9. n - 1 \in Bad /\ n \in Nat
    BY <2>6, <2>8
  <2> HIDE DEF Bad
  <2> QED BY <2>1, <2>9
<1> QED BY <1>1, FS_CardinalityType

\* One of them strictly smaller, the sum strictly smaller.
THEOREM SumLess ==
  ASSUME NEW S, IsFiniteSet(S), NEW f, NEW g, NEW e \in S, f[e] < g[e],
         \A x \in S : f[x] \in Nat /\ g[x] \in Nat /\ f[x] <= g[x]
  PROVE  SumFunctionOnSet(f, S) < SumFunctionOnSet(g, S)
<1>1. PICK rest : rest = S \ {e}
  OBVIOUS
<1>2. rest \in SUBSET S /\ IsFiniteSet(rest)
  BY <1>1, FS_Subset
<1>3. SumFunctionOnSet(f, rest) <= SumFunctionOnSet(g, rest)
  BY <1>2, SumMonotone
<1>4. /\ SumFunctionOnSet(f, rest) \in Nat /\ SumFunctionOnSet(g, rest) \in Nat
      /\ f[e] \in Nat /\ g[e] \in Nat
  BY <1>2, SumNat
<1>5. /\ SumFunctionOnSet(f, S) = f[e] + SumFunctionOnSet(f, rest)
      /\ SumFunctionOnSet(g, S) = g[e] + SumFunctionOnSet(g, rest)
  BY <1>1, SumTakeOut
<1> QED BY <1>3, <1>4, <1>5
=============================================================================
