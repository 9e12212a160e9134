---------------------------- MODULE SumTheorems ----------------------------
(***************************************************************************)
(* Facts about SumFunction of the community modules, for functions of a    *)
(* finite set into the naturals: the shares of a unit and the votes of a   *)
(* meeting are summed with it.  The sum is defined by a recursion over the *)
(* subsets of the set that takes out the element CHOOSE picks, and does    *)
(* not depend on it.  The last lemma is about the greatest number of a set. *)
(***************************************************************************)
EXTENDS Functions, FiniteSetTheorems, WellFoundedInduction, TLAPS

Any(S) == CHOOSE x \in S : TRUE

\* add is the recursive function that sums f over the subsets of S.
Adds(add, f, S) ==
    add = [s \in SUBSET S |->
             IF s = {} THEN 0 ELSE f[Any(s)] + add[s \ {Any(s)}]]

LEMMA SumIsChosen ==
  ASSUME NEW f, NEW S
  PROVE  SumFunctionOnSet(f, S) = (CHOOSE add : Adds(add, f, S))[S]
BY DEF SumFunctionOnSet, FoldFunctionOnSet, MapThenFoldSet, Adds, Any

\* Of the subsets of a finite set with some property, one is least.
LEMMA LeastSubset ==
  ASSUME NEW S, IsFiniteSet(S), NEW P \in SUBSET SUBSET S, P # {}
  PROVE  \E T \in P : \A R \in P : R \subseteq T => R = T
<1>1. P \subseteq FiniteSubsetsOf(S)
  BY FS_Subset DEF FiniteSubsetsOf
<1>2. IsWellFoundedOn(StrictSubsetOrdering(S), FiniteSubsetsOf(S))
  BY FS_StrictSubsetOrderingWellFounded
<1>3. PICK T \in P : \A R \in P : <<R, T>> \notin StrictSubsetOrdering(S)
  BY <1>1, <1>2, WFMin
<1>4. QED
  BY <1>3 DEF StrictSubsetOrdering

\* Two such functions agree where they are both defined and the summands agree.
LEMMA AddsAgree ==
  ASSUME NEW f, NEW g, NEW S, NEW T, IsFiniteSet(S), NEW add, NEW sum,
         Adds(add, f, S), Adds(sum, g, T), S \subseteq T,
         \A x \in S : f[x] = g[x]
  PROVE  \A s \in SUBSET S : add[s] = sum[s]
<1> DEFINE P == {s \in SUBSET S : add[s] # sum[s]}
<1>1. SUFFICES ASSUME P # {} PROVE FALSE
  OBVIOUS
<1>2. PICK s \in P : \A r \in P : r \subseteq s => r = s
  <2> HIDE DEF P
  <2>1. P \in SUBSET SUBSET S
    BY DEF P
  <2>2. QED
    BY <1>1, <2>1, LeastSubset
<1>3. s \in SUBSET S /\ s \in SUBSET T /\ add[s] # sum[s]
  OBVIOUS
<1>4. /\ add[s] = IF s = {} THEN 0 ELSE f[Any(s)] + add[s \ {Any(s)}]
      /\ sum[s] = IF s = {} THEN 0 ELSE g[Any(s)] + sum[s \ {Any(s)}]
  BY <1>3 DEF Adds
<1>5. s # {}
  BY <1>3, <1>4
<1>6. Any(s) \in s
  BY <1>5 DEF Any
<1>7. add[s \ {Any(s)}] = sum[s \ {Any(s)}]
  BY <1>2, <1>6
<1>8. QED
  BY <1>3, <1>4, <1>5, <1>6, <1>7

\* The recursion is well founded: every finite set has such a function.
LEMMA AddsExists ==
  ASSUME NEW f, NEW S, IsFiniteSet(S)
  PROVE  \E add : Adds(add, f, S)
<1> DEFINE P == {s \in SUBSET S : ~\E add : Adds(add, f, s)}
<1>1. SUFFICES ASSUME P # {} PROVE FALSE
  OBVIOUS
<1>2. PICK T \in P : \A r \in P : r \subseteq T => r = T
  <2> HIDE DEF P
  <2>1. P \in SUBSET SUBSET S
    BY DEF P
  <2>2. QED
    BY <1>1, <2>1, LeastSubset
<1> DEFINE part(s) == CHOOSE add : Adds(add, f, s)
           whole == [s \in SUBSET T |->
                       IF s = {} THEN 0
                       ELSE f[Any(s)] + part(s \ {Any(s)})[s \ {Any(s)}]]
<1>3. T \in SUBSET S /\ IsFiniteSet(T)
  BY FS_Subset
<1>4. ASSUME NEW s \in SUBSET T, s # T PROVE Adds(part(s), f, s)
  <2>1. \E add : Adds(add, f, s)
    BY <1>2, <1>3, <1>4
  <2>2. QED
    BY <2>1
<1>5. ASSUME NEW s \in SUBSET T, s # {} PROVE Any(s) \in s /\ s \ {Any(s)} # T
  <2>1. Any(s) \in s
    BY <1>5 DEF Any
  <2>2. QED
    BY <2>1
\* The pieces agree with the whole.
<1>6. ASSUME NEW s \in SUBSET T, s # T PROVE part(s)[s] = whole[s]
  <2>1. Adds(part(s), f, s)
    BY <1>4, <1>6
  <2>2. part(s)[s] = IF s = {} THEN 0 ELSE f[Any(s)] + part(s)[s \ {Any(s)}]
    <3> HIDE DEF part
    <3>1. QED
      BY <2>1 DEF Adds
  <2>3. CASE s = {}
    BY <2>2, <2>3
  <2>4. CASE s # {}
    <3> DEFINE r == s \ {Any(s)}
    <3>1. r \in SUBSET s /\ r \in SUBSET T /\ r # T
      BY <1>5, <2>4
    <3>2. Adds(part(r), f, r) /\ IsFiniteSet(r)
      BY <1>3, <1>4, <3>1, FS_Subset
    <3>3. part(r)[r] = part(s)[r]
      <4> HIDE DEF part, r
      <4>1. QED
        BY <2>1, <3>1, <3>2, AddsAgree
    <3>4. QED
      BY <2>2, <2>4, <3>3
  <2>5. QED
    BY <2>3, <2>4
<1>7. Adds(whole, f, T)
  <2>1. ASSUME NEW s \in SUBSET T
        PROVE  whole[s] = IF s = {} THEN 0 ELSE f[Any(s)] + whole[s \ {Any(s)}]
    <3>1. CASE s = {}
      BY <3>1
    <3>2. CASE s # {}
      <4>1. PICK r : r = s \ {Any(s)}
        OBVIOUS
      <4>2. r \in SUBSET T /\ r # T
        BY <1>5, <3>2, <4>1
      <4>3. part(r)[r] = whole[r]
        BY <1>6, <4>2
      <4>4. whole[s] = f[Any(s)] + part(r)[r]
        BY <3>2, <4>1
      <4> HIDE DEF whole, part
      <4>5. QED
        BY <3>2, <4>1, <4>3, <4>4
    <3>3. QED
      BY <3>1, <3>2
  <2>2. whole = [s \in SUBSET T |-> whole[s]]
    OBVIOUS
  <2> HIDE DEF whole
  <2>3. QED
    BY <2>1, <2>2 DEF Adds
<1>8. QED
  BY <1>7

\* What the recursion computes, and that the sum over a smaller set is one of
\* its values.
LEMMA SumUnfolds ==
  ASSUME NEW f, NEW S, IsFiniteSet(S), S # {}
  PROVE  /\ Any(S) \in S
         /\ SumFunctionOnSet(f, S) =
              f[Any(S)] + SumFunctionOnSet(f, S \ {Any(S)})
<1> DEFINE add(s) == CHOOSE add : Adds(add, f, s)
           r == S \ {Any(S)}
<1>1. Any(S) \in S
  BY DEF Any
<1>2. r \in SUBSET S /\ IsFiniteSet(r)
  BY FS_Subset
<1>3. Adds(add(S), f, S) /\ Adds(add(r), f, r)
  <2>1. \E a : Adds(a, f, S)
    BY AddsExists
  <2>2. \E a : Adds(a, f, r)
    <3> HIDE DEF r
    <3>1. QED
      BY <1>2, AddsExists
  <2>3. QED
    BY <2>1, <2>2
<1>4. SumFunctionOnSet(f, S) = add(S)[S] /\ SumFunctionOnSet(f, r) = add(r)[r]
  BY SumIsChosen
<1>5. add(r)[r] = add(S)[r]
  <2> HIDE DEF add, r
  <2>1. QED
    BY <1>2, <1>3, AddsAgree
<1>6. add(S)[S] = f[Any(S)] + add(S)[r]
  <2> HIDE DEF add
  <2>1. QED
    BY <1>3 DEF Adds
<1>7. QED
  BY <1>1, <1>4, <1>5, <1>6

LEMMA SumEmpty == ASSUME NEW f PROVE SumFunctionOnSet(f, {}) = 0
<1> DEFINE add == CHOOSE add : Adds(add, f, {})
<1>1. SumFunctionOnSet(f, {}) = add[{}]
  BY SumIsChosen
<1>2. Adds(add, f, {})
  <2>1. \E a : Adds(a, f, {})
    BY FS_EmptySet, AddsExists
  <2>2. QED
    BY <2>1
<1> HIDE DEF add
<1>3. QED
  BY <1>1, <1>2 DEF Adds

\* f is natural on S.
Summable(f, S) == IsFiniteSet(S) /\ \A x \in S : f[x] \in Nat

LEMMA SumNat ==
  ASSUME NEW f, NEW S, Summable(f, S)
  PROVE  SumFunctionOnSet(f, S) \in Nat
<1> DEFINE P == {s \in SUBSET S : SumFunctionOnSet(f, s) \notin Nat}
<1>1. SUFFICES ASSUME P # {} PROVE FALSE
  OBVIOUS
<1>2. PICK s \in P : \A r \in P : r \subseteq s => r = s
  <2> HIDE DEF P
  <2>1. P \in SUBSET SUBSET S
    BY DEF P
  <2>2. QED
    BY <1>1, <2>1, LeastSubset DEF Summable
<1>3. s # {} /\ s \in SUBSET S /\ IsFiniteSet(s)
  <2>1. s \in SUBSET S /\ SumFunctionOnSet(f, s) \notin Nat
    BY <1>2
  <2>2. SumFunctionOnSet(f, {}) \in Nat
    BY SumEmpty
  <2>3. QED
    BY <2>1, <2>2, FS_Subset DEF Summable
<1>4. /\ Any(s) \in s
      /\ SumFunctionOnSet(f, s) = f[Any(s)] + SumFunctionOnSet(f, s \ {Any(s)})
  BY <1>3, SumUnfolds
<1>5. SumFunctionOnSet(f, s \ {Any(s)}) \in Nat
  BY <1>2, <1>3, <1>4
<1>6. f[Any(s)] \in Nat
  BY <1>3, <1>4 DEF Summable
<1>7. QED
  BY <1>4, <1>5, <1>6

\* The order does not matter: any element may be added last.
LEMMA SumAdd ==
  ASSUME NEW f, NEW S, Summable(f, S), NEW y \in S
  PROVE  SumFunctionOnSet(f, S) = SumFunctionOnSet(f, S \ {y}) + f[y]
<1> DEFINE Adding(s, x) ==
             SumFunctionOnSet(f, s \cup {x}) = SumFunctionOnSet(f, s) + f[x]
           P == {s \in SUBSET S : \E x \in S \ s : ~Adding(s, x)}
<1>1. ASSUME P # {} PROVE FALSE
  <2>1. PICK s \in P : \A r \in P : r \subseteq s => r = s
    <3> HIDE DEF P
    <3>1. P \in SUBSET SUBSET S
      BY DEF P
    <3>2. QED
      BY <1>1, <3>1, LeastSubset DEF Summable
  <2>2. PICK z \in S \ s : ~Adding(s, z)
    BY <2>1
  <2>3. \A r \in SUBSET s, x \in S : r # s /\ x \notin r => Adding(r, x)
    BY <2>1
  <2>4. PICK T : T = s \cup {z}
    OBVIOUS
  <2>5. IsFiniteSet(T) /\ T # {} /\ T \in SUBSET S
    <3>1. T \in SUBSET S
      BY <2>1, <2>2, <2>4
    <3>2. QED
      BY <2>4, <3>1, FS_Subset DEF Summable
  <2>6. PICK x : x = Any(T)
    OBVIOUS
  <2>7. x \in T /\ SumFunctionOnSet(f, T) = f[x] + SumFunctionOnSet(f, T \ {x})
    BY <2>5, <2>6, SumUnfolds
  <2>8. \A r \in SUBSET S : SumFunctionOnSet(f, r) \in Nat
    <3>1. \A r \in SUBSET S : Summable(f, r)
      BY FS_Subset DEF Summable
    <3>2. QED
      BY <3>1, SumNat
  <2>9. x \in S /\ z \in S /\ s \in SUBSET S
    BY <2>1, <2>2, <2>5, <2>7
  <2>10. f[x] \in Nat /\ f[z] \in Nat
    BY <2>9 DEF Summable
  <2>11. CASE x = z
    <3>1. T \ {x} = s
      BY <2>2, <2>4, <2>11
    <3>2. QED
      BY <2>2, <2>4, <2>7, <2>8, <2>9, <2>10, <2>11, <3>1
  <2>12. CASE x # z
    <3>1. PICK r : r = s \ {x}
      OBVIOUS
    <3>2. /\ x \notin r /\ z \notin r /\ r \in SUBSET s /\ r \in SUBSET S /\ r # s
          /\ T \ {x} = r \cup {z} /\ s = r \cup {x}
      BY <2>2, <2>4, <2>7, <2>9, <2>12, <3>1
    <3>3. Adding(r, z) /\ Adding(r, x)
      BY <2>3, <2>9, <3>2
    <3>4. SumFunctionOnSet(f, r) \in Nat
      BY <2>8, <3>2
    <3>5. QED
      BY <2>2, <2>4, <2>7, <2>10, <3>2, <3>3, <3>4
  <2>13. QED
    BY <2>11, <2>12
<1>2. PICK s : s = S \ {y}
  OBVIOUS
<1>3. s \in SUBSET S /\ y \in S \ s /\ S = s \cup {y}
  BY <1>2
<1>4. Adding(s, y)
  BY <1>1, <1>3
<1>5. QED
  BY <1>2, <1>3, <1>4

\* A sum over more, and of more, is not less.
LEMMA SumMonotone ==
  ASSUME NEW f, NEW g, NEW S, NEW T, Summable(f, S), Summable(g, T),
         S \subseteq T, \A x \in S : f[x] <= g[x]
  PROVE  SumFunctionOnSet(f, S) <= SumFunctionOnSet(g, T)
<1> DEFINE P == {t \in SUBSET T :
                   ~(SumFunctionOnSet(f, S \cap t) <= SumFunctionOnSet(g, t))}
<1>1. SUFFICES ASSUME P # {} PROVE FALSE
  <2>1. T \notin P
    BY <1>1
  <2>2. S \cap T = S
    OBVIOUS
  <2>3. QED
    BY <2>1, <2>2
<1>2. PICK t \in P : \A r \in P : r \subseteq t => r = t
  <2> HIDE DEF P
  <2>1. P \in SUBSET SUBSET T
    BY DEF P
  <2>2. QED
    BY <1>1, <2>1, LeastSubset DEF Summable
<1>3. /\ t \in SUBSET T
      /\ ~(SumFunctionOnSet(f, S \cap t) <= SumFunctionOnSet(g, t))
  BY <1>2
<1>4. \A r \in SUBSET T : Summable(g, r) /\ SumFunctionOnSet(g, r) \in Nat
  <2>1. \A r \in SUBSET T : Summable(g, r)
    BY FS_Subset DEF Summable
  <2>2. QED
    BY <2>1, SumNat
<1>5. \A r \in SUBSET S : Summable(f, r) /\ SumFunctionOnSet(f, r) \in Nat
  <2>1. \A r \in SUBSET S : Summable(f, r)
    BY FS_Subset DEF Summable
  <2>2. QED
    BY <2>1, SumNat
<1>6. CASE t = {}
  <2>1. S \cap t = {}
    BY <1>6
  <2>2. QED
    BY <1>3, <1>6, <2>1, SumEmpty
<1>7. CASE t # {}
  <2>1. PICK y \in t : TRUE
    BY <1>7
  <2>2. PICK r, s : r = t \ {y} /\ s = S \cap r
    OBVIOUS
  <2>3. SumFunctionOnSet(f, s) <= SumFunctionOnSet(g, r)
    BY <1>2, <1>3, <2>1, <2>2
  <2>4. SumFunctionOnSet(g, t) = SumFunctionOnSet(g, r) + g[y]
    BY <1>3, <1>4, <2>1, <2>2, SumAdd
  <2>5. g[y] \in Nat /\ SumFunctionOnSet(g, r) \in Nat
    BY <1>3, <1>4, <2>1, <2>2 DEF Summable
  <2>6. CASE y \in S
    <3>1. S \cap t \in SUBSET S /\ y \in S \cap t /\ (S \cap t) \ {y} = s
      BY <2>1, <2>2, <2>6
    <3>2. SumFunctionOnSet(f, S \cap t) = SumFunctionOnSet(f, s) + f[y]
      BY <1>5, <3>1, SumAdd
    <3>3. f[y] \in Nat /\ f[y] <= g[y] /\ SumFunctionOnSet(f, s) \in Nat
      BY <1>5, <2>2, <2>6 DEF Summable
    <3>4. QED
      BY <1>3, <2>3, <2>4, <2>5, <3>2, <3>3
  <2>7. CASE y \notin S
    <3>1. S \cap t = s /\ s \in SUBSET S
      BY <2>2, <2>7
    <3>2. SumFunctionOnSet(f, s) \in Nat
      BY <1>5, <3>1
    <3>3. QED
      BY <1>3, <2>3, <2>4, <2>5, <3>1, <3>2
  <2>8. QED
    BY <2>6, <2>7
<1>8. QED
  BY <1>6, <1>7

-----------------------------------------------------------------------------
(* The same of whole functions.                                            *)

LEMMA SumOfNone == ASSUME NEW f \in [{} -> Nat] PROVE SumFunction(f) = 0
BY SumEmpty DEF SumFunction

LEMMA SumIsNat ==
  ASSUME NEW S, IsFiniteSet(S), NEW f \in [S -> Nat]
  PROVE  SumFunction(f) \in Nat
BY SumNat DEF SumFunction, Summable

\* The sum without one element.
LEMMA SumOfRest ==
  ASSUME NEW S, IsFiniteSet(S), NEW f \in [S -> Nat], NEW y \in S,
         NEW g, g = [x \in S \ {y} |-> f[x]]
  PROVE  SumFunction(f) = SumFunction(g) + f[y]
<1>1. PICK r : r = S \ {y}
  OBVIOUS
<1>2. Summable(f, S) /\ Summable(f, r) /\ Summable(g, r) /\ DOMAIN g = r /\ DOMAIN f = S
  BY <1>1, FS_Subset DEF Summable
<1>3. \A x \in r : f[x] = g[x] /\ f[x] \in Nat
  BY <1>1
<1>4. /\ SumFunctionOnSet(f, r) <= SumFunctionOnSet(g, r)
      /\ SumFunctionOnSet(g, r) <= SumFunctionOnSet(f, r)
  BY <1>2, <1>3, SumMonotone
<1>5. SumFunctionOnSet(f, r) \in Nat /\ SumFunctionOnSet(g, r) \in Nat
  BY <1>2, SumNat
<1>6. SumFunctionOnSet(f, S) = SumFunctionOnSet(f, r) + f[y]
  BY <1>1, <1>2, SumAdd
<1>7. QED
  BY <1>2, <1>4, <1>5, <1>6 DEF SumFunction

\* A sum over more, and of more, is not less.
LEMMA SumOfMore ==
  ASSUME NEW S, NEW T, S \subseteq T, IsFiniteSet(T),
         NEW f \in [S -> Nat], NEW g \in [T -> Nat], \A x \in S : f[x] <= g[x]
  PROVE  SumFunction(f) <= SumFunction(g)
<1>1. Summable(f, S) /\ Summable(g, T)
  BY FS_Subset DEF Summable
<1>2. QED
  BY <1>1, SumMonotone DEF SumFunction

\* A finite set of naturals has a last one: of the sets of those above one of
\* them, one is least.
LEMMA LastExists ==
  ASSUME NEW S \in SUBSET Nat, IsFiniteSet(S), S # {}
  PROVE  \E m \in S : \A s \in S : s <= m
<1> DEFINE Above(m) == {s \in S : m < s}
           T == {Above(m) : m \in S}
<1>1. T \subseteq FiniteSubsetsOf(S) /\ T # {}
  <2>1. ASSUME NEW m \in S PROVE Above(m) \in FiniteSubsetsOf(S)
    <3>1. Above(m) \in SUBSET S
      OBVIOUS
    <3> HIDE DEF Above
    <3>2. QED
      BY <3>1, FS_Subset DEF FiniteSubsetsOf
  <2>2. QED
    BY <2>1
<1>2. PICK X \in T : \A Y \in T : <<Y, X>> \notin StrictSubsetOrdering(S)
  <2>1. IsWellFoundedOn(StrictSubsetOrdering(S), FiniteSubsetsOf(S))
    BY FS_StrictSubsetOrderingWellFounded
  <2> HIDE DEF T
  <2>2. QED
    BY <1>1, <2>1, WFMin
<1>3. PICK m \in S : X = Above(m)
  BY <1>2
<1>4. ASSUME NEW s \in S, m < s PROVE FALSE
  <2>1. Above(s) \in T /\ Above(s) \subseteq X /\ s \in X /\ s \notin Above(s)
    <3>1. Above(s) \in T
      OBVIOUS
    <3>2. \A k \in S : s < k => m < k
      BY <1>4
    <3>3. s \notin Above(s)
      BY <1>4
    <3>4. QED
      BY <1>3, <1>4, <3>1, <3>2, <3>3
  <2>2. Above(s) \in SUBSET S /\ X \in SUBSET S
    BY <1>3
  <2>3. <<Above(s), X>> \in StrictSubsetOrdering(S)
    BY <2>1, <2>2 DEF StrictSubsetOrdering
  <2>4. QED
    BY <1>2, <2>1, <2>3
<1>5. QED
  BY <1>4
=============================================================================
