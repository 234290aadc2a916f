------------------------------ MODULE SumTheorems ------------------------------
(***************************************************************************)
(* Facts about MapThenSumSet over the values of a function, for finite     *)
(* sets: it is a natural number, and changing the function at one place    *)
(* changes it by the difference.                                           *)
(*                                                                         *)
(* MapThenSumSet is a recursive function on the subsets of its argument.   *)
(* That there is such a function, and what follows from its equation, is   *)
(* shown by induction over subsets, in a form without operator parameters: *)
(* a set of subsets that holds every set whose proper subsets it holds     *)
(* holds all of them.                                                      *)
(***************************************************************************)
EXTENDS Integers, FiniteSetsExt, FiniteSetTheorems, TLAPS

LEMMA SubsetInduction ==
  ASSUME NEW S, IsFiniteSet(S), NEW B,
         \A T \in SUBSET S : (\A U \in SUBSET T : U # T => U \in B) => T \in B
  PROVE  \A T \in SUBSET S : T \in B
<1> DEFINE Rest == {T \in SUBSET S : T \notin B}
<1> SUFFICES ASSUME Rest # {} PROVE FALSE
  OBVIOUS
<1>1. Rest \subseteq FiniteSubsetsOf(S)
  BY FS_Subset DEF FiniteSubsetsOf
<1>2. \E T \in Rest : \A U \in Rest : ~ (<<U, T>> \in StrictSubsetOrdering(S))
  <2> HIDE DEF Rest
  <2> QED BY <1>1, FS_StrictSubsetOrderingWellFounded, WFMin
<1>3. PICK T \in Rest : \A U \in Rest : ~ (<<U, T>> \in StrictSubsetOrdering(S))
  BY <1>2
<1>4. \A U \in SUBSET T : U # T => U \in B
  BY <1>3 DEF StrictSubsetOrdering
<1> QED
  BY <1>4

-----------------------------------------------------------------------------
\* The function that MapThenSumSet of c's values on S is defined by.
Picked(s) == CHOOSE x \in s : TRUE
SumsUp(f, c, S) ==
  f = [s \in SUBSET S |-> IF s = {} THEN 0 ELSE c[Picked(s)] + f[s \ {Picked(s)}]]
Sum(c, S) == (CHOOSE f : SumsUp(f, c, S))[S]

LEMMA SumIsMapThenSumSet ==
  ASSUME NEW S, NEW c
  PROVE  MapThenSumSet(LAMBDA x : c[x], S) = Sum(c, S)
BY DEF MapThenSumSet, MapThenFoldSet, Sum, SumsUp, Picked

LEMMA PickedIn == \A s : s # {} => Picked(s) \in s
BY DEF Picked

LEMMA SumsUpAt ==
  ASSUME NEW S, NEW c, NEW f, SumsUp(f, c, S)
  PROVE  \A s \in SUBSET S :
           f[s] = IF s = {} THEN 0 ELSE c[Picked(s)] + f[s \ {Picked(s)}]
BY DEF SumsUp

\* Two such functions agree where both are defined.
LEMMA SumsUpUnique ==
  ASSUME NEW S, IsFiniteSet(S), NEW c, NEW f, NEW g, NEW T \in SUBSET S, NEW U \in SUBSET S,
         SumsUp(f, c, T), SumsUp(g, c, U)
  PROVE  \A s \in SUBSET (T \cap U) : f[s] = g[s]
<1> DEFINE B == {s \in SUBSET (T \cap U) : f[s] = g[s]}
<1>1. IsFiniteSet(T \cap U)
  BY FS_Subset
<1>2. ASSUME NEW s \in SUBSET (T \cap U), \A u \in SUBSET s : u # s => u \in B
      PROVE  s \in B
  <2>0. s \in SUBSET T /\ s \in SUBSET U
    OBVIOUS
  <2>1. f[s] = IF s = {} THEN 0 ELSE c[Picked(s)] + f[s \ {Picked(s)}]
    BY <2>0 DEF SumsUp
  <2>2. g[s] = IF s = {} THEN 0 ELSE c[Picked(s)] + g[s \ {Picked(s)}]
    BY <2>0 DEF SumsUp
  <2>3. s # {} => f[s \ {Picked(s)}] = g[s \ {Picked(s)}]
    BY <1>2, PickedIn
  <2> QED
    BY <2>1, <2>2, <2>3
<1>3. \A s \in SUBSET (T \cap U) : s \in B
  <2> HIDE DEF B
  <2> QED BY <1>1, <1>2, SubsetInduction
<1> QED
  BY <1>3

LEMMA SumsUpExists ==
  ASSUME NEW S, IsFiniteSet(S), NEW c
  PROVE  \E f : SumsUp(f, c, S)
<1> DEFINE B == {T \in SUBSET S : \E f : SumsUp(f, c, T)}
<1>1. ASSUME NEW T \in SUBSET S, \A U \in SUBSET T : U # T => U \in B
      PROVE  T \in B
  <2> DEFINE G(U) == CHOOSE f : SumsUp(f, c, U)
             v(U) == G(U)[U]
             body == IF T = {} THEN 0 ELSE c[Picked(T)] + v(T \ {Picked(T)})
             h == [s \in SUBSET T |-> IF s = T THEN body ELSE v(s)]
  <2>1. \A U \in SUBSET T : U # T => SumsUp(G(U), c, U)
    BY <1>1
  <2>2. ASSUME NEW s \in SUBSET T
        PROVE  h[s] = IF s = {} THEN 0 ELSE c[Picked(s)] + h[s \ {Picked(s)}]
    <3>1. s # {} => Picked(s) \in s
      BY PickedIn
    <3>2. CASE s = T
      BY <3>1, <3>2
    <3>3. CASE s # T
      <4>1. SumsUp(G(s), c, s)
        BY <2>1, <3>3
      <4>2. G(s)[s] = IF s = {} THEN 0 ELSE c[Picked(s)] + G(s)[s \ {Picked(s)}]
        <5> HIDE DEF G
        <5> QED BY <4>1, SumsUpAt
      <4>3. ASSUME s # {}
            PROVE  G(s)[s \ {Picked(s)}] = v(s \ {Picked(s)})
        <5>1. SumsUp(G(s \ {Picked(s)}), c, s \ {Picked(s)})
          BY <2>1, <3>1, <4>3
        <5> HIDE DEF G
        <5> QED BY <4>1, <5>1, <3>1, SumsUpUnique
      <4> HIDE DEF G
      <4>4. h[s] = v(s)
        BY <3>3
      <4>5. s # {} => h[s \ {Picked(s)}] = v(s \ {Picked(s)})
        BY <3>1, <3>3
      <4> QED
        BY <4>2, <4>3, <4>4, <4>5
    <3> QED
      BY <3>2, <3>3
  <2> HIDE DEF body, v
  <2>3. SumsUp(h, c, T)
    BY <2>2 DEF SumsUp
  <2> QED
    BY <2>3
<1>2. \A T \in SUBSET S : T \in B
  <2> HIDE DEF B
  <2> QED BY <1>1, SubsetInduction
<1> QED
  BY <1>2

LEMMA SumDefined ==
  ASSUME NEW S, IsFiniteSet(S), NEW c
  PROVE  SumsUp(CHOOSE f : SumsUp(f, c, S), c, S)
BY SumsUpExists

-----------------------------------------------------------------------------
\* A sum of natural numbers is one.
THEOREM SumIsNat ==
  ASSUME NEW S, IsFiniteSet(S), NEW c, \A x \in S : c[x] \in Nat
  PROVE  Sum(c, S) \in Nat
<1> DEFINE f == CHOOSE h : SumsUp(h, c, S)
           B == {s \in SUBSET S : f[s] \in Nat}
<1>1. SumsUp(f, c, S)
  BY SumDefined
<1> HIDE DEF f
<1>2. ASSUME NEW s \in SUBSET S, \A u \in SUBSET s : u # s => u \in B
      PROVE  s \in B
  <2>1. f[s] = IF s = {} THEN 0 ELSE c[Picked(s)] + f[s \ {Picked(s)}]
    BY <1>1 DEF SumsUp
  <2>2. s # {} => Picked(s) \in s /\ f[s \ {Picked(s)}] \in {x \in Int : x \in Nat}
    BY <1>2, PickedIn
  <2> QED
    BY <2>1, <2>2
<1>3. \A s \in SUBSET S : s \in B
  <2> HIDE DEF B
  <2> QED BY <1>2, SubsetInduction
<1> QED
  BY <1>3 DEF Sum, f

\* Nothing but zeros adds up to zero.
THEOREM SumOfZeros ==
  ASSUME NEW S, IsFiniteSet(S), NEW c, \A x \in S : c[x] = 0
  PROVE  Sum(c, S) = 0
<1> DEFINE f == CHOOSE h : SumsUp(h, c, S)
           B == {s \in SUBSET S : f[s] = 0}
<1>1. SumsUp(f, c, S)
  BY SumDefined
<1> HIDE DEF f
<1>2. ASSUME NEW s \in SUBSET S, \A u \in SUBSET s : u # s => u \in B
      PROVE  s \in B
  <2>1. f[s] = IF s = {} THEN 0 ELSE c[Picked(s)] + f[s \ {Picked(s)}]
    BY <1>1 DEF SumsUp
  <2>2. s # {} => Picked(s) \in s /\ f[s \ {Picked(s)}] \in {x \in Int : x = 0}
    BY <1>2, PickedIn
  <2> QED
    BY <2>1, <2>2
<1>3. \A s \in SUBSET S : s \in B
  <2> HIDE DEF B
  <2> QED BY <1>2, SubsetInduction
<1> QED
  BY <1>3 DEF Sum, f

\* A change at one place changes the sum by as much.
THEOREM SumChanges ==
  ASSUME NEW S, IsFiniteSet(S), NEW c, \A x \in S : c[x] \in Nat,
         NEW d, \A x \in S : d[x] \in Nat,
         NEW m \in S, \A x \in S \ {m} : d[x] = c[x]
  PROVE  Sum(d, S) = Sum(c, S) + d[m] - c[m]
<1> DEFINE f == CHOOSE h : SumsUp(h, c, S)
           g == CHOOSE h : SumsUp(h, d, S)
           B == {s \in SUBSET S : /\ f[s] \in Int
                                  /\ g[s] = IF m \in s THEN f[s] + d[m] - c[m] ELSE f[s]}
<1>1. SumsUp(f, c, S) /\ SumsUp(g, d, S)
  BY SumDefined
<1> HIDE DEF f, g
<1>2. ASSUME NEW s \in SUBSET S, \A u \in SUBSET s : u # s => u \in B
      PROVE  s \in B
  <2>1. CASE s = {}
    BY <1>1, <2>1, SumsUpAt
  <2>2. CASE s # {}
    <3>1. Picked(s) \in s /\ s \ {Picked(s)} \in B
      BY <1>2, <2>2, PickedIn
    <3>2. f[s] = c[Picked(s)] + f[s \ {Picked(s)}]
      BY <1>1, <2>2 DEF SumsUp
    <3>3. g[s] = d[Picked(s)] + g[s \ {Picked(s)}]
      BY <1>1, <2>2 DEF SumsUp
    <3> QED
      BY <3>1, <3>2, <3>3
  <2> QED
    BY <2>1, <2>2
<1>3. \A s \in SUBSET S : s \in B
  <2> HIDE DEF B
  <2> QED BY <1>2, SubsetInduction
<1> QED
  BY <1>3 DEF Sum, f, g
=============================================================================
