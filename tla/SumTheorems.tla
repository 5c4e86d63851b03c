------------------------------ MODULE SumTheorems ------------------------------
(***************************************************************************)
(* Sums of numbers over finite sets, as SumFunctionOnSet of the module     *)
(* Functions defines them: what one number more, one less or another one   *)
(* changes.  They are recursive functions, reasoned about by induction,    *)
(* which the first part makes citable.                                     *)
(***************************************************************************)
EXTENDS Integers, Functions, FiniteSets, FiniteSetTheorems, WellFoundedInduction, TLAPS

\* Induction over the natural numbers, and the least of a set of them.  (The library's theorems
\* have an operator for a parameter.)
Before == {ss \in Nat \X Nat : ss[1] < ss[2]}

LEMMA BeforeIsWellFounded == IsWellFoundedOn(Before, Nat)
  BY NatLessThanWellFounded DEF Before, OpToRel

LEMMA NatInduct ==
  ASSUME NEW T, 0 \in T, \A n \in Nat : n \in T => n + 1 \in T
  PROVE  \A n \in Nat : n \in T
<1> SUFFICES ASSUME Nat \ T # {} PROVE FALSE
  OBVIOUS
<1>1. PICK m \in Nat \ T : \A k \in Nat \ T : <<k, m>> \notin Before
  BY WFMin, BeforeIsWellFounded
<1>2. \A k \in Nat : k < m => k \in T
  BY <1>1 DEF Before
<1>3. m # 0 /\ m - 1 \in Nat
  BY <1>1
<1>. QED
  BY <1>1, <1>2, <1>3

\* What SumFunctionOnSet unfolds to, and the function that it finds.
One(s) == CHOOSE x \in s : TRUE
Turn(f, g, s) == IF s = {} THEN 0 ELSE f[One(s)] + g[s \ {One(s)}]
Adds(g, f, S) == g = [s \in SUBSET S |-> Turn(f, g, s)]
Adder(f, S) == CHOOSE g : Adds(g, f, S)

LEMMA SumUnfolds == ASSUME NEW f, NEW S PROVE SumFunctionOnSet(f, S) = Adder(f, S)[S]
  BY DEF SumFunctionOnSet, FoldFunctionOnSet, MapThenFoldSet, Adder, Adds, Turn, One

LEMMA OneIsIn == ASSUME NEW s, s # {} PROVE One(s) \in s
  BY DEF One

\* The numbers that are summed.
NatOn(f, S) == \A x \in S : f[x] \in Nat

LEMMA SmallerSet ==
  ASSUME NEW S, IsFiniteSet(S), NEW s \in SUBSET S
  PROVE  /\ IsFiniteSet(s) /\ Cardinality(s) \in Nat
         /\ Cardinality(s) <= Cardinality(S)
         /\ Cardinality(s) = 0 <=> s = {}
         /\ \A x \in s : Cardinality(s \ {x}) = Cardinality(s) - 1 /\ s \ {x} \in SUBSET S
<1>1. IsFiniteSet(s) /\ Cardinality(s) <= Cardinality(S)
  BY FS_Subset
<1>2. Cardinality(s) \in Nat
  BY <1>1, FS_CardinalityType
<1>3. Cardinality(s) = 0 <=> s = {}
  BY <1>1, FS_EmptySet
<1>4. \A x \in s : Cardinality(s \ {x}) = Cardinality(s) - 1
  BY <1>1, FS_RemoveElement
<1>. QED
  BY <1>1, <1>2, <1>3, <1>4

LEMMA AdderExists ==
  ASSUME NEW f, NEW S, IsFiniteSet(S), NatOn(f, S)
  PROVE  Adder(f, S) \in [SUBSET S -> Nat] /\ Adds(Adder(f, S), f, S)
<1> DEFINE Good(g, n) == \A s \in SUBSET S : Cardinality(s) <= n => g[s] = Turn(f, g, s)
           T == {n \in Nat : \E g \in [SUBSET S -> Nat] : Good(g, n)}
<1>0. \A g \in [SUBSET S -> Nat] : \A s \in SUBSET S : Turn(f, g, s) \in Nat
  BY OneIsIn DEF NatOn, Turn
<1>1. 0 \in T
  <2>1. [s \in SUBSET S |-> 0] \in [SUBSET S -> Nat]
    OBVIOUS
  <2>2. Good([s \in SUBSET S |-> 0], 0)
    BY SmallerSet DEF Turn
  <2>. QED
    BY <2>1, <2>2
<1>2. ASSUME NEW n \in Nat, n \in T PROVE n + 1 \in T
  <2>1. PICK g \in [SUBSET S -> Nat] : Good(g, n)
    BY <1>2
  <2> DEFINE h == [s \in SUBSET S |-> Turn(f, g, s)]
  <2>2. h \in [SUBSET S -> Nat]
    BY <1>0, <2>1
  <2>3. ASSUME NEW s \in SUBSET S, Cardinality(s) <= n + 1 PROVE h[s] = Turn(f, h, s)
    <3>1. CASE s = {}
      BY <3>1 DEF Turn
    <3>2. CASE s # {}
      <4>1. One(s) \in s
        BY <3>2, OneIsIn
      <4>2. s \ {One(s)} \in SUBSET S /\ Cardinality(s \ {One(s)}) <= n
        BY <2>3, <4>1, SmallerSet
      <4>3. g[s \ {One(s)}] = h[s \ {One(s)}]
        BY <2>1, <4>2
      <4>. QED
        BY <4>3 DEF Turn
    <3>. QED
      BY <3>1, <3>2
  <2>4. Good(h, n + 1)
    BY <2>3
  <2>. QED
    <3> HIDE DEF Good, h
    <3>. QED
      BY <2>2, <2>4
<1>3. Cardinality(S) \in T
  <2>1. Cardinality(S) \in Nat
    BY FS_CardinalityType
  <2> HIDE DEF T
  <2>2. \A n \in Nat : n \in T
    BY <1>1, <1>2, NatInduct
  <2>. QED
    BY <2>1, <2>2
<1>4. PICK g \in [SUBSET S -> Nat] : Good(g, Cardinality(S))
  BY <1>3
<1>5. Adds(g, f, S)
  BY <1>4, SmallerSet DEF Adds
<1>6. Adds(Adder(f, S), f, S)
  BY <1>5 DEF Adder
<1>7. Adder(f, S) \in [SUBSET S -> Nat]
  <2> DEFINE a == Adder(f, S)
             U == {n \in Nat : \A s \in SUBSET S : Cardinality(s) = n => a[s] \in Nat}
  <2> HIDE DEF a
  <2>0. a = [s \in SUBSET S |-> Turn(f, a, s)]
    BY <1>6 DEF Adds, a
  <2>1. 0 \in U
    BY <2>0, SmallerSet DEF Turn
  <2>2. ASSUME NEW n \in Nat, n \in U PROVE n + 1 \in U
    <3>1. ASSUME NEW s \in SUBSET S, Cardinality(s) = n + 1 PROVE a[s] \in Nat
      <4>1. One(s) \in s
        BY <3>1, OneIsIn, SmallerSet
      <4>2. s \ {One(s)} \in SUBSET S /\ Cardinality(s \ {One(s)}) = n
        BY <3>1, <4>1, SmallerSet
      <4>3. a[s \ {One(s)}] \in Nat
        BY <2>2, <4>2
      <4>4. a[s] = f[One(s)] + a[s \ {One(s)}]
        BY <2>0, <4>1 DEF Turn
      <4>. QED
        BY <4>1, <4>3, <4>4 DEF NatOn
    <3>. QED
      BY <3>1
  <2>3. \A n \in Nat : n \in U
    <3> HIDE DEF U
    <3>. QED
      BY <2>1, <2>2, NatInduct
  <2>4. \A s \in SUBSET S : a[s] \in Nat
    BY <2>3, SmallerSet
  <2>. QED
    BY <2>0, <2>4 DEF a
<1>. QED
  BY <1>6, <1>7

\* Two adders agree where both are defined.
LEMMA AddersAgree ==
  ASSUME NEW f, NEW S, IsFiniteSet(S), NEW T \in SUBSET S, NEW g, NEW h, Adds(g, f, S), Adds(h, f, T)
  PROVE  \A s \in SUBSET T : g[s] = h[s]
<1> DEFINE U == {n \in Nat : \A s \in SUBSET T : Cardinality(s) = n => g[s] = h[s]}
<1>0. \A s \in SUBSET T : g[s] = Turn(f, g, s) /\ h[s] = Turn(f, h, s)
  <2>1. \A s \in SUBSET S : g[s] = Turn(f, g, s)
    BY DEF Adds
  <2>2. \A s \in SUBSET T : h[s] = Turn(f, h, s)
    BY DEF Adds
  <2>. QED
    BY <2>1, <2>2
<1>1. 0 \in U
  BY <1>0, SmallerSet, ZenonT(100) DEF Turn
<1>2. ASSUME NEW n \in Nat, n \in U PROVE n + 1 \in U
  <2>1. ASSUME NEW s \in SUBSET T, Cardinality(s) = n + 1 PROVE g[s] = h[s]
    <3>1. s \in SUBSET S /\ s # {}
      BY <2>1, SmallerSet
    <3>2. One(s) \in s
      BY <3>1, OneIsIn
    <3>3. s \ {One(s)} \in SUBSET T /\ Cardinality(s \ {One(s)}) = n
      BY <2>1, <3>1, <3>2, SmallerSet
    <3>. QED
      BY <1>0, <1>2, <3>1, <3>3 DEF Turn
  <2>. QED
    BY <2>1
<1>3. \A n \in Nat : n \in U
  <2> HIDE DEF U
  <2>. QED
    BY <1>1, <1>2, NatInduct
<1>. QED
  BY <1>3, SmallerSet

\* A sum is a natural number, and it is that of one element and of the rest.
LEMMA SumType ==
  ASSUME NEW f, NEW S, IsFiniteSet(S), NatOn(f, S)
  PROVE  SumFunctionOnSet(f, S) \in Nat
<1>1. Adder(f, S) \in [SUBSET S -> Nat] /\ S \in SUBSET S
  BY AdderExists
<1>. QED
  BY <1>1, SumUnfolds

LEMMA SumEmpty == ASSUME NEW f PROVE SumFunctionOnSet(f, {}) = 0
<1>1. IsFiniteSet({}) /\ NatOn(f, {})
  BY FS_EmptySet DEF NatOn
<1>2. Adds(Adder(f, {}), f, {}) /\ {} \in SUBSET {}
  BY <1>1, AdderExists
<1>3. Adder(f, {})[{}] = 0
  BY <1>2 DEF Adds, Turn
<1>. QED
  BY <1>3, SumUnfolds

LEMMA SumOne ==
  ASSUME NEW f, NEW S, IsFiniteSet(S), NatOn(f, S), S # {}
  PROVE  SumFunctionOnSet(f, S) = f[One(S)] + SumFunctionOnSet(f, S \ {One(S)})
<1> DEFINE T == S \ {One(S)}
<1>1. One(S) \in S /\ T \in SUBSET S /\ IsFiniteSet(T) /\ NatOn(f, T)
  BY OneIsIn, SmallerSet DEF NatOn
<1>2. Adds(Adder(f, S), f, S) /\ Adds(Adder(f, T), f, T)
  BY <1>1, AdderExists
<1>3. Adder(f, S)[T] = Adder(f, T)[T]
  <2>1. \A s \in SUBSET T : Adder(f, S)[s] = Adder(f, T)[s]
    BY <1>1, <1>2, AddersAgree
  <2>. QED
    BY <2>1
<1>4. Adder(f, S)[S] = f[One(S)] + Adder(f, S)[T]
  BY <1>2 DEF Adds, Turn
<1>. QED
  BY <1>3, <1>4, SumUnfolds

LEMMA SumRemove ==
  ASSUME NEW f, NEW S, IsFiniteSet(S), NatOn(f, S), NEW a \in S
  PROVE  SumFunctionOnSet(f, S) = f[a] + SumFunctionOnSet(f, S \ {a})
<1> DEFINE U == {n \in Nat : \A s \in SUBSET S : Cardinality(s) = n =>
                   \A x \in s : SumFunctionOnSet(f, s) = f[x] + SumFunctionOnSet(f, s \ {x})}
<1>1. 0 \in U
  BY SmallerSet
<1>2. ASSUME NEW n \in Nat, n \in U PROVE n + 1 \in U
  <2>1. ASSUME NEW s \in SUBSET S, Cardinality(s) = n + 1, NEW x \in s
        PROVE  SumFunctionOnSet(f, s) = f[x] + SumFunctionOnSet(f, s \ {x})
    <3> DEFINE y == One(s)
    <3>1. y \in s /\ IsFiniteSet(s) /\ NatOn(f, s)
      BY OneIsIn, SmallerSet DEF NatOn
    <3>2. SumFunctionOnSet(f, s) = f[y] + SumFunctionOnSet(f, s \ {y})
      BY <3>1, SumOne
    <3>3. CASE x = y
      BY <3>2, <3>3
    <3>4. CASE x # y
      <4> HIDE DEF y
      <4>1. /\ s \ {x} \in SUBSET S /\ Cardinality(s \ {x}) = n /\ y \in s \ {x}
            /\ s \ {y} \in SUBSET S /\ Cardinality(s \ {y}) = n /\ x \in s \ {y}
        BY <2>1, <3>1, <3>4, SmallerSet
      <4>2. /\ SumFunctionOnSet(f, s \ {x}) = f[y] + SumFunctionOnSet(f, (s \ {x}) \ {y})
            /\ SumFunctionOnSet(f, s \ {y}) = f[x] + SumFunctionOnSet(f, (s \ {y}) \ {x})
        BY <1>2, <4>1
      <4>3. (s \ {x}) \ {y} = (s \ {y}) \ {x}
        OBVIOUS
      <4>4. SumFunctionOnSet(f, (s \ {x}) \ {y}) \in Nat /\ f[x] \in Nat /\ f[y] \in Nat
        <5>1. (s \ {x}) \ {y} \in SUBSET S /\ NatOn(f, (s \ {x}) \ {y})
          BY DEF NatOn
        <5>2. IsFiniteSet((s \ {x}) \ {y})
          BY <5>1, SmallerSet
        <5>. QED
          BY <3>1, <5>1, <5>2, SumType DEF NatOn
      <4>5. SumFunctionOnSet(f, s \ {y}) = f[x] + SumFunctionOnSet(f, (s \ {x}) \ {y})
        BY <4>2, <4>3
      <4>. QED
        BY <3>2, <4>2, <4>4, <4>5
    <3>. QED
      BY <3>3, <3>4
  <2>. QED
    BY <2>1
<1>3. \A n \in Nat : n \in U
  <2> HIDE DEF U
  <2>. QED
    BY <1>1, <1>2, NatInduct
<1>. QED
  BY <1>3, SmallerSet

\* The sum of the same numbers.
LEMMA SumSame ==
  ASSUME NEW f, NEW g, NEW S, IsFiniteSet(S), NatOn(f, S), \A x \in S : f[x] = g[x]
  PROVE  SumFunctionOnSet(f, S) = SumFunctionOnSet(g, S)
<1> DEFINE U == {n \in Nat : \A s \in SUBSET S : Cardinality(s) = n =>
                   SumFunctionOnSet(f, s) = SumFunctionOnSet(g, s)}
<1>1. 0 \in U
  BY SmallerSet, SumEmpty
<1>2. ASSUME NEW n \in Nat, n \in U PROVE n + 1 \in U
  <2>1. ASSUME NEW s \in SUBSET S, Cardinality(s) = n + 1
        PROVE  SumFunctionOnSet(f, s) = SumFunctionOnSet(g, s)
    <3>1. s # {} /\ IsFiniteSet(s) /\ NatOn(f, s) /\ NatOn(g, s)
      BY <2>1, SmallerSet DEF NatOn
    <3>2. PICK x \in s : TRUE
      BY <3>1
    <3>3. s \ {x} \in SUBSET S /\ Cardinality(s \ {x}) = n
      BY <2>1, <3>1, <3>2, SmallerSet
    <3>4. SumFunctionOnSet(f, s \ {x}) = SumFunctionOnSet(g, s \ {x})
      BY <1>2, <3>3
    <3>. QED
      BY <3>1, <3>2, <3>4, SumRemove
  <2>. QED
    BY <2>1
<1>3. \A n \in Nat : n \in U
  <2> HIDE DEF U
  <2>. QED
    BY <1>1, <1>2, NatInduct
<1>. QED
  BY <1>3, SmallerSet

\* One number that changes changes the sum by as much.
LEMMA SumUpdate ==
  ASSUME NEW f, NEW g, NEW S, IsFiniteSet(S), NatOn(f, S), NatOn(g, S), NEW a \in S,
         \A x \in S \ {a} : f[x] = g[x]
  PROVE  /\ SumFunctionOnSet(f, S) \in Nat /\ SumFunctionOnSet(g, S) \in Nat
         /\ SumFunctionOnSet(f, S) >= f[a]
         /\ SumFunctionOnSet(g, S) = SumFunctionOnSet(f, S) - f[a] + g[a]
<1>1. S \ {a} \in SUBSET S /\ NatOn(f, S \ {a}) /\ f[a] \in Nat /\ g[a] \in Nat
  BY DEF NatOn
<1>2. SumFunctionOnSet(f, S \ {a}) = SumFunctionOnSet(g, S \ {a}) /\ SumFunctionOnSet(f, S \ {a}) \in Nat
  BY <1>1, SmallerSet, SumSame, SumType
<1>. QED
  BY <1>1, <1>2, SumRemove

\* A sum of zeros.
LEMMA SumZero ==
  ASSUME NEW f, NEW S, IsFiniteSet(S), \A x \in S : f[x] = 0
  PROVE  SumFunctionOnSet(f, S) = 0
<1> DEFINE U == {n \in Nat : \A s \in SUBSET S : Cardinality(s) = n => SumFunctionOnSet(f, s) = 0}
<1>1. 0 \in U
  BY SmallerSet, SumEmpty
<1>2. ASSUME NEW n \in Nat, n \in U PROVE n + 1 \in U
  <2>1. ASSUME NEW s \in SUBSET S, Cardinality(s) = n + 1 PROVE SumFunctionOnSet(f, s) = 0
    <3>1. s # {} /\ IsFiniteSet(s) /\ NatOn(f, s)
      BY <2>1, SmallerSet DEF NatOn
    <3>2. PICK x \in s : TRUE
      BY <3>1
    <3>3. s \ {x} \in SUBSET S /\ Cardinality(s \ {x}) = n
      BY <2>1, <3>1, <3>2, SmallerSet
    <3>4. SumFunctionOnSet(f, s \ {x}) = 0
      BY <1>2, <3>3
    <3>. QED
      BY <3>1, <3>2, <3>4, SumRemove
  <2>. QED
    BY <2>1
<1>3. \A n \in Nat : n \in U
  <2> HIDE DEF U
  <2>. QED
    BY <1>1, <1>2, NatInduct
<1>. QED
  BY <1>3, SmallerSet
================================================================================
