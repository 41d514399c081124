--------------------------------- MODULE Sums ----------------------------------
(***************************************************************************)
(* Facts about sums over finite functions and sequences of numbers that    *)
(* the proofs about exposures and about the books need: SumFunction of the *)
(* community modules, whatever order it takes the elements in. Induction   *)
(* is over a set of numbers, so that no operator is a parameter.           *)
(***************************************************************************)
EXTENDS Functions, FiniteSetTheorems, SequenceTheorems, TLAPS

\* A set of natural numbers that contains a number whenever it contains all
\* smaller ones contains them all.
LEMMA StrongInduction ==
  ASSUME NEW P, \A n \in Nat : (\A m \in Nat : m < n => m \in P) => n \in P
  PROVE  Nat \subseteq P
<1> DEFINE T == {n \in Nat : n \notin P}
           R == OpToRel(<, Nat)
<1>1. IsWellFoundedOn(R, Nat)
  BY NatLessThanWellFounded
<1>2. CASE T # {}
  <2>1. T \subseteq Nat
    OBVIOUS
  <2>2. \E x \in T : \A y \in T : ~(<<y, x>> \in R)
    <3> HIDE DEF T, R
    <3> QED
      BY <1>1, <1>2, <2>1, WFMin
  <2>3. PICK x \in T : \A y \in T : ~(y < x)
    BY <2>2 DEF OpToRel
  <2> QED
    BY <2>3
<1> QED
  BY <1>2

\* The usual form of it.
LEMMA Induction ==
  ASSUME NEW P, 0 \in P, \A n \in Nat : n \in P => n + 1 \in P
  PROVE  Nat \subseteq P
<1>1. ASSUME NEW n \in Nat, \A m \in Nat : m < n => m \in P
      PROVE  n \in P
  <2>1. CASE n = 0
    BY <2>1
  <2>2. CASE n # 0
    <3>1. n - 1 \in Nat /\ n - 1 < n /\ (n - 1) + 1 = n
      BY <2>2
    <3> QED
      BY <1>1, <3>1
  <2> QED
    BY <2>1, <2>2
<1> QED
  BY <1>1, StrongInduction

-----------------------------------------------------------------------------
(* The recursion behind a sum: any element is taken out, then the rest.     *)

Chosen(s) == CHOOSE x \in s : TRUE

\* The equation SumFunctionOnSet is defined by, for the subsets of S.
SumsUp(g, f, S) ==
  g = [s \in SUBSET S |-> IF s = {} THEN 0 ELSE f[Chosen(s)] + g[s \ {Chosen(s)}]]

\* The sum is the value at S of some function that solves the equation.
LEMMA SumDef ==
  ASSUME NEW f, NEW S
  PROVE  SumFunctionOnSet(f, S) = (CHOOSE g : SumsUp(g, f, S))[S]
  BY DEF SumFunctionOnSet, FoldFunctionOnSet, MapThenFoldSet, SumsUp, Chosen

\* Taking an element out of a finite set leaves a smaller one.
LEMMA OneLess ==
  ASSUME NEW S, IsFiniteSet(S), NEW x \in S
  PROVE  /\ IsFiniteSet(S \ {x}) /\ Cardinality(S) \in Nat /\ Cardinality(S \ {x}) \in Nat
         /\ Cardinality(S \ {x}) = Cardinality(S) - 1
  BY FS_RemoveElement, FS_CardinalityType

\* Some function solves the equation.
LEMMA SumExists ==
  ASSUME NEW f, NEW S, IsFiniteSet(S), \A x \in S : f[x] \in Int
  PROVE  \E g \in [SUBSET S -> Int] : SumsUp(g, f, S)
<1> DEFINE Level(n) == {s \in SUBSET S : Cardinality(s) <= n}
           Solves(g, T) == \A s \in T : g[s] = IF s = {} THEN 0 ELSE f[Chosen(s)] + g[s \ {Chosen(s)}]
           P == {n \in Nat : \E g \in [Level(n) -> Int] : Solves(g, Level(n))}
<1>1. \A s \in SUBSET S : IsFiniteSet(s) /\ Cardinality(s) \in Nat
  BY FS_Subset, FS_CardinalityType
<1>2. \A s \in SUBSET S : s # {} =>
        /\ Chosen(s) \in s /\ Cardinality(s \ {Chosen(s)}) = Cardinality(s) - 1
        /\ s \ {Chosen(s)} \in SUBSET S
  BY <1>1, OneLess DEF Chosen
<1>3. 0 \in P
  <2>1. Level(0) = {{}}
    BY <1>1, FS_EmptySet
  <2> DEFINE g == [s \in {{}} |-> 0]
  <2>2. g \in [Level(0) -> Int] /\ Solves(g, Level(0))
    BY <2>1
  <2> QED
    BY <2>2
<1>4. ASSUME NEW n \in Nat, n \in P
      PROVE  n + 1 \in P
  <2>1. PICK g \in [Level(n) -> Int] : Solves(g, Level(n))
    BY <1>4
  <2> DEFINE h == [s \in Level(n + 1) |-> IF s \in Level(n) THEN g[s]
                                         ELSE f[Chosen(s)] + g[s \ {Chosen(s)}]]
  <2>2. ASSUME NEW s \in Level(n + 1), s # {}
        PROVE  /\ Chosen(s) \in S /\ s \ {Chosen(s)} \in Level(n)
               /\ s \ {Chosen(s)} \in Level(n + 1)
    BY <1>1, <1>2, <2>2
  <2>3. {} \in Level(n)
    BY FS_EmptySet
  <2>4. h \in [Level(n + 1) -> Int]
    <3>1. ASSUME NEW s \in Level(n + 1) PROVE h[s] \in Int
      <4>1. CASE s \in Level(n)
        <5>1. h[s] = g[s]
          BY <4>1
        <5> HIDE DEF Level, h
        <5> QED
          BY <2>1, <4>1, <5>1
      <4>2. CASE s \notin Level(n)
        <5>1. h[s] = f[Chosen(s)] + g[s \ {Chosen(s)}]
          BY <4>2
        <5>2. s # {}
          BY <2>3, <4>2
        <5>3. Chosen(s) \in S /\ s \ {Chosen(s)} \in Level(n)
          <6> HIDE DEF Level
          <6> QED
            BY <2>2, <3>1, <5>2
        <5>4. f[Chosen(s)] \in Int /\ g[s \ {Chosen(s)}] \in Int
          <6> HIDE DEF Level
          <6> QED
            BY <2>1, <5>3
        <5> QED
          BY <5>1, <5>4
      <4> QED
        BY <4>1, <4>2
    <3> HIDE DEF Level
    <3> QED
      BY <3>1
  <2>5. ASSUME NEW s \in Level(n + 1)
        PROVE  h[s] = IF s = {} THEN 0 ELSE f[Chosen(s)] + h[s \ {Chosen(s)}]
    BY <2>1, <2>2, <2>3
  <2>6. Solves(h, Level(n + 1)) /\ n + 1 \in Nat
    <3> HIDE DEF h
    <3> QED
      BY <2>5
  <2> HIDE DEF h, Level, Solves
  <2> QED
    BY <2>4, <2>6
<1>5. Cardinality(S) \in P
  <2> HIDE DEF P
  <2>1. Nat \subseteq P
    BY <1>3, <1>4, Induction
  <2> QED
    BY <2>1, FS_CardinalityType
<1>6. PICK g \in [Level(Cardinality(S)) -> Int] : Solves(g, Level(Cardinality(S)))
  BY <1>5
<1>7. Level(Cardinality(S)) = SUBSET S
  BY FS_Subset
<1>8. g = [s \in SUBSET S |-> IF s = {} THEN 0 ELSE f[Chosen(s)] + g[s \ {Chosen(s)}]]
  BY <1>6, <1>7
<1> QED
  BY <1>6, <1>7, <1>8 DEF SumsUp

\* What two of them solve together they solve alike.
LEMMA SumUnique ==
  ASSUME NEW f, NEW S, NEW T, IsFiniteSet(S), T \subseteq S,
         NEW g, SumsUp(g, f, S), NEW h, SumsUp(h, f, T)
  PROVE  \A s \in SUBSET T : g[s] = h[s]
<1> DEFINE P == {n \in Nat : \A s \in SUBSET T : Cardinality(s) = n => g[s] = h[s]}
<1>1. \A s \in SUBSET T : IsFiniteSet(s) /\ Cardinality(s) \in Nat
  BY FS_Subset, FS_CardinalityType
<1>2. \A s \in SUBSET T : /\ g[s] = IF s = {} THEN 0 ELSE f[Chosen(s)] + g[s \ {Chosen(s)}]
                          /\ h[s] = IF s = {} THEN 0 ELSE f[Chosen(s)] + h[s \ {Chosen(s)}]
  BY DEF SumsUp
<1>3. ASSUME NEW n \in Nat, \A m \in Nat : m < n => m \in P,
             NEW s \in SUBSET T, Cardinality(s) = n
      PROVE  g[s] = h[s]
  <2>1. CASE s = {}
    BY <1>2, <2>1
  <2>2. CASE s # {}
    <3>1. Chosen(s) \in s
      BY <2>2 DEF Chosen
    <3>2. /\ s \ {Chosen(s)} \in SUBSET T /\ Cardinality(s \ {Chosen(s)}) \in Nat
          /\ Cardinality(s \ {Chosen(s)}) < n
      BY <1>1, <1>3, <3>1, OneLess
    <3>3. g[s \ {Chosen(s)}] = h[s \ {Chosen(s)}]
      BY <1>3, <3>2
    <3> QED
      BY <1>2, <2>2, <3>3
  <2> QED
    BY <2>1, <2>2
<1>4. Nat \subseteq P
  <2>1. \A n \in Nat : (\A m \in Nat : m < n => m \in P) => n \in P
    BY <1>3
  <2> HIDE DEF P
  <2> QED
    BY <2>1, StrongInduction
<1> QED
  BY <1>1, <1>4

\* The sum of nothing.
LEMMA SumOnEmpty == \A f : SumFunctionOnSet(f, {}) = 0
<1> SUFFICES ASSUME NEW f PROVE SumFunctionOnSet(f, {}) = 0
  OBVIOUS
<1>1. \E g : SumsUp(g, f, {})
  BY SumExists, FS_EmptySet
<1>2. SumsUp(CHOOSE g : SumsUp(g, f, {}), f, {})
  BY <1>1
<1> QED
  BY <1>2, SumDef DEF SumsUp

\* The sum over a set is a number, and the chosen element and the rest.
LEMMA SumOnChosen ==
  ASSUME NEW f, NEW S, IsFiniteSet(S), \A x \in S : f[x] \in Int
  PROVE  /\ SumFunctionOnSet(f, S) \in Int
         /\ S # {} => /\ Chosen(S) \in S
                      /\ SumFunctionOnSet(f, S)
                           = f[Chosen(S)] + SumFunctionOnSet(f, S \ {Chosen(S)})
<1> DEFINE T == S \ {Chosen(S)}
           g == CHOOSE k : SumsUp(k, f, S)
           h == CHOOSE k : SumsUp(k, f, T)
<1>1. PICK k \in [SUBSET S -> Int] : SumsUp(k, f, S)
  BY SumExists
<1>2. SumsUp(g, f, S)
  BY <1>1
<1>3. SumFunctionOnSet(f, S) = g[S]
  BY SumDef
<1>4. g[S] = k[S]
  <2> HIDE DEF g
  <2> QED
    BY <1>1, <1>2, SumUnique
<1>5. k[S] \in Int
  BY <1>1
<1>6. ASSUME S # {}
      PROVE  Chosen(S) \in S /\ g[S] = f[Chosen(S)] + SumFunctionOnSet(f, T)
  <2>1. Chosen(S) \in S
    BY <1>6 DEF Chosen
  <2>2. IsFiniteSet(T) /\ T \subseteq S /\ \A x \in T : f[x] \in Int
    BY FS_Subset
  <2>3. SumsUp(h, f, T)
    BY <2>2, SumExists
  <2>4. SumFunctionOnSet(f, T) = h[T]
    BY SumDef
  <2> HIDE DEF g, h, T
  <2>5. h[T] = g[T]
    BY <1>2, <2>2, <2>3, SumUnique
  <2>6. g[S] = f[Chosen(S)] + g[T]
    BY <1>2, <1>6 DEF SumsUp, T
  <2> QED
    BY <2>1, <2>4, <2>5, <2>6
<1> HIDE DEF g, h
<1> QED
  BY <1>3, <1>4, <1>5, <1>6

\* Whichever element is taken out first, the sum is the same.
LEMMA SumOnAny ==
  ASSUME NEW f, NEW S, IsFiniteSet(S), \A x \in S : f[x] \in Int
  PROVE  \A y \in S : SumFunctionOnSet(f, S) = f[y] + SumFunctionOnSet(f, S \ {y})
<1> DEFINE Sum(s) == SumFunctionOnSet(f, s)
           P == {n \in Nat : \A s \in SUBSET S : Cardinality(s) = n
                                 => \A y \in s : Sum(s) = f[y] + Sum(s \ {y})}
<1>1. \A s \in SUBSET S : IsFiniteSet(s) /\ Cardinality(s) \in Nat
  BY FS_Subset, FS_CardinalityType
<1>2. \A s \in SUBSET S : /\ Sum(s) \in Int
                          /\ s # {} => Chosen(s) \in s /\ Sum(s) = f[Chosen(s)] + Sum(s \ {Chosen(s)})
  BY <1>1, SumOnChosen
<1>3. ASSUME NEW n \in Nat, \A m \in Nat : m < n => m \in P,
             NEW s \in SUBSET S, Cardinality(s) = n, NEW y \in s
      PROVE  Sum(s) = f[y] + Sum(s \ {y})
  <2> DEFINE x == Chosen(s)
  <2>1. x \in s /\ Sum(s) = f[x] + Sum(s \ {x})
    BY <1>2
  <2>2. CASE x # y
    <3>1. /\ s \ {x} \in SUBSET S /\ y \in s \ {x} /\ Cardinality(s \ {x}) \in Nat
          /\ s \ {y} \in SUBSET S /\ x \in s \ {y} /\ Cardinality(s \ {y}) \in Nat
          /\ Cardinality(s \ {x}) < n /\ Cardinality(s \ {y}) < n
      BY <1>1, <1>3, <2>1, <2>2, OneLess
    <3>2. /\ Sum(s \ {x}) = f[y] + Sum((s \ {x}) \ {y})
          /\ Sum(s \ {y}) = f[x] + Sum((s \ {y}) \ {x})
      <4> HIDE DEF Sum, x
      <4> QED
        BY <1>3, <3>1
    <3>3. (s \ {x}) \ {y} = (s \ {y}) \ {x}
      OBVIOUS
    <3>4. f[x] \in Int /\ f[y] \in Int /\ Sum((s \ {x}) \ {y}) \in Int
      BY <1>2, <2>1
    <3>5. \A a, b, d \in Int : a + (b + d) = b + (a + d)
      OBVIOUS
    <3>6. Sum(s) = f[x] + (f[y] + Sum((s \ {x}) \ {y}))
      BY <2>1, <3>2
    <3>7. Sum(s \ {y}) = f[x] + Sum((s \ {x}) \ {y})
      BY <3>2, <3>3
    <3> HIDE DEF Sum, x
    <3> QED
      BY <3>4, <3>5, <3>6, <3>7
  <2> QED
    BY <2>1, <2>2
<1>4. Nat \subseteq P
  <2>1. \A n \in Nat : (\A m \in Nat : m < n => m \in P) => n \in P
    BY <1>3
  <2> HIDE DEF P
  <2> QED
    BY <2>1, StrongInduction
<1> QED
  BY <1>1, <1>4

\* Only the elements summed matter.
LEMMA SumOnSame ==
  ASSUME NEW f, NEW g, NEW S, IsFiniteSet(S), \A x \in S : f[x] \in Int /\ g[x] = f[x]
  PROVE  SumFunctionOnSet(g, S) = SumFunctionOnSet(f, S)
<1> DEFINE P == {n \in Nat : \A s \in SUBSET S : Cardinality(s) = n
                   => SumFunctionOnSet(g, s) = SumFunctionOnSet(f, s)}
<1>1. \A s \in SUBSET S : IsFiniteSet(s) /\ Cardinality(s) \in Nat
  BY FS_Subset, FS_CardinalityType
<1>2. ASSUME NEW n \in Nat, \A m \in Nat : m < n => m \in P,
             NEW s \in SUBSET S, Cardinality(s) = n
      PROVE  SumFunctionOnSet(g, s) = SumFunctionOnSet(f, s)
  <2>1. CASE s = {}
    BY <2>1, SumOnEmpty
  <2>2. CASE s # {}
    <3>1. PICK x : x \in s
      BY <2>2
    <3>2. /\ s \ {x} \in SUBSET S /\ Cardinality(s \ {x}) \in Nat /\ Cardinality(s \ {x}) < n
      BY <1>1, <1>2, <3>1, OneLess
    <3>3. SumFunctionOnSet(g, s \ {x}) = SumFunctionOnSet(f, s \ {x})
      BY <1>2, <3>2
    <3>4. /\ SumFunctionOnSet(f, s) = f[x] + SumFunctionOnSet(f, s \ {x})
          /\ SumFunctionOnSet(g, s) = g[x] + SumFunctionOnSet(g, s \ {x})
      BY <1>1, <3>1, SumOnAny
    <3> QED
      BY <3>1, <3>3, <3>4
  <2> QED
    BY <2>1, <2>2
<1>3. Nat \subseteq P
  <2>1. \A n \in Nat : (\A m \in Nat : m < n => m \in P) => n \in P
    BY <1>2
  <2> HIDE DEF P
  <2> QED
    BY <2>1, StrongInduction
<1> QED
  BY <1>1, <1>3

\* What grows element by element grows in sum.
LEMMA SumOnGrows ==
  ASSUME NEW f, NEW g, NEW S, IsFiniteSet(S),
         \A x \in S : f[x] \in Int /\ g[x] \in Int /\ f[x] <= g[x]
  PROVE  SumFunctionOnSet(f, S) <= SumFunctionOnSet(g, S)
<1> DEFINE P == {n \in Nat : \A s \in SUBSET S : Cardinality(s) = n
                   => SumFunctionOnSet(f, s) <= SumFunctionOnSet(g, s)}
<1>1. \A s \in SUBSET S : IsFiniteSet(s) /\ Cardinality(s) \in Nat
  BY FS_Subset, FS_CardinalityType
<1>2. ASSUME NEW n \in Nat, \A m \in Nat : m < n => m \in P,
             NEW s \in SUBSET S, Cardinality(s) = n
      PROVE  SumFunctionOnSet(f, s) <= SumFunctionOnSet(g, s)
  <2>1. CASE s = {}
    BY <2>1, SumOnEmpty
  <2>2. CASE s # {}
    <3>1. PICK x : x \in s
      BY <2>2
    <3>2. /\ s \ {x} \in SUBSET S /\ Cardinality(s \ {x}) \in Nat /\ Cardinality(s \ {x}) < n
          /\ IsFiniteSet(s \ {x})
      BY <1>1, <1>2, <3>1, OneLess
    <3>3. SumFunctionOnSet(f, s \ {x}) <= SumFunctionOnSet(g, s \ {x})
      BY <1>2, <3>2
    <3>4. /\ SumFunctionOnSet(f, s) = f[x] + SumFunctionOnSet(f, s \ {x})
          /\ SumFunctionOnSet(g, s) = g[x] + SumFunctionOnSet(g, s \ {x})
      BY <1>1, <3>1, SumOnAny
    <3>5. SumFunctionOnSet(f, s \ {x}) \in Int /\ SumFunctionOnSet(g, s \ {x}) \in Int
      BY <3>2, SumOnChosen
    <3> QED
      BY <3>1, <3>3, <3>4, <3>5
  <2> QED
    BY <2>1, <2>2
<1>3. Nat \subseteq P
  <2>1. \A n \in Nat : (\A m \in Nat : m < n => m \in P) => n \in P
    BY <1>2
  <2> HIDE DEF P
  <2> QED
    BY <2>1, StrongInduction
<1> QED
  BY <1>1, <1>3

-----------------------------------------------------------------------------
(* Sums of functions.                                                       *)

\* A function from a finite set to the integers: what is summed.
Summable(f) == IsFiniteSet(DOMAIN f) /\ \A x \in DOMAIN f : f[x] \in Int

\* The sum of no number is nothing, that of some is a number.
LEMMA SumType ==
  ASSUME NEW f, Summable(f)
  PROVE  SumFunction(f) \in Int /\ (DOMAIN f = {} => SumFunction(f) = 0)
  BY SumOnChosen, SumOnEmpty DEF Summable, SumFunction

\* What is no smaller anywhere has no smaller sum.
LEMMA SumGrows ==
  ASSUME NEW f, NEW g, Summable(f), Summable(g), DOMAIN f = DOMAIN g,
         \A x \in DOMAIN f : f[x] <= g[x]
  PROVE  SumFunction(f) <= SumFunction(g)
  BY SumOnGrows DEF Summable, SumFunction

\* Numbers that are not negative have such a sum.
LEMMA SumNat ==
  ASSUME NEW f, Summable(f), \A x \in DOMAIN f : f[x] \in Nat
  PROVE  SumFunction(f) \in Nat
<1> DEFINE P == {n \in Nat : \A s \in SUBSET DOMAIN f : Cardinality(s) = n
                   => SumFunctionOnSet(f, s) \in Nat}
<1>1. \A s \in SUBSET DOMAIN f : IsFiniteSet(s) /\ Cardinality(s) \in Nat
  BY FS_Subset, FS_CardinalityType DEF Summable
<1>2. ASSUME NEW n \in Nat, \A m \in Nat : m < n => m \in P,
             NEW s \in SUBSET DOMAIN f, Cardinality(s) = n
      PROVE  SumFunctionOnSet(f, s) \in Nat
  <2>1. CASE s = {}
    BY <2>1, SumOnEmpty
  <2>2. CASE s # {}
    <3>1. PICK x : x \in s
      BY <2>2
    <3>2. s \ {x} \in SUBSET DOMAIN f /\ Cardinality(s \ {x}) \in Nat /\ Cardinality(s \ {x}) < n
      BY <1>1, <1>2, <3>1, OneLess
    <3>3. SumFunctionOnSet(f, s) = f[x] + SumFunctionOnSet(f, s \ {x})
      BY <1>1, <3>1, SumOnAny DEF Summable
    <3>4. SumFunctionOnSet(f, s \ {x}) \in Nat
      BY <1>2, <3>2
    <3> QED
      BY <3>1, <3>3, <3>4
  <2> QED
    BY <2>1, <2>2
<1>3. Nat \subseteq P
  <2>1. \A n \in Nat : (\A m \in Nat : m < n => m \in P) => n \in P
    BY <1>2
  <2> HIDE DEF P
  <2> QED
    BY <2>1, StrongInduction
<1> QED
  BY <1>1, <1>3 DEF SumFunction, Summable

\* Adding a key, or changing the number at one.
LEMMA SumAdds ==
  ASSUME NEW f, NEW g, Summable(f), NEW k, DOMAIN g = DOMAIN f \cup {k}, g[k] \in Int,
         \A x \in DOMAIN f : x # k => g[x] = f[x]
  PROVE  /\ Summable(g)
         /\ SumFunction(g) = SumFunction(f) + g[k] - (IF k \in DOMAIN f THEN f[k] ELSE 0)
<1> DEFINE rest == DOMAIN f \ {k}
<1>1. Summable(g)
  BY FS_AddElement DEF Summable
<1>2. DOMAIN g \ {k} = rest /\ k \in DOMAIN g
  OBVIOUS
<1>3. SumFunction(g) = g[k] + SumFunctionOnSet(g, rest)
  BY <1>1, <1>2, SumOnAny DEF SumFunction, Summable
<1>4. IsFiniteSet(rest) /\ \A x \in rest : f[x] \in Int /\ g[x] = f[x]
  BY FS_Subset DEF Summable
<1>5. SumFunctionOnSet(g, rest) = SumFunctionOnSet(f, rest) /\ SumFunctionOnSet(f, rest) \in Int
  <2> HIDE DEF rest
  <2> QED
    BY <1>4, SumOnSame, SumOnChosen
<1>6. SumFunction(f) = (IF k \in DOMAIN f THEN f[k] ELSE 0) + SumFunctionOnSet(f, rest)
  <2>1. CASE k \in DOMAIN f
    BY <2>1, SumOnAny DEF SumFunction, Summable
  <2>2. CASE k \notin DOMAIN f
    <3>1. rest = DOMAIN f
      BY <2>2
    <3> QED
      BY <2>2, <3>1, <1>5 DEF SumFunction
  <2> QED
    BY <2>1, <2>2
<1>7. (IF k \in DOMAIN f THEN f[k] ELSE 0) \in Int
  BY DEF Summable
<1> HIDE DEF rest
<1> QED
  BY <1>1, <1>3, <1>5, <1>6, <1>7

\* One number is no more than the sum of numbers none of which is negative.
LEMMA SumCovers ==
  ASSUME NEW f, Summable(f), \A x \in DOMAIN f : f[x] \in Nat, NEW k \in DOMAIN f
  PROVE  f[k] <= SumFunction(f)
<1> DEFINE g == [x \in DOMAIN f |-> IF x = k THEN 0 ELSE f[x]]
<1>1. Summable(g) /\ \A x \in DOMAIN g : g[x] \in Nat
  BY DEF Summable
<1>2. SumFunction(f) = SumFunction(g) + f[k] - g[k]
  <2>1. DOMAIN f = DOMAIN g \cup {k} /\ \A x \in DOMAIN g : x # k => f[x] = g[x]
    OBVIOUS
  <2>2. f[k] \in Int /\ k \in DOMAIN g
    BY DEF Summable
  <2> HIDE DEF g
  <2> QED
    BY <1>1, <2>1, <2>2, SumAdds
<1>3. g[k] = 0
  OBVIOUS
<1> HIDE DEF g
<1> QED
  BY <1>1, <1>2, <1>3, SumNat

\* What is summed twice, added up element by element.
LEMMA SumAppends ==
  ASSUME NEW s \in Seq(Int), NEW e \in Int
  PROVE  /\ Summable(s) /\ Summable(Append(s, e))
         /\ SumFunction(Append(s, e)) = SumFunction(s) + e
<1>1. DOMAIN s = 1..Len(s) /\ Len(s) \in Nat /\ Summable(s)
  <2>1. DOMAIN s = 1..Len(s) /\ Len(s) \in Nat
    OBVIOUS
  <2> QED
    BY <2>1, FS_Interval DEF Summable
<1> DEFINE t == Append(s, e)
           k == Len(s) + 1
<1>2. /\ DOMAIN t = DOMAIN s \cup {k} /\ t[k] = e /\ k \notin DOMAIN s
      /\ \A x \in DOMAIN s : t[x] = s[x]
  BY <1>1
<1>3. SumFunction(s) \in Int
  BY <1>1, SumType
<1> HIDE DEF t, k
<1>4. Summable(t) /\ SumFunction(t) = SumFunction(s) + e - 0
  BY <1>1, <1>2, SumAdds
<1> QED
  BY <1>1, <1>3, <1>4 DEF t

-----------------------------------------------------------------------------
(* The front of a sequence.                                                 *)

\* Every front is a sequence of the same elements.
LEMMA PrefixType ==
  ASSUME NEW S, NEW s \in Seq(S), NEW i \in DOMAIN s
  PROVE  SubSeq(s, 1, i - 1) \in Seq(S)
<1>1. i - 1 \in Int /\ \A j \in 1..i - 1 : s[j] \in S
  BY LenProperties
<1> QED
  BY <1>1, SubSeqProperties

\* What is added at the end changes no front of what was there.
LEMMA PrefixOfAppend ==
  ASSUME NEW S, NEW s \in Seq(S), NEW e \in S, NEW i \in 0..Len(s)
  PROVE  SubSeq(Append(s, e), 1, i) = SubSeq(s, 1, i)
<1> DEFINE t == Append(s, e)
<1>1. i \in Int /\ \A j \in 1..i : t[j] = s[j] /\ s[j] \in S
  BY AppendProperties, LenProperties
<1> HIDE DEF t
<1>2. /\ SubSeq(t, 1, i) \in Seq(S) /\ Len(SubSeq(t, 1, i)) = IF 1 <= i THEN i - 1 + 1 ELSE 0
      /\ \A j \in 1..i - 1 + 1 : SubSeq(t, 1, i)[j] = t[1 + j - 1]
  BY <1>1, SubSeqProperties
<1>3. /\ SubSeq(s, 1, i) \in Seq(S) /\ Len(SubSeq(s, 1, i)) = IF 1 <= i THEN i - 1 + 1 ELSE 0
      /\ \A j \in 1..i - 1 + 1 : SubSeq(s, 1, i)[j] = s[1 + j - 1]
  BY <1>1, SubSeqProperties
<1>4. /\ Len(SubSeq(s, 1, i)) = i /\ Len(SubSeq(t, 1, i)) = i
      /\ \A j \in 1..i : SubSeq(s, 1, i)[j] = SubSeq(t, 1, i)[j]
  BY <1>1, <1>2, <1>3
<1>5. SubSeq(t, 1, i) = SubSeq(s, 1, i)
  BY <1>2, <1>3, <1>4, SeqEqual
<1> QED
  BY <1>5 DEF t

\* The whole of a sequence is a front of it.
LEMMA PrefixOfAll ==
  ASSUME NEW S, NEW s \in Seq(S)
  PROVE  SubSeq(s, 1, Len(s)) = s
<1> DEFINE t == SubSeq(s, 1, Len(s))
<1>1. Len(s) \in Nat /\ \A j \in 1..Len(s) : s[j] \in S
  BY LenProperties
<1>2. /\ t \in Seq(S) /\ Len(t) = IF 1 <= Len(s) THEN Len(s) - 1 + 1 ELSE 0
      /\ \A j \in 1..Len(s) - 1 + 1 : t[j] = s[1 + j - 1]
  BY <1>1, SubSeqProperties
<1> HIDE DEF t
<1>3. Len(t) = Len(s) /\ \A j \in 1..Len(s) : t[j] = s[j]
  BY <1>1, <1>2
<1>4. t = s
  BY <1>2, <1>3, SeqEqual
<1> QED
  BY <1>4 DEF t

\* A front that is not empty begins like the sequence and goes on like its tail.
LEMMA PrefixOfTail ==
  ASSUME NEW S, NEW s \in Seq(S), NEW i \in 1..Len(s)
  PROVE  LET t == SubSeq(s, 1, i)
         IN /\ t \in Seq(S) /\ t # << >> /\ Head(t) = Head(s)
            /\ Tail(t) = SubSeq(Tail(s), 1, i - 1)
<1> DEFINE t == SubSeq(s, 1, i)
           u == SubSeq(Tail(s), 1, i - 1)
<1>1. Len(s) \in Nat /\ i \in Int /\ \A j \in 1..Len(s) : s[j] \in S
  BY LenProperties
<1>2. s # << >>
  <2>1. Len(<< >>) = 0 /\ Len(s) # 0
    BY <1>1, EmptySeq
  <2> QED
    BY <2>1, Zenon
<1>3. /\ Tail(s) \in Seq(S) /\ Len(Tail(s)) = Len(s) - 1
      /\ \A j \in 1..Len(s) - 1 : Tail(s)[j] = s[j + 1]
  BY <1>2, HeadTailProperties
<1>4. t \in Seq(S) /\ Len(t) = i /\ \A j \in 1..i : t[j] = s[j]
  <2>1. \A j \in 1..i : s[j] \in S
    BY <1>1
  <2>2. /\ t \in Seq(S) /\ Len(t) = IF 1 <= i THEN i - 1 + 1 ELSE 0
        /\ \A j \in 1..i - 1 + 1 : t[j] = s[1 + j - 1]
    BY <1>1, <2>1, SubSeqProperties
  <2> HIDE DEF t
  <2> QED
    BY <1>1, <2>2
<1>5. u \in Seq(S) /\ Len(u) = i - 1 /\ \A j \in 1..i - 1 : u[j] = s[j + 1]
  <2>1. i - 1 \in Int /\ \A j \in 1..i - 1 : Tail(s)[j] \in S
    BY <1>1, <1>3
  <2>2. /\ u \in Seq(S) /\ Len(u) = IF 1 <= i - 1 THEN i - 1 - 1 + 1 ELSE 0
        /\ \A j \in 1..i - 1 - 1 + 1 : u[j] = Tail(s)[1 + j - 1]
    <3> DEFINE r == Tail(s)
               k == i - 1
    <3>1. k \in Int /\ \A j \in 1..k : r[j] \in S
      BY <2>1
    <3>2. u = SubSeq(r, 1, k)
      OBVIOUS
    <3>3. /\ SubSeq(r, 1, k) \in Seq(S)
          /\ Len(SubSeq(r, 1, k)) = IF 1 <= k THEN k - 1 + 1 ELSE 0
          /\ \A j \in 1..k - 1 + 1 : SubSeq(r, 1, k)[j] = r[1 + j - 1]
      <4> HIDE DEF r, k
      <4> QED
        BY <3>1, SubSeqProperties
    <3> HIDE DEF u
    <3> QED
      BY <3>2, <3>3
  <2> HIDE DEF u
  <2> QED
    BY <1>1, <1>3, <2>2
<1> HIDE DEF t, u
<1>6. t # << >>
  <2>1. Len(<< >>) = 0 /\ Len(t) # 0
    BY <1>1, <1>4, EmptySeq
  <2> QED
    BY <2>1, Zenon
<1>7. Head(t) = Head(s)
  <2>1. Head(t) = t[1] /\ Head(s) = s[1] /\ 1 \in 1..i
    BY <1>1 DEF Head
  <2> QED
    BY <1>4, <2>1
<1>8. Tail(t) = u
  <2>1. /\ Tail(t) \in Seq(S) /\ Len(Tail(t)) = i - 1
        /\ \A j \in 1..Len(Tail(t)) : Tail(t)[j] = t[j + 1]
    BY <1>4, <1>6, HeadTailProperties
  <2>2. \A j \in 1..Len(Tail(t)) : Tail(t)[j] = u[j]
    BY <1>1, <1>4, <1>5, <2>1
  <2> QED
    BY <1>5, <2>1, <2>2, SeqEqual
<1> QED
  BY <1>4, <1>6, <1>7, <1>8 DEF t, u

\* A sequence that is not empty is its front and its last element.
LEMMA FrontAndLast ==
  ASSUME NEW S, NEW s \in Seq(S), s # << >>
  PROVE  LET t == SubSeq(s, 1, Len(s) - 1)
         IN /\ t \in Seq(S) /\ Len(t) = Len(s) - 1 /\ Len(s) \in Nat \ {0}
            /\ s[Len(s)] \in S /\ s = Append(t, s[Len(s)])
<1> DEFINE t == SubSeq(s, 1, Len(s) - 1)
           e == s[Len(s)]
<1>1. Len(s) \in Nat \ {0} /\ e \in S
  OBVIOUS
<1>2. t \in Seq(S) /\ Len(t) = Len(s) - 1 /\ \A i \in 1..Len(s) - 1 : t[i] = s[i]
  <2>1. \A i \in 1..Len(s) - 1 : s[i] \in S
    OBVIOUS
  <2> DEFINE k == Len(s) - 1
  <2>2. k \in Nat
    BY <1>1
  <2>3. /\ SubSeq(s, 1, k) \in Seq(S) /\ Len(SubSeq(s, 1, k)) = IF 1 <= k THEN k - 1 + 1 ELSE 0
        /\ \A i \in 1..k - 1 + 1 : SubSeq(s, 1, k)[i] = s[1 + i - 1]
    <3> HIDE DEF k
    <3>1. 1 \in Int /\ k \in Int /\ \A i \in 1..k : s[i] \in S
      BY <2>1, <2>2 DEF k
    <3> QED
      BY <3>1, SubSeqProperties
  <2> HIDE DEF k
  <2>4. Len(SubSeq(s, 1, k)) = k /\ \A i \in 1..k : SubSeq(s, 1, k)[i] = s[i]
    BY <2>2, <2>3
  <2> QED
    BY <2>3, <2>4 DEF k
<1>4. s = Append(t, e)
  <2> HIDE DEF t
  <2>1. Append(t, e) \in Seq(S) /\ Len(Append(t, e)) = Len(s)
    BY <1>1, <1>2
  <2>2. \A i \in 1..Len(s) : Append(t, e)[i] = s[i]
    BY <1>1, <1>2
  <2> HIDE DEF e
  <2> QED
    BY <2>1, <2>2
<1> QED
  BY <1>1, <1>2, <1>4

\* The sum of the empty sequence.
LEMMA SumOfNone == SumFunction(<< >>) = 0
<1>1. Summable(<< >>) /\ DOMAIN << >> = {}
  BY FS_EmptySet DEF Summable
<1> QED
  BY <1>1, SumType

\* A sequence of numbers can be summed.
LEMMA SumOfSeq ==
  ASSUME NEW s \in Seq(Int)
  PROVE  Summable(s) /\ SumFunction(s) \in Int
<1>1. Summable(s)
  <2>1. 0 \in Int
    OBVIOUS
  <2> QED
    BY <2>1, SumAppends
<1> QED
  BY <1>1, SumType

\* Taken from the other end.
LEMMA SumTakes ==
  ASSUME NEW s \in Seq(Int), s # << >>
  PROVE  /\ Summable(s) /\ Summable(Tail(s))
         /\ SumFunction(s) = Head(s) + SumFunction(Tail(s))
<1> DEFINE P == {n \in Nat : \A r \in Seq(Int) : Len(r) = n + 1
                   => SumFunction(r) = Head(r) + SumFunction(Tail(r))}
<1>1. \A r \in Seq(Int) : Summable(r) /\ SumFunction(r) \in Int
  BY SumAppends, SumType
<1>2. 0 \in P
  <2>1. ASSUME NEW r \in Seq(Int), Len(r) = 1
        PROVE  SumFunction(r) = Head(r) + SumFunction(Tail(r))
    <3> DEFINE t == SubSeq(r, 1, Len(r) - 1)
               e == r[Len(r)]
    <3>1. t \in Seq(Int) /\ Len(t) = 0 /\ e \in Int /\ r = Append(t, e)
      <4>1. r # << >>
        <5>1. Len(<< >>) = 0 /\ 0 # 1
          BY EmptySeq
        <5> QED
          BY <2>1, <5>1, Zenon
      <4>2. t \in Seq(Int) /\ Len(t) = Len(r) - 1 /\ e \in Int /\ r = Append(t, e)
        BY <4>1, FrontAndLast
      <4> QED
        BY <2>1, <4>2
    <3> HIDE DEF t, e
    <3>2. t = << >> /\ Head(r) = e /\ Tail(r) = << >>
      BY <3>1, HeadTailAppend, EmptySeq
    <3>3. SumFunction(r) = SumFunction(t) + e
      BY <3>1, SumAppends
    <3> QED
      BY <3>1, <3>2, <3>3, SumOfNone
  <2> QED
    BY <2>1
<1>3. ASSUME NEW n \in Nat, n \in P PROVE n + 1 \in P
  <2>1. ASSUME NEW r \in Seq(Int), Len(r) = (n + 1) + 1
        PROVE  SumFunction(r) = Head(r) + SumFunction(Tail(r))
    <3> DEFINE t == SubSeq(r, 1, Len(r) - 1)
               e == r[Len(r)]
    <3>1. t \in Seq(Int) /\ Len(t) = n + 1 /\ e \in Int /\ r = Append(t, e)
      BY <2>1, FrontAndLast, EmptySeq
    <3> HIDE DEF t, e
    <3>2. /\ Head(r) = Head(t) /\ Tail(t) \in Seq(Int) /\ Tail(r) = Append(Tail(t), e)
          /\ Head(t) \in Int
      BY <3>1
    <3>3. SumFunction(t) = Head(t) + SumFunction(Tail(t))
      BY <1>3, <3>1
    <3>4. /\ SumFunction(r) = SumFunction(t) + e
          /\ SumFunction(Tail(r)) = SumFunction(Tail(t)) + e
      BY <3>1, <3>2, SumAppends
    <3>5. SumFunction(t) \in Int /\ SumFunction(Tail(t)) \in Int
      BY <1>1, <3>1, <3>2
    <3> QED
      <4>1. \A a, b, c \in Int : (a + b) + c = a + (b + c)
        OBVIOUS
      <4>2. SumFunction(r) = (Head(t) + SumFunction(Tail(t))) + e
        BY <3>3, <3>4
      <4> QED
        BY <3>1, <3>2, <3>4, <3>5, <4>1, <4>2
  <2> QED
    BY <2>1
<1>4. Nat \subseteq P
  <2> HIDE DEF P
  <2> QED
    BY <1>2, <1>3, Induction
<1>5. Tail(s) \in Seq(Int) /\ Len(s) - 1 \in Nat /\ Len(s) = (Len(s) - 1) + 1
  OBVIOUS
<1>6. SumFunction(s) = Head(s) + SumFunction(Tail(s))
  BY <1>4, <1>5
<1> QED
  BY <1>1, <1>5, <1>6
=============================================================================
