----------------------------- MODULE Induction -----------------------------
(***************************************************************************)
(* Induction over numbers and over finite sets, stated with a set where    *)
(* the library's theorems take an operator: what is to be proved of every  *)
(* n is the set of the n it holds of.                                      *)
(***************************************************************************)
EXTENDS Integers, Functions, FiniteSetTheorems, WellFoundedInduction, TLAPS

LEMMA LeastNumber ==
  ASSUME NEW T \in SUBSET Nat, T # {}
  PROVE  \E n \in T : \A m \in T : n <= m
<1> DEFINE R == {ss \in Nat \X Nat : ss[1] < ss[2]}
<1>1. IsWellFoundedOn(R, Nat)
  BY NatLessThanWellFounded DEF OpToRel
<1>2. PICK x \in T : \A y \in T : <<y, x>> \notin R
  <2> HIDE DEF R
  <2> QED BY <1>1, WFMin
<1>3. ASSUME NEW y \in T PROVE x <= y
  <2>1. <<y, x>> \notin R /\ x \in Nat /\ y \in Nat
    BY <1>2
  <2> QED BY <2>1
<1> QED BY <1>3

\* What holds of 0, and of n + 1 if of n, holds of every number.
LEMMA NumberInduction ==
  ASSUME NEW P, 0 \in P, \A n \in Nat : n \in P => n + 1 \in P
  PROVE  Nat \subseteq P
<1> SUFFICES ASSUME Nat \ P # {} PROVE FALSE
  OBVIOUS
<1>1. PICK n \in Nat \ P : \A m \in Nat \ P : n <= m
  BY LeastNumber
<1>2. n - 1 \in Nat /\ n - 1 \in P
  BY <1>1
<1>3. (n - 1) + 1 \in P
  BY <1>2
<1> QED BY <1>3

\* What holds of {}, and of T with one more element if of T, holds of S.
LEMMA FiniteSetInduction ==
  ASSUME NEW S, IsFiniteSet(S), NEW P, {} \in P,
         \A T \in SUBSET S : \A x \in S \ T : T \in P => T \cup {x} \in P
  PROVE  S \in P
<1> DEFINE Ns == {n \in Nat : \A T \in SUBSET S : Cardinality(T) = n => T \in P}
<1>1. \A T \in SUBSET S : IsFiniteSet(T) /\ Cardinality(T) \in Nat
  BY FS_Subset, FS_CardinalityType
<1>2. 0 \in Ns
  BY <1>1, FS_EmptySet
<1>3. ASSUME NEW n \in Nat, n \in Ns PROVE n + 1 \in Ns
  <2> SUFFICES ASSUME NEW T \in SUBSET S, Cardinality(T) = n + 1 PROVE T \in P
    OBVIOUS
  <2>1. PICK x \in T : TRUE
    BY FS_EmptySet, <1>1
  <2>2. Cardinality(T \ {x}) = n
    <3>1. IsFiniteSet(T)
      BY <1>1
    <3>2. Cardinality(T \ {x}) = Cardinality(T) - 1
      BY <3>1, FS_RemoveElement
    <3> QED BY <3>2
  <2>3. T \ {x} \in P /\ x \in S \ (T \ {x}) /\ T = (T \ {x}) \cup {x}
    BY <2>2, <1>3
  <2> QED BY <2>3
<1>4. Nat \subseteq Ns
  <2> HIDE DEF Ns
  <2> QED BY <1>2, <1>3, NumberInduction
<1> QED BY <1>1, <1>4

-----------------------------------------------------------------------------
(* Sums.  FoldFunctionOnSet takes the elements of a set in an order of its  *)
(* own, through a recursive function of the subsets: that the function is   *)
(* there, and that any element may be taken first, is induction on the size *)
(* of the set.                                                              *)

SumOver(f, S) == FoldFunctionOnSet(+, 0, f, S)

Some(s) == CHOOSE x \in s : TRUE
IsSums(g, f, S) ==
  g = [s \in SUBSET S |-> IF s = {} THEN 0 ELSE f[Some(s)] + g[s \ {Some(s)}]]
Sums(f, S) == CHOOSE g : IsSums(g, f, S)

LEMMA SumsDef == \A f, S : SumOver(f, S) = Sums(f, S)[S]
BY Zenon DEF SumOver, Sums, IsSums, Some, FoldFunctionOnSet, MapThenFoldSet

LEMMA SomeIn == \A s : s # {} => Some(s) \in s
BY DEF Some

LEMMA SumsEquation ==
  ASSUME NEW f, NEW S, NEW g, IsSums(g, f, S), NEW s \in SUBSET S
  PROVE  g[s] = IF s = {} THEN 0 ELSE f[Some(s)] + g[s \ {Some(s)}]
BY DEF IsSums

LEMMA SumsUnique ==
  ASSUME NEW f, NEW S, NEW T, NEW g, NEW h, IsSums(g, f, S), IsSums(h, f, T),
         NEW s, s \subseteq S, s \subseteq T, IsFiniteSet(s)
  PROVE  g[s] = h[s]
<1> DEFINE Ns == {n \in Nat : \A u \in SUBSET s : Cardinality(u) = n => g[u] = h[u]}
<1>1. \A u \in SUBSET s : IsFiniteSet(u) /\ Cardinality(u) \in Nat
  BY FS_Subset, FS_CardinalityType
<1>2. 0 \in Ns
  <2> SUFFICES ASSUME NEW u \in SUBSET s, Cardinality(u) = 0 PROVE g[u] = h[u]
    OBVIOUS
  <2>1. u = {}
    BY <1>1, FS_EmptySet
  <2> QED BY <2>1, SumsEquation
<1>3. ASSUME NEW n \in Nat, n \in Ns PROVE n + 1 \in Ns
  <2> SUFFICES ASSUME NEW u \in SUBSET s, Cardinality(u) = n + 1 PROVE g[u] = h[u]
    OBVIOUS
  <2>1. u # {}
    BY FS_EmptySet
  <2>2. Cardinality(u \ {Some(u)}) = n
    <3>1. Some(u) \in u /\ IsFiniteSet(u)
      BY <1>1, <2>1, SomeIn
    <3>2. Cardinality(u \ {Some(u)}) = Cardinality(u) - 1
      BY <3>1, FS_RemoveElement
    <3> QED BY <3>2
  <2>3. g[u \ {Some(u)}] = h[u \ {Some(u)}]
    BY <2>2, <1>3
  <2>4. g[u] = f[Some(u)] + g[u \ {Some(u)}]
    BY <2>1, SumsEquation
  <2>5. h[u] = f[Some(u)] + h[u \ {Some(u)}]
    <3>1. u \in SUBSET T
      OBVIOUS
    <3> QED BY <2>1, <3>1, SumsEquation
  <2> QED BY <2>3, <2>4, <2>5
<1>4. Nat \subseteq Ns
  <2> HIDE DEF Ns
  <2> QED BY <1>2, <1>3, NumberInduction
<1> QED BY <1>1, <1>4

LEMMA SumsExist ==
  ASSUME NEW f, NEW S, IsFiniteSet(S)
  PROVE  IsSums(Sums(f, S), f, S)
<1> DEFINE Ns == {n \in Nat : \A T \in SUBSET S : Cardinality(T) <= n => IsSums(Sums(f, T), f, T)}
<1>1. \A u \in SUBSET S : IsFiniteSet(u) /\ Cardinality(u) \in Nat
  BY FS_Subset, FS_CardinalityType
<1>2. 0 \in Ns
  <2> SUFFICES ASSUME NEW T \in SUBSET S, Cardinality(T) <= 0 PROVE IsSums(Sums(f, T), f, T)
    OBVIOUS
  <2>1. T = {}
    BY <1>1, FS_EmptySet
  <2> DEFINE g == [s \in SUBSET {} |-> 0]
  <2>2. g = [s \in SUBSET {} |-> IF s = {} THEN 0 ELSE f[Some(s)] + g[s \ {Some(s)}]]
    OBVIOUS
  <2>3. IsSums(g, f, {})
    BY <2>2 DEF IsSums
  <2> HIDE DEF g
  <2> QED BY <2>1, <2>3 DEF Sums
<1>3. ASSUME NEW n \in Nat, n \in Ns PROVE n + 1 \in Ns
  <2> SUFFICES ASSUME NEW T \in SUBSET S, Cardinality(T) <= n + 1 PROVE IsSums(Sums(f, T), f, T)
    OBVIOUS
  <2> DEFINE rest(s) == s \ {Some(s)}
             g == [s \in SUBSET T |-> IF s = {} THEN 0 ELSE f[Some(s)] + Sums(f, rest(s))[rest(s)]]
  <2>1. ASSUME NEW s \in SUBSET T, s # {}
        PROVE  rest(s) \in SUBSET T /\ IsSums(Sums(f, rest(s)), f, rest(s))
    <3>1. s \in SUBSET S /\ IsFiniteSet(s) /\ Cardinality(s) <= Cardinality(T)
      BY <1>1, FS_Subset
    <3>2. Cardinality(rest(s)) <= n
      BY <1>1, <3>1, <2>1, SomeIn, FS_RemoveElement
    <3> QED BY <3>1, <3>2, <1>3
  <2>2. ASSUME NEW s \in SUBSET T, s # {}
        PROVE  g[rest(s)] = Sums(f, rest(s))[rest(s)]
    <3> DEFINE u == rest(s)
    <3>1. u \in SUBSET T /\ IsSums(Sums(f, u), f, u)
      BY <2>1, <2>2
    <3>2. Sums(f, u)[u] = IF u = {} THEN 0 ELSE f[Some(u)] + Sums(f, u)[rest(u)]
      <4> HIDE DEF u
      <4> QED BY <3>1, SumsEquation
    <3>3. u # {} => Sums(f, u)[rest(u)] = Sums(f, rest(u))[rest(u)]
      <4> SUFFICES ASSUME u # {} PROVE Sums(f, u)[rest(u)] = Sums(f, rest(u))[rest(u)]
        OBVIOUS
      <4>1. IsSums(Sums(f, rest(u)), f, rest(u)) /\ IsFiniteSet(rest(u))
        BY <3>1, <2>1, <1>1
      <4>2. rest(u) \subseteq u
        OBVIOUS
      <4> HIDE DEF rest, u
      <4> QED BY <3>1, <4>1, <4>2, SumsUnique
    <3> QED BY <3>1, <3>2, <3>3
  <2>3. g = [s \in SUBSET T |-> IF s = {} THEN 0 ELSE f[Some(s)] + g[rest(s)]]
    BY <2>2
  <2>4. IsSums(g, f, T)
    BY <2>3 DEF IsSums
  <2> HIDE DEF g
  <2> QED BY <2>4 DEF Sums
<1>4. Nat \subseteq Ns
  <2> HIDE DEF Ns
  <2> QED BY <1>2, <1>3, NumberInduction
<1> QED BY <1>1, <1>4

LEMMA SumOfNone == \A f : SumOver(f, {}) = 0
BY SumsDef, SumsExist, SumsEquation, FS_EmptySet

LEMMA SumTakesSome ==
  ASSUME NEW f, NEW S, IsFiniteSet(S), S # {}
  PROVE  Some(S) \in S /\ SumOver(f, S) = f[Some(S)] + SumOver(f, S \ {Some(S)})
<1> DEFINE R == S \ {Some(S)}
<1>1. IsFiniteSet(R) /\ R \subseteq S
  BY FS_RemoveElement
<1> HIDE DEF R
<1>2. IsSums(Sums(f, S), f, S) /\ IsSums(Sums(f, R), f, R)
  BY <1>1, SumsExist
<1>3. Sums(f, S)[R] = Sums(f, R)[R]
  BY <1>1, <1>2, SumsUnique
<1>4. Sums(f, S)[S] = f[Some(S)] + Sums(f, S)[R]
  BY <1>2, SumsEquation DEF R
<1> QED BY <1>3, <1>4, SumsDef, SomeIn DEF R

\* The total of a function over a finite set, one element taken out.
LEMMA SumTakesAny ==
  ASSUME NEW S, IsFiniteSet(S), NEW f, \A y \in S : f[y] \in Nat
  PROVE  /\ SumOver(f, S) \in Nat
         /\ \A x \in S : SumOver(f, S) = f[x] + SumOver(f, S \ {x})
<1> DEFINE Good(T) == /\ SumOver(f, T) \in Nat
                      /\ \A x \in T : SumOver(f, T) = f[x] + SumOver(f, T \ {x})
           Ns == {n \in Nat : \A T \in SUBSET S : Cardinality(T) <= n => Good(T)}
<1>1. \A u \in SUBSET S : IsFiniteSet(u) /\ Cardinality(u) \in Nat
  BY FS_Subset, FS_CardinalityType
<1>2. 0 \in Ns
  <2> SUFFICES ASSUME NEW T \in SUBSET S, Cardinality(T) <= 0 PROVE Good(T)
    OBVIOUS
  <2>1. T = {}
    BY <1>1, FS_EmptySet
  <2> QED BY <2>1, SumOfNone
<1>3. ASSUME NEW n \in Nat, n \in Ns PROVE n + 1 \in Ns
  <2> SUFFICES ASSUME NEW T \in SUBSET S, Cardinality(T) <= n + 1 PROVE Good(T)
    OBVIOUS
  <2>0. ASSUME NEW U \in SUBSET T, NEW x \in T, x \notin U PROVE Good(U)
    <3>1. U \subseteq T \ {x} /\ IsFiniteSet(T \ {x}) /\ Cardinality(T \ {x}) = Cardinality(T) - 1
      BY <2>0, <1>1, FS_RemoveElement
    <3>2. Cardinality(U) <= n /\ U \in SUBSET S
      BY <3>1, <1>1, FS_Subset
    <3> HIDE DEF Good
    <3> QED BY <1>3, <3>2
  <2>e. CASE T = {}
    BY <2>e, SumOfNone
  <2> SUFFICES ASSUME T # {} PROVE Good(T)
    BY <2>e
  <2>1. T # {} /\ IsFiniteSet(T)
    BY <1>1
  <2> DEFINE s == Some(T)
  <2>2. s \in T /\ SumOver(f, T) = f[s] + SumOver(f, T \ {s})
    BY <2>1, SumTakesSome
  <2> HIDE DEF s
  <2>3. SumOver(f, T) \in Nat
    BY <2>0, <2>2
  <2>4. ASSUME NEW x \in T PROVE SumOver(f, T) = f[x] + SumOver(f, T \ {x})
    <3>1. CASE x = s
      BY <3>1, <2>2
    <3>2. CASE x # s
      <4>1. SumOver(f, T \ {s}) = f[x] + SumOver(f, (T \ {s}) \ {x})
        BY <3>2, <2>0, <2>2
      <4>2. SumOver(f, T \ {x}) = f[s] + SumOver(f, (T \ {x}) \ {s})
        BY <3>2, <2>0, <2>2
      <4>3. (T \ {s}) \ {x} = (T \ {x}) \ {s}
        OBVIOUS
      <4>4. SumOver(f, (T \ {s}) \ {x}) \in Nat
        BY <2>0, <2>2
      <4>5. f[x] \in Nat /\ f[s] \in Nat
        BY <2>2
      <4> QED BY <4>1, <4>2, <4>3, <4>4, <4>5, <2>2
    <3> QED BY <3>1, <3>2
  <2> QED BY <2>3, <2>4
<1>4. Nat \subseteq Ns
  <2> HIDE DEF Ns
  <2> QED BY <1>2, <1>3, NumberInduction
<1> QED BY <1>1, <1>4

LEMMA SumAddsElement ==
  ASSUME NEW S, IsFiniteSet(S), NEW f, NEW T \in SUBSET S, NEW x \in S \ T,
         \A y \in S : f[y] \in Nat
  PROVE  /\ SumOver(f, T) \in Nat
         /\ SumOver(f, T \cup {x}) = f[x] + SumOver(f, T)
<1>1. IsFiniteSet(T \cup {x}) /\ (T \cup {x}) \ {x} = T /\ \A y \in T \cup {x} : f[y] \in Nat
  BY FS_Subset
<1>2. IsFiniteSet(T) /\ SumOver(f, T) \in Nat
  BY FS_Subset, SumTakesAny
<1>3. \A y \in T \cup {x} : SumOver(f, T \cup {x}) = f[y] + SumOver(f, (T \cup {x}) \ {y})
  BY <1>1, SumTakesAny
<1> QED BY <1>1, <1>2, <1>3

LEMMA SumIsMonotone ==
  ASSUME NEW S, IsFiniteSet(S), NEW f, NEW g,
         \A x \in S : f[x] \in Nat /\ g[x] \in Nat /\ f[x] <= g[x]
  PROVE  SumOver(f, S) <= SumOver(g, S)
<1> DEFINE P == {T \in SUBSET S : SumOver(f, T) <= SumOver(g, T)}
<1>1. {} \in P
  BY SumOfNone
<1>2. ASSUME NEW T \in SUBSET S, NEW x \in S \ T, T \in P PROVE T \cup {x} \in P
  <2>1. SumOver(f, T) \in Nat /\ SumOver(f, T \cup {x}) = f[x] + SumOver(f, T)
    BY SumAddsElement
  <2>2. SumOver(g, T) \in Nat /\ SumOver(g, T \cup {x}) = g[x] + SumOver(g, T)
    BY SumAddsElement
  <2> QED BY <1>2, <2>1, <2>2
<1> HIDE DEF P
<1>3. S \in P
  BY <1>1, <1>2, FiniteSetInduction
<1> QED BY <1>3 DEF P

LEMMA SumIsExtensional ==
  ASSUME NEW S, IsFiniteSet(S), NEW f, NEW g, \A x \in S : f[x] \in Nat /\ f[x] = g[x]
  PROVE  SumOver(f, S) = SumOver(g, S)
<1>1. SumOver(f, S) <= SumOver(g, S) /\ SumOver(g, S) <= SumOver(f, S)
  BY SumIsMonotone
<1>2. SumOver(f, S) \in Nat /\ SumOver(g, S) \in Nat
  BY SumTakesAny
<1> QED BY <1>1, <1>2

LEMMA SumIsAdditive ==
  ASSUME NEW S, IsFiniteSet(S), NEW f \in [S -> Nat], NEW g \in [S -> Nat]
  PROVE  SumOver([x \in S |-> f[x] + g[x]], S) = SumOver(f, S) + SumOver(g, S)
<1> DEFINE h == [x \in S |-> f[x] + g[x]]
           P == {T \in SUBSET S : SumOver(h, T) = SumOver(f, T) + SumOver(g, T)}
<1>1. {} \in P
  BY SumOfNone
<1>2. ASSUME NEW T \in SUBSET S, NEW x \in S \ T, T \in P PROVE T \cup {x} \in P
  <2>1. h \in [S -> Nat] /\ h[x] = f[x] + g[x] /\ f[x] \in Nat /\ g[x] \in Nat
    OBVIOUS
  <2> HIDE DEF h
  <2>2. ASSUME NEW k \in [S -> Nat]
        PROVE  SumOver(k, T) \in Nat /\ SumOver(k, T \cup {x}) = k[x] + SumOver(k, T)
    BY SumAddsElement
  <2>3. /\ SumOver(f, T) \in Nat /\ SumOver(f, T \cup {x}) = f[x] + SumOver(f, T)
        /\ SumOver(g, T) \in Nat /\ SumOver(g, T \cup {x}) = g[x] + SumOver(g, T)
        /\ SumOver(h, T) \in Nat /\ SumOver(h, T \cup {x}) = h[x] + SumOver(h, T)
    BY <2>1, <2>2
  <2> QED BY <1>2, <2>1, <2>3
<1> HIDE DEF P
<1>3. S \in P
  BY <1>1, <1>2, FiniteSetInduction
<1> QED BY <1>3 DEF P

LEMMA SumContainsEach ==
  ASSUME NEW S, IsFiniteSet(S), NEW f, \A y \in S : f[y] \in Nat, NEW x \in S
  PROVE  f[x] <= SumOver(f, S)
<1>1. SumOver(f, S) = f[x] + SumOver(f, S \ {x})
  BY SumTakesAny
<1>2. SumOver(f, S \ {x}) \in Nat
  BY FS_RemoveElement, SumTakesAny
<1> QED BY <1>1, <1>2
=============================================================================
