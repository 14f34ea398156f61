----------------------------- MODULE SumTheorems -----------------------------
(***************************************************************************)
(* What SumFunction returns.  The allocated and the requested amounts are  *)
(* sums over sets of allocations (SUM(amount) of the database, += of the   *)
(* Python code); the proofs about them need to know what one more, or one  *)
(* less, allocation does to a sum.  The second part is about functions     *)
(* that are defined by recursion: that there is such a function, and how   *)
(* to argue about its values.  Induction, over finite sets, over natural   *)
(* numbers or over what is left to do, is stated with the set G of all     *)
(* good values in place of a predicate.                                    *)
(***************************************************************************)
EXTENDS FiniteSetTheorems, TLAPS

(* Every non-empty set of natural numbers has a smallest one.              *)
LEMMA Smallest ==
  ASSUME NEW S, S \subseteq Nat, S # {}
  PROVE  \E n \in S : \A m \in S : n <= m
<1> DEFINE Less == OpToRel(<, Nat)
<1>1. IsWellFoundedOn(Less, Nat)
  BY NatLessThanWellFounded
<1>2. \A m, n \in Nat : m < n => <<m, n>> \in Less
  BY DEF OpToRel
<1> HIDE DEF Less
<1>3. PICK n \in S : \A m \in S : ~(<<m, n>> \in Less)
  BY <1>1, WFMin
<1>4. \A m \in S : n <= m
  <2> TAKE m \in S
  <2>1. m \in Nat /\ n \in Nat /\ ~(m < n)
    BY <1>2, <1>3
  <2> QED BY <2>1
<1> QED BY <1>4

(* A set is reached from its smaller subsets: if every subset is good as   *)
(* soon as all subsets with one element less are, the set itself is good.  *)
LEMMA FiniteSubsets ==
  ASSUME NEW S, IsFiniteSet(S), NEW G,
         \A T \in SUBSET S : (\A x \in T : T \ {x} \in G) => T \in G
  PROVE  S \in G
<1> DEFINE Bad == {T \in SUBSET S : T \notin G}
           Sizes == {Cardinality(T) : T \in Bad}
<1>1. SUFFICES ASSUME S \notin G PROVE FALSE
  OBVIOUS
<1>2. \A T \in SUBSET S : IsFiniteSet(T) /\ Cardinality(T) \in Nat
  BY FS_Subset, FS_CardinalityType
<1>3. Sizes \subseteq Nat /\ Sizes # {}
  BY <1>1, <1>2
<1>4. PICK T \in Bad : \A U \in Bad : Cardinality(T) <= Cardinality(U)
  <2>1. \E n \in Sizes : \A m \in Sizes : n <= m
    <3> HIDE DEF Sizes
    <3> QED BY <1>3, Smallest
  <2> QED BY <2>1
<1>5. PICK x \in T : T \ {x} \notin G
  BY <1>4
<1>6. T \ {x} \in Bad /\ Cardinality(T \ {x}) = Cardinality(T) - 1
  BY <1>2, <1>4, <1>5, FS_RemoveElement
<1>7. Cardinality(T) \in Nat
  BY <1>2, <1>4
<1> QED BY <1>4, <1>6, <1>7

(* What SumFunctionOnSet folds over the subsets of S.                      *)
IsFold(g, f, S) ==
  g = [T \in SUBSET S |-> IF T = {} THEN 0
                          ELSE f[CHOOSE x \in T : TRUE] + g[T \ {CHOOSE x \in T : TRUE}]]

(* Two folds agree on the sets both are defined for.                       *)
LEMMA FoldsAgree ==
  ASSUME NEW S, IsFiniteSet(S), NEW f, NEW g, NEW h, NEW U, NEW V,
         S \subseteq U, S \subseteq V, IsFold(g, f, U), IsFold(h, f, V)
  PROVE  g[S] = h[S]
<1> DEFINE G == {T \in SUBSET S : g[T] = h[T]}
           some(T) == CHOOSE x \in T : TRUE
<1>1. \A T \in SUBSET S : (\A x \in T : T \ {x} \in G) => T \in G
  <2> SUFFICES ASSUME NEW T \in SUBSET S, \A x \in T : T \ {x} \in G
               PROVE  g[T] = h[T]
    OBVIOUS
  <2>1. T \in SUBSET U /\ T \in SUBSET V
    OBVIOUS
  <2>2. CASE T = {}
    <3>1. g[T] = 0
      BY <2>1, <2>2 DEF IsFold
    <3>2. h[T] = 0
      BY <2>1, <2>2 DEF IsFold
    <3> QED BY <3>1, <3>2
  <2>3. CASE T # {}
    <3>1. some(T) \in T
      BY <2>3
    <3>2. g[T] = f[some(T)] + g[T \ {some(T)}]
      BY <2>1, <2>3 DEF IsFold
    <3>3. h[T] = f[some(T)] + h[T \ {some(T)}]
      BY <2>1, <2>3 DEF IsFold
    <3>4. g[T \ {some(T)}] = h[T \ {some(T)}]
      BY <3>1
    <3> QED BY <3>2, <3>3, <3>4
  <2> QED BY <2>2, <2>3
<1> HIDE DEF G
<1>2. S \in G
  BY <1>1, FiniteSubsets
<1> QED BY <1>2 DEF G

(* There is a fold over the subsets of a finite set.                       *)
LEMMA FoldExists ==
  ASSUME NEW S, IsFiniteSet(S), NEW f
  PROVE  \E g : IsFold(g, f, S)
<1> DEFINE G == {T \in SUBSET S : \A V \in SUBSET T : \E g : IsFold(g, f, V)}
           fold(T) == CHOOSE g : IsFold(g, f, T)
           some(T) == CHOOSE x \in T : TRUE
           rest(T) == T \ {some(T)}
<1>1. ASSUME NEW T \in SUBSET S, \A V \in SUBSET T : V # T => \E g : IsFold(g, f, V)
      PROVE  \E g : IsFold(g, f, T)
  <2> DEFINE g == [W \in SUBSET T |-> IF W = {} THEN 0 ELSE f[some(W)] + fold(rest(W))[rest(W)]]
  <2>1. \A V \in SUBSET T : V # T => IsFold(fold(V), f, V)
    BY <1>1
  <2>2. ASSUME NEW W \in SUBSET T, W # {}
        PROVE  g[rest(W)] = fold(rest(W))[rest(W)]
    <3> DEFINE R == rest(W)
    <3>1. some(W) \in W /\ R \in SUBSET T /\ R # T
      BY <2>2
    <3>2. IsFold(fold(R), f, R)
      BY <2>1, <3>1
    <3>3. CASE R = {}
      <4>1. g[R] = 0
        BY <3>1, <3>3
      <4>2. fold(R)[R] = 0
        <5> HIDE DEF fold, R
        <5> QED BY <3>2, <3>3 DEF IsFold
      <4> QED BY <4>1, <4>2
    <3>4. CASE R # {}
      <4>1. some(R) \in R /\ rest(R) \in SUBSET T /\ rest(R) # T
        BY <3>1, <3>4
      <4>2. IsFold(fold(rest(R)), f, rest(R))
        BY <2>1, <4>1
      <4>3. g[R] = f[some(R)] + fold(rest(R))[rest(R)]
        BY <3>1, <3>4
      <4>4. fold(R)[R] = f[some(R)] + fold(R)[rest(R)]
        <5> HIDE DEF fold, R
        <5> QED BY <3>2, <3>4 DEF IsFold
      <4>5. fold(rest(R))[rest(R)] = fold(R)[rest(R)]
        <5>1. IsFiniteSet(rest(R)) /\ rest(R) \subseteq R
          BY <4>1, FS_Subset
        <5> HIDE DEF fold, R, rest
        <5> QED BY <3>2, <4>2, <5>1, FoldsAgree
      <4> QED BY <4>3, <4>4, <4>5
    <3> QED BY <3>3, <3>4
  <2>3. IsFold(g, f, T)
    <3>1. g = [W \in SUBSET T |-> IF W = {} THEN 0 ELSE f[some(W)] + g[rest(W)]]
      <4>1. \A W \in SUBSET T : (IF W = {} THEN 0 ELSE f[some(W)] + fold(rest(W))[rest(W)])
                               = (IF W = {} THEN 0 ELSE f[some(W)] + g[rest(W)])
        <5> HIDE DEF g, some, fold, rest
        <5> QED BY <2>2
      <4>2. g = [W \in SUBSET T |-> IF W = {} THEN 0 ELSE f[some(W)] + fold(rest(W))[rest(W)]]
        OBVIOUS
      <4> HIDE DEF g, some, fold, rest
      <4> QED BY <4>1, <4>2
    <3> HIDE DEF g
    <3> QED BY <3>1 DEF IsFold
  <2> HIDE DEF g
  <2> QED BY <2>3
<1>2. \A T \in SUBSET S : (\A x \in T : T \ {x} \in G) => T \in G
  <2> SUFFICES ASSUME NEW T \in SUBSET S, \A x \in T : T \ {x} \in G,
                      NEW V \in SUBSET T
               PROVE  \E g : IsFold(g, f, V)
    OBVIOUS
  <2>1. \A U \in SUBSET T : U # T => \E g : IsFold(g, f, U)
    <3> TAKE U \in SUBSET T
    <3> HAVE U # T
    <3>1. PICK x \in T : U \in SUBSET (T \ {x})
      OBVIOUS
    <3> QED BY <3>1
  <2> QED BY <1>1, <2>1
<1> HIDE DEF G
<1>3. S \in G
  BY <1>2, FiniteSubsets
<1> QED BY <1>3 DEF G

(* SumFunctionOnSet is such a fold.                                        *)
LEMMA SumIsFold ==
  ASSUME NEW S, IsFiniteSet(S), NEW f
  PROVE  \E g : IsFold(g, f, S) /\ SumFunctionOnSet(f, S) = g[S]
<1> DEFINE fold == CHOOSE g : IsFold(g, f, S)
<1>1. IsFold(fold, f, S)
  BY FoldExists
<1>2. SumFunctionOnSet(f, S) = fold[S]
  BY DEF SumFunctionOnSet, FoldFunctionOnSet, MapThenFoldSet, IsFold
<1> QED BY <1>1, <1>2

(* The sum over nothing.                                                   *)
LEMMA SumOfNothing ==
  ASSUME NEW f
  PROVE  SumFunctionOnSet(f, {}) = 0
<1>1. PICK g : IsFold(g, f, {}) /\ SumFunctionOnSet(f, {}) = g[{}]
  BY SumIsFold, FS_EmptySet
<1> QED BY <1>1 DEF IsFold

(* A sum is one of its terms and the sum of the rest.                      *)
LEMMA SumTakesSome ==
  ASSUME NEW S, IsFiniteSet(S), S # {}, NEW f
  PROVE  \E x \in S : SumFunctionOnSet(f, S) = f[x] + SumFunctionOnSet(f, S \ {x})
<1> DEFINE c == CHOOSE x \in S : TRUE
           R == S \ {c}
<1>1. c \in S
  OBVIOUS
<1>2. IsFiniteSet(R)
  BY FS_Subset
<1>3. PICK g : IsFold(g, f, S) /\ SumFunctionOnSet(f, S) = g[S]
  BY SumIsFold
<1>4. PICK h : IsFold(h, f, R) /\ SumFunctionOnSet(f, R) = h[R]
  BY SumIsFold, <1>2
<1>5. g[S] = f[c] + g[R]
  BY <1>3 DEF IsFold
<1>6. g[R] = h[R]
  <2> HIDE DEF R
  <2>1. R \subseteq S
    BY DEF R
  <2> QED BY <1>2, <1>3, <1>4, <2>1, FoldsAgree
<1> HIDE DEF R, c
<1>7. SumFunctionOnSet(f, S) = f[c] + SumFunctionOnSet(f, R)
  BY <1>3, <1>4, <1>5, <1>6
<1> QED BY <1>1, <1>7 DEF R

(* The sum of natural numbers is a natural number.                         *)
LEMMA SumType ==
  ASSUME NEW S, IsFiniteSet(S), NEW f, \A x \in S : f[x] \in Nat
  PROVE  SumFunctionOnSet(f, S) \in Nat
<1> DEFINE G == {T \in SUBSET S : SumFunctionOnSet(f, T) \in Nat}
<1>1. \A T \in SUBSET S : (\A x \in T : T \ {x} \in G) => T \in G
  <2> SUFFICES ASSUME NEW T \in SUBSET S, \A x \in T : T \ {x} \in G
               PROVE  SumFunctionOnSet(f, T) \in Nat
    OBVIOUS
  <2>1. CASE T = {}
    BY <2>1, SumOfNothing
  <2>2. CASE T # {}
    <3>1. PICK x \in T : SumFunctionOnSet(f, T) = f[x] + SumFunctionOnSet(f, T \ {x})
      BY <2>2, SumTakesSome, FS_Subset
    <3>2. f[x] \in Nat /\ SumFunctionOnSet(f, T \ {x}) \in Nat
      OBVIOUS
    <3> QED BY <3>1, <3>2
  <2> QED BY <2>1, <2>2
<1> HIDE DEF G
<1>2. S \in G
  BY <1>1, FiniteSubsets
<1> QED BY <1>2 DEF G

(* Any element may be taken out of a sum.                                  *)
LEMMA SumWithout ==
  ASSUME NEW S, IsFiniteSet(S), NEW f, \A x \in S : f[x] \in Nat, NEW e \in S
  PROVE  SumFunctionOnSet(f, S) = f[e] + SumFunctionOnSet(f, S \ {e})
<1> DEFINE sum(T) == SumFunctionOnSet(f, T)
           G == {T \in SUBSET S : \A y \in T : sum(T) = f[y] + sum(T \ {y})}
<1>1. \A T \in SUBSET S : sum(T) \in Nat
  BY SumType, FS_Subset
<1>2. \A T \in SUBSET S : (\A x \in T : T \ {x} \in G) => T \in G
  <2> SUFFICES ASSUME NEW T \in SUBSET S, \A x \in T : T \ {x} \in G, NEW y \in T
               PROVE  sum(T) = f[y] + sum(T \ {y})
    OBVIOUS
  <2>1. PICK c \in T : sum(T) = f[c] + sum(T \ {c})
    <3>1. IsFiniteSet(T) /\ T # {}
      BY FS_Subset
    <3> QED BY <3>1, SumTakesSome
  <2>2. CASE c = y
    BY <2>1, <2>2
  <2>3. CASE c # y
    <3>1. sum(T \ {c}) = f[y] + sum((T \ {c}) \ {y})
      BY <2>3
    <3>2. sum(T \ {y}) = f[c] + sum((T \ {y}) \ {c})
      BY <2>3
    <3>3. (T \ {c}) \ {y} = (T \ {y}) \ {c}
      OBVIOUS
    <3>4. f[c] \in Nat /\ f[y] \in Nat /\ sum((T \ {c}) \ {y}) \in Nat
      BY <1>1
    <3> HIDE DEF sum
    <3> QED BY <2>1, <3>1, <3>2, <3>3, <3>4
  <2> QED BY <2>2, <2>3
<1> HIDE DEF G
<1>3. S \in G
  BY <1>2, FiniteSubsets
<1> QED BY <1>3 DEF G

(* Functions with the same values have the same sum, also when one set     *)
(* renames the elements of the other.                                      *)
LEMMA SumRenamed ==
  ASSUME NEW S, IsFiniteSet(S), NEW T, NEW name \in Bijection(S, T), NEW f, NEW h,
         \A x \in S : f[x] \in Nat /\ h[name[x]] = f[x]
  PROVE  SumFunctionOnSet(h, T) = SumFunctionOnSet(f, S)
<1> DEFINE image(U) == {name[x] : x \in U}
           G == {U \in SUBSET S : SumFunctionOnSet(h, image(U)) = SumFunctionOnSet(f, U)}
<1>0. /\ name \in [S -> T]
      /\ \A x, y \in S : name[x] = name[y] => x = y
      /\ image(S) = T
  BY DEF Bijection, Injection, Surjection, IsInjective
<1>1. \A U \in SUBSET S : IsFiniteSet(image(U)) /\ \A y \in image(U) : h[y] \in Nat
  <2> TAKE U \in SUBSET S
  <2>1. IsFiniteSet(U)
    BY FS_Subset
  <2>2. [x \in U |-> name[x]] \in Surjection(U, image(U))
    BY DEF Surjection
  <2>3. IsFiniteSet(image(U))
    <3> HIDE DEF image
    <3> QED BY <2>1, <2>2, FS_Surjection
  <2> QED BY <2>3
<1>2. \A U \in SUBSET S : (\A x \in U : U \ {x} \in G) => U \in G
  <2> SUFFICES ASSUME NEW U \in SUBSET S, \A x \in U : U \ {x} \in G
               PROVE  SumFunctionOnSet(h, image(U)) = SumFunctionOnSet(f, U)
    OBVIOUS
  <2>1. CASE U = {}
    <3>1. image(U) = {}
      BY <2>1
    <3> QED BY <2>1, <3>1, SumOfNothing
  <2>2. CASE U # {}
    <3>1. PICK x \in U : TRUE
      BY <2>2
    <3>2. IsFiniteSet(U) /\ \A y \in U : f[y] \in Nat
      BY FS_Subset
    <3>3. SumFunctionOnSet(f, U) = f[x] + SumFunctionOnSet(f, U \ {x})
      BY <3>1, <3>2, SumWithout
    <3>4. image(U) \ {name[x]} = image(U \ {x}) /\ name[x] \in image(U)
      BY <1>0, <3>1
    <3>5. SumFunctionOnSet(h, image(U)) = h[name[x]] + SumFunctionOnSet(h, image(U) \ {name[x]})
      <4>1. IsFiniteSet(image(U)) /\ \A y \in image(U) : h[y] \in Nat
        BY <1>1
      <4> HIDE DEF image
      <4> QED BY <3>4, <4>1, SumWithout
    <3>6. SumFunctionOnSet(h, image(U \ {x})) = SumFunctionOnSet(f, U \ {x})
      BY <3>1
    <3> HIDE DEF image
    <3> QED BY <3>1, <3>3, <3>4, <3>5, <3>6
  <2> QED BY <2>1, <2>2
<1> HIDE DEF G
<1>3. S \in G
  BY <1>2, FiniteSubsets
<1> QED BY <1>0, <1>3 DEF G

(* The sum over two disjoint sets.                                         *)
LEMMA SumOfUnion ==
  ASSUME NEW S, IsFiniteSet(S), NEW T, IsFiniteSet(T), S \cap T = {},
         NEW f, \A x \in S \cup T : f[x] \in Nat
  PROVE  SumFunctionOnSet(f, S \cup T) = SumFunctionOnSet(f, S) + SumFunctionOnSet(f, T)
<1> DEFINE sum(U) == SumFunctionOnSet(f, U)
           G == {U \in SUBSET T : sum(S \cup U) = sum(S) + sum(U)}
<1>1. \A U \in SUBSET T : (\A x \in U : U \ {x} \in G) => U \in G
  <2> SUFFICES ASSUME NEW U \in SUBSET T, \A x \in U : U \ {x} \in G
               PROVE  sum(S \cup U) = sum(S) + sum(U)
    OBVIOUS
  <2>1. IsFiniteSet(U) /\ IsFiniteSet(S \cup U)
    BY FS_Subset, FS_Union
  <2>2. sum(S) \in Nat
    BY SumType
  <2>3. CASE U = {}
    <3>1. sum(U) = 0
      BY <2>3, SumOfNothing
    <3>2. sum(S \cup U) = sum(S)
      <4>1. S \cup U = S
        BY <2>3
      <4> QED BY <4>1, Zenon
    <3> HIDE DEF sum
    <3> QED BY <2>2, <3>1, <3>2
  <2>4. CASE U # {}
    <3>1. PICK x \in U : TRUE
      BY <2>4
    <3>2. sum(U) = f[x] + sum(U \ {x})
      BY <2>1, <3>1, SumWithout
    <3>3. sum(S \cup U) = f[x] + sum((S \cup U) \ {x})
      <4>1. x \in S \cup U /\ \A y \in S \cup U : f[y] \in Nat
        BY <3>1
      <4> QED BY <2>1, <4>1, SumWithout
    <3>4. sum((S \cup U) \ {x}) = sum(S \cup (U \ {x}))
      <4>1. (S \cup U) \ {x} = S \cup (U \ {x})
        BY <3>1
      <4> QED BY <4>1, Zenon
    <3>5. sum(S \cup (U \ {x})) = sum(S) + sum(U \ {x})
      BY <3>1
    <3>6. f[x] \in Nat /\ sum(U \ {x}) \in Nat
      <4>1. IsFiniteSet(U \ {x}) /\ \A y \in U \ {x} : f[y] \in Nat
        BY <2>1, FS_Subset
      <4> QED BY <3>1, <4>1, SumType
    <3> HIDE DEF sum
    <3> QED BY <2>2, <3>2, <3>3, <3>4, <3>5, <3>6
  <2> QED BY <2>3, <2>4
<1> HIDE DEF G
<1>2. T \in G
  BY <1>1, FiniteSubsets
<1> QED BY <1>2 DEF G

(* Fewer terms make no larger sum.                                         *)
LEMMA SumOfSubset ==
  ASSUME NEW S, IsFiniteSet(S), NEW T \in SUBSET S, NEW f, \A x \in S : f[x] \in Nat
  PROVE  SumFunctionOnSet(f, T) <= SumFunctionOnSet(f, S)
<1>1. IsFiniteSet(T) /\ IsFiniteSet(S \ T)
  BY FS_Subset
<1>2. SumFunctionOnSet(f, T) \in Nat /\ SumFunctionOnSet(f, S \ T) \in Nat
  BY <1>1, SumType
<1>3. SumFunctionOnSet(f, T \cup (S \ T)) = SumFunctionOnSet(f, T) + SumFunctionOnSet(f, S \ T)
  BY <1>1, SumOfUnion
<1>4. SumFunctionOnSet(f, T \cup (S \ T)) = SumFunctionOnSet(f, S)
  <2>1. T \cup (S \ T) = S
    OBVIOUS
  <2> QED BY <2>1, Zenon
<1> QED BY <1>2, <1>3, <1>4

(* Functions with the same values have the same sum.                       *)
LEMMA SumSame ==
  ASSUME NEW S, IsFiniteSet(S), NEW f, NEW h, \A x \in S : f[x] \in Nat /\ h[x] = f[x]
  PROVE  SumFunctionOnSet(h, S) = SumFunctionOnSet(f, S)
<1> DEFINE name == [x \in S |-> x]
<1>1. name \in Bijection(S, S)
  BY DEF Bijection, Injection, Surjection, IsInjective
<1>2. \A x \in S : f[x] \in Nat /\ h[name[x]] = f[x]
  OBVIOUS
<1> HIDE DEF name
<1> QED BY <1>1, <1>2, SumRenamed

(* The sum of a function that is spelled out.                              *)
LEMMA SumSpelledOut ==
  ASSUME NEW S, IsFiniteSet(S), NEW f, \A x \in S : f[x] \in Nat, NEW h, DOMAIN h = S,
         \A x \in S : h[x] = f[x]
  PROVE  SumFunction(h) = SumFunctionOnSet(f, S)
BY SumSame DEF SumFunction

(* Elements that count nothing may be left out.                            *)
LEMMA SumOfTheRest ==
  ASSUME NEW S, IsFiniteSet(S), NEW T \in SUBSET S, NEW f,
         \A x \in S : f[x] \in Nat, \A x \in S \ T : f[x] = 0
  PROVE  SumFunctionOnSet(f, S) = SumFunctionOnSet(f, T)
<1> DEFINE G == {U \in SUBSET (S \ T) : SumFunctionOnSet(f, U) = 0}
<1>1. IsFiniteSet(T) /\ IsFiniteSet(S \ T)
  BY FS_Subset
<1>2. \A U \in SUBSET (S \ T) : (\A x \in U : U \ {x} \in G) => U \in G
  <2> SUFFICES ASSUME NEW U \in SUBSET (S \ T), \A x \in U : U \ {x} \in G
               PROVE  SumFunctionOnSet(f, U) = 0
    OBVIOUS
  <2>1. CASE U = {}
    BY <2>1, SumOfNothing
  <2>2. CASE U # {}
    <3>1. IsFiniteSet(U) /\ U # {}
      BY <1>1, <2>2, FS_Subset
    <3>2. PICK x \in U : SumFunctionOnSet(f, U) = f[x] + SumFunctionOnSet(f, U \ {x})
      BY <3>1, SumTakesSome
    <3>3. f[x] = 0 /\ SumFunctionOnSet(f, U \ {x}) = 0
      OBVIOUS
    <3> QED BY <3>2, <3>3
  <2> QED BY <2>1, <2>2
<1> HIDE DEF G
<1>3. S \ T \in G
  BY <1>1, <1>2, FiniteSubsets
<1>4. SumFunctionOnSet(f, S \ T) = 0
  BY <1>3 DEF G
<1>5. SumFunctionOnSet(f, T \cup (S \ T)) = SumFunctionOnSet(f, T) + SumFunctionOnSet(f, S \ T)
  BY <1>1, SumOfUnion
<1>6. SumFunctionOnSet(f, T \cup (S \ T)) = SumFunctionOnSet(f, S)
  <2>1. T \cup (S \ T) = S
    OBVIOUS
  <2> QED BY <2>1, Zenon
<1>7. SumFunctionOnSet(f, T) \in Nat
  BY <1>1, SumType
<1> QED BY <1>4, <1>5, <1>6, <1>7

(* The sum of two functions is the sum of their sums.                      *)
LEMMA SumOfBoth ==
  ASSUME NEW S, IsFiniteSet(S), NEW f, NEW g, NEW h,
         \A x \in S : f[x] \in Nat /\ g[x] \in Nat /\ h[x] = f[x] + g[x]
  PROVE  SumFunctionOnSet(h, S) = SumFunctionOnSet(f, S) + SumFunctionOnSet(g, S)
<1> DEFINE sum(e, U) == SumFunctionOnSet(e, U)
           G == {U \in SUBSET S : sum(h, U) = sum(f, U) + sum(g, U)}
<1>1. \A U \in SUBSET S : IsFiniteSet(U) /\ \A x \in U : h[x] \in Nat
  BY FS_Subset
<1>2. \A U \in SUBSET S : sum(f, U) \in Nat /\ sum(g, U) \in Nat
  BY <1>1, SumType
<1>3. \A U \in SUBSET S : (\A x \in U : U \ {x} \in G) => U \in G
  <2> SUFFICES ASSUME NEW U \in SUBSET S, \A x \in U : U \ {x} \in G
               PROVE  sum(h, U) = sum(f, U) + sum(g, U)
    OBVIOUS
  <2>1. CASE U = {}
    BY <2>1, SumOfNothing
  <2>2. CASE U # {}
    <3>1. PICK x \in U : TRUE
      BY <2>2
    <3>2. /\ sum(f, U) = f[x] + sum(f, U \ {x})
          /\ sum(g, U) = g[x] + sum(g, U \ {x})
          /\ sum(h, U) = h[x] + sum(h, U \ {x})
      <4>1. /\ IsFiniteSet(U) /\ x \in U
            /\ \A y \in U : f[y] \in Nat /\ g[y] \in Nat /\ h[y] \in Nat
        BY <1>1, <3>1
      <4> QED BY <4>1, SumWithout
    <3>3. sum(h, U \ {x}) = sum(f, U \ {x}) + sum(g, U \ {x})
      BY <3>1
    <3>4. sum(f, U \ {x}) \in Nat /\ sum(g, U \ {x}) \in Nat
      BY <1>2
    <3> HIDE DEF sum
    <3> QED BY <3>1, <3>2, <3>3, <3>4
  <2> QED BY <2>1, <2>2
<1> HIDE DEF G
<1>4. S \in G
  BY <1>3, FiniteSubsets
<1> QED BY <1>4 DEF G

(* What adds up to no less is nowhere less.                                *)
LEMMA SumTight ==
  ASSUME NEW S, IsFiniteSet(S), NEW f, NEW g,
         \A x \in S : f[x] \in Nat /\ g[x] \in Nat /\ f[x] <= g[x],
         SumFunctionOnSet(f, S) = SumFunctionOnSet(g, S)
  PROVE  \A x \in S : f[x] = g[x]
<1> DEFINE d == [x \in S |-> g[x] - f[x]]
<1>1. \A x \in S : f[x] \in Nat /\ d[x] \in Nat /\ g[x] = f[x] + d[x]
  OBVIOUS
<1> HIDE DEF d
<1>2. SumFunctionOnSet(g, S) = SumFunctionOnSet(f, S) + SumFunctionOnSet(d, S)
  BY <1>1, SumOfBoth
<1>3. SumFunctionOnSet(f, S) \in Nat /\ SumFunctionOnSet(d, S) \in Nat
  BY <1>1, SumType
<1>4. SumFunctionOnSet(d, S) = 0
  BY <1>2, <1>3
<1> TAKE x \in S
<1>5. SumFunctionOnSet(d, S) = d[x] + SumFunctionOnSet(d, S \ {x})
  BY <1>1, SumWithout
<1>6. SumFunctionOnSet(d, S \ {x}) \in Nat
  <2>1. IsFiniteSet(S \ {x}) /\ \A y \in S \ {x} : d[y] \in Nat
    BY <1>1, FS_Subset
  <2> QED BY <2>1, SumType
<1>7. d[x] \in Nat /\ f[x] \in Nat /\ g[x] = f[x] + d[x]
  BY <1>1
<1> QED BY <1>4, <1>5, <1>6, <1>7

(* What is summed part by part is summed as a whole.                       *)
LEMMA SumOfParts ==
  ASSUME NEW K, IsFiniteSet(K), NEW part, \A k \in K : IsFiniteSet(part[k]),
         \A j, k \in K : j # k => part[j] \cap part[k] = {},
         NEW f, \A k \in K : \A x \in part[k] : f[x] \in Nat,
         NEW h, \A k \in K : h[k] = SumFunctionOnSet(f, part[k]),
         NEW all, \A k \in K : part[k] \subseteq all, \A x \in all : \E k \in K : x \in part[k]
  PROVE  SumFunctionOnSet(h, K) = SumFunctionOnSet(f, all)
<1> DEFINE whole(J) == UNION {part[k] : k \in J}
           G == {J \in SUBSET K : /\ IsFiniteSet(whole(J))
                                  /\ SumFunctionOnSet(h, J) = SumFunctionOnSet(f, whole(J))}
<1>1. \A k \in K : h[k] \in Nat
  BY SumType
<1>2. \A J \in SUBSET K : (\A k \in J : J \ {k} \in G) => J \in G
  <2> SUFFICES ASSUME NEW J \in SUBSET K, \A k \in J : J \ {k} \in G
               PROVE  /\ IsFiniteSet(whole(J))
                      /\ SumFunctionOnSet(h, J) = SumFunctionOnSet(f, whole(J))
    OBVIOUS
  <2>1. CASE J = {}
    <3>1. whole(J) = {}
      BY <2>1
    <3> HIDE DEF whole
    <3> QED BY <2>1, <3>1, SumOfNothing, FS_EmptySet
  <2>2. CASE J # {}
    <3>1. PICK k \in J : TRUE
      BY <2>2
    <3> DEFINE W == whole(J \ {k})
               P == part[k]
    <3>2. IsFiniteSet(W) /\ SumFunctionOnSet(h, J \ {k}) = SumFunctionOnSet(f, W)
      BY <3>1
    <3>3. IsFiniteSet(P) /\ W \cap P = {} /\ \A x \in W \cup P : f[x] \in Nat
      BY <3>1
    <3>4. whole(J) = W \cup P
      BY <3>1
    <3>5. SumFunctionOnSet(h, J) = h[k] + SumFunctionOnSet(h, J \ {k})
      <4>1. IsFiniteSet(J) /\ \A j \in J : h[j] \in Nat
        BY <1>1, FS_Subset
      <4> HIDE DEF G, whole, W, P
      <4> QED BY <3>1, <4>1, SumWithout
    <3>6. h[k] = SumFunctionOnSet(f, P)
      BY <3>1
    <3> HIDE DEF W, P, whole
    <3>7. SumFunctionOnSet(f, W \cup P) = SumFunctionOnSet(f, W) + SumFunctionOnSet(f, P)
      BY <3>2, <3>3, SumOfUnion
    <3>8. SumFunctionOnSet(f, W) \in Nat /\ SumFunctionOnSet(f, P) \in Nat
      BY <3>2, <3>3, SumType
    <3>9. IsFiniteSet(W \cup P)
      BY <3>2, <3>3, FS_Union
    <3> QED BY <3>2, <3>4, <3>5, <3>6, <3>7, <3>8, <3>9
  <2> QED BY <2>1, <2>2
<1> HIDE DEF G, whole
<1>3. K \in G
  BY <1>2, FiniteSubsets
<1>4. SumFunctionOnSet(h, K) = SumFunctionOnSet(f, whole(K))
  BY <1>3 DEF G
<1>5. whole(K) = all
  BY DEF whole
<1> QED BY <1>4, <1>5, Zenon

-----------------------------------------------------------------------------
(* Induction over the natural numbers.                                     *)
LEMMA Naturally ==
  ASSUME NEW G, 0 \in G, \A n \in Nat : n \in G => n + 1 \in G
  PROVE  Nat \subseteq G
<1> DEFINE Bad == {n \in Nat : n \notin G}
<1>1. SUFFICES ASSUME Bad # {} PROVE FALSE
  OBVIOUS
<1>2. PICK n \in Bad : \A k \in Bad : n <= k
  <2>1. Bad \subseteq Nat
    OBVIOUS
  <2> HIDE DEF Bad
  <2> QED BY <1>1, <2>1, Smallest
<1>3. n \in Nat /\ n # 0 /\ n - 1 \in Nat /\ n - 1 \notin Bad
  BY <1>2
<1>4. (n - 1) + 1 \in G
  BY <1>3
<1>5. (n - 1) + 1 = n
  BY <1>3
<1> QED BY <1>2, <1>4, <1>5

(* Induction over the size of what is left to do.                          *)
LEMMA BySize ==
  ASSUME NEW D, NEW m \in [D -> Nat], NEW G,
         \A x \in D : (\A y \in D : m[y] < m[x] => y \in G) => x \in G
  PROVE  D \subseteq G
<1> DEFINE Bad == {x \in D : x \notin G}
           Sizes == {m[x] : x \in Bad}
<1>1. SUFFICES ASSUME Bad # {} PROVE FALSE
  OBVIOUS
<1>2. PICK n \in Sizes : \A k \in Sizes : n <= k
  <2>1. Sizes \subseteq Nat /\ Sizes # {}
    BY <1>1
  <2> HIDE DEF Sizes
  <2> QED BY <2>1, Smallest
<1>3. PICK x \in Bad : m[x] = n
  BY <1>2
<1>4. \A y \in D : m[y] < m[x] => y \in G
  <2> SUFFICES ASSUME NEW y \in D, m[y] < m[x], y \notin G PROVE FALSE
    OBVIOUS
  <2>1. m[y] \in Sizes
    OBVIOUS
  <2>2. m[x] <= m[y]
    BY <1>2, <1>3, <2>1
  <2> QED BY <1>3, <2>2
<1> QED BY <1>3, <1>4

(* A function on T that is given on base and elsewhere depends on its      *)
(* value for what comes next.                                              *)
IsRecursive(f, T, base, next, step) ==
  f = [x \in T |-> IF x \in DOMAIN base THEN base[x] ELSE step[<<x, f[next[x]]>>]]

(* Two such functions agree where both are defined.                        *)
LEMMA RecursionsAgree ==
  ASSUME NEW D, NEW m \in [D -> Nat], NEW base, NEW next, NEW step, NEW T, NEW U,
         T \subseteq D, U \subseteq D,
         \A x \in T \ DOMAIN base : next[x] \in T /\ m[next[x]] < m[x],
         \A x \in U \ DOMAIN base : next[x] \in U,
         NEW f, NEW g, IsRecursive(f, T, base, next, step), IsRecursive(g, U, base, next, step)
  PROVE  \A x \in T \cap U : f[x] = g[x]
<1> DEFINE E == T \cap U
           k == [x \in E |-> m[x]]
           G == {x \in E : f[x] = g[x]}
<1>1. k \in [E -> Nat]
  OBVIOUS
<1>2. ASSUME NEW x \in E, \A y \in E : k[y] < k[x] => y \in G PROVE f[x] = g[x]
  <2>1. CASE x \in DOMAIN base
    BY <2>1 DEF IsRecursive
  <2>2. CASE x \notin DOMAIN base
    <3>1. next[x] \in E /\ k[next[x]] < k[x]
      BY <2>2
    <3>2. f[next[x]] = g[next[x]]
      BY <1>2, <3>1
    <3>3. f[x] = step[<<x, f[next[x]]>>]
      BY <2>2 DEF IsRecursive
    <3>4. g[x] = step[<<x, g[next[x]]>>]
      BY <2>2 DEF IsRecursive
    <3> QED BY <3>2, <3>3, <3>4
  <2> QED BY <2>1, <2>2
<1>3. \A x \in E : (\A y \in E : k[y] < k[x] => y \in G) => x \in G
  BY <1>2
<1> HIDE DEF k, G, E
<1>4. E \subseteq G
  BY <1>1, <1>3, BySize
<1> QED BY <1>4 DEF E, G

(* There is such a function if what comes next is always smaller.          *)
LEMMA RecursionExists ==
  ASSUME NEW D, NEW m \in [D -> Nat], NEW base, NEW next, NEW step,
         \A x \in D \ DOMAIN base : next[x] \in D /\ m[next[x]] < m[x]
  PROVE  \E f : IsRecursive(f, D, base, next, step)
<1> DEFINE Below(n) == {x \in D : m[x] <= n}
           is(f, n) == IsRecursive(f, Below(n), base, next, step)
           G == {n \in Nat : \E f : is(f, n)}
<1>1. 0 \in G
  <2> DEFINE f == [x \in Below(0) |-> base[x]]
  <2>1. \A x \in Below(0) : x \in DOMAIN base
    OBVIOUS
  <2>2. f = [x \in Below(0) |-> IF x \in DOMAIN base THEN base[x] ELSE step[<<x, f[next[x]]>>]]
    <3> HIDE DEF Below
    <3> QED BY <2>1
  <2>3. is(f, 0)
    <3> HIDE DEF f
    <3> QED BY <2>2 DEF IsRecursive
  <2> HIDE DEF f, is
  <2> QED BY <2>3
<1>2. ASSUME NEW n \in Nat, NEW f, is(f, n) PROVE \E g : is(g, n + 1)
  <2> DEFINE value(x, h) == IF x \in DOMAIN base THEN base[x] ELSE step[<<x, h[next[x]]>>]
             g == [x \in Below(n + 1) |-> value(x, f)]
  <2>1. ASSUME NEW x \in Below(n + 1), x \notin DOMAIN base PROVE f[next[x]] = g[next[x]]
    <3>1. next[x] \in Below(n) /\ next[x] \in Below(n + 1)
      BY <2>1
    <3>2. f[next[x]] = value(next[x], f)
      <4> HIDE DEF Below
      <4> QED BY <1>2, <3>1 DEF IsRecursive
    <3> QED BY <3>1, <3>2
  <2>2. \A x \in Below(n + 1) : value(x, f) = value(x, g)
    <3> HIDE DEF Below, g
    <3> QED BY <2>1
  <2>3. g = [x \in Below(n + 1) |-> value(x, g)]
    <3>1. g = [x \in Below(n + 1) |-> value(x, f)]
      OBVIOUS
    <3> HIDE DEF g, value, Below
    <3> QED BY <2>2, <3>1
  <2>4. is(g, n + 1)
    <3> HIDE DEF g, Below
    <3> QED BY <2>3 DEF IsRecursive
  <2> HIDE DEF g, is
  <2> QED BY <2>4
<1>3. Nat \subseteq G
  <2>1. \A n \in Nat : n \in G => n + 1 \in G
    <3> HIDE DEF is
    <3> QED BY <1>2
  <2> HIDE DEF G
  <2> QED BY <1>1, <2>1, Naturally
<1> DEFINE sol(n) == CHOOSE f : is(f, n)
           value(x, h) == IF x \in DOMAIN base THEN base[x] ELSE step[<<x, h[next[x]]>>]
           f == [x \in D |-> sol(m[x])[x]]
<1>4. \A n \in Nat : is(sol(n), n)
  <2> HIDE DEF is
  <2> QED BY <1>3
<1>5. ASSUME NEW x \in D, x \notin DOMAIN base PROVE sol(m[x])[next[x]] = f[next[x]]
  <2> DEFINE T == Below(m[next[x]])
             U == Below(m[x])
  <2>1. next[x] \in D /\ m[next[x]] \in Nat /\ m[x] \in Nat /\ m[next[x]] < m[x]
    BY <1>5
  <2>2. next[x] \in T \cap U /\ T \subseteq D /\ U \subseteq D
    BY <2>1
  <2>3. \A y \in T \ DOMAIN base : next[y] \in T /\ m[next[y]] < m[y]
    BY <2>1
  <2>4. \A y \in U \ DOMAIN base : next[y] \in U
    BY <2>1
  <2>5. /\ IsRecursive(sol(m[next[x]]), T, base, next, step)
        /\ IsRecursive(sol(m[x]), U, base, next, step)
    BY <1>4, <2>1
  <2>6. f[next[x]] = sol(m[next[x]])[next[x]]
    BY <2>1
  <2> HIDE DEF sol, f, T, U, is, Below
  <2>7. \A y \in T \cap U : sol(m[next[x]])[y] = sol(m[x])[y]
    BY <2>2, <2>3, <2>4, <2>5, RecursionsAgree
  <2> QED BY <2>2, <2>6, <2>7
<1>6. ASSUME NEW x \in D PROVE f[x] = value(x, f)
  <2>1. x \in Below(m[x]) /\ m[x] \in Nat
    OBVIOUS
  <2>2. sol(m[x])[x] = value(x, sol(m[x]))
    <3>1. IsRecursive(sol(m[x]), Below(m[x]), base, next, step)
      BY <1>4, <2>1
    <3> HIDE DEF sol, Below
    <3> QED BY <2>1, <3>1 DEF IsRecursive
  <2>3. value(x, sol(m[x])) = value(x, f)
    <3> HIDE DEF sol, f
    <3> QED BY <1>5
  <2>4. f[x] = sol(m[x])[x]
    OBVIOUS
  <2> HIDE DEF f, sol, value
  <2> QED BY <2>2, <2>3, <2>4
<1>7. f = [x \in D |-> value(x, f)]
  <2>1. f = [x \in D |-> f[x]]
    OBVIOUS
  <2> HIDE DEF f, value
  <2> QED BY <1>6, <2>1
<1>8. IsRecursive(f, D, base, next, step)
  <2> HIDE DEF f
  <2> QED BY <1>7 DEF IsRecursive
<1> HIDE DEF f
<1> QED BY <1>8

(* The values of such a function, which are in V.                        *)
Recurses(f, D, V, base, next, step) ==
  /\ f \in [D -> V]
  /\ \A x \in D : f[x] = IF x \in DOMAIN base THEN base[x] ELSE step[<<x, f[next[x]]>>]

(* A recursion whose values stay in V.                                     *)
LEMMA TypedRecursion ==
  ASSUME NEW D, NEW m \in [D -> Nat], NEW base, NEW next, NEW step, NEW V,
         \A x \in D : x \in DOMAIN base => base[x] \in V,
         \A x \in D \ DOMAIN base : next[x] \in D /\ m[next[x]] < m[x],
         \A x \in D \ DOMAIN base : \A v \in V : step[<<x, v>>] \in V
  PROVE  \E f : Recurses(f, D, V, base, next, step)
<1>1. PICK f : IsRecursive(f, D, base, next, step)
  BY RecursionExists
<1>2. /\ f = [x \in D |-> f[x]]
      /\ \A x \in D : f[x] = IF x \in DOMAIN base THEN base[x] ELSE step[<<x, f[next[x]]>>]
  BY <1>1 DEF IsRecursive
<1> DEFINE G == {x \in D : f[x] \in V}
<1>3. \A x \in D : (\A y \in D : m[y] < m[x] => y \in G) => x \in G
  BY <1>2
<1> HIDE DEF G
<1>4. D \subseteq G
  BY <1>3, BySize
<1>5. \A x \in D : f[x] \in V
  BY <1>4 DEF G
<1> QED BY <1>2, <1>5 DEF Recurses
=============================================================================
