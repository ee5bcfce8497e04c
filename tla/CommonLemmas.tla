---------------------------- MODULE CommonLemmas ----------------------------
(***************************************************************************)
(* Lemmas that the proofs of more than one component use: induction over   *)
(* finite sets, lists in order, sums over functions, and what the          *)
(* operations of the semaphore preserve.                                   *)
(***************************************************************************)
EXTENDS AsyncSemaphore, Functions, FiniteSetTheorems, SequenceTheorems, TLAPS

-----------------------------------------------------------------------------
(* Finite sets.                                                            *)

(* Among finite sets there is a minimal one.                               *)
LEMMA SetMin ==
    ASSUME NEW S, NEW F, F # {}, F \subseteq FiniteSubsetsOf(S)
    PROVE  \E T \in F : \A U \in F : U \subseteq T => U = T
<1>1. IsWellFoundedOn(StrictSubsetOrdering(S), FiniteSubsetsOf(S))
  BY FS_StrictSubsetOrderingWellFounded
<1>2. PICK T \in F : \A U \in F : ~(<<U, T>> \in StrictSubsetOrdering(S))
  BY <1>1, WFMin
<1> QED
  BY <1>2 DEF StrictSubsetOrdering, FiniteSubsetsOf

(* Induction: what holds of {}, and of T with one more member whenever it  *)
(* holds of T, holds of a finite set.  Good is the set of the sets of      *)
(* which it holds.                                                         *)
LEMMA SetInduction ==
    ASSUME NEW S, IsFiniteSet(S), NEW Good, {} \in Good,
           \A T \in SUBSET S : \A x \in S \ T : T \in Good => T \cup {x} \in Good
    PROVE  S \in Good
<1> DEFINE Bad == {T \in SUBSET S : T \notin Good}
<1>1. SUFFICES ASSUME Bad # {} PROVE FALSE
  OBVIOUS
<1>2. Bad \subseteq FiniteSubsetsOf(S)
  BY FS_Subset DEF FiniteSubsetsOf
<1>3. PICK T \in Bad : \A U \in Bad : U \subseteq T => U = T
  <2> HIDE DEF Bad
  <2> QED  BY <1>1, <1>2, SetMin
<1>4. PICK x \in T : TRUE
  BY <1>3
<1>5. T \ {x} \in Good
  BY <1>3, <1>4
<1>6. (T \ {x}) \cup {x} = T
  BY <1>4
<1> QED  BY <1>3, <1>4, <1>5, <1>6

(* A finite set S on which R is a strict total order can be listed in the  *)
(* order of R.                                                             *)
Strict(R, S) ==
    /\ \A x, y \in S : x # y => <<x, y>> \in R \/ <<y, x>> \in R
    /\ \A x \in S : <<x, x>> \notin R
    /\ \A x, y, z \in S : <<x, y>> \in R /\ <<y, z>> \in R => <<x, z>> \in R

InOrderOf(s, R) == \A i, k \in DOMAIN s : i < k => <<s[i], s[k]>> \in R

(* ... for then it has a last member.                                      *)
LEMMA LastLemma ==
    ASSUME NEW S, IsFiniteSet(S), NEW R, Strict(R, S), S # {}
    PROVE  \E l \in S : \A x \in S : x # l => <<x, l>> \in R
<1> DEFINE HasLast(T) == \E l \in T : \A x \in T : x # l => <<x, l>> \in R
<1> DEFINE Good == {T \in SUBSET S : T = {} \/ HasLast(T)}
<1>1. {} \in Good
  OBVIOUS
<1>2. ASSUME NEW T \in SUBSET S, NEW x \in S \ T, T \in Good
      PROVE  T \cup {x} \in Good
  <2>1. CASE T = {}
    BY <2>1
  <2>2. CASE T # {}
    <3>1. PICK l \in T : \A y \in T : y # l => <<y, l>> \in R
      BY <1>2, <2>2
    <3>2. CASE <<x, l>> \in R
      BY <3>1, <3>2
    <3>3. CASE <<l, x>> \in R
      <4>1. \A y \in T \cup {x} : y # x => <<y, x>> \in R
        BY <3>1, <3>3 DEF Strict
      <4> QED  BY <4>1
    <3> QED  BY <3>1, <3>2, <3>3 DEF Strict
  <2> QED  BY <2>1, <2>2
<1>3. S \in Good
  <2> HIDE DEF Good
  <2> QED  BY <1>1, <1>2, SetInduction
<1> QED  BY <1>3

LEMMA InOrderExists ==
    ASSUME NEW S, IsFiniteSet(S), NEW R, Strict(R, S)
    PROVE  \E s \in [1..Cardinality(S) -> S] : InOrderOf(s, R)
<1> DEFINE Listed(T) == \E s \in [1..Cardinality(T) -> T] : InOrderOf(s, R)
           Bad == {T \in SUBSET S : ~Listed(T)}
<1>1. SUFFICES ASSUME Bad # {} PROVE FALSE
  OBVIOUS
<1>2. Bad \subseteq FiniteSubsetsOf(S)
  BY FS_Subset DEF FiniteSubsetsOf
<1>3. PICK T \in Bad : \A U \in Bad : U \subseteq T => U = T
  <2> HIDE DEF Bad
  <2> QED  BY <1>1, <1>2, SetMin
<1>4. IsFiniteSet(T) /\ Strict(R, T) /\ T \in SUBSET S
  BY <1>3, FS_Subset DEF Strict
<1>5. T # {}
  <2>1. ASSUME T = {} PROVE Listed(T)
    <3>1. Cardinality(T) = 0
      BY <2>1, FS_EmptySet
    <3>2. <<>> \in [1..0 -> T] /\ InOrderOf(<<>>, R)
      BY DEF InOrderOf
    <3> QED  BY <3>1, <3>2
  <2> QED  BY <1>3, <2>1
<1>6. PICK l \in T : \A x \in T : x # l => <<x, l>> \in R
  BY <1>4, <1>5, LastLemma
<1> DEFINE U == T \ {l}
           n == Cardinality(U)
<1>7. n \in Nat /\ Cardinality(T) = n + 1
  <2>1. IsFiniteSet(U) /\ Cardinality(U) = Cardinality(T) - 1
    BY <1>4, FS_RemoveElement
  <2> QED  BY <1>4, <2>1, FS_CardinalityType
<1>8. Listed(U)
  <2>1. U \in SUBSET S /\ U \subseteq T /\ U # T
    BY <1>4
  <2> HIDE DEF Listed
  <2> QED  BY <1>3, <2>1
<1>9. PICK s \in [1..n -> U] : InOrderOf(s, R)
  BY <1>8
<1>c. \A x \in U : x \in T /\ <<x, l>> \in R
  BY <1>6
<1> HIDE DEF U, n
<1> DEFINE t == [i \in 1..(n + 1) |-> IF i = n + 1 THEN l ELSE s[i]]
<1>10. t \in [1..(n + 1) -> T]
  <2>1. \A i \in 1..(n + 1) : i = n + 1 \/ i \in 1..n
    BY <1>7
  <2> QED  BY <1>9, <1>c, <2>1
<1>11. InOrderOf(t, R)
  <2> SUFFICES ASSUME NEW i \in 1..(n + 1), NEW k \in 1..(n + 1), i < k
               PROVE  <<t[i], t[k]>> \in R
    BY DEF InOrderOf
  <2>1. i \in 1..n /\ i # n + 1
    BY <1>7
  <2>2. t[i] = s[i] /\ s[i] \in U
    BY <1>9, <2>1
  <2>3. CASE k = n + 1
    BY <1>c, <2>2, <2>3
  <2>4. CASE k \in 1..n
    <3>1. t[k] = s[k] /\ DOMAIN s = 1..n
      BY <1>7, <1>9, <2>4
    <3> QED  BY <1>9, <2>1, <2>2, <2>4, <3>1 DEF InOrderOf
  <2> QED  BY <1>7, <2>3, <2>4
<1>12. Listed(T)
  <2> HIDE DEF t
  <2> QED  BY <1>7, <1>10, <1>11
<1> QED  BY <1>3, <1>12

(* Such a list has each member of S exactly once.                          *)
LEMMA InOrderBijective ==
    ASSUME NEW S, IsFiniteSet(S), NEW R, Strict(R, S),
           NEW s \in [1..Cardinality(S) -> S], InOrderOf(s, R)
    PROVE  /\ \A i, k \in DOMAIN s : s[i] = s[k] => i = k
           /\ \A x \in S : \E i \in DOMAIN s : s[i] = x
<1>1. Cardinality(S) \in Nat
  BY FS_CardinalityType
<1>2. ASSUME NEW i \in DOMAIN s, NEW k \in DOMAIN s, s[i] = s[k], i # k PROVE FALSE
  <2>1. i < k \/ k < i
    BY <1>1, <1>2
  <2>2. <<s[i], s[k]>> \in R \/ <<s[k], s[i]>> \in R
    BY <2>1 DEF InOrderOf
  <2> QED  BY <1>2, <2>2 DEF Strict
<1> DEFINE D == 1..Cardinality(S)
<1>3. s \in Injection(D, S)
  BY <1>2 DEF Injection, IsInjective
<1>4. Cardinality(D) = Cardinality(S)
  BY <1>1, FS_Interval
<1>5. s \in Surjection(D, S)
  BY <1>3, <1>4, FS_Injection
<1> QED  BY <1>2, <1>5 DEF Surjection

-----------------------------------------------------------------------------
(* Sums.  SumFunctionOnSet() folds a function over a set of indices; its   *)
(* definition unfolds into a recursive function on the subsets of that     *)
(* set.                                                                    *)
Some(s) == CHOOSE x \in s : TRUE

IsFold(iter, F, S) ==
    iter = [s \in SUBSET S |-> IF s = {} THEN 0 ELSE F[Some(s)] + iter[s \ {Some(s)}]]

LEMMA SumUnfold ==
    ASSUME NEW F, NEW S
    PROVE  SumFunctionOnSet(F, S) = (CHOOSE iter : IsFold(iter, F, S))[S]
BY DEF SumFunctionOnSet, FoldFunctionOnSet, MapThenFoldSet, IsFold, Some

LEMMA SomeLemma ==
    ASSUME NEW s, s # {}
    PROVE  Some(s) \in s
BY DEF Some

LEMMA FoldLemma ==
    ASSUME NEW F, NEW S, NEW f, IsFold(f, F, S), NEW s \in SUBSET S
    PROVE  /\ s = {} => f[s] = 0
           /\ s # {} => f[s] = F[Some(s)] + f[s \ {Some(s)}]
BY DEF IsFold

(* Two such functions agree where both are defined.                        *)
LEMMA FoldAgree ==
    ASSUME NEW F, NEW S, NEW T, NEW f, NEW g, IsFold(f, F, S), IsFold(g, F, T),
           NEW U, IsFiniteSet(U), U \subseteq S, U \subseteq T
    PROVE  f[U] = g[U]
<1> DEFINE Bad == {V \in SUBSET U : f[V] # g[V]}
<1>1. SUFFICES ASSUME Bad # {} PROVE FALSE
  OBVIOUS
<1>2. Bad \subseteq FiniteSubsetsOf(U)
  BY FS_Subset DEF FiniteSubsetsOf
<1>3. PICK V \in Bad : \A W \in Bad : W \subseteq V => W = V
  <2> HIDE DEF Bad
  <2> QED  BY <1>1, <1>2, SetMin
<1>4. V \in SUBSET U /\ V \in SUBSET S /\ V \in SUBSET T
  BY <1>3
<1>5. V # {}
  <2>1. ASSUME V = {} PROVE f[V] = 0 /\ g[V] = 0
    BY <1>4, <2>1, FoldLemma
  <2> QED  BY <1>3, <2>1
<1> DEFINE W == V \ {Some(V)}
<1>6. f[W] = g[W]
  <2>1. W \subseteq V /\ W # V /\ W \in SUBSET U
    BY <1>4, <1>5, SomeLemma
  <2> HIDE DEF W
  <2> QED  BY <1>3, <2>1
<1>7. f[V] = F[Some(V)] + f[W] /\ g[V] = F[Some(V)] + g[W]
  BY <1>4, <1>5, FoldLemma
<1> QED  BY <1>3, <1>6, <1>7

(* The recursion has a solution on the subsets of a finite set.            *)
LEMMA FoldExists ==
    ASSUME NEW F, NEW S, IsFiniteSet(S)
    PROVE  \E f : IsFold(f, F, S)
<1> DEFINE Solved(T) == \E f : IsFold(f, F, T)
           Bad == {T \in SUBSET S : ~Solved(T)}
<1>1. SUFFICES ASSUME Bad # {} PROVE FALSE
  OBVIOUS
<1>2. Bad \subseteq FiniteSubsetsOf(S)
  BY FS_Subset DEF FiniteSubsetsOf
<1>3. PICK T \in Bad : \A U \in Bad : U \subseteq T => U = T
  <2> HIDE DEF Bad
  <2> QED  BY <1>1, <1>2, SetMin
<1>4. IsFiniteSet(T) /\ T \in SUBSET S /\ ~Solved(T)
  BY <1>3, FS_Subset
<1> DEFINE G(x) == CHOOSE f : IsFold(f, F, T \ {x})
<1>5. ASSUME NEW x \in T PROVE IsFold(G(x), F, T \ {x})
  <2>1. Solved(T \ {x})
    <3> HIDE DEF Solved
    <3> QED  BY <1>3, <1>4
  <2> QED  BY <2>1
<1> DEFINE f == [s \in SUBSET T |->
                   IF s = {} THEN 0
                   ELSE IF s = T THEN F[Some(T)] + G(Some(T))[T \ {Some(T)}]
                        ELSE G(Some(T \ s))[s]]
<1> HIDE DEF G
<1>6. ASSUME NEW s \in SUBSET T, s # T, NEW x \in T \ s
      PROVE  f[s] = G(x)[s]
  <2>1. CASE s = {}
    <3> DEFINE g == G(x)
    <3>1. g[s] = 0
      <4>1. IsFold(g, F, T \ {x}) /\ s \in SUBSET (T \ {x})
        BY <1>5, <2>1
      <4> HIDE DEF g
      <4> QED  BY <2>1, <4>1, FoldLemma
    <3> QED  BY <2>1, <3>1
  <2>2. CASE s # {}
    <3>1. Some(T \ s) \in T \ s
      BY <1>6, SomeLemma
    <3>2. IsFiniteSet(s)
      BY <1>4, FS_Subset
    <3>3. G(Some(T \ s))[s] = G(x)[s]
      <4> DEFINE y == Some(T \ s)
      <4>1. IsFold(G(x), F, T \ {x}) /\ IsFold(G(y), F, T \ {y})
        BY <1>5, <3>1
      <4>2. s \subseteq T \ {x} /\ s \subseteq T \ {y}
        BY <3>1
      <4> HIDE DEF y
      <4>3. G(y)[s] = G(x)[s]
        BY <3>2, <4>1, <4>2, FoldAgree
      <4> QED  BY <4>3 DEF y
    <3> QED  BY <1>6, <2>2, <3>3
  <2> QED  BY <2>1, <2>2
<1>7. ASSUME NEW s \in SUBSET T
      PROVE  f[s] = IF s = {} THEN 0 ELSE F[Some(s)] + f[s \ {Some(s)}]
  <2>1. CASE s = {}
    BY <2>1
  <2>2. CASE s # {}
    <3> DEFINE r == s \ {Some(s)}
    <3>1. Some(s) \in s /\ r \in SUBSET T /\ r # T /\ Some(s) \in T \ r
      BY <2>2, SomeLemma
    <3>2. CASE s = T
      <4>1. f[r] = G(Some(s))[r]
        <5> HIDE DEF f, r
        <5> QED  BY <1>6, <3>1
      <4> QED  BY <2>2, <3>2, <4>1
    <3>3. CASE s # T
      <4> DEFINE x == Some(T \ s)
      <4>1. x \in T \ s
        BY <3>3, SomeLemma
      <4>2. x \in T \ r
        BY <4>1
      <4> HIDE DEF f, r, x
      <4>3. f[s] = G(x)[s] /\ f[r] = G(x)[r]
        BY <1>6, <3>1, <3>3, <4>1, <4>2
      <4> DEFINE g == G(x)
      <4>4. IsFold(g, F, T \ {x}) /\ s \in SUBSET (T \ {x})
        BY <1>5, <4>1
      <4>5. g[s] = F[Some(s)] + g[r]
        <5> HIDE DEF g
        <5> QED  BY <2>2, <4>4, FoldLemma DEF r
      <4> QED  BY <2>2, <4>3, <4>5 DEF r
    <3> QED  BY <3>2, <3>3
  <2> QED  BY <2>1, <2>2
<1>8. f = [s \in SUBSET T |-> IF s = {} THEN 0 ELSE F[Some(s)] + f[s \ {Some(s)}]]
  <2>1. f = [s \in SUBSET T |-> f[s]]
    OBVIOUS
  <2> HIDE DEF f
  <2> QED  BY <1>7, <2>1
<1>9. Solved(T)
  <2> HIDE DEF f
  <2> QED  BY <1>8 DEF IsFold
<1> QED  BY <1>4, <1>9

(* So a sum is that of one index and the others, whichever is chosen.      *)
LEMMA SumStep ==
    ASSUME NEW F, NEW S, IsFiniteSet(S)
    PROVE  SumFunctionOnSet(F, S) =
              IF S = {} THEN 0 ELSE F[Some(S)] + SumFunctionOnSet(F, S \ {Some(S)})
<1> DEFINE f(T) == CHOOSE iter : IsFold(iter, F, T)
           R == S \ {Some(S)}
<1>1. IsFold(f(S), F, S) /\ IsFold(f(R), F, R) /\ IsFiniteSet(R)
  BY FoldExists, FS_Subset
<1>2. SumFunctionOnSet(F, S) = f(S)[S] /\ SumFunctionOnSet(F, R) = f(R)[R]
  BY SumUnfold
<1>3. f(S)[R] = f(R)[R]
  <2>1. R \subseteq S /\ R \subseteq R
    OBVIOUS
  <2> HIDE DEF f, R
  <2> QED  BY <1>1, <2>1, FoldAgree
<1> DEFINE g == f(S)
<1>4. (S = {} => g[S] = 0) /\ (S # {} => g[S] = F[Some(S)] + g[R])
  <2>1. IsFold(g, F, S) /\ S \in SUBSET S
    BY <1>1
  <2> HIDE DEF g
  <2> QED  BY <2>1, FoldLemma
<1>5. SumFunctionOnSet(F, S) = g[S] /\ SumFunctionOnSet(F, R) = g[R]
  BY <1>2, <1>3
<1> HIDE DEF g
<1> QED  BY <1>4, <1>5

(* A sum of integers is an integer, and one of naturals a natural.         *)
LEMMA SumType ==
    ASSUME NEW F, NEW S, IsFiniteSet(S), NEW N, N = Nat \/ N = Int, \A x \in S : F[x] \in N
    PROVE  SumFunctionOnSet(F, S) \in N
<1> DEFINE Bad == {T \in SUBSET S : SumFunctionOnSet(F, T) \notin N}
<1>1. SUFFICES ASSUME Bad # {} PROVE FALSE
  OBVIOUS
<1>2. Bad \subseteq FiniteSubsetsOf(S)
  BY FS_Subset DEF FiniteSubsetsOf
<1>3. PICK T \in Bad : \A U \in Bad : U \subseteq T => U = T
  <2> HIDE DEF Bad
  <2> QED  BY <1>1, <1>2, SetMin
<1>4. IsFiniteSet(T)
  BY <1>3, FS_Subset
<1>5. CASE T = {}
  <2>1. SumFunctionOnSet(F, T) = 0
    BY <1>4, <1>5, SumStep
  <2> QED  BY <1>3, <2>1
<1>6. CASE T # {}
  <2> DEFINE R == T \ {Some(T)}
  <2>1. R \in SUBSET S /\ R \subseteq T /\ R # T /\ Some(T) \in S
    BY <1>3, <1>6, SomeLemma
  <2>2. SumFunctionOnSet(F, T) = F[Some(T)] + SumFunctionOnSet(F, R)
    BY <1>4, <1>6, SumStep
  <2>3. SumFunctionOnSet(F, R) \in N
    <3> HIDE DEF R
    <3> QED  BY <1>3, <2>1
  <2> HIDE DEF R
  <2> QED  BY <1>3, <2>1, <2>2, <2>3
<1> QED  BY <1>5, <1>6

(* The order of adding does not matter.                                    *)
LEMMA SumAny ==
    ASSUME NEW F, NEW S, IsFiniteSet(S), \A i \in S : F[i] \in Int, NEW x \in S
    PROVE  SumFunctionOnSet(F, S) = F[x] + SumFunctionOnSet(F, S \ {x})
<1> DEFINE Sum(T) == SumFunctionOnSet(F, T)
           Free(T) == \A y \in T : Sum(T) = F[y] + Sum(T \ {y})
           Bad == {T \in SUBSET S : ~Free(T)}
<1>1. SUFFICES ASSUME Bad # {} PROVE FALSE
  OBVIOUS
<1>2. Bad \subseteq FiniteSubsetsOf(S)
  BY FS_Subset DEF FiniteSubsetsOf
<1>3. PICK T \in Bad : \A U \in Bad : U \subseteq T => U = T
  <2> HIDE DEF Bad
  <2> QED  BY <1>1, <1>2, SetMin
<1>4. \A U \in SUBSET S : IsFiniteSet(U) /\ Sum(U) \in Int
  <2> SUFFICES ASSUME NEW U \in SUBSET S PROVE IsFiniteSet(U) /\ Sum(U) \in Int
    OBVIOUS
  <2>1. IsFiniteSet(U)
    BY FS_Subset
  <2>2. \A i \in U : F[i] \in Int
    OBVIOUS
  <2> QED  BY <2>1, <2>2, SumType
<1>5. PICK y \in T : Sum(T) # F[y] + Sum(T \ {y})
  BY <1>3
<1> DEFINE z == Some(T)
           R == T \ {y}
           Q == T \ {z}
           P == R \ {z}
<1>6. T \in SUBSET S /\ z \in T /\ y \in T /\ y \in S /\ z \in S
  BY <1>3, <1>5, SomeLemma
<1>7. R \in SUBSET S /\ Q \in SUBSET S /\ P \in SUBSET S /\ P = Q \ {y}
      /\ R \subseteq T /\ Q \subseteq T /\ R # T /\ Q # T
  BY <1>6
<1>8. Sum(T) = F[z] + Sum(Q)
  BY <1>4, <1>6, SumStep
<1>9. z # y
  BY <1>5, <1>8
<1>10. Free(R) /\ Free(Q)
  <2> HIDE DEF R, Q, Free
  <2> QED  BY <1>3, <1>7
<1>11. z \in R /\ y \in Q
  BY <1>6, <1>9
<1>12. Sum(R) = F[z] + Sum(P) /\ Sum(Q) = F[y] + Sum(P)
  BY <1>7, <1>10, <1>11
<1>13. Sum(P) \in Int /\ F[z] \in Int /\ F[y] \in Int
  BY <1>4, <1>6, <1>7
<1> HIDE DEF Sum, z, P, Q, R
<1> QED  BY <1>5, <1>8, <1>12, <1>13 DEF R

(* Only the values at the indices matter.                                  *)
LEMMA SumSame ==
    ASSUME NEW F, NEW G, NEW S, IsFiniteSet(S), \A x \in S : F[x] = G[x]
    PROVE  SumFunctionOnSet(F, S) = SumFunctionOnSet(G, S)
<1> DEFINE Bad == {T \in SUBSET S : SumFunctionOnSet(F, T) # SumFunctionOnSet(G, T)}
<1>1. SUFFICES ASSUME Bad # {} PROVE FALSE
  OBVIOUS
<1>2. Bad \subseteq FiniteSubsetsOf(S)
  BY FS_Subset DEF FiniteSubsetsOf
<1>3. PICK T \in Bad : \A U \in Bad : U \subseteq T => U = T
  <2> HIDE DEF Bad
  <2> QED  BY <1>1, <1>2, SetMin
<1>4. IsFiniteSet(T)
  BY <1>3, FS_Subset
<1>5. CASE T = {}
  <2>1. SumFunctionOnSet(F, T) = 0 /\ SumFunctionOnSet(G, T) = 0
    BY <1>4, <1>5, SumStep
  <2> QED  BY <1>3, <2>1
<1>6. CASE T # {}
  <2> DEFINE R == T \ {Some(T)}
  <2>1. R \in SUBSET S /\ R \subseteq T /\ R # T /\ Some(T) \in S
    BY <1>3, <1>6, SomeLemma
  <2>2. /\ SumFunctionOnSet(F, T) = F[Some(T)] + SumFunctionOnSet(F, R)
        /\ SumFunctionOnSet(G, T) = G[Some(T)] + SumFunctionOnSet(G, R)
    BY <1>4, <1>6, SumStep
  <2>3. SumFunctionOnSet(F, R) = SumFunctionOnSet(G, R)
    <3> HIDE DEF R
    <3> QED  BY <1>3, <2>1
  <2> HIDE DEF R
  <2> QED  BY <1>3, <2>1, <2>2, <2>3
<1> QED  BY <1>5, <1>6

(* Changing one value changes the sum by as much.                          *)
LEMMA SumExcept ==
    ASSUME NEW D, IsFiniteSet(D), NEW F \in [D -> Int], NEW x \in D, NEW v \in Int
    PROVE  SumFunction([F EXCEPT ![x] = v]) = SumFunction(F) - F[x] + v
<1> DEFINE G == [F EXCEPT ![x] = v]
           R == D \ {x}
<1>1. G \in [D -> Int] /\ G[x] = v /\ \A i \in R : G[i] = F[i]
  OBVIOUS
<1>2. IsFiniteSet(R) /\ R \subseteq D
  BY FS_Subset
<1>3. /\ SumFunctionOnSet(F, D) = F[x] + SumFunctionOnSet(F, R)
      /\ SumFunctionOnSet(G, D) = G[x] + SumFunctionOnSet(G, R)
  <2>1. (\A i \in D : F[i] \in Int) /\ (\A i \in D : G[i] \in Int)
    BY <1>1
  <2> HIDE DEF G
  <2> QED  BY <2>1, SumAny
<1>4. SumFunctionOnSet(F, R) = SumFunctionOnSet(G, R)
  <2> HIDE DEF G, R
  <2> QED  BY <1>1, <1>2, SumSame
<1>5. SumFunctionOnSet(F, R) \in Int /\ F[x] \in Int
  <2>1. \A i \in R : F[i] \in Int
    OBVIOUS
  <2> HIDE DEF R
  <2> QED  BY <1>2, <2>1, SumType
<1>6. DOMAIN G = D /\ DOMAIN F = D
  BY <1>1
<1>7. SumFunction(G) = SumFunctionOnSet(G, D) /\ SumFunction(F) = SumFunctionOnSet(F, D)
  BY <1>6 DEF SumFunction
<1>8. SumFunctionOnSet(G, D) = SumFunctionOnSet(F, D) - F[x] + v
  <2> HIDE DEF G, R
  <2> QED  BY <1>1, <1>3, <1>4, <1>5
<1> QED  BY <1>7, <1>8

(* Counting disjoint sets one by one counts their union.                   *)
LEMMA SumOfParts ==
    ASSUME NEW X, IsFiniteSet(X), NEW P, NEW F,
           \A x \in X : IsFiniteSet(P[x]) /\ F[x] = Cardinality(P[x]),
           \A x, y \in X : x # y => P[x] \cap P[y] = {}
    PROVE  SumFunctionOnSet(F, X) = Cardinality(UNION {P[x] : x \in X})
<1> DEFINE All(T) == UNION {P[x] : x \in T}
           Counted(T) == IsFiniteSet(All(T)) /\ SumFunctionOnSet(F, T) = Cardinality(All(T))
           Good == {T \in SUBSET X : Counted(T)}
<1>1. {} \in Good
  <2>1. All({}) = {} /\ SumFunctionOnSet(F, {}) = 0
    BY FS_EmptySet, SumStep
  <2> QED  BY <2>1, FS_EmptySet
<1>2. ASSUME NEW T \in SUBSET X, NEW x \in X \ T, T \in Good
      PROVE  T \cup {x} \in Good
  <2> DEFINE U == T \cup {x}
  <2>1. IsFiniteSet(U) /\ U \ {x} = T /\ x \in U /\ U \in SUBSET X
    BY FS_Subset
  <2>2. SumFunctionOnSet(F, U) = F[x] + SumFunctionOnSet(F, T)
    <3>1. \A i \in U : F[i] \in Int
      BY <2>1, FS_CardinalityType
    <3> HIDE DEF U
    <3> QED  BY <2>1, <3>1, SumAny
  <2>3. All(U) = All(T) \cup P[x] /\ All(T) \cap P[x] = {}
    OBVIOUS
  <2>4. IsFiniteSet(All(T)) /\ IsFiniteSet(P[x]) /\ F[x] = Cardinality(P[x])
        /\ SumFunctionOnSet(F, T) = Cardinality(All(T))
    BY <1>2
  <2>5. IsFiniteSet(All(U)) /\ Cardinality(All(U)) = Cardinality(All(T)) + Cardinality(P[x])
    <3> DEFINE A == All(T)
               B == P[x]
    <3>1. IsFiniteSet(A) /\ IsFiniteSet(B) /\ A \cap B = {}
      BY <2>3, <2>4
    <3> HIDE DEF A, B
    <3>2. IsFiniteSet(A \cup B)
          /\ Cardinality(A \cup B) = Cardinality(A) + Cardinality(B) - Cardinality(A \cap B)
      BY <3>1, FS_Union
    <3>3. Cardinality(A \cap B) = 0 /\ Cardinality(A) \in Nat /\ Cardinality(B) \in Nat
      BY <3>1, FS_EmptySet, FS_CardinalityType
    <3>4. IsFiniteSet(A \cup B) /\ Cardinality(A \cup B) = Cardinality(A) + Cardinality(B)
      BY <3>2, <3>3
    <3> QED  BY <2>3, <3>4 DEF A, B
  <2>6. Cardinality(All(T)) \in Nat /\ Cardinality(P[x]) \in Nat
    BY <2>4, FS_CardinalityType
  <2>7. SumFunctionOnSet(F, U) = Cardinality(All(U))
    <3> HIDE DEF U, All
    <3> QED  BY <2>2, <2>4, <2>5, <2>6
  <2> QED  BY <2>1, <2>5, <2>7
<1>3. X \in Good
  <2> HIDE DEF Good
  <2> QED  BY <1>1, <1>2, SetInduction
<1> QED  BY <1>3

(* A finite set of integers has a greatest member.                         *)
LEMMA ExtremeLemma ==
    ASSUME NEW S, IsFiniteSet(S), S \subseteq Int, S # {}
    PROVE  \E l \in S : \A x \in S : x <= l
<1> DEFINE R == {p \in S \X S : p[1] < p[2]}
<1>1. Strict(R, S)
  BY DEF Strict
<1>2. PICK l \in S : \A x \in S : x # l => <<x, l>> \in R
  <2> HIDE DEF R
  <2> QED  BY <1>1, LastLemma
<1>3. \A x \in S : x # l => x < l
  BY <1>2
<1>4. \A x \in S : x \in Int
  OBVIOUS
<1> HIDE DEF R
<1>5. ASSUME NEW x \in S PROVE x <= l
  BY <1>3, <1>4
<1> QED  BY <1>5

-----------------------------------------------------------------------------
(* The semaphore: what its operations preserve for any set T of tasks.     *)

(* The fields of a semaphore.                                              *)
LEMMA FieldsLemma ==
    ASSUME NEW T, NEW s \in Semaphores(T)
    PROVE  /\ s.permits \in Nat /\ s.granted \in Nat /\ s.waiters \in Seq(T)
           /\ Len(s.waiters) \in Nat /\ s.granted <= Len(s.waiters)
           /\ Spare(s) = s.permits + s.granted /\ Spare(s) \in Nat
BY DEF Semaphores, Spare

(* A new semaphore has all its permits to spare.                           *)
LEMMA NewLemma ==
    ASSUME NEW T, NEW n \in Nat
    PROVE  NewSemaphore(n) \in Semaphores(T) /\ Spare(NewSemaphore(n)) = n
BY DEF NewSemaphore, Sem, Semaphores, Spare

(* acquire() takes a spare permit, or leaves them all and queues the task. *)
LEMMA AcquireLemma ==
    ASSUME NEW T, NEW t \in T, NEW s \in Semaphores(T)
    PROVE  /\ Acquire(s, t) \in Semaphores(T)
           /\ Spare(Acquire(s, t)) = IF Locked(s) THEN Spare(s) ELSE Spare(s) - 1
<1>1. CASE Locked(s)
  <2>1. Append(s.waiters, t) \in Seq(T) /\ Len(Append(s.waiters, t)) = Len(s.waiters) + 1
    BY FieldsLemma, AppendProperties
  <2> QED
    BY <1>1, <2>1, FieldsLemma DEF Acquire, Sem, Semaphores, Spare
<1>2. CASE ~Locked(s)
  <2>1. s.permits - 1 \in Nat
    BY <1>2, FieldsLemma DEF Locked
  <2> QED
    BY <1>2, <2>1, FieldsLemma DEF Acquire, Sem, Semaphores, Spare
<1> QED
  BY <1>1, <1>2

(* Waking a waiter needs a free permit and only moves it.                  *)
LEMMA WakeLemma ==
    ASSUME NEW T, NEW s \in Semaphores(T), s.permits > 0
    PROVE  /\ WakeNext(s) \in Semaphores(T)
           /\ Spare(WakeNext(s)) = Spare(s)
<1>1. CASE s.granted < Len(s.waiters)
  <2>1. s.permits - 1 \in Nat /\ s.granted + 1 \in Nat /\ s.granted + 1 <= Len(s.waiters)
    BY <1>1, FieldsLemma
  <2> QED
    BY <1>1, <2>1, FieldsLemma DEF WakeNext, Sem, Semaphores, Spare
<1>2. CASE ~(s.granted < Len(s.waiters))
  BY <1>2 DEF WakeNext
<1> QED
  BY <1>1, <1>2

(* release() makes exactly one more permit spare.                          *)
LEMMA ReleaseLemma ==
    ASSUME NEW T, NEW s \in Semaphores(T)
    PROVE  /\ Release(s) \in Semaphores(T)
           /\ Spare(Release(s)) = Spare(s) + 1
<1> DEFINE up == Sem(s.permits + 1, s.waiters, s.granted)
<1>1. up \in Semaphores(T) /\ up.permits > 0 /\ Spare(up) = Spare(s) + 1
  BY FieldsLemma DEF Sem, Semaphores, Spare
<1>2. WakeNext(up) \in Semaphores(T) /\ Spare(WakeNext(up)) = Spare(up)
  BY <1>1, WakeLemma
<1> QED
  BY <1>1, <1>2 DEF Release

(* A granted waiter that leaves the queue takes one spare permit along.    *)
LEMMA LeaveLemma ==
    ASSUME NEW T, NEW s \in Semaphores(T), s.granted > 0
    PROVE  /\ Leave(s) \in Semaphores(T)
           /\ Spare(Leave(s)) = Spare(s) - 1
           /\ Leave(s).permits = s.permits
<1>1. s.waiters # <<>>
  BY FieldsLemma
<1>2. Tail(s.waiters) \in Seq(T) /\ Len(Tail(s.waiters)) = Len(s.waiters) - 1
  BY <1>1, FieldsLemma, HeadTailProperties
<1>3. s.granted - 1 \in Nat /\ s.granted - 1 <= Len(Tail(s.waiters))
  BY <1>2, FieldsLemma
<1> QED
  BY <1>2, <1>3, FieldsLemma DEF Leave, Sem, Semaphores, Spare

(* Resuming a granted waiter transfers one spare permit to it.             *)
LEMMA ResumedLemma ==
    ASSUME NEW T, NEW s \in Semaphores(T), s.granted > 0
    PROVE  /\ Resumed(s) \in Semaphores(T)
           /\ Spare(Resumed(s)) = Spare(s) - 1
<1>1. CASE s.permits > 0
  BY <1>1, LeaveLemma, WakeLemma DEF Resumed
<1>2. CASE ~(s.permits > 0)
  BY <1>2, LeaveLemma DEF Resumed
<1> QED
  BY <1>1, <1>2

(* A cancelled granted waiter puts its permit back.                        *)
LEMMA ResumedCancelledLemma ==
    ASSUME NEW T, NEW s \in Semaphores(T), s.granted > 0
    PROVE  /\ ResumedCancelled(s) \in Semaphores(T)
           /\ Spare(ResumedCancelled(s)) = Spare(s)
<1>1. Spare(s) \in Nat
  BY FieldsLemma
<1>2. Leave(s) \in Semaphores(T) /\ Spare(Leave(s)) = Spare(s) - 1
  BY LeaveLemma
<1>3. Release(Leave(s)) \in Semaphores(T) /\ Spare(Release(Leave(s))) = Spare(Leave(s)) + 1
  BY <1>2, ReleaseLemma
<1> QED
  BY <1>1, <1>2, <1>3 DEF ResumedCancelled

(* Dropping the ungranted waiters touches no permit.                       *)
LEMMA CancelWaitersLemma ==
    ASSUME NEW T, NEW s \in Semaphores(T)
    PROVE  /\ CancelWaiters(s) \in Semaphores(T)
           /\ Spare(CancelWaiters(s)) = Spare(s)
<1> DEFINE w == SubSeq(s.waiters, 1, s.granted)
<1>1. \A i \in 1..s.granted : s.waiters[i] \in T
  BY FieldsLemma, ElementOfSeq
<1>2. w \in Seq(T) /\ Len(w) = s.granted
  BY <1>1, FieldsLemma, SubSeqProperties
<1> QED
  BY <1>2, FieldsLemma DEF CancelWaiters, Sem, Semaphores, Spare
=============================================================================
