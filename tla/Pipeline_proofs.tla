--------------------------- MODULE Pipeline_proofs ---------------------------
(***************************************************************************)
(* Theorems about Pipeline, for every export, command line, clustering and *)
(* answer of the classifier: every log is accounted for, the evidence of   *)
(* an incident is whole, one 501 disables the rest, the worst log decides  *)
(* the priority, the progress bars tell the truth, and on clean input no   *)
(* stage of the agent raises by itself.                                    *)
(***************************************************************************)
EXTENDS Pipeline, Loader_proofs, CommonLemmas

-----------------------------------------------------------------------------
(* Lists in order.  Ascending() is InOrder() for the order of integers.    *)
Ascending(S) ==
    CHOOSE s \in [1..Cardinality(S) -> S] : \A i, k \in DOMAIN s : i < k => s[i] < s[k]

LEMMA AscendingLemma ==
    ASSUME NEW S, IsFiniteSet(S), S \subseteq Int
    PROVE  /\ Ascending(S) \in [1..Cardinality(S) -> S] /\ Cardinality(S) \in Nat
           /\ \A i, k \in DOMAIN Ascending(S) : i < k => Ascending(S)[i] < Ascending(S)[k]
           /\ \A i, k \in DOMAIN Ascending(S) : Ascending(S)[i] = Ascending(S)[k] => i = k
           /\ \A x \in S : \E i \in DOMAIN Ascending(S) : Ascending(S)[i] = x
<1> DEFINE R == {p \in S \X S : p[1] < p[2]}
           Lists1(s) == \A i, k \in DOMAIN s : i < k => s[i] < s[k]
           a == Ascending(S)
<1>1. Strict(R, S)
  <2>1. \A x \in S : x \in Int
    OBVIOUS
  <2>2. \A x, y \in S : <<x, y>> \in R <=> x < y
    OBVIOUS
  <2> HIDE DEF R
  <2> QED  BY <2>1, <2>2 DEF Strict
<1>2. PICK s \in [1..Cardinality(S) -> S] : InOrderOf(s, R)
  <2> HIDE DEF R
  <2> QED  BY <1>1, InOrderExists
<1>3. Lists1(s)
  BY <1>2 DEF InOrderOf
<1>4. a \in [1..Cardinality(S) -> S] /\ Lists1(a)
  <2>1. a = CHOOSE t \in [1..Cardinality(S) -> S] : Lists1(t)
    BY DEF Ascending
  <2> HIDE DEF a, Lists1
  <2> QED  BY <1>3, <2>1
<1>5. InOrderOf(a, R)
  <2>1. \A i \in DOMAIN a : a[i] \in S
    BY <1>4
  <2> HIDE DEF a
  <2> QED  BY <1>4, <2>1 DEF InOrderOf
<1>6. /\ \A i, k \in DOMAIN a : a[i] = a[k] => i = k
      /\ \A x \in S : \E i \in DOMAIN a : a[i] = x
  <2> HIDE DEF a, R
  <2> QED  BY <1>1, <1>4, <1>5, InOrderBijective
<1>7. Cardinality(S) \in Nat
  BY FS_CardinalityType
<1> QED  BY <1>4, <1>6, <1>7

(* The operators of the model in terms of Ascending().                     *)
LEMMA AggregateUnfold ==
    ASSUME NEW labels
    PROVE  Aggregate(labels) =
              [b \in DOMAIN Ascending(Range(labels)) |->
                 [id      |-> Ascending(Range(labels))[b],
                  members |-> Ascending({i \in DOMAIN labels :
                                           labels[i] = Ascending(Range(labels))[b]})]]
BY DEF Aggregate, InOrder, Ascending

Wanted(buckets) == {b \in DOMAIN buckets : buckets[b].id >= 0 \/ options.noise}

LEMMA KeptUnfold ==
    ASSUME NEW buckets
    PROVE  Kept(buckets) = [k \in DOMAIN Ascending(Wanted(buckets)) |->
                              buckets[Ascending(Wanted(buckets))[k]]]
BY DEF Kept, InOrder, Ascending, Wanted

(* The members of a finite set in ascending order are a sequence of it.    *)
LEMMA AscendingSeq ==
    ASSUME NEW S, IsFiniteSet(S), S \subseteq Int
    PROVE  /\ Ascending(S) \in Seq(S) /\ Len(Ascending(S)) = Cardinality(S)
           /\ Range(Ascending(S)) = S
           /\ DOMAIN Ascending(S) = 1..Cardinality(S)
<1> DEFINE a == Ascending(S)
<1>1. /\ a \in [1..Cardinality(S) -> S] /\ Cardinality(S) \in Nat
      /\ \A x \in S : \E i \in DOMAIN a : a[i] = x
  BY AscendingLemma
<1> HIDE DEF a
<1>2. a \in Seq(S) /\ Len(a) = Cardinality(S) /\ DOMAIN a = 1..Cardinality(S)
  BY <1>1
<1>3. Range(a) = S
  BY <1>1 DEF Range
<1> QED  BY <1>2, <1>3 DEF a

-----------------------------------------------------------------------------
(* What _aggregate() and the choice of the reported clusters make of any   *)
(* labelling: one cluster for each label that is kept, with the positions  *)
(* of that label.                                                          *)
Members(labels, x) == {i \in DOMAIN labels : labels[i] = x}

KeptIds(labels) == {x \in Range(labels) : x >= 0 \/ options.noise}

ClustersOf(labels) == Kept(Aggregate(labels))

ClusterType(n) == [id : Int, members : Seq(1..n)]

LEMMA MembersLemma ==
    ASSUME NEW n \in Nat, NEW q \in Int, NEW labels \in [1..n -> -1..q], NEW x
    PROVE  /\ IsFiniteSet(Members(labels, x)) /\ Members(labels, x) \subseteq 1..n
           /\ Members(labels, x) \subseteq Int
           /\ Ascending(Members(labels, x)) \in Seq(1..n)
           /\ Range(Ascending(Members(labels, x))) = Members(labels, x)
           /\ Len(Ascending(Members(labels, x))) = Cardinality(Members(labels, x))
           /\ x \in Range(labels) => Len(Ascending(Members(labels, x))) > 0
<1> DEFINE M == Members(labels, x)
<1>1. M \subseteq 1..n
  BY DEF Members
<1>2. IsFiniteSet(M)
  <2>1. IsFiniteSet(1..n)
    BY FS_Interval
  <2> QED  BY <1>1, <2>1, FS_Subset
<1>3. M \subseteq Int
  BY <1>1
<1>4. x \in Range(labels) => M # {}
  BY DEF Range, Members
<1> HIDE DEF M
<1>5. Ascending(M) \in Seq(M) /\ Range(Ascending(M)) = M /\ Len(Ascending(M)) = Cardinality(M)
  BY <1>2, <1>3, AscendingSeq
<1>6. Ascending(M) \in Seq(1..n)
  BY <1>1, <1>5, SeqMonotonic
<1>7. M # {} => Cardinality(M) > 0
  BY <1>2, FS_EmptySet, FS_CardinalityType
<1> QED  BY <1>1, <1>2, <1>3, <1>4, <1>5, <1>6, <1>7 DEF M

LEMMA ClustersLemma ==
    ASSUME NEW n \in Nat, NEW q \in Int, NEW labels \in [1..n -> -1..q]
    PROVE  /\ ClustersOf(labels) \in Seq(ClusterType(n))
           /\ \A k \in DOMAIN ClustersOf(labels) :
                 /\ ClustersOf(labels)[k].id \in KeptIds(labels)
                 /\ ClustersOf(labels)[k].members = Ascending(Members(labels, ClustersOf(labels)[k].id))
           /\ \A k, l \in DOMAIN ClustersOf(labels) :
                 ClustersOf(labels)[k].id = ClustersOf(labels)[l].id => k = l
           /\ \A x \in KeptIds(labels) :
                 \E k \in DOMAIN ClustersOf(labels) : ClustersOf(labels)[k].id = x
<1> DEFINE ids == Ascending(Range(labels))
           buckets == Aggregate(labels)
           W == Wanted(buckets)
           at == Ascending(W)
           C == ClustersOf(labels)
<1>1. Range(labels) \subseteq Int /\ IsFiniteSet(Range(labels))
  <2>1. Range(labels) \subseteq -1..q
    BY DEF Range
  <2>2. IsFiniteSet(-1..q)
    BY FS_Interval
  <2> QED  BY <2>1, <2>2, FS_Subset
<1>2. /\ DOMAIN ids = 1..Cardinality(Range(labels)) /\ Cardinality(Range(labels)) \in Nat
      /\ \A b \in DOMAIN ids : ids[b] \in Range(labels)
      /\ \A b, c \in DOMAIN ids : ids[b] = ids[c] => b = c
      /\ \A x \in Range(labels) : \E b \in DOMAIN ids : ids[b] = x
  BY <1>1, AscendingLemma
<1>3. buckets = [b \in DOMAIN ids |-> [id |-> ids[b], members |-> Ascending(Members(labels, ids[b]))]]
  BY AggregateUnfold DEF Members
<1> HIDE DEF ids
<1>4. /\ DOMAIN buckets = DOMAIN ids
      /\ \A b \in DOMAIN ids : /\ buckets[b].id = ids[b]
                               /\ buckets[b].members = Ascending(Members(labels, ids[b]))
                               /\ buckets[b] \in ClusterType(n)
  <2> SUFFICES ASSUME NEW b \in DOMAIN ids PROVE buckets[b] \in ClusterType(n)
    BY <1>3
  <2>1. Ascending(Members(labels, ids[b])) \in Seq(1..n)
    BY MembersLemma
  <2>2. ids[b] \in Int
    BY <1>1, <1>2
  <2> QED  BY <1>3, <2>1, <2>2 DEF ClusterType
<1> HIDE DEF buckets
<1>5. W \subseteq DOMAIN ids /\ W \subseteq Int /\ IsFiniteSet(W)
  <2>1. W \subseteq DOMAIN ids
    BY <1>4 DEF Wanted
  <2>2. IsFiniteSet(DOMAIN ids) /\ DOMAIN ids \subseteq Int
    BY <1>2, FS_Interval
  <2> QED  BY <2>1, <2>2, FS_Subset
<1>6. C = [k \in DOMAIN at |-> buckets[at[k]]]
  BY KeptUnfold DEF ClustersOf, buckets
<1>7. W = {b \in DOMAIN ids : ids[b] >= 0 \/ options.noise}
  BY <1>4 DEF Wanted
<1> HIDE DEF W
<1>8. /\ DOMAIN at = 1..Cardinality(W) /\ Cardinality(W) \in Nat
      /\ \A k \in DOMAIN at : at[k] \in W
      /\ \A k, l \in DOMAIN at : at[k] = at[l] => k = l
      /\ \A b \in W : \E k \in DOMAIN at : at[k] = b
  BY <1>5, AscendingLemma
<1> HIDE DEF at
<1>9. C \in Seq(ClusterType(n))
  <2>1. \A k \in 1..Cardinality(W) : buckets[at[k]] \in ClusterType(n)
    BY <1>4, <1>5, <1>8
  <2> QED  BY <1>6, <1>8, <2>1
<1>10. DOMAIN C = DOMAIN at /\ \A k \in DOMAIN C : C[k] = buckets[at[k]] /\ at[k] \in DOMAIN ids
  BY <1>5, <1>6, <1>8
<1> HIDE DEF C
<1>11. \A k \in DOMAIN C : /\ C[k].id \in KeptIds(labels)
                           /\ C[k].members = Ascending(Members(labels, C[k].id))
  BY <1>2, <1>4, <1>7, <1>8, <1>10 DEF KeptIds
<1>12. \A k, l \in DOMAIN C : C[k].id = C[l].id => k = l
  BY <1>2, <1>4, <1>8, <1>10
<1>13. ASSUME NEW x \in KeptIds(labels) PROVE \E k \in DOMAIN C : C[k].id = x
  <2>1. PICK b \in DOMAIN ids : ids[b] = x
    BY <1>2 DEF KeptIds
  <2>2. b \in W
    BY <1>7, <2>1 DEF KeptIds
  <2>3. PICK k \in DOMAIN at : at[k] = b
    BY <1>8, <2>2
  <2> QED  BY <1>4, <1>10, <2>1, <2>3
<1> QED  BY <1>9, <1>11, <1>12, <1>13 DEF C

-----------------------------------------------------------------------------
(* The dominant classes of a cluster.                                      *)

LEMMA LeastLemma ==
    ASSUME NEW S, IsFiniteSet(S), S \subseteq Int, S # {}
    PROVE  Min(S) \in S /\ \A x \in S : Min(S) <= x
<1> DEFINE R == {p \in S \X S : p[2] < p[1]}
<1>1. \A x \in S : x \in Int
  OBVIOUS
<1>2. \A x, y \in S : <<x, y>> \in R <=> y < x
  OBVIOUS
<1>3. Strict(R, S)
  <2> HIDE DEF R
  <2> QED  BY <1>1, <1>2 DEF Strict
<1> HIDE DEF R
<1>4. PICK l \in S : \A x \in S : x # l => <<x, l>> \in R
  BY <1>3, LastLemma
<1>5. \A x \in S : x # l => l < x
  BY <1>2, <1>4
<1>6. ASSUME NEW x \in S PROVE l <= x
  BY <1>1, <1>5
<1> QED  BY <1>6 DEF Min

LEMMA GreatestLemma ==
    ASSUME NEW S, IsFiniteSet(S), S \subseteq Int, S # {}
    PROVE  Max(S) \in S /\ \A x \in S : x <= Max(S)
<1>1. PICK l \in S : \A x \in S : x <= l
  BY ExtremeLemma
<1>2. \A x \in S : l >= x
  BY <1>1
<1>3. Max(S) \in S /\ \A x \in S : Max(S) >= x
  BY <1>2 DEF Max
<1> QED  BY <1>3

LEMMA PairMin ==
    ASSUME NEW a \in Int, NEW b \in Int
    PROVE  Min({a, b}) = IF a <= b THEN a ELSE b
<1> DEFINE S == {a, b}
<1>1. IsFiniteSet(S)
  <2>1. IsFiniteSet({a})
    BY FS_Singleton
  <2>2. S = {a} \cup {b}
    OBVIOUS
  <2> HIDE DEF S
  <2> QED  BY <2>1, <2>2, FS_AddElement
<1>2. S \subseteq Int /\ S # {}
  OBVIOUS
<1>3. Min(S) \in S /\ \A x \in S : Min(S) <= x
  <2> HIDE DEF S
  <2> QED  BY <1>1, <1>2, LeastLemma
<1> DEFINE m == Min(S)
<1>4. (m = a \/ m = b) /\ m <= a /\ m <= b
  BY <1>3
<1> HIDE DEF m, S
<1> QED  BY <1>4 DEF m, S

Earlier(labels, a, b) ==
    \/ Cardinality(Occurrences(labels, a)) > Cardinality(Occurrences(labels, b))
    \/ /\ Cardinality(Occurrences(labels, a)) = Cardinality(Occurrences(labels, b))
       /\ Min(Occurrences(labels, a)) < Min(Occurrences(labels, b))

ByCount(labels) ==
    CHOOSE s \in [1..Cardinality(Range(labels)) -> Range(labels)] :
        \A i, k \in DOMAIN s : i < k => Earlier(labels, s[i], s[k])

Shown(labels) == SubSeq(ByCount(labels), 1, Min({TopClasses, Len(ByCount(labels))}))

LEMMA DominantUnfold ==
    ASSUME NEW labels
    PROVE  DominantClasses(labels) =
              [k \in DOMAIN Shown(labels) |->
                 [label |-> Shown(labels)[k],
                  count |-> Cardinality(Occurrences(labels, Shown(labels)[k]))]]
BY DEF DominantClasses, InOrder, ByCount, Earlier, Shown

(* Every label that occurs is listed once.                                 *)
EachOnce(labels) ==
    /\ IsFiniteSet(Range(labels)) /\ Cardinality(Range(labels)) \in Nat
    /\ ByCount(labels) \in [1..Cardinality(Range(labels)) -> Range(labels)]
    /\ \A i, k \in DOMAIN ByCount(labels) : ByCount(labels)[i] = ByCount(labels)[k] => i = k
    /\ \A x \in Range(labels) : \E i \in DOMAIN ByCount(labels) : ByCount(labels)[i] = x

LEMMA ByCountLemma ==
    ASSUME NEW n \in Nat, NEW L, NEW labels \in [1..n -> L]
    PROVE  EachOnce(labels)
<1> DEFINE S == Range(labels)
           R == {p \in S \X S : Earlier(labels, p[1], p[2])}
           Listing(s) == \A i, k \in DOMAIN s : i < k => Earlier(labels, s[i], s[k])
           c == ByCount(labels)
<1>1. IsFiniteSet(S)
  <2>1. IsFiniteSet(1..n)
    BY FS_Interval
  <2>2. labels \in Surjection(1..n, S)
    BY DEF Surjection, Range
  <2> QED  BY <2>1, <2>2, FS_Surjection
<1>2. ASSUME NEW x \in S
      PROVE  /\ Cardinality(Occurrences(labels, x)) \in Nat
             /\ Min(Occurrences(labels, x)) \in Occurrences(labels, x)
             /\ Min(Occurrences(labels, x)) \in Int
  <2> DEFINE O == Occurrences(labels, x)
  <2>1. O \subseteq 1..n /\ O # {}
    BY DEF Occurrences, Range
  <2>2. O \subseteq Int
    BY <2>1
  <2>3. IsFiniteSet(O)
    <3>1. IsFiniteSet(1..n)
      BY FS_Interval
    <3> QED  BY <2>1, <3>1, FS_Subset
  <2> HIDE DEF O
  <2>4. Min(O) \in O /\ Cardinality(O) \in Nat
    BY <2>1, <2>2, <2>3, LeastLemma, FS_CardinalityType
  <2> QED  BY <2>2, <2>4 DEF O
<1>3. \A x, y \in S : <<x, y>> \in R <=> Earlier(labels, x, y)
  OBVIOUS
<1>4. \A x, y \in S : Min(Occurrences(labels, x)) = Min(Occurrences(labels, y)) => x = y
  BY <1>2 DEF Occurrences
<1>5. Strict(R, S)
  <2> HIDE DEF R, S
  <2>1. \A x, y \in S : x # y => Earlier(labels, x, y) \/ Earlier(labels, y, x)
    BY <1>2, <1>4 DEF Earlier
  <2>2. \A x \in S : ~Earlier(labels, x, x)
    BY <1>2 DEF Earlier
  <2>3. \A x, y, z \in S : Earlier(labels, x, y) /\ Earlier(labels, y, z) => Earlier(labels, x, z)
    BY <1>2 DEF Earlier
  <2> QED  BY <1>3, <2>1, <2>2, <2>3 DEF Strict
<1>6. PICK s \in [1..Cardinality(S) -> S] : InOrderOf(s, R)
  <2> HIDE DEF R, S
  <2> QED  BY <1>1, <1>5, InOrderExists
<1>7. Listing(s)
  BY <1>6 DEF InOrderOf
<1>8. c \in [1..Cardinality(S) -> S] /\ Listing(c)
  <2>1. c = CHOOSE t \in [1..Cardinality(S) -> S] : Listing(t)
    BY DEF ByCount
  <2> HIDE DEF c, Listing, S
  <2> QED  BY <1>7, <2>1
<1>9. InOrderOf(c, R)
  <2>1. \A i \in DOMAIN c : c[i] \in S
    BY <1>8
  <2> HIDE DEF c, R, S
  <2> QED  BY <1>3, <1>8, <2>1 DEF InOrderOf
<1>10. /\ \A i, k \in DOMAIN c : c[i] = c[k] => i = k
       /\ \A x \in S : \E i \in DOMAIN c : c[i] = x
  <2> HIDE DEF c, R, S
  <2> QED  BY <1>1, <1>5, <1>8, <1>9, InOrderBijective
<1>11. Cardinality(S) \in Nat
  BY <1>1, FS_CardinalityType
<1> QED  BY <1>1, <1>8, <1>10, <1>11 DEF EachOnce

(* _aggregate_dominant_classes(): no classes of no labels, some of some,   *)
(* never more than there are labels, and all of them unless it was cut.    *)
LEMMA ClassesLemma ==
    ASSUME NEW n \in Nat, NEW L, NEW labels \in [1..n -> L]
    PROVE  /\ DominantClasses(labels) = <<>> <=> n = 0
           /\ Len(DominantClasses(labels)) \in Nat
           /\ DOMAIN DominantClasses(labels) = 1..Len(DominantClasses(labels))
           /\ LET counted == SumFunction([k \in DOMAIN DominantClasses(labels) |->
                                            DominantClasses(labels)[k].count])
              IN  /\ counted \in Nat /\ counted <= n
                  /\ Len(DominantClasses(labels)) < TopClasses => counted = n
<1> DEFINE S == Range(labels)
           c == ByCount(labels)
           shown == Shown(labels)
           D == DominantClasses(labels)
           w == Cardinality(S)
           m == Len(shown)
<1>1. DOMAIN labels = 1..n
  OBVIOUS
<1>2. /\ IsFiniteSet(S) /\ w \in Nat /\ c \in [1..w -> S]
      /\ \A i, k \in DOMAIN c : c[i] = c[k] => i = k
      /\ \A x \in S : \E i \in DOMAIN c : c[i] = x
  <2>1. EachOnce(labels)
    BY ByCountLemma
  <2> QED  BY <2>1 DEF EachOnce
<1>3. TopClasses \in Nat /\ TopClasses > 0
  BY PipelineAssumption
<1>4. /\ shown \in Seq(S) /\ m = (IF TopClasses <= w THEN TopClasses ELSE w)
      /\ m \in Nat /\ m <= w /\ \A k \in 1..m : shown[k] = c[k]
  <2> HIDE DEF c, w, S
  <2>1. c \in Seq(S) /\ Len(c) = w
    BY <1>2
  <2> DEFINE u == Min({TopClasses, Len(c)})
  <2>2. u = (IF TopClasses <= w THEN TopClasses ELSE w)
    BY <1>2, <1>3, <2>1, PairMin
  <2>3. shown = SubSeq(c, 1, u)
    BY DEF Shown, c
  <2> HIDE DEF u, shown
  <2>4. u \in Nat /\ u <= w
    BY <1>2, <1>3, <2>2
  <2>5. \A i \in 1..u : c[i] \in S
    BY <1>2, <2>4
  <2>6. /\ SubSeq(c, 1, u) \in Seq(S) /\ Len(SubSeq(c, 1, u)) = u
        /\ \A i \in 1..u : SubSeq(c, 1, u)[i] = c[i]
    BY <2>1, <2>4, <2>5
  <2> QED  BY <2>2, <2>3, <2>4, <2>6
<1>5. D = [k \in DOMAIN shown |-> [label |-> shown[k],
                                   count |-> Cardinality(Occurrences(labels, shown[k]))]]
  BY DominantUnfold
<1> HIDE DEF D, shown, c
<1>6. DOMAIN shown = 1..m /\ DOMAIN D = 1..m /\ Len(D) = m
  BY <1>4, <1>5
<1>7. D = <<>> <=> n = 0
  <2>1. w = 0 <=> S = {}
    BY <1>2, FS_EmptySet
  <2>2. S = {} <=> n = 0
    BY <1>1 DEF Range
  <2>3. m = 0 <=> w = 0
    BY <1>2, <1>3, <1>4
  <2>4. D = <<>> <=> m = 0
    BY <1>5, <1>6
  <2> QED  BY <2>1, <2>2, <2>3, <2>4
<1> DEFINE P == [k \in 1..m |-> Occurrences(labels, shown[k])]
           F == [k \in DOMAIN D |-> D[k].count]
           U == UNION {P[k] : k \in 1..m}
<1>8. SumFunction(F) = Cardinality(U)
  <2>1. IsFiniteSet(1..m)
    BY <1>4, FS_Interval
  <2>2. \A k \in 1..m : IsFiniteSet(P[k]) /\ F[k] = Cardinality(P[k])
    <3> SUFFICES ASSUME NEW k \in 1..m PROVE IsFiniteSet(P[k]) /\ F[k] = Cardinality(P[k])
      OBVIOUS
    <3>1. P[k] = Occurrences(labels, shown[k]) /\ F[k] = Cardinality(Occurrences(labels, shown[k]))
      BY <1>5, <1>6
    <3>2. P[k] \subseteq 1..n
      BY <1>1, <3>1 DEF Occurrences
    <3>3. IsFiniteSet(1..n)
      BY <1>1, FS_Interval
    <3> HIDE DEF P
    <3> QED  BY <3>1, <3>2, <3>3, FS_Subset
  <2>3. \A k, l \in 1..m : k # l => P[k] \cap P[l] = {}
    <3> SUFFICES ASSUME NEW k \in 1..m, NEW l \in 1..m, k # l PROVE P[k] \cap P[l] = {}
      OBVIOUS
    <3>1. shown[k] # shown[l]
      <4>1. shown[k] = c[k] /\ shown[l] = c[l] /\ k \in 1..w /\ l \in 1..w
        BY <1>2, <1>4
      <4> QED  BY <1>2, <4>1
    <3> QED  BY <3>1 DEF Occurrences
  <2>4. SumFunction(F) = SumFunctionOnSet(F, 1..m)
    BY <1>6 DEF SumFunction
  <2> DEFINE I == 1..m
  <2>5. SumFunctionOnSet(F, I) = Cardinality(UNION {P[k] : k \in I})
    <3>1. IsFiniteSet(I) /\ (\A k \in I : IsFiniteSet(P[k]) /\ F[k] = Cardinality(P[k]))
          /\ (\A k, l \in I : k # l => P[k] \cap P[l] = {})
      BY <2>1, <2>2, <2>3
    <3> HIDE DEF P, F, I
    <3> QED  BY <3>1, SumOfParts
  <2> QED  BY <2>4, <2>5
<1>9. U \subseteq 1..n /\ IsFiniteSet(1..n) /\ Cardinality(1..n) = n
  BY <1>1, FS_Interval DEF Occurrences
<1>10. Cardinality(U) \in Nat /\ Cardinality(U) <= n
  <2> DEFINE N == 1..n
  <2>1. U \in SUBSET N /\ IsFiniteSet(N) /\ Cardinality(N) = n
    BY <1>9
  <2> HIDE DEF U, N
  <2>2. IsFiniteSet(U) /\ Cardinality(U) <= Cardinality(N)
    BY <2>1, FS_Subset
  <2> QED  BY <2>1, <2>2, FS_CardinalityType
<1>11. m < TopClasses => U = 1..n
  <2> SUFFICES ASSUME m < TopClasses, NEW i \in 1..n PROVE i \in U
    BY <1>9
  <2>1. m = w
    BY <1>2, <1>3, <1>4
  <2>2. labels[i] \in S
    BY <1>1 DEF Range
  <2>3. PICK k \in 1..m : c[k] = labels[i]
    BY <1>2, <2>1, <2>2
  <2>4. i \in P[k]
    BY <1>1, <1>4, <2>3 DEF Occurrences
  <2> QED  BY <2>4
<1> HIDE DEF F, U
<1> QED  BY <1>4, <1>6, <1>7, <1>8, <1>9, <1>10, <1>11 DEF D, F


-----------------------------------------------------------------------------
(* The inductive invariant.  Up to the clustering there are no clusters;   *)
(* from then on, unless a stage raised, the clusters are those of some     *)
(* labelling that HDBSCAN may have returned, the results of the classifier *)
(* grow along them, and the incidents are made of both.                    *)
Unclustered ==
    stage \in {"loading", "building", "embedding", "clustering"} =>
        clusters = <<>> /\ classified = <<>> /\ preds = <<>> /\ ~disabled /\ bars.classifying = <<>>

Active == stage \in {"classifying", "recommending", "json", "markdown", "finished"}

Late == stage \in {"recommending", "json", "markdown", "finished"}

OptionsInv == stage \in {"embedding", "clustering"} \/ Active => OptionsValid

Grouped(labels) ==
    /\ clusters = ClustersOf(labels)
    /\ nClusters = Cardinality(Range(labels) \ {-1})
    /\ nNoise = Cardinality({i \in DOMAIN labels : labels[i] = -1})

GroupedInv == Active => \E labels \in Labelings(Len(logs)) : Grouped(labels)

(* A cluster has no predictions or all of them; those of the cluster that  *)
(* is being classified are never complete.                                 *)
ClassifiedInv ==
    Active =>
        /\ Len(classified) <= Len(clusters)
        /\ preds # <<>> => Posting /\ Len(preds) < Len(Current.members)
        /\ \A k \in DOMAIN classified :
              classified[k] = <<>> \/ Len(classified[k]) = Len(clusters[k].members)

(* The clusters asked for are the first ones, and only the last of them,   *)
(* the one the service refused, has no predictions.                        *)
Asked(b) ==
    /\ bars.classifying = <<b, Len(clusters)>>
    /\ ~disabled => b = Len(classified)
    /\ \A k \in DOMAIN classified : classified[k] # <<>> <=> k < b \/ (k = b /\ ~disabled)

BarsInv ==
    /\ stage = "clustering" \/ Active => bars.embedding = <<Len(logs), Len(logs)>>
    /\ Active => bars.clustering = <<1, 1>>
    /\ Active => IF options.classifier /\ classified # <<>>
                 THEN \E b \in 1..Len(classified) : Asked(b)
                 ELSE /\ bars.classifying = <<>> /\ ~disabled
                      /\ \A k \in DOMAIN classified : classified[k] = <<>>

BuiltInv ==
    Late => /\ Len(classified) = Len(clusters)
            /\ \A k \in DOMAIN clusters :
                  NoSeverity \notin DOMAIN SeverityBreakdown(clusters[k].members)

IncidentsInv ==
    Delivered =>
        \E outcomes \in [DOMAIN clusters -> {"llm", "fallback", "skipped"}] :
            incidents = [k \in DOMAIN clusters |-> Incident(k, outcomes[k])]

PipelineInv ==
    /\ LoaderInv /\ PipelineTypeOK
    /\ Unclustered /\ OptionsInv /\ GroupedInv /\ ClassifiedInv /\ BarsInv
    /\ BuiltInv /\ IncidentsInv


-----------------------------------------------------------------------------
(* What the steps leave alone.                                             *)
Loading == <<file, api, skipInvalid, phase, line, logs, total, skipped, errors, options>>

LEMMA SameLoader ==
    LoaderInv /\ UNCHANGED loaderVars => LoaderInv'
BY LoaderStepLemma

LEMMA SameClusters ==
    ASSUME UNCHANGED Loading
    PROVE  /\ OptionsValid' = OptionsValid
           /\ \A n : Labelings(n)' = Labelings(n)
           /\ \A labels : ClustersOf(labels)' = ClustersOf(labels)
           /\ \A members : SeverityBreakdown(members)' = SeverityBreakdown(members)
<1> USE DEF Loading
<1>1. OptionsValid' = OptionsValid
  BY DEF OptionsValid
<1>2. ASSUME NEW n PROVE Labelings(n)' = Labelings(n)
  BY DEF Labelings
<1>3. ASSUME NEW labels PROVE ClustersOf(labels)' = ClustersOf(labels)
  BY DEF ClustersOf, Kept, Aggregate, InOrder
<1>4. \A m : SeverityOf(m)' = SeverityOf(m)
  <2>1. Format' = Format
    BY SameFormat
  <2> QED  BY <2>1 DEF SeverityOf, SeverityAt, Cells
<1>5. ASSUME NEW members PROVE SeverityBreakdown(members)' = SeverityBreakdown(members)
  BY <1>4 DEF SeverityBreakdown
<1> QED  BY <1>1, <1>2, <1>3, <1>5

LEMMA SameGroups ==
    ASSUME UNCHANGED Loading, UNCHANGED <<clusters, nClusters, nNoise>>,
           \E labels \in Labelings(Len(logs)) : Grouped(labels)
    PROVE  (\E labels \in Labelings(Len(logs)) : Grouped(labels))'
<1>1. PICK labels \in Labelings(Len(logs)) : Grouped(labels)
  OBVIOUS
<1>2. Grouped(labels)'
  BY <1>1, SameClusters DEF Grouped
<1>3. labels \in Labelings(Len(logs))'
  BY <1>1, SameClusters DEF Loading, Labelings
<1> QED  BY <1>2, <1>3

-----------------------------------------------------------------------------
(* The steps before the clustering.                                        *)

Failures == {"none", "load", "options", "construct", "request", "embed", "cluster",
             "classify", "build", "recommend", "write"}

LEMMA InvInit ==
    PipelineInit => PipelineInv
<1> SUFFICES ASSUME PipelineInit PROVE PipelineInv
  OBVIOUS
<1> USE DEF PipelineInit
<1>1. LoaderInv
  BY InitLemma
<1>2. PipelineTypeOK
  <2>1. \A T : <<>> \in Seq(T)
    OBVIOUS
  <2>2. bars \in [{"embedding", "clustering", "classifying"} -> {<<>>} \cup (Nat \X Nat)]
    OBVIOUS
  <2>3. disk \in [{"report.json", "report.md"} -> {"none", "json", "markdown"}]
    OBVIOUS
  <2> QED  BY <1>1, <2>1, <2>2, <2>3 DEF PipelineTypeOK, LoaderInv
<1>3. bars.classifying = <<>>
  OBVIOUS
<1> QED  BY <1>1, <1>2, <1>3 DEF PipelineInv, Unclustered, OptionsInv, GroupedInv, ClassifiedInv, BarsInv,
                           BuiltInv, IncidentsInv, Active, Late, Delivered

LEMMA RaiseLemma ==
    ASSUME PipelineInv, NEW what \in Failures, Raise(what)
    PROVE  PipelineInv'
<1> USE DEF Raise
<1>1. LoaderInv'
  BY SameLoader DEF PipelineInv
<1>2. PipelineTypeOK'
  BY <1>1 DEF PipelineInv, PipelineTypeOK, LoaderInv, Failures, loaderVars
<1> QED  BY <1>1, <1>2 DEF PipelineInv, Unclustered, OptionsInv, GroupedInv, ClassifiedInv, BarsInv,
                           BuiltInv, IncidentsInv, Active, Late, Delivered

LEMMA LoadStep ==
    PipelineInv /\ Load => PipelineInv'
<1> SUFFICES ASSUME PipelineInv, Load PROVE PipelineInv'
  OBVIOUS
<1> USE DEF Load, pipelineVars
<1>1. LoaderInv'
  BY LoaderStepLemma DEF PipelineInv
<1>2. clusters = <<>>
  BY DEF PipelineInv, Unclustered
<1>3. PipelineTypeOK'
  BY <1>1, <1>2 DEF PipelineInv, PipelineTypeOK, LoaderInv
<1> QED  BY <1>1, <1>3 DEF PipelineInv, Unclustered, OptionsInv, GroupedInv, ClassifiedInv, BarsInv,
                           BuiltInv, IncidentsInv, Active, Late, Delivered

(* A step of a stage before the clustering to the next such stage.         *)
LEMMA EarlyLemma ==
    ASSUME PipelineInv, stage \in {"loading", "building", "embedding"},
           NEW next \in {"building", "embedding", "clustering"}, GoTo(next),
           bars' \in [{"embedding", "clustering", "classifying"} -> {<<>>} \cup (Nat \X Nat)],
           bars'.classifying = <<>>,
           next # "building" => OptionsValid,
           next = "clustering" => bars'.embedding = <<Len(logs), Len(logs)>>
    PROVE  PipelineInv'
<1> USE DEF GoTo
<1>1. LoaderInv'
  BY SameLoader DEF PipelineInv
<1>2. PipelineTypeOK'
  BY <1>1 DEF PipelineInv, PipelineTypeOK, LoaderInv, loaderVars
<1>3. OptionsValid' = OptionsValid
  BY DEF OptionsValid
<1> QED  BY <1>1, <1>2, <1>3 DEF PipelineInv, Unclustered, OptionsInv, GroupedInv, ClassifiedInv,
                           BarsInv, BuiltInv, IncidentsInv, Active, Late, Delivered, loaderVars

LEMMA LogsLemma ==
    ASSUME LoaderInv
    PROVE  /\ Len(logs) \in Nat /\ DOMAIN logs = 1..Len(logs)
           /\ \A m \in DOMAIN logs : logs[m] \in DOMAIN file.rows
<1>1. logs \in Seq(DOMAIN file.rows)
  BY DEF LoaderInv, LoaderTypeOK
<1> QED  BY <1>1

LEMMA EarlySteps ==
    PipelineInv /\ (Loaded \/ BuildPipeline \/ Embed) => PipelineInv'
<1> SUFFICES ASSUME PipelineInv, Loaded \/ BuildPipeline \/ Embed PROVE PipelineInv'
  OBVIOUS
<1>1. /\ bars \in [{"embedding", "clustering", "classifying"} -> {<<>>} \cup (Nat \X Nat)]
      /\ Len(logs) \in Nat
  BY LogsLemma DEF PipelineInv, PipelineTypeOK
<1>2. stage \in {"loading", "building", "embedding"} => bars.classifying = <<>>
  BY DEF PipelineInv, Unclustered
<1>3. CASE Loaded
  BY <1>1, <1>2, <1>3, RaiseLemma, EarlyLemma DEF Loaded, Failures
<1>4. CASE BuildPipeline
  <2>1. CASE \E what \in Failures : Raise(what)
    BY <2>1, RaiseLemma
  <2>2. CASE /\ OptionsValid
             /\ GoTo("embedding")
             /\ bars' = [bars EXCEPT !.embedding = <<0, Len(logs)>>]
    <3>1. bars' \in [{"embedding", "clustering", "classifying"} -> {<<>>} \cup (Nat \X Nat)]
          /\ bars'.classifying = <<>>
      BY <1>1, <1>2, <1>4, <2>2 DEF BuildPipeline
    <3> QED  BY <1>4, <2>2, <3>1, EarlyLemma DEF BuildPipeline
  <2> QED  BY <1>4, <2>1, <2>2 DEF BuildPipeline, Failures
<1>5. CASE Embed
  <2>1. CASE \E what \in Failures : Raise(what)
    BY <2>1, RaiseLemma
  <2>2. CASE /\ GoTo("clustering")
             /\ bars' = [bars EXCEPT !.embedding = <<Len(logs), Len(logs)>>,
                                     !.clustering = <<0, 1>>]
    <3>1. bars' \in [{"embedding", "clustering", "classifying"} -> {<<>>} \cup (Nat \X Nat)]
          /\ bars'.classifying = <<>> /\ bars'.embedding = <<Len(logs), Len(logs)>>
      BY <1>1, <1>2, <1>5, <2>2 DEF Embed
    <3>2. OptionsValid
      BY <1>5 DEF Embed, PipelineInv, OptionsInv
    <3> QED  BY <1>5, <2>2, <3>1, <3>2, EarlyLemma DEF Embed
  <2> QED  BY <1>5, <2>1, <2>2 DEF Embed, Failures
<1> QED  BY <1>3, <1>4, <1>5


-----------------------------------------------------------------------------
(* The clustering.                                                         *)

LEMMA LabelsLemma ==
    ASSUME options \in Option, OptionsValid, NEW n \in Nat, NEW labels \in Labelings(n)
    PROVE  /\ \E q \in Int : labels \in [1..n -> -1..q]
           /\ DOMAIN labels = 1..n
           /\ IsFiniteSet(Range(labels)) /\ Range(labels) \subseteq Int
           /\ IsFiniteSet({i \in DOMAIN labels : labels[i] = -1})
<1> DEFINE q == n \div options.minCluster - 1
<1>1. q \in Int
  <2>1. options.minCluster \in Int /\ options.minCluster >= 2
    BY DEF Option, OptionsValid
  <2> QED  BY <2>1
<1>2. labels \in [1..n -> -1..q]
  BY DEF Labelings
<1> HIDE DEF q
<1>3. DOMAIN labels = 1..n /\ Range(labels) \subseteq -1..q
  BY <1>2 DEF Range
<1>4. IsFiniteSet(-1..q) /\ IsFiniteSet(1..n)
  BY <1>1, FS_Interval
<1>5. IsFiniteSet(Range(labels)) /\ Range(labels) \subseteq Int
  <2> DEFINE I == -1..q
             R == Range(labels)
  <2>1. R \in SUBSET I /\ IsFiniteSet(I) /\ I \subseteq Int
    BY <1>1, <1>3, <1>4
  <2> HIDE DEF I, R
  <2>2. IsFiniteSet(R) /\ R \subseteq Int
    BY <2>1, FS_Subset
  <2> QED  BY <2>2 DEF R
<1>6. IsFiniteSet({i \in DOMAIN labels : labels[i] = -1})
  <2> DEFINE T == {i \in DOMAIN labels : labels[i] = -1}
  <2>1. T \in SUBSET (1..n)
    BY <1>3
  <2> HIDE DEF T
  <2> QED  BY <1>4, <2>1, FS_Subset DEF T
<1> QED  BY <1>1, <1>2, <1>3, <1>5, <1>6

LEMMA OptionLemma ==
    PipelineInv => options \in Option
BY PipelineAssumption DEF PipelineInv, PipelineTypeOK

LEMMA ClusterStep ==
    PipelineInv /\ Cluster => PipelineInv'
<1> SUFFICES ASSUME PipelineInv, Cluster PROVE PipelineInv'
  OBVIOUS
<1>1. CASE Raise("cluster")
  BY <1>1, RaiseLemma DEF Failures
<1>2. CASE \E labels \in Labelings(Len(logs)) :
            /\ clusters' = Kept(Aggregate(labels))
            /\ nClusters' = Cardinality(Range(labels) \ {-1})
            /\ nNoise' = Cardinality({i \in DOMAIN labels : labels[i] = -1})
            /\ bars' = [bars EXCEPT !.clustering = <<1, 1>>]
            /\ stage' = "classifying"
            /\ UNCHANGED <<loaderVars, options, failure, disabled, preds, classified,
                           incidents, disk>>
  <2>1. PICK labels \in Labelings(Len(logs)) :
            /\ clusters' = Kept(Aggregate(labels))
            /\ nClusters' = Cardinality(Range(labels) \ {-1})
            /\ nNoise' = Cardinality({i \in DOMAIN labels : labels[i] = -1})
            /\ bars' = [bars EXCEPT !.clustering = <<1, 1>>]
            /\ stage' = "classifying"
            /\ UNCHANGED <<loaderVars, options, failure, disabled, preds, classified,
                           incidents, disk>>
    BY <1>2
  <2>2. stage = "clustering" /\ Len(logs) \in Nat /\ DOMAIN logs = 1..Len(logs) /\ OptionsValid
    BY LogsLemma DEF PipelineInv, Cluster, OptionsInv
  <2>3. UNCHANGED Loading
    BY <2>1 DEF Loading, loaderVars
  <2>4. LoaderInv'
    BY <2>1, SameLoader DEF PipelineInv
  <2>5. clusters' = ClustersOf(labels) /\ clusters' \in Seq(ClusterType(Len(logs)))
    <3>1. clusters' = ClustersOf(labels)
      BY <2>1 DEF ClustersOf
    <3>2. PICK q \in Int : labels \in [1..Len(logs) -> -1..q]
      BY <2>2, LabelsLemma, OptionLemma
    <3> QED  BY <2>2, <3>1, <3>2, ClustersLemma
  <2>6. nClusters' \in Nat /\ nNoise' \in Nat
    <3> DEFINE R == Range(labels) \ {-1}
               Z == {i \in DOMAIN labels : labels[i] = -1}
    <3>1. IsFiniteSet(R) /\ IsFiniteSet(Z)
      BY <2>2, LabelsLemma, OptionLemma, FS_RemoveElement
    <3>2. nClusters' = Cardinality(R) /\ nNoise' = Cardinality(Z)
      BY <2>1
    <3> HIDE DEF R, Z
    <3> QED  BY <3>1, <3>2, FS_CardinalityType
  <2>7. bars' \in [{"embedding", "clustering", "classifying"} -> {<<>>} \cup (Nat \X Nat)]
        /\ bars'.classifying = <<>> /\ bars'.clustering = <<1, 1>>
        /\ bars'.embedding = <<Len(logs), Len(logs)>>
    BY <2>1, <2>2 DEF PipelineInv, PipelineTypeOK, Unclustered, BarsInv
  <2>8. PipelineTypeOK'
    <3>1. clusters' \in Seq([id : Int, members : Seq(DOMAIN logs)])
      BY <2>2, <2>5 DEF ClusterType
    <3> QED  BY <2>1, <2>4, <2>6, <2>7, <3>1 DEF PipelineInv, PipelineTypeOK, LoaderInv, loaderVars
  <2>9. GroupedInv'
    <3>1. Grouped(labels)'
      BY <2>1, <2>3, <2>5, SameClusters DEF Grouped
    <3>2. labels \in Labelings(Len(logs))'
      BY <2>3 DEF Loading, Labelings
    <3> QED  BY <3>1, <3>2 DEF GroupedInv
  <2>10. classified' = <<>> /\ preds' = <<>> /\ ~disabled' /\ Len(clusters') \in Nat
    BY <2>1, <2>2, <2>5 DEF PipelineInv, Unclustered
  <2>11. OptionsValid'
    BY <2>2, <2>3, SameClusters
  <2>12. ClassifiedInv' /\ BarsInv'
    BY <2>1, <2>7, <2>10 DEF ClassifiedInv, BarsInv, Active, loaderVars
  <2> QED  BY <2>1, <2>4, <2>8, <2>9, <2>11, <2>12 DEF PipelineInv, Unclustered, OptionsInv, BuiltInv,
                IncidentsInv, Active, Late, Delivered
<1> QED  BY <1>1, <1>2 DEF Cluster

(* What the labelling says of each reported cluster: it is not empty.      *)
LEMMA ShapeLemma ==
    ASSUME PipelineInv, Active
    PROVE  /\ Len(clusters) \in Nat /\ DOMAIN clusters = 1..Len(clusters)
           /\ clusters \in Seq(ClusterType(Len(logs)))
           /\ \A k \in DOMAIN clusters : /\ clusters[k].members \in Seq(DOMAIN logs)
                                         /\ Len(clusters[k].members) \in Nat
                                         /\ Len(clusters[k].members) > 0
<1>1. PICK labels \in Labelings(Len(logs)) : Grouped(labels)
  BY DEF PipelineInv, GroupedInv
<1>2. OptionsValid /\ options \in Option /\ Len(logs) \in Nat /\ DOMAIN logs = 1..Len(logs)
  BY OptionLemma, LogsLemma DEF PipelineInv, OptionsInv
<1>3. PICK q \in Int : labels \in [1..Len(logs) -> -1..q]
  BY <1>1, <1>2, LabelsLemma
<1>4. /\ clusters \in Seq(ClusterType(Len(logs)))
      /\ \A k \in DOMAIN clusters :
            /\ clusters[k].id \in KeptIds(labels)
            /\ clusters[k].members = Ascending(Members(labels, clusters[k].id))
  BY <1>1, <1>2, <1>3, ClustersLemma DEF Grouped
<1>5. Len(clusters) \in Nat /\ DOMAIN clusters = 1..Len(clusters)
  BY <1>4
<1>6. ASSUME NEW k \in DOMAIN clusters
      PROVE  /\ clusters[k].members \in Seq(DOMAIN logs)
             /\ Len(clusters[k].members) \in Nat /\ Len(clusters[k].members) > 0
  <2>1. clusters[k].id \in Range(labels)
    BY <1>4 DEF KeptIds
  <2> DEFINE x == clusters[k].id
             n == Len(logs)
             M == Ascending(Members(labels, x))
  <2>2. n \in Nat /\ labels \in [1..n -> -1..q] /\ x \in Range(labels)
    BY <1>2, <1>3, <2>1
  <2>3. clusters[k].members = M
    BY <1>4
  <2>4. M \in Seq(1..n) /\ Len(M) > 0
    <3> HIDE DEF x, n
    <3> QED  BY <2>2, MembersLemma
  <2> QED  BY <1>2, <2>3, <2>4
<1> QED  BY <1>4, <1>5, <1>6


-----------------------------------------------------------------------------
(* The classification.                                                     *)

BarType == [{"embedding", "clustering", "classifying"} -> {<<>>} \cup (Nat \X Nat)]

(* A step of _classify_all() changes nothing but these four.               *)
LEMMA ClassifyFrame ==
    ASSUME PipelineInv, stage = "classifying",
           UNCHANGED <<loaderVars, options, stage, failure, clusters, nClusters, nNoise,
                       incidents, disk>>,
           disabled' \in BOOLEAN, preds' \in Seq(Labels), classified' \in Seq(Seq(Labels)),
           bars' \in BarType, ClassifiedInv', BarsInv'
    PROVE  PipelineInv'
<1>1. LoaderInv'
  BY SameLoader DEF PipelineInv
<1>2. PipelineTypeOK'
  BY <1>1 DEF PipelineInv, PipelineTypeOK, LoaderInv, loaderVars, BarType
<1>3. UNCHANGED Loading
  BY DEF Loading, loaderVars
<1>4. GroupedInv'
  BY <1>3, SameGroups DEF PipelineInv, GroupedInv, Active
<1>5. OptionsInv'
  BY <1>3, SameClusters DEF PipelineInv, OptionsInv, Active
<1> QED  BY <1>1, <1>2, <1>4, <1>5 DEF PipelineInv, Unclustered, BuiltInv, IncidentsInv, Active, Late,
                                  Delivered

(* The cluster that is next, and the clusters before it.                   *)
LEMMA NextLemma ==
    ASSUME PipelineInv, Classifying
    PROVE  /\ Len(classified) \in Nat /\ DOMAIN classified = 1..Len(classified)
           /\ Len(clusters) \in Nat /\ Len(classified) + 1 \in DOMAIN clusters
           /\ DOMAIN clusters = 1..Len(clusters)
           /\ Len(Current.members) \in Nat /\ Len(Current.members) > 0
           /\ Len(preds) \in Nat /\ Len(preds) < Len(Current.members)
           /\ preds \in Seq(Labels) /\ classified \in Seq(Seq(Labels))
           /\ \A k \in DOMAIN classified :
                 classified[k] = <<>> \/ Len(classified[k]) = Len(clusters[k].members)
           /\ Posting => \A k \in DOMAIN classified : classified[k] # <<>>
           /\ ~Posting => preds = <<>>
<1>1. stage = "classifying" /\ Active
  BY DEF Classifying, Active
<1>2. /\ preds \in Seq(Labels) /\ classified \in Seq(Seq(Labels))
      /\ Len(classified) \in Nat /\ DOMAIN classified = 1..Len(classified) /\ Len(preds) \in Nat
  BY DEF PipelineInv, PipelineTypeOK
<1>3. /\ Len(clusters) \in Nat /\ DOMAIN clusters = 1..Len(clusters)
      /\ Len(classified) < Len(clusters)
  BY <1>1, ShapeLemma DEF Classifying
<1>4. Len(classified) + 1 \in DOMAIN clusters
  BY <1>2, <1>3
<1>5. Len(Current.members) \in Nat /\ Len(Current.members) > 0
  BY <1>1, <1>4, ShapeLemma DEF Current
<1>6. /\ preds # <<>> => Posting /\ Len(preds) < Len(Current.members)
      /\ \A k \in DOMAIN classified :
            classified[k] = <<>> \/ Len(classified[k]) = Len(clusters[k].members)
  BY <1>1 DEF PipelineInv, ClassifiedInv
<1>7. Len(preds) < Len(Current.members)
  BY <1>5, <1>6
<1>8. ASSUME Posting, NEW k \in DOMAIN classified PROVE classified[k] # <<>>
  <2>0. options.classifier /\ classified # <<>>
    BY <1>2, <1>8 DEF Posting
  <2>1. PICK b \in 1..Len(classified) : Asked(b)
    BY <1>1, <2>0 DEF PipelineInv, BarsInv
  <2>2. b = Len(classified) /\ ~disabled
    BY <1>8, <2>1 DEF Asked, Posting
  <2>3. k < b \/ k = b
    BY <1>2, <2>2
  <2> QED  BY <2>1, <2>2, <2>3 DEF Asked
<1> QED  BY <1>2, <1>3, <1>4, <1>5, <1>6, <1>7, <1>8

(* What is known once the cluster that is next has its result.             *)
LEMMA ResultLemma ==
    ASSUME PipelineInv, Classifying, Posting, NEW result \in Seq(Labels), disabled' \in BOOLEAN,
           UNCHANGED <<loaderVars, options, stage, failure, clusters, nClusters, nNoise,
                       incidents, disk>>,
           classified' = Append(classified, result), preds' = <<>>, ReportCluster,
           IF disabled' THEN result = <<>> ELSE Len(result) = Len(Current.members)
    PROVE  PipelineInv'
<1>0. PICK n : n = Len(classified) + 1
  OBVIOUS
<1>1. /\ Len(classified) \in Nat /\ DOMAIN classified = 1..Len(classified)
      /\ Len(clusters) \in Nat /\ n \in DOMAIN clusters /\ n \in Nat /\ n <= Len(clusters)
      /\ classified \in Seq(Seq(Labels))
      /\ \A k \in DOMAIN classified :
            classified[k] = <<>> \/ Len(classified[k]) = Len(clusters[k].members)
      /\ \A k \in DOMAIN classified : classified[k] # <<>>
  BY <1>0, NextLemma
<1>2. stage = "classifying" /\ Active /\ options.classifier
  BY DEF Classifying, Active, Posting
<1>3. /\ classified' \in Seq(Seq(Labels)) /\ Len(classified') = n /\ DOMAIN classified' = 1..n
      /\ classified'[n] = result /\ \A k \in DOMAIN classified : classified'[k] = classified[k]
  BY <1>0, <1>1
<1>4. result = <<>> <=> disabled'
  <2>1. Len(Current.members) > 0
    BY NextLemma
  <2> QED  BY <2>1
<1>5. ClassifiedInv'
  <2>1. ASSUME NEW k \in DOMAIN classified'
        PROVE  classified'[k] = <<>> \/ Len(classified'[k]) = Len(clusters[k].members)
    <3>1. k \in DOMAIN classified \/ k = n
      BY <1>0, <1>1, <1>3
    <3>2. CASE k \in DOMAIN classified
      BY <1>1, <1>3, <3>2
    <3>3. CASE k = n
      BY <1>0, <1>3, <3>3 DEF Current
    <3> QED  BY <3>1, <3>2, <3>3
  <2> QED  BY <1>1, <1>3, <2>1 DEF ClassifiedInv
<1>6. bars' \in BarType /\ bars'.classifying = <<n, Len(clusters)>>
      /\ bars'.embedding = <<Len(logs), Len(logs)>> /\ bars'.clustering = <<1, 1>>
  BY <1>0, <1>1, <1>2 DEF ReportCluster, PipelineInv, PipelineTypeOK, BarsInv, BarType
<1>7. BarsInv'
  <2>1. ASSUME NEW k \in DOMAIN classified'
        PROVE  classified'[k] # <<>> <=> k < n \/ (k = n /\ ~disabled')
    <3>1. (k \in DOMAIN classified /\ k < n) \/ k = n
      BY <1>0, <1>1, <1>3
    <3>2. n < n <=> FALSE
      BY <1>1
    <3> QED  BY <1>1, <1>3, <1>4, <3>1, <3>2
  <2>2. Asked(n)'
    BY <1>3, <1>6, <2>1 DEF Asked
  <2>3. n \in 1..Len(classified') /\ classified' # <<>>
    BY <1>1, <1>3
  <2> QED  BY <1>2, <1>6, <2>2, <2>3 DEF BarsInv, loaderVars
<1> QED  BY <1>2, <1>3, <1>5, <1>6, <1>7, ClassifyFrame

LEMMA ClassifyBatchStep ==
    PipelineInv /\ ClassifyBatch => PipelineInv'
<1> SUFFICES ASSUME PipelineInv, ClassifyBatch PROVE PipelineInv'
  OBVIOUS
<1>1. Classifying /\ Posting /\ stage = "classifying" /\ Active
  BY DEF ClassifyBatch, Posting, Classifying, Active
<1> DEFINE L == Len(Current.members)
           p == Len(preds)
<1>2. L \in Nat /\ p \in Nat /\ p < L /\ preds \in Seq(Labels) /\ classified \in Seq(Seq(Labels))
  BY <1>1, NextLemma
<1>3. options.batch \in Int /\ options.batch > 0
  BY <1>1, OptionLemma DEF PipelineInv, OptionsInv, OptionsValid, Option
<1>4. NextBatch \in Nat /\ NextBatch > 0 /\ p + NextBatch <= L
  BY <1>2, <1>3, PairMin DEF NextBatch
<1>5. PICK answer \in [1..NextBatch -> Labels] :
         IF p + NextBatch = L
         THEN classified' = Append(classified, preds \o answer) /\ preds' = <<>> /\ ReportCluster
         ELSE preds' = preds \o answer /\ UNCHANGED <<classified, bars>>
  BY DEF ClassifyBatch
<1>6. UNCHANGED <<loaderVars, options, stage, failure, clusters, nClusters, nNoise,
                  disabled, incidents, disk>>
  BY DEF ClassifyBatch
<1>7. preds \o answer \in Seq(Labels) /\ Len(preds \o answer) = p + NextBatch
  <2>1. answer \in Seq(Labels) /\ Len(answer) = NextBatch
    BY <1>4
  <2> QED  BY <1>2, <2>1, ConcatProperties
<1>8. disabled \in BOOLEAN /\ ~disabled
  BY <1>1 DEF Posting, PipelineInv, PipelineTypeOK
<1>9. CASE p + NextBatch = L
  <2>1. classified' = Append(classified, preds \o answer) /\ preds' = <<>> /\ ReportCluster
    BY <1>5, <1>9
  <2> HIDE DEF L, p
  <2>2. Len(preds \o answer) = Len(Current.members)
    BY <1>7, <1>9 DEF L
  <2> DEFINE result == preds \o answer
  <2>3. /\ result \in Seq(Labels) /\ Len(result) = Len(Current.members)
        /\ classified' = Append(classified, result)
    BY <1>7, <2>1, <2>2
  <2> HIDE DEF result
  <2> QED  BY <1>1, <1>6, <1>8, <2>1, <2>3, ResultLemma
<1>10. CASE p + NextBatch # L
  <2>1. preds' = preds \o answer /\ UNCHANGED <<classified, bars>>
    BY <1>5, <1>10
  <2>2. Len(preds') < L /\ preds' \in Seq(Labels)
    BY <1>2, <1>4, <1>7, <1>10, <2>1
  <2>3. ClassifiedInv'
    <3>1. Posting' /\ Current' = Current
      BY <1>1, <1>6, <2>1 DEF Posting, Classifying, Current
    <3> QED  BY <1>1, <1>6, <2>1, <2>2, <3>1 DEF ClassifiedInv, PipelineInv
  <2>4. BarsInv'
    BY <1>1, <1>6, <2>1 DEF BarsInv, PipelineInv, Asked, Active, loaderVars
  <2>5. bars' \in BarType
    BY <2>1 DEF PipelineInv, PipelineTypeOK, BarType
  <2> QED  BY <1>1, <1>2, <1>6, <1>8, <2>1, <2>2, <2>3, <2>4, <2>5, ClassifyFrame
<1> QED  BY <1>9, <1>10


LEMMA UnsupportedStep ==
    PipelineInv /\ ClassifyUnsupported => PipelineInv'
<1> SUFFICES ASSUME PipelineInv, ClassifyUnsupported PROVE PipelineInv'
  OBVIOUS
<1>1. Classifying /\ Posting
  BY DEF ClassifyUnsupported, Posting
<1>2. /\ UNCHANGED <<loaderVars, options, stage, failure, clusters, nClusters, nNoise,
                     incidents, disk>>
      /\ disabled' = TRUE /\ classified' = Append(classified, <<>>) /\ preds' = <<>>
      /\ ReportCluster
  BY DEF ClassifyUnsupported
<1>3. <<>> \in Seq(Labels)
  OBVIOUS
<1> QED  BY <1>1, <1>2, <1>3, ResultLemma

LEMMA NotClassifiedStep ==
    PipelineInv /\ NotClassified => PipelineInv'
<1> SUFFICES ASSUME PipelineInv, NotClassified PROVE PipelineInv'
  OBVIOUS
<1>0. PICK n : n = Len(classified) + 1
  OBVIOUS
<1>1. Classifying /\ ~Posting /\ stage = "classifying" /\ Active
  BY DEF NotClassified, Posting, Classifying, Active
<1>2. /\ UNCHANGED <<loaderVars, options, stage, failure, clusters, nClusters, nNoise,
                     disabled, preds, incidents, bars, disk>>
      /\ classified' = Append(classified, <<>>)
  BY DEF NotClassified
<1>3. /\ Len(classified) \in Nat /\ DOMAIN classified = 1..Len(classified)
      /\ Len(clusters) \in Nat /\ n \in DOMAIN clusters /\ n \in Nat /\ n <= Len(clusters)
      /\ classified \in Seq(Seq(Labels)) /\ preds = <<>>
      /\ \A k \in DOMAIN classified :
            classified[k] = <<>> \/ Len(classified[k]) = Len(clusters[k].members)
  BY <1>0, <1>1, NextLemma
<1>4. /\ classified' \in Seq(Seq(Labels)) /\ Len(classified') = n /\ DOMAIN classified' = 1..n
      /\ classified'[n] = <<>> /\ \A k \in DOMAIN classified : classified'[k] = classified[k]
  BY <1>0, <1>2, <1>3
<1>5. \A k \in DOMAIN classified' : k \in DOMAIN classified \/ (k = n /\ classified'[k] = <<>>)
  BY <1>0, <1>3, <1>4
<1>6. ClassifiedInv'
  BY <1>2, <1>3, <1>4, <1>5 DEF ClassifiedInv
<1>7. BarsInv'
  <2>1. /\ bars.embedding = <<Len(logs), Len(logs)>> /\ bars.clustering = <<1, 1>>
        /\ IF options.classifier /\ classified # <<>>
           THEN \E b \in 1..Len(classified) : Asked(b)
           ELSE /\ bars.classifying = <<>> /\ ~disabled
                /\ \A k \in DOMAIN classified : classified[k] = <<>>
    BY <1>1 DEF PipelineInv, BarsInv
  <2>2. CASE options.classifier
    <3>1. disabled /\ classified # <<>>
      BY <1>1, <2>1, <2>2 DEF NotClassified
    <3>2. PICK b \in 1..Len(classified) : Asked(b)
      BY <2>1, <2>2, <3>1
    <3>3. b \in 1..Len(classified') /\ b < n /\ classified' # <<>>
      BY <1>0, <1>3, <1>4
    <3>4. ASSUME NEW k \in DOMAIN classified'
          PROVE  classified'[k] # <<>> <=> k < b \/ (k = b /\ ~disabled')
      <4>1. CASE k \in DOMAIN classified
        BY <1>2, <1>4, <3>2, <4>1 DEF Asked
      <4>2. CASE k = n
        BY <1>2, <1>3, <1>4, <3>1, <3>3, <4>2
      <4> QED  BY <1>5, <4>1, <4>2
    <3>5. Asked(b)'
      BY <1>2, <3>1, <3>2, <3>4 DEF Asked
    <3> QED  BY <1>2, <2>1, <2>2, <3>3, <3>5 DEF BarsInv, loaderVars
  <2>3. CASE ~options.classifier
    <3>1. \A k \in DOMAIN classified' : classified'[k] = <<>>
      BY <1>4, <1>5, <2>1, <2>3
    <3> QED  BY <1>2, <2>1, <2>3, <3>1 DEF BarsInv, loaderVars
  <2> QED  BY <2>2, <2>3
<1>8. disabled' \in BOOLEAN /\ preds' \in Seq(Labels) /\ bars' \in BarType
  BY <1>2 DEF PipelineInv, PipelineTypeOK, BarType
<1> QED  BY <1>1, <1>2, <1>4, <1>6, <1>7, <1>8, ClassifyFrame

-----------------------------------------------------------------------------
(* The incidents.                                                          *)

(* The steps after the classification move between stages.                 *)
LEMMA LateFrame ==
    ASSUME PipelineInv, Active,
           UNCHANGED <<loaderVars, options, failure, clusters, nClusters, nNoise, disabled,
                       preds, classified, bars>>,
           stage' \in {"recommending", "json", "markdown", "finished"},
           disk' \in [{"report.json", "report.md"} -> {"none", "json", "markdown"}],
           Len(classified) = Len(clusters), BuiltInv', IncidentsInv'
    PROVE  PipelineInv'
<1>1. LoaderInv'
  BY SameLoader DEF PipelineInv
<1>2. PipelineTypeOK'
  BY <1>1 DEF PipelineInv, PipelineTypeOK, LoaderInv, loaderVars
<1>3. UNCHANGED Loading
  BY DEF Loading, loaderVars
<1>4. GroupedInv' /\ OptionsInv'
  BY <1>3, SameGroups, SameClusters DEF PipelineInv, GroupedInv, OptionsInv, Active
<1>5. preds = <<>>
  <2>1. Len(clusters) \in Nat
    BY ShapeLemma
  <2>2. ~Posting
    BY <2>1 DEF Posting, Classifying
  <2> QED  BY <2>2 DEF PipelineInv, ClassifiedInv
<1>6. ClassifiedInv'
  BY <1>5 DEF PipelineInv, ClassifiedInv
<1>7. BarsInv'
  BY DEF PipelineInv, BarsInv, Asked, Active, loaderVars
<1> QED  BY <1>1, <1>2, <1>4, <1>6, <1>7 DEF PipelineInv, Unclustered

LEMMA BuildStep ==
    PipelineInv /\ BuildClusters => PipelineInv'
<1> SUFFICES ASSUME PipelineInv, BuildClusters PROVE PipelineInv'
  OBVIOUS
<1>1. stage = "classifying" /\ Active /\ Len(classified) = Len(clusters)
  BY DEF BuildClusters, Active
<1>2. CASE Raise("build")
  BY <1>2, RaiseLemma DEF Failures
<1>3. CASE /\ ~\E c \in Range(clusters) :
                   TimeRangeFails(c.members) \/ NoSeverity \in DOMAIN SeverityBreakdown(c.members)
           /\ GoTo("recommending") /\ UNCHANGED bars
  <2>1. \A k \in DOMAIN clusters : NoSeverity \notin DOMAIN SeverityBreakdown(clusters[k].members)
    BY <1>3 DEF Range
  <2>2. UNCHANGED Loading
    BY <1>3 DEF Loading, loaderVars, GoTo
  <2>3. BuiltInv'
    BY <1>1, <1>3, <2>1, <2>2, SameClusters DEF BuiltInv, GoTo
  <2>4. IncidentsInv'
    BY <1>3 DEF GoTo, IncidentsInv, Delivered
  <2>5. disk \in [{"report.json", "report.md"} -> {"none", "json", "markdown"}]
    BY DEF PipelineInv, PipelineTypeOK
  <2> QED  BY <1>1, <1>3, <2>3, <2>4, <2>5, LateFrame DEF GoTo
<1> QED  BY <1>2, <1>3 DEF BuildClusters

(* An incident is a function of what is settled before it.                 *)
LEMMA SameIncidents ==
    ASSUME UNCHANGED Loading, UNCHANGED <<clusters, classified>>
    PROVE  \A k, how : Incident(k, how)' = Incident(k, how)
<1> SUFFICES ASSUME NEW k, NEW how PROVE Incident(k, how)' = Incident(k, how)
  OBVIOUS
<1>1. SeverityBreakdown(clusters[k].members)' = SeverityBreakdown(clusters[k].members)
  <2>1. PICK m : m = clusters[k].members
    OBVIOUS
  <2>2. SeverityBreakdown(m)' = SeverityBreakdown(m)
    BY SameClusters
  <2>3. SeverityBreakdown(clusters[k].members)' = SeverityBreakdown(m)'
    BY <2>1
  <2> QED  BY <2>1, <2>2, <2>3
<1> QED  BY <1>1 DEF Incident

LEMMA DeliverStep ==
    ASSUME PipelineInv, stage = "recommending",
           NEW outcomes \in [DOMAIN clusters -> {"llm", "fallback", "skipped"}], Deliver(outcomes)
    PROVE  PipelineInv'
<1> USE DEF Deliver
<1>1. Active /\ UNCHANGED Loading
  BY DEF Active, Loading, loaderVars
<1>2. BuiltInv' /\ Len(classified) = Len(clusters)
  BY <1>1, SameClusters DEF PipelineInv, BuiltInv, Late
<1>3. IncidentsInv'
  <2>1. incidents' = [k \in DOMAIN clusters |-> Incident(k, outcomes[k])]
    OBVIOUS
  <2>2. incidents' = [k \in DOMAIN clusters |-> Incident(k, outcomes[k])']
    BY <1>1, <2>1, SameIncidents
  <2> QED  BY <2>2 DEF IncidentsInv
<1>4. disk \in [{"report.json", "report.md"} -> {"none", "json", "markdown"}]
  BY DEF PipelineInv, PipelineTypeOK
<1> QED  BY <1>1, <1>2, <1>3, <1>4, LateFrame

LEMMA RecommendSteps ==
    PipelineInv /\ (SkipRecommendations \/ Recommended) => PipelineInv'
<1> SUFFICES ASSUME PipelineInv, SkipRecommendations \/ Recommended PROVE PipelineInv'
  OBVIOUS
<1>1. CASE SkipRecommendations
  <2> DEFINE o == [k \in DOMAIN clusters |-> "skipped"]
  <2>1. o \in [DOMAIN clusters -> {"llm", "fallback", "skipped"}] /\ Deliver(o)
    BY <1>1 DEF SkipRecommendations
  <2> HIDE DEF o
  <2> QED  BY <1>1, <2>1, DeliverStep DEF SkipRecommendations
<1>2. CASE Recommended
  <2>1. CASE Raise("recommend")
    BY <2>1, RaiseLemma DEF Failures
  <2>2. CASE \E outcomes \in [DOMAIN clusters -> {"llm", "fallback"}] : Deliver(outcomes)
    <3>1. PICK o \in [DOMAIN clusters -> {"llm", "fallback"}] : Deliver(o)
      BY <2>2
    <3>2. o \in [DOMAIN clusters -> {"llm", "fallback", "skipped"}]
      OBVIOUS
    <3> QED  BY <1>2, <3>1, <3>2, DeliverStep DEF Recommended
  <2> QED  BY <1>2, <2>1, <2>2 DEF Recommended
<1> QED  BY <1>1, <1>2

LEMMA WriteLemma ==
    ASSUME PipelineInv, stage \in {"json", "markdown"},
           NEW path \in {"report.json", "report.md"}, NEW content \in {"json", "markdown"},
           NEW next \in {"markdown", "finished"}, Write(path, content, next)
    PROVE  PipelineInv'
<1> USE DEF Write
<1>1. Active /\ UNCHANGED Loading /\ Late /\ Delivered
  BY DEF Active, Loading, loaderVars, Late, Delivered
<1>2. BuiltInv' /\ Len(classified) = Len(clusters)
  BY <1>1, SameClusters DEF PipelineInv, BuiltInv
<1>3. IncidentsInv'
  <2>1. PICK outcomes \in [DOMAIN clusters -> {"llm", "fallback", "skipped"}] :
            incidents = [k \in DOMAIN clusters |-> Incident(k, outcomes[k])]
    BY <1>1 DEF PipelineInv, IncidentsInv
  <2>2. incidents' = [k \in DOMAIN clusters |-> Incident(k, outcomes[k])']
    BY <1>1, <2>1, SameIncidents
  <2> QED  BY <2>2 DEF IncidentsInv
<1>4. disk' \in [{"report.json", "report.md"} -> {"none", "json", "markdown"}]
  BY DEF PipelineInv, PipelineTypeOK
<1> QED  BY <1>1, <1>2, <1>3, <1>4, LateFrame

LEMMA WriteSteps ==
    PipelineInv /\ (WriteJson \/ WriteMarkdown \/ WriteFails) => PipelineInv'
<1>1. options.output \in {"report.json", "report.md"} \/ ~PipelineInv
  BY OptionLemma DEF Option
<1> QED  BY <1>1, WriteLemma, RaiseLemma DEF WriteJson, WriteMarkdown, WriteFails, Failures

LEMMA InvStep ==
    PipelineInv /\ [PipelineNext]_allVars => PipelineInv'
<1> SUFFICES ASSUME PipelineInv, [PipelineNext]_allVars PROVE PipelineInv'
  OBVIOUS
<1>1. CASE ClassifyFails
  BY <1>1, RaiseLemma DEF ClassifyFails, Failures
<1>2. CASE UNCHANGED allVars
  <2>1. UNCHANGED Loading /\ LoaderInv'
    BY <1>2, SameLoader DEF allVars, Loading, loaderVars, pipelineVars, PipelineInv
  <2>2. PipelineTypeOK'
    BY <1>2, <2>1 DEF allVars, pipelineVars, loaderVars, PipelineInv, PipelineTypeOK, LoaderInv
  <2>3. GroupedInv' /\ OptionsInv' /\ BuiltInv'
    BY <1>2, <2>1, SameGroups, SameClusters DEF allVars, pipelineVars, PipelineInv, GroupedInv,
                                              OptionsInv, BuiltInv, Active, Late
  <2>4. IncidentsInv'
    <3> SUFFICES ASSUME Delivered' PROVE IncidentsInv'
      BY DEF IncidentsInv
    <3>1. Delivered /\ UNCHANGED <<clusters, classified, incidents>>
      BY <1>2 DEF allVars, pipelineVars, Delivered
    <3>2. PICK outcomes \in [DOMAIN clusters -> {"llm", "fallback", "skipped"}] :
              incidents = [k \in DOMAIN clusters |-> Incident(k, outcomes[k])]
      BY <3>1 DEF PipelineInv, IncidentsInv
    <3>3. incidents' = [k \in DOMAIN clusters |-> Incident(k, outcomes[k])']
      BY <2>1, <3>1, <3>2, SameIncidents
    <3> QED  BY <3>1, <3>3 DEF IncidentsInv
  <2>5. ClassifiedInv' /\ BarsInv' /\ Unclustered'
    BY <1>2 DEF allVars, pipelineVars, loaderVars, PipelineInv, ClassifiedInv, BarsInv, Unclustered,
                Active, Asked, Posting, Classifying, Current
  <2> QED  BY <2>1, <2>2, <2>3, <2>4, <2>5 DEF PipelineInv
<1>3. CASE PipelineStep
  BY <1>1, <1>3, LoadStep, EarlySteps, ClusterStep, ClassifyBatchStep, UnsupportedStep,
     NotClassifiedStep, BuildStep, RecommendSteps, WriteSteps DEF PipelineStep
<1> QED  BY <1>2, <1>3 DEF PipelineNext, PipelineOver

LEMMA PipelineInvariant ==
    PipelineSpec => []PipelineInv
BY InvInit, InvStep, PTL DEF PipelineSpec

(* Every variable of the run has its type.                                 *)
THEOREM PipelineTypeCorrect ==
    PipelineSpec => []PipelineTypeOK
<1>1. PipelineInv => PipelineTypeOK
  BY DEF PipelineInv
<1> QED  BY <1>1, PipelineInvariant, PTL


-----------------------------------------------------------------------------
(* What the invariant says of the incidents.                               *)

LEMMA IncidentsLemma ==
    ASSUME PipelineInv, Delivered
    PROVE  /\ Active
           /\ DOMAIN incidents = DOMAIN clusters /\ DOMAIN clusters = 1..Len(clusters)
           /\ Len(incidents) = Len(clusters) /\ Len(clusters) \in Nat
           /\ \A k \in DOMAIN clusters :
                 LET breakdown == SeverityBreakdown(clusters[k].members)
                 IN  /\ incidents[k].size = Len(clusters[k].members)
                     /\ incidents[k].breakdown = breakdown
                     /\ NoSeverity \notin DOMAIN breakdown
                     /\ incidents[k].classes = DominantClasses(classified[k])
                     /\ incidents[k].how # "llm" =>
                           incidents[k].priority = SeverityToPriority(MaxSeverity(breakdown))
<1>1. Active /\ Late
  BY DEF Delivered, Active, Late
<1>2. Len(clusters) \in Nat /\ DOMAIN clusters = 1..Len(clusters)
  BY <1>1, ShapeLemma
<1>3. PICK outcomes \in [DOMAIN clusters -> {"llm", "fallback", "skipped"}] :
          incidents = [k \in DOMAIN clusters |-> Incident(k, outcomes[k])]
  BY DEF PipelineInv, IncidentsInv
<1>4. DOMAIN incidents = DOMAIN clusters /\ Len(incidents) = Len(clusters)
  BY <1>2, <1>3
<1>5. \A k \in DOMAIN clusters : NoSeverity \notin DOMAIN SeverityBreakdown(clusters[k].members)
  BY <1>1 DEF PipelineInv, BuiltInv
<1>6. \A k \in DOMAIN clusters : incidents[k] = Incident(k, outcomes[k])
  BY <1>3
<1>7. ASSUME NEW k \in DOMAIN clusters
      PROVE  /\ incidents[k].size = Len(clusters[k].members)
             /\ incidents[k].breakdown = SeverityBreakdown(clusters[k].members)
             /\ incidents[k].classes = DominantClasses(classified[k])
             /\ incidents[k].how # "llm" =>
                   incidents[k].priority =
                      SeverityToPriority(MaxSeverity(SeverityBreakdown(clusters[k].members)))
  <2>1. incidents[k] = Incident(k, outcomes[k])
    BY <1>6
  <2> QED  BY <2>1 DEF Incident
<1> QED  BY <1>1, <1>2, <1>4, <1>5, <1>7

LEMMA ResultsLemma ==
    ASSUME PipelineInv, Delivered, NEW k \in DOMAIN clusters
    PROVE  /\ k \in DOMAIN classified
           /\ Len(classified[k]) \in Nat
           /\ classified[k] \in [1..Len(classified[k]) -> Labels]
           /\ classified[k] = <<>> <=> Len(classified[k]) = 0
           /\ classified[k] = <<>> \/ Len(classified[k]) = Len(clusters[k].members)
           /\ incidents[k].classes = <<>> <=> classified[k] = <<>>
<1>1. Late /\ Active
  BY DEF Delivered, Active, Late
<1>2. classified \in Seq(Seq(Labels)) /\ Len(classified) = Len(clusters)
  BY <1>1 DEF PipelineInv, PipelineTypeOK, BuiltInv
<1>3. DOMAIN clusters = 1..Len(clusters)
  BY IncidentsLemma
<1>4. k \in DOMAIN classified /\ classified[k] \in Seq(Labels)
  BY <1>2, <1>3
<1>5. PICK s : s = classified[k]
  OBVIOUS
<1>6. /\ Len(s) \in Nat /\ s \in [1..Len(s) -> Labels]
      /\ s = <<>> <=> Len(s) = 0
  BY <1>4, <1>5
<1>7. s = <<>> \/ Len(s) = Len(clusters[k].members)
  BY <1>1, <1>4, <1>5 DEF PipelineInv, ClassifiedInv
<1>8. DominantClasses(s) = <<>> <=> Len(s) = 0
  <2>1. PICK n \in Nat : n = Len(s)
    BY <1>6
  <2>2. s \in [1..n -> Labels]
    BY <1>6, <2>1
  <2>3. DominantClasses(s) = <<>> <=> n = 0
    BY <2>2, ClassesLemma
  <2> QED  BY <2>1, <2>3
<1>9. incidents[k].classes = DominantClasses(s)
  BY <1>5, IncidentsLemma
<1> QED  BY <1>4, <1>5, <1>6, <1>7, <1>8, <1>9

-----------------------------------------------------------------------------
(* The theorems about the incidents.                                       *)

LEMMA BarsLemma ==
    PipelineInv => BarsTrue /\ DisabledForTheRest
<1> SUFFICES ASSUME PipelineInv, Delivered PROVE BarsTrue /\ DisabledForTheRest
  BY DEF BarsTrue, DisabledForTheRest
<1>1. /\ Active /\ DOMAIN incidents = 1..Len(clusters) /\ DOMAIN clusters = 1..Len(clusters)
      /\ Len(incidents) = Len(clusters) /\ Len(clusters) \in Nat
  BY IncidentsLemma
<1>2. Len(classified) = Len(clusters) /\ DOMAIN classified = 1..Len(clusters)
  <2>1. Late /\ classified \in Seq(Seq(Labels))
    BY DEF Late, Delivered, PipelineInv, PipelineTypeOK
  <2> QED  BY <2>1 DEF PipelineInv, BuiltInv
<1>3. \A k \in 1..Len(clusters) : incidents[k].classes = <<>> <=> classified[k] = <<>>
  BY <1>1, ResultsLemma
<1>4. classified = <<>> <=> clusters = <<>>
  BY <1>1, <1>2, ShapeLemma DEF PipelineInv, PipelineTypeOK
<1>5. /\ bars.embedding = <<Len(logs), Len(logs)>> /\ bars.clustering = <<1, 1>>
      /\ IF options.classifier /\ classified # <<>>
         THEN \E b \in 1..Len(classified) : Asked(b)
         ELSE /\ bars.classifying = <<>> /\ ~disabled
              /\ \A k \in DOMAIN classified : classified[k] = <<>>
  BY <1>1 DEF PipelineInv, BarsInv
<1>6. CASE options.classifier /\ classified # <<>>
  <2>1. PICK b \in 1..Len(clusters) : Asked(b)
    BY <1>2, <1>5, <1>6
  <2>2. /\ bars.classifying = <<b, Len(clusters)>>
        /\ ~disabled => b = Len(clusters)
        /\ \A k \in 1..Len(clusters) :
              incidents[k].classes # <<>> <=> k < b \/ (k = b /\ ~disabled)
    BY <1>2, <1>3, <2>1 DEF Asked
  <2>3. bars.classifying # <<>> /\ bars.classifying[1] = b /\ bars.classifying[2] = Len(clusters)
    BY <1>1, <2>2
  <2>4. ASSUME NEW k \in 1..Len(clusters)
        PROVE  incidents[k].classes # <<>> <=> k < b \/ (k = Len(clusters) /\ ~disabled)
    BY <2>2
  <2>5. BarsTrue
    BY <1>1, <1>4, <1>5, <1>6, <2>2, <2>3, <2>4 DEF BarsTrue
  <2>6. ASSUME NEW k \in 1..Len(clusters), NEW n \in 1..Len(clusters), k < n,
               incidents[k].classes = <<>>
        PROVE  incidents[n].classes = <<>>
    <3>1. ~(k < b) /\ ~(k = b /\ ~disabled)
      BY <2>2, <2>6
    <3>2. ~(n < b) /\ n # b
      BY <2>6, <3>1
    <3> QED  BY <2>2, <3>2
  <2>7. DisabledForTheRest
    BY <1>1, <2>6 DEF DisabledForTheRest
  <2> QED  BY <2>5, <2>7
<1>7. CASE ~(options.classifier /\ classified # <<>>)
  <2>1. bars.classifying = <<>> /\ \A k \in DOMAIN classified : classified[k] = <<>>
    BY <1>5, <1>7
  <2>2. BarsTrue
    BY <1>4, <1>5, <1>7, <2>1 DEF BarsTrue
  <2>3. DisabledForTheRest
    BY <1>1, <1>2, <1>3, <2>1 DEF DisabledForTheRest
  <2> QED  BY <2>2, <2>3
<1> QED  BY <1>6, <1>7

(* The bars say what was asked of the classifier, and the clusters beyond  *)
(* a bar that stays short have no classes.                                 *)
THEOREM BarsTellTheTruth ==
    PipelineSpec => []BarsTrue
<1>1. PipelineInv => BarsTrue
  BY BarsLemma
<1> QED  BY <1>1, PipelineInvariant, PTL

(* The first 501 disables the classification of every later cluster.       *)
THEOREM DisablingLasts ==
    PipelineSpec => []DisabledForTheRest
<1>1. PipelineInv => DisabledForTheRest
  BY BarsLemma
<1> QED  BY <1>1, PipelineInvariant, PTL

(* The severities of a reported cluster.                                   *)
Those(members, s) == {i \in DOMAIN members : SeverityOf(members[i]) = s}

Counts(members, breakdown) ==
    /\ members \in Seq(DOMAIN logs) /\ Len(members) \in Nat
    /\ DOMAIN breakdown \subseteq Severities /\ IsFiniteSet(DOMAIN breakdown)
    /\ \A i \in DOMAIN members : SeverityOf(members[i]) \in DOMAIN breakdown
    /\ \A s \in DOMAIN breakdown :
          /\ IsFiniteSet(Those(members, s)) /\ breakdown[s] = Cardinality(Those(members, s))
          /\ breakdown[s] \in Nat /\ breakdown[s] > 0

LEMMA BreakdownLemma ==
    ASSUME PipelineInv, Delivered, NEW k \in DOMAIN clusters, NEW members, NEW breakdown,
           members = clusters[k].members, breakdown = SeverityBreakdown(members)
    PROVE  Counts(members, breakdown)
<1>1. members \in Seq(DOMAIN logs) /\ Len(members) \in Nat /\ DOMAIN members = 1..Len(members)
  BY IncidentsLemma, ShapeLemma
<1>2. DOMAIN breakdown = {SeverityOf(members[i]) : i \in DOMAIN members}
  BY DEF SeverityBreakdown
<1>3. \A m \in DOMAIN logs : SeverityOf(m) \in Severities \cup {NoSeverity}
  <2> SUFFICES ASSUME NEW m \in DOMAIN logs PROVE SeverityOf(m) \in Severities \cup {NoSeverity}
    OBVIOUS
  <2>1. logs[m] \in DOMAIN file.rows /\ file.rows \in Seq(RowType)
    BY LogsLemma DEF PipelineInv, LoaderInv, FileInv
  <2>2. file.rows[logs[m]] \in RowType
    BY <2>1
  <2> QED  BY <2>2 DEF SeverityOf, SeverityAt, RowType
<1>4. NoSeverity \notin DOMAIN breakdown
  BY IncidentsLemma
<1>5. DOMAIN breakdown \subseteq Severities
  BY <1>1, <1>2, <1>3, <1>4
<1>6. IsFiniteSet(DOMAIN breakdown)
  <2>1. IsFiniteSet(Severities)
    <3>1. 0 \in Int /\ 5 \in Int
      OBVIOUS
    <3> QED  BY <3>1, FS_Interval DEF Severities
  <2> QED  BY <1>5, <2>1, FS_Subset
<1>7. ASSUME NEW s \in DOMAIN breakdown,
             NEW those, those = Those(members, s)
      PROVE  /\ IsFiniteSet(those) /\ breakdown[s] = Cardinality(those)
             /\ breakdown[s] \in Nat /\ breakdown[s] > 0
  <2>1. those \in SUBSET (1..Len(members)) /\ those # {}
    BY <1>1, <1>2, <1>7 DEF Those
  <2>2. IsFiniteSet(1..Len(members))
    BY <1>1, FS_Interval
  <2>3. IsFiniteSet(those)
    BY <2>1, <2>2, FS_Subset
  <2>4. breakdown[s] = Cardinality(those)
    BY <1>2, <1>7 DEF SeverityBreakdown, Those
  <2>5. Cardinality(those) \in Nat /\ Cardinality(those) # 0
    BY <2>1, <2>3, FS_EmptySet, FS_CardinalityType
  <2> QED  BY <2>3, <2>4, <2>5
<1> QED  BY <1>1, <1>2, <1>5, <1>6, <1>7 DEF Counts

LEMMA WorstLemma ==
    PipelineInv => WorstLogDecides
<1> SUFFICES ASSUME PipelineInv, Delivered, NEW k \in DOMAIN incidents, incidents[k].how # "llm",
                    NEW m \in Range(clusters[k].members)
             PROVE  /\ SeverityOf(m) >= 4 => incidents[k].priority = "critical"
                    /\ SeverityOf(m) = 3 => incidents[k].priority \in {"high", "critical"}
                    /\ SeverityOf(m) = 2 => incidents[k].priority \notin {"low", "informational"}
                    /\ SeverityOf(m) = 1 => incidents[k].priority # "informational"
  BY DEF WorstLogDecides
<1>1. PICK members, breakdown : /\ members = clusters[k].members
                                /\ breakdown = SeverityBreakdown(members)
  OBVIOUS
<1>2. k \in DOMAIN clusters
  BY IncidentsLemma
<1>3. incidents[k].priority = SeverityToPriority(MaxSeverity(breakdown))
  BY <1>1, <1>2, IncidentsLemma
<1>4. /\ DOMAIN breakdown \subseteq Severities /\ IsFiniteSet(DOMAIN breakdown)
      /\ \A i \in DOMAIN members : SeverityOf(members[i]) \in DOMAIN breakdown
      /\ \A s \in DOMAIN breakdown : breakdown[s] \in Nat /\ breakdown[s] > 0
  BY <1>1, <1>2, BreakdownLemma DEF Counts
<1>5. SeverityOf(m) \in DOMAIN breakdown
  BY <1>1, <1>4 DEF Range
<1>6. {s \in DOMAIN breakdown : breakdown[s] > 0} = DOMAIN breakdown
  BY <1>4
<1>7. MaxSeverity(breakdown) = Max(DOMAIN breakdown)
  BY <1>5, <1>6 DEF MaxSeverity
<1>8. Max(DOMAIN breakdown) \in Severities /\ SeverityOf(m) <= Max(DOMAIN breakdown)
  <2>1. DOMAIN breakdown \subseteq Int
    BY <1>4 DEF Severities
  <2>2. /\ Max(DOMAIN breakdown) \in DOMAIN breakdown
        /\ \A x \in DOMAIN breakdown : x <= Max(DOMAIN breakdown)
    BY <1>4, <1>5, <2>1, GreatestLemma
  <2> QED  BY <1>4, <1>5, <2>2
<1>9. PICK x \in 0..5 : x = MaxSeverity(breakdown) /\ SeverityOf(m) <= x /\ SeverityOf(m) \in 0..5
  BY <1>4, <1>5, <1>7, <1>8 DEF Severities
<1>10. incidents[k].priority = SeverityToPriority(x)
  BY <1>3, <1>9
<1>11. x = 0 \/ x = 1 \/ x = 2 \/ x = 3 \/ x = 4 \/ x = 5
  BY <1>9
<1> QED  BY <1>9, <1>10, <1>11 DEF SeverityToPriority

(* Without an answer of the LLM the priority is that of the worst log.     *)
THEOREM WorstLogWins ==
    PipelineSpec => []WorstLogDecides
<1>1. PipelineInv => WorstLogDecides
  BY WorstLemma
<1> QED  BY <1>1, PipelineInvariant, PTL


(* The severities of an incident add up to its size.                       *)
LEMMA BreakdownSum ==
    ASSUME PipelineInv, Delivered, NEW k \in DOMAIN clusters
    PROVE  SumFunction(incidents[k].breakdown) = incidents[k].size
<1>1. PICK members, breakdown : /\ members = clusters[k].members
                                /\ breakdown = SeverityBreakdown(members)
  OBVIOUS
<1> DEFINE X == DOMAIN breakdown
           N == DOMAIN members
           P == [s \in X |-> Those(members, s)]
<1>2. incidents[k].breakdown = breakdown /\ incidents[k].size = Len(members)
  BY <1>1, IncidentsLemma
<1>3. /\ members \in Seq(DOMAIN logs) /\ Len(members) \in Nat /\ IsFiniteSet(X)
      /\ \A i \in N : SeverityOf(members[i]) \in X
      /\ \A s \in X : /\ IsFiniteSet(Those(members, s))
                      /\ breakdown[s] = Cardinality(Those(members, s))
  <2>1. Counts(members, breakdown)
    BY <1>1, BreakdownLemma
  <2> QED  BY <2>1 DEF Counts
<1>4. \A s \in X : IsFiniteSet(P[s]) /\ breakdown[s] = Cardinality(P[s])
  BY <1>3
<1>5. \A s, t \in X : s # t => P[s] \cap P[t] = {}
  BY DEF Those
<1>6. UNION {P[s] : s \in X} = N
  <2>1. \A i \in N : i \in P[SeverityOf(members[i])]
    BY <1>3 DEF Those
  <2> QED  BY <1>3, <2>1 DEF Those
<1>7. N = 1..Len(members) /\ Cardinality(1..Len(members)) = Len(members)
  <2>1. N = 1..Len(members)
    BY <1>3
  <2>2. 1 \in Int /\ Len(members) \in Int
    BY <1>3
  <2>3. Cardinality(1..Len(members)) = IF 1 > Len(members) THEN 0 ELSE Len(members) - 1 + 1
    BY <2>2, FS_Interval
  <2> QED  BY <1>3, <2>1, <2>3
<1>8. SumFunctionOnSet(breakdown, X) = Cardinality(UNION {P[s] : s \in X})
  <2>1. IsFiniteSet(X)
    BY <1>3
  <2> HIDE DEF X, P
  <2> QED  BY <1>4, <1>5, <2>1, SumOfParts
<1>9. SumFunction(breakdown) = SumFunctionOnSet(breakdown, X)
  BY DEF SumFunction
<1> QED  BY <1>2, <1>6, <1>7, <1>8, <1>9

LEMMA EvidenceLemma ==
    PipelineInv => EvidenceWhole
<1> SUFFICES ASSUME PipelineInv, Delivered, NEW k \in DOMAIN incidents,
                    NEW counted, counted = SumFunction([n \in DOMAIN incidents[k].classes |->
                                                          incidents[k].classes[n].count])
             PROVE  /\ SumFunction(incidents[k].breakdown) = incidents[k].size
                    /\ counted <= incidents[k].size
                    /\ Len(incidents[k].classes) \in 1..(TopClasses - 1) =>
                          counted = incidents[k].size
  BY DEF EvidenceWhole
<1>1. k \in DOMAIN clusters
  BY IncidentsLemma
<1>2. PICK s, n, L : s = classified[k] /\ n = Len(s) /\ L = Len(clusters[k].members)
  OBVIOUS
<1>3. incidents[k].classes = DominantClasses(s) /\ incidents[k].size = L
  BY <1>1, <1>2, IncidentsLemma
<1>4. L \in Nat /\ L > 0
  BY <1>1, <1>2, IncidentsLemma, ShapeLemma
<1>5. /\ n \in Nat /\ s \in [1..n -> Labels]
      /\ s = <<>> <=> n = 0
      /\ s = <<>> \/ n = L
      /\ incidents[k].classes = <<>> <=> s = <<>>
  BY <1>1, <1>2, ResultsLemma
<1> DEFINE D == DominantClasses(s)
<1>6. /\ Len(D) \in Nat
      /\ counted \in Nat /\ counted <= n
      /\ Len(D) < TopClasses => counted = n
      /\ D = <<>> <=> n = 0
  <2>1. counted = SumFunction([j \in DOMAIN D |-> D[j].count])
    BY <1>3
  <2>2. n \in Nat /\ s \in [1..n -> Labels]
    BY <1>5
  <2>3. Len(D) \in Nat /\ (D = <<>> <=> n = 0)
    BY <2>2, ClassesLemma
  <2> DEFINE c == SumFunction([j \in DOMAIN D |-> D[j].count])
  <2>4. /\ c \in Nat /\ c <= n
        /\ Len(D) < TopClasses => c = n
    BY <2>2, ClassesLemma
  <2> HIDE DEF c, D
  <2>5. counted = c
    BY <2>1 DEF c
  <2> QED  BY <2>3, <2>4, <2>5
<1>7. SumFunction(incidents[k].breakdown) = incidents[k].size
  BY <1>1, BreakdownSum
<1> HIDE DEF D
<1>8. counted <= L
  BY <1>4, <1>5, <1>6
<1>9. ASSUME Len(D) \in 1..(TopClasses - 1) PROVE counted = L
  <2>1. TopClasses \in Nat
    BY PipelineAssumption
  <2>2. Len(D) < TopClasses /\ Len(D) # 0
    BY <1>9, <2>1
  <2>3. D # <<>>
    BY <2>2
  <2> QED  BY <1>5, <1>6, <2>2, <2>3
<1> QED  BY <1>3, <1>7, <1>8, <1>9 DEF D

(* The evidence of an incident is that of its own logs, whole or absent.   *)
THEOREM EvidenceIsWhole ==
    PipelineSpec => []EvidenceWhole
<1>1. PipelineInv => EvidenceWhole
  BY EvidenceLemma
<1> QED  BY <1>1, PipelineInvariant, PTL

-----------------------------------------------------------------------------
(* Every log is accounted for.                                             *)

(* The sizes of the clusters of a labelling add up to the logs it keeps.   *)
Sizes(buckets) == [k \in DOMAIN buckets |-> Len(buckets[k].members)]

KeptLogs(labels) == {i \in DOMAIN labels : labels[i] \in KeptIds(labels)}

LEMMA SizesLemma ==
    ASSUME NEW n \in Nat, NEW q \in Int, NEW labels \in [1..n -> -1..q]
    PROVE  LET C == ClustersOf(labels)
               T == KeptLogs(labels)
           IN  /\ SumFunction(Sizes(C)) = Cardinality(T)
               /\ T = {i \in 1..n : \E c \in Range(C) : i \in Range(c.members)}
               /\ Len(C) = Cardinality(KeptIds(labels))
<1> DEFINE C == ClustersOf(labels)
           F == Sizes(C)
           T == KeptLogs(labels)
<1>0. T = {i \in 1..n : labels[i] \in KeptIds(labels)}
  BY DEF KeptLogs
<1>1. /\ C \in Seq(ClusterType(n))
      /\ \A k \in DOMAIN C : /\ C[k].id \in KeptIds(labels)
                             /\ C[k].members = Ascending(Members(labels, C[k].id))
      /\ \A k, l \in DOMAIN C : C[k].id = C[l].id => k = l
      /\ \A x \in KeptIds(labels) : \E k \in DOMAIN C : C[k].id = x
  <2>1. /\ ClustersOf(labels) \in Seq(ClusterType(n))
        /\ \A k \in DOMAIN ClustersOf(labels) :
              /\ ClustersOf(labels)[k].id \in KeptIds(labels)
              /\ ClustersOf(labels)[k].members =
                    Ascending(Members(labels, ClustersOf(labels)[k].id))
        /\ \A k, l \in DOMAIN ClustersOf(labels) :
              ClustersOf(labels)[k].id = ClustersOf(labels)[l].id => k = l
        /\ \A x \in KeptIds(labels) :
              \E k \in DOMAIN ClustersOf(labels) : ClustersOf(labels)[k].id = x
    BY ClustersLemma
  <2> QED  BY <2>1
<1> HIDE DEF C, T
<1> DEFINE K == DOMAIN C
           P == [k \in K |-> Members(labels, C[k].id)]
<1>2. IsFiniteSet(K) /\ K = 1..Len(C) /\ Len(C) \in Nat
  BY <1>1, FS_Interval
<1>3. ASSUME NEW x
      PROVE  /\ IsFiniteSet(Members(labels, x))
             /\ Range(Ascending(Members(labels, x))) = Members(labels, x)
             /\ Len(Ascending(Members(labels, x))) = Cardinality(Members(labels, x))
  BY MembersLemma
<1>4. \A k \in K : /\ IsFiniteSet(P[k]) /\ F[k] = Cardinality(P[k])
                   /\ Range(C[k].members) = P[k]
  BY <1>1, <1>3 DEF Sizes
<1>5. \A k, l \in K : k # l => P[k] \cap P[l] = {}
  BY <1>1 DEF Members
<1>6. UNION {P[k] : k \in K} = T
  <2>1. \A k \in K : P[k] \subseteq T
    BY <1>0, <1>1 DEF Members
  <2>2. \A i \in T : \E k \in K : i \in P[k]
    BY <1>0, <1>1 DEF Members
  <2> HIDE DEF P
  <2> QED  BY <2>1, <2>2
<1>7. T = {i \in 1..n : \E c \in Range(C) : i \in Range(c.members)}
  <2>1. \A i \in T : \E k \in K : i \in P[k]
    BY <1>0, <1>1 DEF Members
  <2>2. \A k \in K : P[k] \subseteq T
    BY <1>0, <1>1 DEF Members
  <2>3. \A c : c \in Range(C) <=> \E k \in K : c = C[k]
    BY DEF Range
  <2>4. T \subseteq 1..n
    BY <1>0
  <2> HIDE DEF P, K
  <2>5. \A i : i \in T <=> i \in 1..n /\ \E c \in Range(C) : i \in Range(c.members)
    BY <1>4, <2>1, <2>2, <2>3, <2>4
  <2> QED  BY <2>5
<1>8. SumFunctionOnSet(F, K) = Cardinality(UNION {P[k] : k \in K})
  <2>1. IsFiniteSet(K)
    BY <1>2
  <2>2. \A k \in K : IsFiniteSet(P[k]) /\ F[k] = Cardinality(P[k])
    BY <1>4
  <2> HIDE DEF K, P, F
  <2> QED  BY <1>5, <2>1, <2>2, SumOfParts
<1>9. SumFunction(F) = SumFunctionOnSet(F, K)
  BY DEF SumFunction, Sizes
<1>10. Len(C) = Cardinality(KeptIds(labels))
  <2> DEFINE f == [k \in K |-> C[k].id]
             S == KeptIds(labels)
  <2>1. f \in Bijection(K, S)
    <3>1. f \in [K -> S] /\ \A k \in K : f[k] = C[k].id
      BY <1>1
    <3>2. \A k, l \in K : f[k] = f[l] => k = l
      BY <1>1
    <3>3. \A x \in S : \E k \in K : f[k] = x
      BY <1>1
    <3> HIDE DEF f, K, S
    <3> QED  BY <3>1, <3>2, <3>3 DEF Bijection, Injection, Surjection, IsInjective
  <2>2. Cardinality(K) = Len(C)
    <3>1. Cardinality(1..Len(C)) = IF 1 > Len(C) THEN 0 ELSE Len(C) - 1 + 1
      <4>1. 1 \in Int /\ Len(C) \in Int
        BY <1>2
      <4> QED  BY <4>1, FS_Interval
    <3> QED  BY <1>2, <3>1
  <2> HIDE DEF f, K, S
  <2>3. ExistsBijection(K, S)
    BY <2>1 DEF ExistsBijection
  <2>4. Cardinality(S) = Cardinality(K)
    BY <1>2, <2>3, FS_Bijection
  <2> QED  BY <2>2, <2>4 DEF S
<1> QED  BY <1>6, <1>7, <1>8, <1>9, <1>10 DEF C, T


Noise(labels) == {i \in DOMAIN labels : labels[i] = -1}

(* The logs and the clusters that are reported, next to those of HDBSCAN.  *)
Balanced(labels, n, z) ==
    /\ Cardinality(KeptLogs(labels)) = n - (IF options.noise THEN 0 ELSE z)
    /\ Cardinality(KeptIds(labels)) =
          Cardinality(Range(labels) \ {-1}) + (IF options.noise /\ z > 0 THEN 1 ELSE 0)

LEMMA NoiseLemma ==
    ASSUME NEW n \in Nat, NEW q \in Int, NEW labels \in [1..n -> -1..q]
    PROVE  Balanced(labels, n, Cardinality(Noise(labels)))
<1> DEFINE Z == Noise(labels)
           z == Cardinality(Z)
<1>0. Z = {i \in DOMAIN labels : labels[i] = -1}
  BY DEF Noise
<1> HIDE DEF Z
<1> DEFINE N == 1..n
           R == Range(labels)
<1>1. DOMAIN labels = N /\ IsFiniteSet(N) /\ Cardinality(N) = n
  <2>1. 1 \in Int /\ n \in Int
    OBVIOUS
  <2>2. IsFiniteSet(1..n) /\ Cardinality(1..n) = IF 1 > n THEN 0 ELSE n - 1 + 1
    BY <2>1, FS_Interval
  <2> QED  BY <2>2
<1>2. R \subseteq -1..q /\ IsFiniteSet(R)
  <2>1. R \subseteq -1..q
    BY DEF Range
  <2>2. IsFiniteSet(-1..q)
    BY FS_Interval
  <2> DEFINE I == -1..q
  <2>3. R \in SUBSET I /\ IsFiniteSet(I)
    BY <2>1, <2>2
  <2>4. IsFiniteSet(R)
    <3> HIDE DEF R, I
    <3> QED  BY <2>3, FS_Subset
  <2> QED  BY <2>1, <2>4
<1>3. Z \in SUBSET N /\ IsFiniteSet(Z) /\ z \in Nat
  <2>1. Z \in SUBSET N
    BY <1>0, <1>1
  <2>2. IsFiniteSet(Z)
    <3> HIDE DEF N
    <3> QED  BY <1>1, <2>1, FS_Subset
  <2> QED  BY <2>1, <2>2, FS_CardinalityType
<1>4. \A x \in R : x >= 0 <=> x # -1
  BY <1>2
<1>5. \A i \in N : labels[i] \in R
  BY <1>1 DEF Range
<1>6. KeptIds(labels) = IF options.noise THEN R ELSE R \ {-1}
  BY <1>4 DEF KeptIds
<1>7. KeptLogs(labels) = IF options.noise THEN N ELSE N \ Z
  <2>1. \A i : i \in KeptLogs(labels) <=> i \in N /\ labels[i] \in KeptIds(labels)
    BY <1>1 DEF KeptLogs
  <2>2. \A i : i \in Z <=> i \in N /\ labels[i] = -1
    BY <1>0, <1>1
  <2> HIDE DEF N, R
  <2> QED  BY <1>5, <1>6, <2>1, <2>2
<1>8. Cardinality(N \ Z) = n - z
  <2>1. N \cap Z = Z
    BY <1>3
  <2> HIDE DEF N
  <2>2. Cardinality(N \ Z) = Cardinality(N) - Cardinality(N \cap Z)
    BY <1>1, FS_Difference
  <2> QED  BY <1>1, <2>1, <2>2
<1>9. Cardinality(R \ {-1}) = IF -1 \in R THEN Cardinality(R) - 1 ELSE Cardinality(R)
  <2> HIDE DEF R
  <2> QED  BY <1>2, FS_RemoveElement
<1>10. z > 0 <=> -1 \in R
  <2>1. z = 0 <=> Z = {}
    BY <1>3, FS_EmptySet
  <2>2. Z # {} <=> -1 \in R
    BY <1>0, <1>1 DEF Range
  <2> HIDE DEF R, z
  <2>3. z > 0 <=> z # 0
    BY <1>3
  <2> QED  BY <2>1, <2>2, <2>3
<1>11. Cardinality(R) \in Nat
  <2> HIDE DEF R
  <2> QED  BY <1>2, FS_CardinalityType
<1>12. Cardinality(KeptLogs(labels)) = n - (IF options.noise THEN 0 ELSE z)
  <2> HIDE DEF N
  <2>1. CASE options.noise
    <3>1. KeptLogs(labels) = N /\ n = n - 0
      BY <1>7, <2>1
    <3> QED  BY <1>1, <2>1, <3>1
  <2>2. CASE ~options.noise
    <3>1. KeptLogs(labels) = N \ Z
      BY <1>7, <2>2
    <3> QED  BY <1>8, <2>2, <3>1
  <2> QED  BY <2>1, <2>2
<1>13. Cardinality(KeptIds(labels)) =
          Cardinality(R \ {-1}) + (IF options.noise /\ z > 0 THEN 1 ELSE 0)
  <2> HIDE DEF R
  <2>1. CASE options.noise /\ -1 \in R
    BY <1>6, <1>9, <1>10, <1>11, <2>1
  <2>2. CASE options.noise /\ -1 \notin R
    BY <1>6, <1>9, <1>10, <1>11, <2>2
  <2>3. CASE ~options.noise
    <3>1. Cardinality(R \ {-1}) \in Int
      BY <1>9, <1>11
    <3> QED  BY <1>6, <2>3, <3>1
  <2> QED  BY <2>1, <2>2, <2>3
<1> QED  BY <1>12, <1>13 DEF Balanced, Z

LEMMA AccountLemma ==
    PipelineInv => EveryLogAccounted
<1> SUFFICES ASSUME PipelineInv, Delivered
             PROVE  /\ SumFunction([k \in DOMAIN incidents |-> incidents[k].size]) =
                          Cardinality(Reported)
                    /\ Cardinality(Reported) = Len(logs) - (IF options.noise THEN 0 ELSE nNoise)
                    /\ Len(incidents) = nClusters + (IF options.noise /\ nNoise > 0 THEN 1 ELSE 0)
  BY DEF EveryLogAccounted
<1>1. PICK labels \in Labelings(Len(logs)) : Grouped(labels)
  BY IncidentsLemma DEF PipelineInv, GroupedInv
<1>2. PICK n \in Nat : n = Len(logs) /\ DOMAIN logs = 1..n
  BY LogsLemma DEF PipelineInv
<1>3. PICK q \in Int : labels \in [1..n -> -1..q]
  <2>1. options \in Option /\ OptionsValid
    BY IncidentsLemma, OptionLemma DEF PipelineInv, OptionsInv
  <2> QED  BY <1>1, <1>2, <2>1, LabelsLemma
<1>4. /\ clusters = ClustersOf(labels)
      /\ nClusters = Cardinality(Range(labels) \ {-1})
      /\ nNoise = Cardinality({i \in DOMAIN labels : labels[i] = -1})
  BY <1>1 DEF Grouped
<1>5. /\ SumFunction(Sizes(clusters)) = Cardinality(KeptLogs(labels))
      /\ KeptLogs(labels) = {i \in 1..n : \E c \in Range(clusters) : i \in Range(c.members)}
      /\ Len(clusters) = Cardinality(KeptIds(labels))
  <2>1. clusters = ClustersOf(labels) /\ n \in Nat /\ q \in Int /\ labels \in [1..n -> -1..q]
    BY <1>3, <1>4
  <2> QED  BY <2>1, SizesLemma
<1>6. Reported = KeptLogs(labels)
  BY <1>2, <1>5 DEF Reported
<1>7. [k \in DOMAIN incidents |-> incidents[k].size] = Sizes(clusters)
  BY IncidentsLemma DEF Sizes
<1>8. Len(incidents) = Len(clusters)
  BY IncidentsLemma
<1>9. /\ Cardinality(KeptLogs(labels)) = n - (IF options.noise THEN 0 ELSE nNoise)
      /\ Cardinality(KeptIds(labels)) = nClusters + (IF options.noise /\ nNoise > 0 THEN 1 ELSE 0)
  <2>1. nNoise = Cardinality(Noise(labels))
    BY <1>4 DEF Noise
  <2>2. Balanced(labels, n, Cardinality(Noise(labels)))
    BY <1>3, NoiseLemma
  <2> QED  BY <1>4, <2>1, <2>2 DEF Balanced
<1> QED  BY <1>2, <1>5, <1>6, <1>7, <1>8, <1>9

(* Every entry of the export is in exactly one incident, or is noise that  *)
(* the run was told to leave out; the counts of the report agree.          *)
THEOREM LogsAreAccounted ==
    PipelineSpec => []EveryLogAccounted
<1>1. PipelineInv => EveryLogAccounted
  BY AccountLemma
<1> QED  BY <1>1, PipelineInvariant, PTL

-----------------------------------------------------------------------------
(* The pipeline uses the loader as it is: every step is one of load_logs() *)
(* or leaves its result alone.                                             *)
LEMMA LoaderFrame ==
    PipelineStep /\ ~Load => UNCHANGED <<loaderVars, options>>
<1> USE DEF Raise, GoTo
<1>1. Loaded \/ BuildPipeline \/ Embed \/ Cluster => UNCHANGED <<loaderVars, options>>
  BY DEF Loaded, BuildPipeline, Embed, Cluster
<1>2. ClassifyBatch \/ ClassifyUnsupported \/ ClassifyFails \/ NotClassified
        => UNCHANGED <<loaderVars, options>>
  BY DEF ClassifyBatch, ClassifyUnsupported, ClassifyFails, NotClassified
<1>3. BuildClusters \/ SkipRecommendations \/ Recommended => UNCHANGED <<loaderVars, options>>
  BY DEF BuildClusters, SkipRecommendations, Recommended, Deliver
<1>4. WriteJson \/ WriteMarkdown \/ WriteFails => UNCHANGED <<loaderVars, options>>
  BY DEF WriteJson, WriteMarkdown, WriteFails, Write
<1> QED  BY <1>1, <1>2, <1>3, <1>4 DEF PipelineStep

(* An analysis loads its export exactly as load_logs() alone does, so what *)
(* Loader_proofs says of the result holds of the logs that process() gets. *)
THEOREM PipelineLoads ==
    PipelineSpec => LoaderSpec
<1>1. PipelineInit => LoaderInit
  BY DEF PipelineInit
<1>2. [PipelineNext]_allVars => [LoaderStep \/ LoaderOver]_loaderVars
  <2>1. CASE Load
    BY <2>1 DEF Load
  <2>2. CASE PipelineStep /\ ~Load
    BY <2>2, LoaderFrame
  <2>3. CASE UNCHANGED allVars
    BY <2>3 DEF allVars
  <2> QED  BY <2>1, <2>2, <2>3 DEF PipelineNext, PipelineOver
<1> QED  BY <1>1, <1>2, PTL DEF PipelineSpec, LoaderSpec

-----------------------------------------------------------------------------
(* Clean input.  CleanInv adds to what is to be shown that the loader has  *)
(* not failed, which it cannot if the export opens, every line is an       *)
(* object, no port overflows and invalid rows are skipped.                 *)
Outside == {"construct", "embed", "cluster", "classify", "recommend", "write"}

CleanRunSafe ==
    CleanInput => /\ failure \in Outside \cup {"none"}
                  /\ stage = "failed" => failure \in Outside
                  /\ stage = "finished" => disk[options.output] # "none"

CleanInv ==
    /\ CleanRunSafe
    /\ skipInvalid
    /\ CleanInput => /\ phase # "failed"
                     /\ stage = "markdown" => disk[options.output] # "none"

(* CleanInput speaks of what no step changes.                              *)
LEMMA SameInput ==
    UNCHANGED <<file, options>> => CleanInput' = CleanInput
<1>1. UNCHANGED file => Format' = Format
  BY SameFormat
<1> QED
  BY <1>1 DEF CleanInput, Entries, IsEntry, Cells, SeverityAt, Overflows

LEMMA CleanRaise ==
    ASSUME CleanInv, NEW what, Raise(what), CleanInput => what \in Outside
    PROVE  CleanInv'
BY SameInput DEF CleanInv, CleanRunSafe, Raise, loaderVars

LEMMA CleanGoes ==
    ASSUME CleanInv, UNCHANGED <<loaderVars, options, failure, disk>>,
           stage \notin {"failed", "finished"},
           stage' \notin {"failed", "markdown", "finished"}
    PROVE  CleanInv'
BY SameInput DEF CleanInv, CleanRunSafe, loaderVars

(* Where the loader could fail.                                            *)
LEMMA CleanOpens ==
    ASSUME FileInv, CleanInput
    PROVE  Format # "unknown" /\ Opens /\ Garbage = {}
<1>1. Format = file.layout /\ file.layout \in Formats
  <2>1. PICK i \in DOMAIN file.rows : IsEntry(i)
    BY DEF CleanInput, Entries
  <2> QED  BY <2>1, LoaderAssumption DEF IsEntry, FileInv
<1>2. \A i \in DOMAIN file.rows : file.rows[i].kind \in {"blank", "object"}
  BY DEF CleanInput
<1>3. \A i \in Rows : i \in DOMAIN file.rows /\ file.rows[i].kind # "blank"
  BY DEF Rows, Content
<1> QED  BY <1>1, <1>2, <1>3 DEF Formats, Opens, Garbage

LEMMA CleanLoad ==
    ASSUME PipelineInv, CleanInv, Load
    PROVE  CleanInv'
<1>1. UNCHANGED <<file, options, failure, disk, stage, skipInvalid>>
  BY DEF Load, LoaderStep, pipelineVars, DetectFormat, OpenFile, SkipBlank, RejectGarbage,
         AcceptRow, SkipRow, RaiseInvalid, ReturnResult
<1>2. ASSUME CleanInput PROVE phase' # "failed"
  <2>1. Format # "unknown" /\ Opens /\ Garbage = {}
    BY <1>2, CleanOpens DEF PipelineInv, LoaderInv
  <2>2. CASE DetectFormat \/ OpenFile
    BY <2>1, <2>2 DEF DetectFormat, OpenFile
  <2>3. ~RejectGarbage
    BY <2>1 DEF RejectGarbage, Reading
  <2>4. ~RaiseInvalid
    <3>1. SUFFICES ASSUME RaiseInvalid PROVE FALSE
      OBVIOUS
    <3>2. line \in Rows /\ Overflows(line)
      BY <3>1 DEF CleanInv, RaiseInvalid, Reading
    <3> QED  BY <1>2, <3>2 DEF CleanInput, Rows, Content
  <2>5. CASE SkipBlank \/ AcceptRow \/ SkipRow \/ ReturnResult
    BY <1>2, <2>5 DEF CleanInv, SkipBlank, AcceptRow, SkipRow, ReturnResult
  <2> QED  BY <2>2, <2>3, <2>4, <2>5 DEF Load, LoaderStep
<1> QED  BY <1>1, <1>2, SameInput DEF CleanInv, CleanRunSafe

(* The logs are entries of the export, and there are some.                 *)
LEMMA CleanLogs ==
    ASSUME LoaderInv, CleanInput
    PROVE  /\ \A m \in DOMAIN logs : logs[m] \in Entries
           /\ phase = "loaded" => logs # <<>>
<1>1. ToSet(logs) = Read(Entries)
  BY DEF LoaderInv, ReadInv, Lists
<1>2. \A m \in DOMAIN logs : logs[m] \in Entries
  BY <1>1 DEF ToSet, Read
<1>3. ASSUME phase = "loaded" PROVE logs # <<>>
  <2>1. ToSet(logs) = Entries /\ Entries # {}
    BY <1>1, <1>3, AllRead DEF CleanInput
  <2> QED  BY <2>1 DEF ToSet
<1> QED  BY <1>2, <1>3

(* A request of at most batch_size texts can be sent.                      *)
LEMMA FitsLemma ==
    ASSUME CleanInput, NEW n \in Int
    PROVE  Fits(Min({n, options.batch})) /\ Fits(Min({options.batch, n}))
<1>1. options.batch \in Int /\ MaxTexts \in Int /\ options.batch <= MaxTexts
  BY PipelineAssumption DEF CleanInput
<1>2. Min({n, options.batch}) <= options.batch
  BY <1>1, PairMin
<1>3. {n, options.batch} = {options.batch, n}
  OBVIOUS
<1>4. Min({n, options.batch}) \in Int
  BY <1>1, PairMin
<1>5. Fits(Min({n, options.batch}))
  BY <1>1, <1>2, <1>4 DEF Fits
<1> QED  BY <1>3, <1>5

LEMMA CleanEarly ==
    ASSUME PipelineInv, CleanInv, Loaded \/ BuildPipeline \/ Embed \/ Cluster
    PROVE  CleanInv'
<1>1. CASE Loaded
  <2>1. ~CleanInput \/ (phase # "failed" /\ (phase = "loaded" => logs # <<>>))
    BY CleanLogs DEF CleanInv, PipelineInv
  <2>2. CASE GoTo("building")
    BY <1>1, <2>2, CleanGoes DEF Loaded, GoTo, loaderVars
  <2>3. CASE Raise("load") /\ (phase = "failed" \/ (phase = "loaded" /\ logs = <<>>))
    BY <2>1, <2>3, CleanRaise
  <2> QED  BY <1>1, <2>2, <2>3 DEF Loaded
<1>2. CASE BuildPipeline
  <2>1. CleanInput => OptionsValid
    BY PipelineAssumption DEF CleanInput, OptionsValid
  <2>2. CASE GoTo("embedding")
    BY <1>2, <2>2, CleanGoes DEF BuildPipeline, GoTo, loaderVars
  <2>3. CASE Raise("construct")
    BY <2>3, CleanRaise DEF Outside
  <2> QED  BY <1>2, <2>1, <2>2, <2>3, CleanRaise DEF BuildPipeline
<1>3. CASE Embed
  <2>1. CASE GoTo("clustering")
    BY <1>3, <2>1, CleanGoes DEF Embed, GoTo, loaderVars
  <2>2. CASE Raise("embed")
    BY <2>2, CleanRaise DEF Outside
  <2>3. CASE /\ Raise("request")
             /\ \E uncached \in 0..Len(logs) :
                   ~(Fits(Min({options.batch, uncached})) /\ ~\E m \in DOMAIN logs : TooLong(m))
    <3>1. ~CleanInput
      BY <2>3, CleanLogs, FitsLemma DEF PipelineInv, TooLong, CleanInput
    <3> QED  BY <2>3, <3>1, CleanRaise
  <2> QED  BY <1>3, <2>1, <2>2, <2>3 DEF Embed
<1>4. CASE Cluster
  <2>1. CASE Raise("cluster")
    BY <2>1, CleanRaise DEF Outside
  <2> QED  BY <1>4, <2>1, CleanGoes DEF Cluster
<1> QED  BY <1>1, <1>2, <1>3, <1>4

LEMMA CleanClassify ==
    ASSUME PipelineInv, CleanInv,
           ClassifyBatch \/ ClassifyUnsupported \/ ClassifyFails \/ NotClassified
    PROVE  CleanInv'
<1>1. CASE ClassifyFails
  <2>1. CleanInput => Fits(NextBatch)
    <3>1. Posting
      BY <1>1 DEF ClassifyFails
    <3>2. Len(Current.members) - Len(preds) \in Int
      <4>1. clusters \in Seq([id : Int, members : Seq(DOMAIN logs)]) /\ preds \in Seq(Labels)
            /\ classified \in Seq(Seq(Labels))
        BY DEF PipelineInv, PipelineTypeOK
      <4>2. Len(classified) + 1 \in DOMAIN clusters
        BY <3>1, <4>1 DEF Posting, Classifying
      <4> QED  BY <4>1, <4>2 DEF Current
    <3> QED  BY <3>2, FitsLemma DEF NextBatch
  <2> QED  BY <1>1, <2>1, CleanRaise DEF ClassifyFails, Outside
<1>2. CASE ClassifyBatch \/ ClassifyUnsupported \/ NotClassified
  <2>1. stage = "classifying" /\ UNCHANGED <<loaderVars, options, failure, disk, stage>>
    BY <1>2 DEF ClassifyBatch, ClassifyUnsupported, NotClassified, Posting, Classifying
  <2> QED  BY <2>1, CleanGoes
<1> QED  BY <1>1, <1>2

(* No cluster of clean logs is refused when its statistics are built.      *)
LEMMA CleanBuild ==
    ASSUME PipelineInv, CleanInv, BuildClusters
    PROVE  CleanInv'
<1>1. CASE GoTo("recommending")
  BY <1>1, CleanGoes DEF BuildClusters, GoTo
<1>2. CASE /\ Raise("build")
           /\ \E c \in Range(clusters) :
                 TimeRangeFails(c.members) \/ NoSeverity \in DOMAIN SeverityBreakdown(c.members)
  <2>1. SUFFICES ASSUME CleanInput PROVE FALSE
    BY <1>2, CleanRaise
  <2>2. PICK c \in Range(clusters) :
            TimeRangeFails(c.members) \/ NoSeverity \in DOMAIN SeverityBreakdown(c.members)
    BY <1>2
  <2>3. c.members \in Seq(DOMAIN logs)
    <3>1. clusters \in Seq([id : Int, members : Seq(DOMAIN logs)])
      BY DEF PipelineInv, PipelineTypeOK
    <3>2. PICK k \in DOMAIN clusters : c = clusters[k]
      BY DEF Range
    <3>3. clusters[k] \in [id : Int, members : Seq(DOMAIN logs)]
      <4> DEFINE T == [id : Int, members : Seq(DOMAIN logs)]
      <4>1. clusters \in Seq(T)
        BY <3>1
      <4> HIDE DEF T
      <4>2. clusters[k] \in T
        BY <4>1
      <4> QED  BY <4>2 DEF T
    <3> QED  BY <3>2, <3>3
  <2>4. \A i \in DOMAIN c.members : logs[c.members[i]] \in Entries
    BY <2>1, <2>3, CleanLogs DEF PipelineInv
  <2>5. NoSeverity \notin DOMAIN SeverityBreakdown(c.members)
    BY <2>1, <2>4 DEF SeverityBreakdown, SeverityOf, CleanInput
  <2>6. ~TimeRangeFails(c.members)
    <3> DEFINE Zones == {ZoneOf(c.members[i]) : i \in DOMAIN c.members}
    <3>1. \A x, y \in Zones : x = y
      BY <2>1, <2>4 DEF ZoneOf, CleanInput
    <3>2. Zones = {} \/ \E x : Zones = {x}
      BY <3>1
    <3>3. Cardinality(Zones) \in {0, 1}
      BY <3>2, FS_EmptySet, FS_Singleton
    <3> QED  BY <3>3 DEF TimeRangeFails
  <2> QED  BY <2>2, <2>5, <2>6
<1> QED  BY <1>1, <1>2 DEF BuildClusters

LEMMA CleanLate ==
    ASSUME PipelineInv, CleanInv,
           \/ SkipRecommendations \/ Recommended
           \/ WriteJson \/ WriteMarkdown \/ WriteFails
    PROVE  CleanInv'
<1>1. CASE Raise("recommend") \/ Raise("write")
  BY <1>1, CleanRaise DEF Outside
<1>2. CASE stage = "recommending" /\ \E outcomes : Deliver(outcomes)
  BY <1>2, CleanGoes DEF Deliver
<1>3. CASE WriteJson \/ WriteMarkdown
  <2>1. UNCHANGED <<loaderVars, options, failure>> /\ stage \in {"json", "markdown"}
        /\ stage' \in {"markdown", "finished"}
    BY <1>3 DEF WriteJson, WriteMarkdown, Write
  <2>2. disk \in [{"report.json", "report.md"} -> {"none", "json", "markdown"}]
        /\ options.output \in {"report.json", "report.md"}
    <3>1. options \in Option
      BY PipelineAssumption DEF PipelineInv, PipelineTypeOK
    <3> QED  BY <3>1 DEF PipelineInv, PipelineTypeOK, Option
  <2>3. CASE WriteJson
    <3>1. disk'[options.output] = "json"
      BY <2>2, <2>3 DEF WriteJson, Write
    <3> QED  BY <2>1, <3>1, SameInput DEF CleanInv, CleanRunSafe, loaderVars
  <2>4. CASE WriteMarkdown
    <3>1. stage = "markdown" /\ disk' = [disk EXCEPT !["report.md"] = "markdown"]
      BY <2>4 DEF WriteMarkdown, Write
    <3>2. CleanInput => disk[options.output] # "none"
      BY <3>1 DEF CleanInv
    <3>3. CleanInput => disk'[options.output] # "none"
      BY <2>2, <3>1, <3>2
    <3> QED  BY <2>1, <3>3, SameInput DEF CleanInv, CleanRunSafe, loaderVars
  <2> QED  BY <1>3, <2>3, <2>4
<1> QED  BY <1>1, <1>2, <1>3 DEF SkipRecommendations, Recommended, WriteFails

(* No part of the agent rejects what another part has accepted: an export  *)
(* whose entries all have a severity, timestamps of one kind and texts     *)
(* that fit, under options in range, either ends with a report on the disk *)
(* or with an exception of something outside the agent.                    *)
THEOREM CleanRunIsSafe ==
    PipelineSpec => []CleanRunSafe
<1>1. PipelineInit => CleanInv
  BY DEF PipelineInit, LoaderInit, CleanInv, CleanRunSafe
<1>2. PipelineInv /\ CleanInv /\ [PipelineNext]_allVars => CleanInv'
  <2>1. CASE UNCHANGED allVars
    <3>1. UNCHANGED <<file, skipInvalid, phase, options, stage, failure, disk>>
      BY <2>1 DEF allVars, loaderVars, pipelineVars
    <3> QED  BY <3>1, SameInput DEF CleanInv, CleanRunSafe
  <2> QED  BY <2>1, CleanLoad, CleanEarly, CleanClassify, CleanBuild, CleanLate
           DEF PipelineNext, PipelineStep, PipelineOver
<1>3. CleanInv => CleanRunSafe
  BY DEF CleanInv
<1> QED  BY <1>1, <1>2, <1>3, PipelineInvariant, PTL DEF PipelineSpec

(* So the only thing left to fairness is that a run ends: a run of clean   *)
(* input that ends at all has reported, or was stopped from outside.       *)
THEOREM EndedRunsReport ==
    PipelineSpec /\ <>(stage \in {"finished", "failed"}) => CleanRunReports
<1> DEFINE Ended == stage \in {"finished", "failed"}
<1> DEFINE Reports == \/ stage = "finished" /\ disk[options.output] # "none"
                      \/ failure \in {"construct", "embed", "cluster", "classify", "recommend",
                                      "write"}
<1>1. CleanInput /\ CleanRunSafe /\ Ended => Reports
  BY DEF CleanRunSafe, Outside
<1>2. CleanInput /\ [PipelineNext]_allVars => CleanInput'
  <2>1. [PipelineNext]_allVars => UNCHANGED <<file, options>>
    <3>1. Load => UNCHANGED <<file, options>>
      BY DEF Load, LoaderStep, pipelineVars, DetectFormat, OpenFile, SkipBlank, RejectGarbage, AcceptRow,
             SkipRow, RaiseInvalid, ReturnResult
    <3>2. PipelineStep /\ ~Load => UNCHANGED <<file, options>>
      BY LoaderFrame DEF loaderVars
    <3> QED  BY <3>1, <3>2 DEF PipelineNext, PipelineOver, allVars, loaderVars, pipelineVars
  <2> QED  BY <2>1, SameInput
<1> HIDE DEF Ended, Reports
<1>3. PipelineSpec /\ <>Ended => (CleanInput => <>Reports)
  BY <1>1, <1>2, CleanRunIsSafe, PTL DEF PipelineSpec
<1> QED  BY <1>3 DEF Ended, Reports, CleanRunReports
=============================================================================
