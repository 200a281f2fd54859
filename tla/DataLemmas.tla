----------------------------- MODULE DataLemmas -----------------------------
(***************************************************************************)
(* Induction and what it gives about the data the components compute with: *)
(* folds over sequences, sorted lists and sums over finite sets.  The      *)
(* lemmas take sets and functions where one would expect predicates and    *)
(* operators: the induction principle is that a set of naturals which is   *)
(* not empty has a least element.                                          *)
(***************************************************************************)
EXTENDS Ordering, SequencesExt, FiniteSetTheorems, TLAPS

------------------------------------------------------------------------------
(* Induction *)

(* A set that holds 0 and, with a number, the next one, holds all naturals.  *)
LEMMA NatSetInduction ==
  ASSUME NEW T, 0 \in T, \A n \in Nat : n \in T => n + 1 \in T
  PROVE  Nat \subseteq T
<1> DEFINE R == {ss \in Nat \X Nat : ss[1] < ss[2]}
           U == Nat \ T
<1> SUFFICES ASSUME U # {} PROVE FALSE
  OBVIOUS
<1>1. IsWellFoundedOn(R, Nat)
  BY NatLessThanWellFounded, Zenon DEF OpToRel
<1>2. \E x \in U : \A y \in U : ~(<<y, x>> \in R)
  <2> HIDE DEF R
  <2> QED
    BY <1>1, WFMin
<1>3. PICK x \in U : \A y \in U : ~(<<y, x>> \in R)
  BY <1>2
<1>4. x \in Nat \ {0} /\ x - 1 \in Nat
  BY <1>3
<1>5. <<x - 1, x>> \in R
  BY <1>4
<1> QED
  BY <1>3, <1>4, <1>5

(* What the first state of a run satisfies and every step preserves, the    *)
(* whole run satisfies; Inv may change with the position.                   *)
LEMMA RunInvariant ==
  ASSUME NEW n \in Nat, NEW g, NEW Inv,
         g[0] \in Inv[0],
         \A k \in 1..n : g[k - 1] \in Inv[k - 1] => g[k] \in Inv[k]
  PROVE  \A k \in 0..n : g[k] \in Inv[k]
<1> DEFINE T == {k \in Nat : k <= n => g[k] \in Inv[k]}
<1>1. 0 \in T
  OBVIOUS
<1>2. ASSUME NEW k \in Nat, k \in T PROVE k + 1 \in T
  <2> SUFFICES ASSUME k + 1 <= n PROVE g[k + 1] \in Inv[k + 1]
    OBVIOUS
  <2>1. g[k] \in Inv[k]
    BY <1>2
  <2>2. k + 1 \in 1..n /\ (k + 1) - 1 = k
    OBVIOUS
  <2> QED
    BY <2>1, <2>2
<1>3. Nat \subseteq T
  <2> HIDE DEF T
  <2> QED
    BY <1>1, <1>2, NatSetInduction
<1> QED
  BY <1>3

(* A set of naturals that is not empty has a least element.                 *)
LEMMA MinIsLeast ==
  ASSUME NEW S \in SUBSET Nat, S # {}
  PROVE  Min(S) \in S /\ \A x \in S : Min(S) <= x
<1> DEFINE T == {k \in Nat : \A x \in S : k <= x}
<1>1. \E x \in S : \A y \in S : x <= y
  <2> SUFFICES ASSUME \A x \in S : \E y \in S : ~(x <= y) PROVE FALSE
    OBVIOUS
  <2>1. 0 \in T
    OBVIOUS
  <2>2. ASSUME NEW k \in Nat, k \in T PROVE k + 1 \in T
    <3> SUFFICES ASSUME NEW x \in S PROVE k + 1 <= x
      OBVIOUS
    <3>1. k <= x
      BY <2>2
    <3>2. k # x
      <4>1. PICK y \in S : ~(x <= y)
        OBVIOUS
      <4> QED
        BY <4>1, <2>2
    <3> QED
      BY <3>1, <3>2
  <2>3. Nat \subseteq T
    <3> HIDE DEF T
    <3> QED
      BY <2>1, <2>2, NatSetInduction
  <2>4. PICK x \in S : TRUE
    OBVIOUS
  <2>5. x + 1 \in T /\ x \in Nat
    BY <2>3
  <2> QED
    BY <2>4, <2>5
<1> QED
  BY <1>1 DEF Min

------------------------------------------------------------------------------
(* Folds.  FoldLeft is a recursion on the sets of positions, which takes     *)
(* out the last one; its runs are the values at the sets 1..k.               *)

LEMMA MaxOfRange ==
  ASSUME NEW m \in Nat \ {0}, NEW s \in SUBSET (1..m), m \in s
  PROVE  Max(s) = m
<1>1. \A x \in s : (\A y \in s : x >= y) <=> x = m
  OBVIOUS
<1> QED
  BY <1>1, Zenon DEF Max

LEMMA MaxIsMember ==
  ASSUME NEW n \in Nat, NEW s \in SUBSET (1..n), s # {}
  PROVE  Max(s) \in s /\ Max(s) \in 1..n /\ \A x \in s : x <= Max(s)
<1> DEFINE Below == {n - x : x \in s}
<1>1. Below \in SUBSET Nat /\ Below # {}
  <2>1. \A x \in s : n - x \in Nat
    OBVIOUS
  <2> QED
    BY <2>1
<1>2. PICK d \in Below : \A y \in Below : d <= y
  <2> HIDE DEF Below
  <2> QED
    BY <1>1, MinIsLeast
<1>3. PICK x \in s : d = n - x
  OBVIOUS
<1>4. \A y \in s : n - y \in Below /\ y \in Int /\ x \in Int
  OBVIOUS
<1>5. \A y \in s : x >= y
  <2> SUFFICES ASSUME NEW y \in s PROVE x >= y
    OBVIOUS
  <2>1. d <= n - y
    <3> HIDE DEF Below
    <3> QED
      BY <1>2, <1>4
  <2> QED
    BY ONLY <1>3, <1>4, <2>1, n \in Nat
<1> QED
  BY <1>5 DEF Max

(* The functions that make n steps over the states in S.                    *)
Steps(S, n) == [S \X (1..n) -> S]

(* h solves the recursion of a fold of length n, which starts from base.    *)
FoldTable(h, S, base, n, step) ==
  /\ h \in [SUBSET (1..n) -> S]
  /\ \A s \in SUBSET (1..n) :
       h[s] = IF s = {} THEN base ELSE step[<<h[s \ {Max(s)}], Max(s)>>]

(* h agrees with the recursion wherever its values are in S.                *)
FoldsLike(h, S, base, n, step) ==
  /\ h[{}] = base
  /\ \A s \in SUBSET (1..n) :
       s # {} /\ h[s \ {Max(s)}] \in S
         => h[s] = step[<<h[s \ {Max(s)}], Max(s)>>]

(* g is the run of the step function: its values after 0, 1, ..., n steps.  *)
FoldStates(g, S, base, n, step) ==
  /\ g \in [0..n -> S] /\ g[0] = base
  /\ \A k \in 1..n : g[k] = step[<<g[k - 1], k>>]

(* The recursion has a solution.                                            *)
LEMMA FoldExists ==
  ASSUME NEW S, NEW base \in S, NEW n \in Nat, NEW step \in Steps(S, n)
  PROVE  \E h : FoldTable(h, S, base, n, step)
<1> USE DEF Steps
<1> DEFINE Run(m, h) ==
      /\ h \in [SUBSET (1..m) -> S]
      /\ \A s \in SUBSET (1..m) :
           h[s] = IF s = {} THEN base ELSE step[<<h[s \ {Max(s)}], Max(s)>>]
    T == {m \in Nat : m <= n => \E h : Run(m, h)}
<1>1. 0 \in T
  <2> DEFINE h == [s \in SUBSET (1..0) |-> base]
  <2>1. 1..0 = {}
    OBVIOUS
  <2>2. Run(0, h)
    BY <2>1
  <2> QED
    BY <2>2
<1>2. ASSUME NEW m \in Nat, m \in T PROVE m + 1 \in T
  <2> SUFFICES ASSUME m + 1 <= n PROVE \E h : Run(m + 1, h)
    <3> HIDE DEF Run
    <3> QED
      OBVIOUS
  <2>1. \E h : Run(m, h)
    <3> HIDE DEF Run
    <3> QED
      BY <1>2
  <2>2. PICK h : Run(m, h)
    BY <2>1
  <2> DEFINE h2 == [s \in SUBSET (1..m+1) |->
        IF m + 1 \in s THEN step[<<h[s \ {m + 1}], m + 1>>] ELSE h[s]]
  <2>3. m + 1 \in 1..n
    OBVIOUS
  <2>4. \A s \in SUBSET (1..m+1) : m + 1 \in s => s \ {m + 1} \in SUBSET (1..m)
    OBVIOUS
  <2>5. \A s \in SUBSET (1..m+1) : m + 1 \notin s => s \in SUBSET (1..m)
    OBVIOUS
  <2>6. h2 \in [SUBSET (1..m+1) -> S]
    <3> SUFFICES ASSUME NEW s \in SUBSET (1..m+1)
                 PROVE (IF m + 1 \in s THEN step[<<h[s \ {m + 1}], m + 1>>] ELSE h[s]) \in S
      OBVIOUS
    <3>1. CASE m + 1 \in s
      BY <3>1, <2>2, <2>3, <2>4
    <3>2. CASE m + 1 \notin s
      BY <3>2, <2>2, <2>5
    <3> QED
      BY <3>1, <3>2
  <2>7. ASSUME NEW s \in SUBSET (1..m+1)
        PROVE  h2[s] = IF s = {} THEN base ELSE step[<<h2[s \ {Max(s)}], Max(s)>>]
    <3>1. CASE m + 1 \in s
      <4>1. Max(s) = m + 1
        BY <3>1, MaxOfRange
      <4>2. h2[s \ {m + 1}] = h[s \ {m + 1}]
        OBVIOUS
      <4> QED
        BY <3>1, <4>1, <4>2
    <3>2. CASE m + 1 \notin s
      <4>1. s \in SUBSET (1..m)
        BY <3>2, <2>5
      <4>2. h2[s] = h[s] /\ h2[s \ {Max(s)}] = h[s \ {Max(s)}]
        BY <3>2
      <4> QED
        BY <4>1, <4>2, <2>2
    <3> QED
      BY <3>1, <3>2
  <2>8. Run(m + 1, h2)
    <3> HIDE DEF h2
    <3> QED
      BY <2>6, <2>7
  <2> QED
    BY <2>8
<1>3. Nat \subseteq T
  <2> HIDE DEF T
  <2> QED
    BY <1>1, <1>2, NatSetInduction
<1>4. \E h : Run(n, h)
  <2> HIDE DEF Run
  <2> QED
    BY <1>3
<1> QED
  BY <1>4 DEF FoldTable

(* Any solution, read at the sets 1..k, is a run of the step function.      *)
LEMMA FoldRun ==
  ASSUME NEW S, NEW base \in S, NEW n \in Nat, NEW step \in Steps(S, n),
         NEW h, FoldsLike(h, S, base, n, step)
  PROVE  \E g : FoldStates(g, S, base, n, step) /\ g[n] = h[1..n]
<1> USE DEF Steps
<1> DEFINE g == [k \in 0..n |-> h[1..k]]
<1>1. g[0] = base
  <2>1. 1..0 = {}
    OBVIOUS
  <2> QED
    BY <2>1 DEF FoldsLike
<1>2. ASSUME NEW k \in 1..n, g[k - 1] \in S
      PROVE  g[k] = step[<<g[k - 1], k>>]
  <2>1. 1..k \in SUBSET (1..n) /\ k \in 1..k /\ k \in Nat \ {0}
    OBVIOUS
  <2>2. Max(1..k) = k
    BY <2>1, MaxOfRange
  <2>3. (1..k) \ {k} = 1..(k - 1)
    OBVIOUS
  <2>4. g[k] = h[1..k] /\ g[k - 1] = h[1..(k - 1)]
    OBVIOUS
  <2> HIDE DEF g
  <2> QED
    BY <1>2, <2>1, <2>2, <2>3, <2>4 DEF FoldsLike
<1>3. \A k \in 0..n : g[k] \in S
  <2> DEFINE Inv == [k \in 0..n |-> S]
  <2>1. g[0] \in Inv[0]
    BY <1>1
  <2>2. ASSUME NEW k \in 1..n, g[k - 1] \in Inv[k - 1] PROVE g[k] \in Inv[k]
    <3>1. g[k - 1] \in S
      <4> HIDE DEF g
      <4> QED
        BY <2>2
    <3>2. g[k] = step[<<g[k - 1], k>>]
      <4> HIDE DEF g
      <4> QED
        BY <1>2, <3>1
    <3> HIDE DEF g
    <3>3. g[k] \in S
      BY <3>1, <3>2
    <3> QED
      BY <3>3
  <2>3. \A k \in 0..n : g[k] \in Inv[k]
    <3> HIDE DEF g, Inv
    <3> QED
      BY <2>1, <2>2, RunInvariant
  <2> QED
    BY <2>3
<1>4. g \in [0..n -> S] /\ g[n] = h[1..n]
  BY <1>3
<1>5. \A k \in 1..n : g[k] = step[<<g[k - 1], k>>]
  <2> HIDE DEF g
  <2> QED
    BY <1>2, <1>3
<1> HIDE DEF g
<1> QED
  BY <1>1, <1>4, <1>5 DEF FoldStates

------------------------------------------------------------------------------
(* Sorted lists *)

(* A set that lies in another without an element of it is smaller.          *)
LEMMA SmallerWithout ==
  ASSUME NEW S, IsFiniteSet(S), NEW T \in SUBSET S, NEW x \in S, x \notin T
  PROVE  /\ IsFiniteSet(T) /\ Cardinality(T) \in Nat /\ Cardinality(S) \in Nat
         /\ Cardinality(T) < Cardinality(S)
<1>1. IsFiniteSet(T) /\ Cardinality(T) <= Cardinality(S)
  BY FS_Subset
<1>2. Cardinality(T) # Cardinality(S)
  BY FS_Subset
<1>3. Cardinality(T) \in Nat /\ Cardinality(S) \in Nat
  BY <1>1, FS_CardinalityType
<1> QED
  BY <1>1, <1>2, <1>3

(* Every finite set can be put in order: each element goes to the position  *)
(* that the number of those before it gives.                                *)
LEMMA SortExists ==
  ASSUME NEW S, IsFiniteSet(S), NEW before, StrictTotalOrder(before, S)
  PROVE  /\ Cardinality(S) \in Nat
         /\ \E q \in [1..Cardinality(S) -> S] :
              \A i, j \in DOMAIN q : i < j => <<q[i], q[j]>> \in before
<1> DEFINE n == Cardinality(S)
           Down(x) == {y \in S : <<y, x>> \in before}
           rank == [x \in S |-> Cardinality(Down(x)) + 1]
<1>1. n \in Nat
  BY FS_CardinalityType
<1>2. ASSUME NEW x \in S
      PROVE  IsFiniteSet(Down(x)) /\ rank[x] \in 1..n
  <2>1. x \notin Down(x) /\ Down(x) \in SUBSET S
    BY DEF StrictTotalOrder
  <2>2. IsFiniteSet(Down(x)) /\ Cardinality(Down(x)) \in Nat /\ Cardinality(Down(x)) < n
    <3> HIDE DEF Down
    <3> QED
      BY <2>1, SmallerWithout
  <2>3. rank[x] = Cardinality(Down(x)) + 1
    OBVIOUS
  <2> HIDE DEF Down, rank, n
  <2> QED
    BY <1>1, <2>2, <2>3
<1>12. \A x \in S : rank[x] \in Int
  <2> HIDE DEF Down, rank, n
  <2> QED
    BY <1>1, <1>2
<1>3. ASSUME NEW x \in S, NEW y \in S, <<x, y>> \in before
      PROVE  rank[x] < rank[y]
  <2>1. Down(x) \in SUBSET Down(y) /\ x \in Down(y) /\ x \notin Down(x)
    BY <1>3 DEF StrictTotalOrder
  <2>2. /\ Cardinality(Down(x)) \in Nat /\ Cardinality(Down(y)) \in Nat
        /\ Cardinality(Down(x)) < Cardinality(Down(y))
    <3> HIDE DEF Down
    <3> QED
      BY <1>2, <2>1, SmallerWithout
  <2>3. rank[x] = Cardinality(Down(x)) + 1 /\ rank[y] = Cardinality(Down(y)) + 1
    OBVIOUS
  <2> HIDE DEF Down, rank
  <2> QED
    BY <2>2, <2>3
<1>4. ASSUME NEW x \in S, NEW y \in S, rank[x] <= rank[y]
      PROVE  x = y \/ <<x, y>> \in before
  <2>1. x = y \/ <<x, y>> \in before \/ <<y, x>> \in before
    BY DEF StrictTotalOrder
  <2>2. <<y, x>> \in before => rank[y] < rank[x]
    BY <1>3
  <2>3. rank[x] \in Int /\ rank[y] \in Int
    <3> HIDE DEF rank
    <3> QED
      BY <1>12
  <2> HIDE DEF rank
  <2> QED
    BY <1>4, <2>1, <2>2, <2>3
<1>5. rank \in [S -> 1..n]
  <2> HIDE DEF n, Down
  <2>1. \A x \in S : Cardinality(Down(x)) + 1 \in 1..n
    BY <1>2
  <2> QED
    BY <2>1
<1>6. rank \in Injection(S, 1..n)
  <2> SUFFICES ASSUME NEW x \in S, NEW y \in S, rank[x] = rank[y]
               PROVE  x = y
    <3> HIDE DEF rank, n
    <3> QED
      BY <1>5 DEF Injection, IsInjective
  <2>1. rank[x] \in Int /\ rank[y] \in Int
    <3> HIDE DEF rank
    <3> QED
      BY <1>12
  <2>2. <<x, y>> \notin before /\ <<y, x>> \notin before
    <3> HIDE DEF rank
    <3> QED
      BY <1>3, <2>1
  <2> QED
    BY <2>2 DEF StrictTotalOrder
<1>7. rank \in Surjection(S, 1..n)
  <2>1. IsFiniteSet(1..n) /\ Cardinality(1..n) = n
    <3> HIDE DEF n
    <3> QED
      BY <1>1, FS_Interval
  <2> HIDE DEF rank
  <2> QED
    BY <2>1, <1>6, FS_Injection
<1>8. \A k \in 1..n : \E x \in S : rank[x] = k
  <2> HIDE DEF rank, n
  <2> QED
    BY <1>7 DEF Surjection
<1> DEFINE q == [k \in 1..n |-> CHOOSE x \in S : rank[x] = k]
<1>9. \A k \in 1..n : q[k] \in S /\ rank[q[k]] = k
  <2> HIDE DEF rank, n
  <2> QED
    BY <1>8
<1>10. q \in [1..n -> S] /\ DOMAIN q = 1..n
  <2> HIDE DEF rank, n
  <2> QED
    BY <1>9
<1>11. ASSUME NEW i \in DOMAIN q, NEW j \in DOMAIN q, i < j
       PROVE  <<q[i], q[j]>> \in before
  <2>1. i \in 1..n /\ j \in 1..n
    OBVIOUS
  <2>2. q[i] \in S /\ q[j] \in S /\ rank[q[i]] = i /\ rank[q[j]] = j
    <3> HIDE DEF q, rank, n
    <3> QED
      BY <1>9, <2>1
  <2> HIDE DEF q, rank, n
  <2>3. rank[q[i]] <= rank[q[j]] /\ q[i] # q[j]
    BY <2>1, <2>2, <1>1, <1>11
  <2> QED
    BY <1>4, <2>2, <2>3
<1> HIDE DEF q
<1> QED
  BY <1>1, <1>10, <1>11

(* What SortBy returns: the elements of the set, each once, in order.       *)
LEMMA SortedList ==
  ASSUME NEW S, IsFiniteSet(S), NEW before, StrictTotalOrder(before, S)
  PROVE  LET q == SortBy(S, before)
             n == Cardinality(S)
         IN  /\ n \in Nat
             /\ q \in [1..n -> S] /\ q \in Seq(S) /\ Len(q) = n
             /\ \A i, j \in 1..n : i < j => <<q[i], q[j]>> \in before
             /\ \A i, j \in 1..n : q[i] = q[j] => i = j
             /\ \A x \in S : \E i \in 1..n : q[i] = x
<1> DEFINE q == SortBy(S, before)
           n == Cardinality(S)
<1>1. /\ n \in Nat /\ q \in [1..n -> S]
      /\ \A i, j \in DOMAIN q : i < j => <<q[i], q[j]>> \in before
  BY SortExists, Zenon DEF SortBy
<1> HIDE DEF q, n
<1>2. q \in Seq(S) /\ Len(q) = n /\ DOMAIN q = 1..n
  BY <1>1
<1>3. \A i, j \in 1..n : i < j => <<q[i], q[j]>> \in before
  BY <1>1, <1>2
<1>4. ASSUME NEW i \in 1..n, NEW j \in 1..n, q[i] = q[j] PROVE i = j
  <2>1. q[i] \in S /\ <<q[i], q[i]>> \notin before
    BY <1>1 DEF StrictTotalOrder
  <2>2. ~(i < j) /\ ~(j < i)
    BY <1>3, <1>4, <2>1
  <2> QED
    BY <2>2, <1>1
<1>6. q \in Injection(1..n, S)
  BY <1>1, <1>2, <1>4 DEF Injection, IsInjective
<1>7. Cardinality(1..n) = Cardinality(S)
  BY <1>1, FS_Interval DEF n
<1>8. q \in Surjection(1..n, S)
  BY <1>6, <1>7, FS_Injection
<1>9. \A x \in S : \E i \in 1..n : q[i] = x
  BY <1>8 DEF Surjection
<1> QED
  BY <1>1, <1>2, <1>3, <1>4, <1>9 DEF q, n

LEMMA AscendingOrder ==
  ASSUME NEW S \in SUBSET Int
  PROVE  StrictTotalOrder(Ascending(S), S)
BY DEF StrictTotalOrder, Ascending

------------------------------------------------------------------------------
(* Sums *)

(* The sum of w over the elements of T.                                     *)
SumOver(w, T) == MapThenSumSet(LAMBDA x : w[x], T)

(* A finite set is reached through its subsets: what holds of a set when it *)
(* holds of all its proper subsets holds of every subset.                   *)
LEMMA SubsetInduction ==
  ASSUME NEW S, IsFiniteSet(S), NEW Good,
         \A T \in SUBSET S : (\A U \in (SUBSET T) \ {T} : U \in Good) => T \in Good
  PROVE  SUBSET S \subseteq Good
<1> DEFINE Bad == (SUBSET S) \ Good
           R == StrictSubsetOrdering(S)
<1> SUFFICES ASSUME Bad # {} PROVE FALSE
  OBVIOUS
<1>1. IsWellFoundedOn(R, SUBSET S)
  <2>1. IsWellFoundedOn(R, FiniteSubsetsOf(S))
    BY FS_StrictSubsetOrderingWellFounded
  <2>2. FiniteSubsetsOf(S) = SUBSET S
    BY FS_FiniteSubsetsOfFinite
  <2> HIDE DEF R
  <2> QED
    BY <2>1, <2>2, Zenon
<1>2. \E x \in Bad : \A y \in Bad : ~(<<y, x>> \in R)
  <2>1. Bad \subseteq SUBSET S
    OBVIOUS
  <2> HIDE DEF R, Bad
  <2> QED
    BY <1>1, <2>1, WFMin
<1>3. PICK T \in Bad : \A U \in Bad : ~(<<U, T>> \in R)
  BY <1>2
<1>4. ASSUME NEW U \in (SUBSET T) \ {T} PROVE U \in Good
  <2>1. <<U, T>> \in R
    BY DEF StrictSubsetOrdering
  <2> QED
    BY <1>3, <2>1
<1> QED
  BY <1>3, <1>4

(* h solves the recursion of the sum of w over the subsets of S.            *)
Sums(h, w, S) ==
  h = [s \in SUBSET S |->
         IF s = {} THEN 0
         ELSE w[CHOOSE x \in s : TRUE] + h[s \ {CHOOSE x \in s : TRUE}]]

LEMMA SumExists ==
  ASSUME NEW S, IsFiniteSet(S), NEW w
  PROVE  \E h : Sums(h, w, S)
<1> DEFINE AnyOf(s) == CHOOSE x \in s : TRUE
           Small(m) == {s \in SUBSET S : Cardinality(s) <= m}
           Run(m, h) == h = [s \in Small(m) |->
                          IF s = {} THEN 0 ELSE w[AnyOf(s)] + h[s \ {AnyOf(s)}]]
           T == {m \in Nat : \E h : Run(m, h)}
<1>1. \A s \in SUBSET S : /\ IsFiniteSet(s) /\ Cardinality(s) \in Nat
                          /\ Cardinality(s) = 0 <=> s = {}
  BY FS_Subset, FS_CardinalityType, FS_EmptySet
<1>2. \A s \in SUBSET S : s # {} => /\ s \ {AnyOf(s)} \in SUBSET S
                                    /\ Cardinality(s \ {AnyOf(s)}) = Cardinality(s) - 1
  <2> SUFFICES ASSUME NEW s \in SUBSET S, s # {}
               PROVE  /\ s \ {AnyOf(s)} \in SUBSET S
                      /\ Cardinality(s \ {AnyOf(s)}) = Cardinality(s) - 1
    OBVIOUS
  <2>1. AnyOf(s) \in s
    OBVIOUS
  <2> HIDE DEF AnyOf
  <2> QED
    BY <1>1, <2>1, FS_RemoveElement
<1> HIDE DEF AnyOf
<1>3. 0 \in T
  <2> DEFINE h == [s \in Small(0) |-> 0]
  <2>1. \A s \in Small(0) : s = {}
    BY <1>1
  <2>2. Run(0, h)
    BY <2>1
  <2> HIDE DEF h, Run
  <2> QED
    BY <2>2
<1>4. ASSUME NEW m \in Nat, m \in T PROVE m + 1 \in T
  <2>1. PICK h : Run(m, h)
    <3> HIDE DEF Run
    <3> QED
      BY <1>4
  <2> DEFINE h2 == [s \in Small(m + 1) |->
                      IF s = {} THEN 0 ELSE w[AnyOf(s)] + h[s \ {AnyOf(s)}]]
  <2>2. ASSUME NEW s \in Small(m)
        PROVE  s \in Small(m + 1) /\ h2[s] = h[s]
    <3>1. s \in Small(m + 1)
      BY <1>1
    <3> QED
      BY <2>1, <3>1
  <2>3. ASSUME NEW s \in Small(m + 1), s # {}
        PROVE  s \ {AnyOf(s)} \in Small(m)
    BY <1>1, <1>2, <2>3
  <2>4. h2 = [s \in Small(m + 1) |->
                IF s = {} THEN 0 ELSE w[AnyOf(s)] + h2[s \ {AnyOf(s)}]]
    <3>1. \A s \in Small(m + 1) : s # {} => h2[s \ {AnyOf(s)}] = h[s \ {AnyOf(s)}]
      <4> HIDE DEF h2, Small
      <4> QED
        BY <2>2, <2>3
    <3> HIDE DEF Small
    <3> QED
      BY <3>1
  <2>5. Run(m + 1, h2)
    <3> HIDE DEF h2, Small
    <3> QED
      BY <2>4
  <2> HIDE DEF Run, h2
  <2> QED
    BY <2>5
<1>5. Nat \subseteq T
  <2> HIDE DEF T
  <2> QED
    BY <1>3, <1>4, NatSetInduction
<1>6. Cardinality(S) \in Nat /\ Small(Cardinality(S)) = SUBSET S
  <2>1. \A s \in SUBSET S : Cardinality(s) <= Cardinality(S)
    BY FS_Subset
  <2> QED
    BY <1>1, <2>1
<1>7. \E h : Run(Cardinality(S), h)
  <2> HIDE DEF Run
  <2> QED
    BY <1>5, <1>6
<1>8. PICK h : Run(Cardinality(S), h)
  <2> HIDE DEF Run
  <2> QED
    BY <1>7
<1>9. h = [s \in SUBSET S |-> IF s = {} THEN 0 ELSE w[AnyOf(s)] + h[s \ {AnyOf(s)}]]
  <2> HIDE DEF Small
  <2> QED
    BY <1>6, <1>8
<1> QED
  BY <1>9 DEF Sums, AnyOf

LEMMA SumIsSolution ==
  ASSUME NEW S, IsFiniteSet(S), NEW w
  PROVE  \E h : Sums(h, w, S) /\ SumOver(w, S) = h[S]
<1> DEFINE h == CHOOSE h : Sums(h, w, S)
<1>1. Sums(h, w, S)
  <2>1. \E f : Sums(f, w, S)
    BY SumExists
  <2> QED
    BY <2>1, Zenon
<1>2. SumOver(w, S) = h[S]
  BY DEF SumOver, MapThenSumSet, MapThenFoldSet, Sums
<1> QED
  BY <1>1, <1>2

(* A solution is unique, also where it is one for a larger set.              *)
LEMMA SumsAgree ==
  ASSUME NEW S, IsFiniteSet(S), NEW w, NEW h, Sums(h, w, S),
         NEW T \in SUBSET S, NEW g, Sums(g, w, T)
  PROVE  g[T] = h[T]
<1> DEFINE Good == {s \in SUBSET T : g[s] = h[s]}
<1>1. IsFiniteSet(T)
  BY FS_Subset
<1>2. ASSUME NEW s \in SUBSET T, \A U \in (SUBSET s) \ {s} : U \in Good
      PROVE  s \in Good
  <2> DEFINE c == CHOOSE x \in s : TRUE
  <2>1. CASE s = {}
    BY <2>1 DEF Sums
  <2>2. CASE s # {}
    <3>1. c \in s
      BY <2>2
    <3>2. s \ {c} \in (SUBSET s) \ {s}
      BY <3>1
    <3>3. g[s \ {c}] = h[s \ {c}]
      BY <1>2, <3>2
    <3>4. g[s] = w[c] + g[s \ {c}] /\ h[s] = w[c] + h[s \ {c}]
      BY <2>2 DEF Sums
    <3> HIDE DEF c
    <3> QED
      BY <3>3, <3>4
  <2> QED
    BY <2>1, <2>2
<1>3. SUBSET T \subseteq Good
  <2> HIDE DEF Good
  <2> QED
    BY <1>1, <1>2, SubsetInduction
<1> QED
  BY <1>3

LEMMA SumEmpty == \A w : SumOver(w, {}) = 0
<1> SUFFICES ASSUME NEW w PROVE SumOver(w, {}) = 0
  OBVIOUS
<1>1. PICK h : Sums(h, w, {}) /\ SumOver(w, {}) = h[{}]
  BY SumIsSolution, FS_EmptySet
<1> QED
  BY <1>1 DEF Sums

(* The sum of integers is an integer, and does not depend on the order in   *)
(* which they are taken.                                                    *)
LEMMA SumTakeOut ==
  ASSUME NEW X, NEW w \in [X -> Int], NEW S \in SUBSET X, IsFiniteSet(S)
  PROVE  /\ SumOver(w, S) \in Int
         /\ \A x \in S : SumOver(w, S) = w[x] + SumOver(w, S \ {x})
<1>1. PICK h : Sums(h, w, S) /\ SumOver(w, S) = h[S]
  BY SumIsSolution
<1>2. ASSUME NEW T \in SUBSET S
      PROVE  SumOver(w, T) = h[T]
  <2>1. IsFiniteSet(T)
    BY FS_Subset
  <2>2. PICK g : Sums(g, w, T) /\ SumOver(w, T) = g[T]
    BY <2>1, SumIsSolution
  <2> QED
    BY <1>1, <2>2, SumsAgree
<1> DEFINE Good == {T \in SUBSET S : h[T] \in Int /\ \A x \in T : h[T] = w[x] + h[T \ {x}]}
<1>3. ASSUME NEW T \in SUBSET S, \A U \in (SUBSET T) \ {T} : U \in Good
      PROVE  T \in Good
  <2> DEFINE c == CHOOSE x \in T : TRUE
  <2>1. CASE T = {}
    <3>1. h[T] = 0
      BY <1>1, <2>1 DEF Sums
    <3> QED
      BY <2>1, <3>1
  <2>2. CASE T # {}
    <3>1. c \in T /\ h[T] = w[c] + h[T \ {c}]
      BY <1>1, <2>2 DEF Sums
    <3> HIDE DEF c
    <3>2. w[c] \in Int /\ T \ {c} \in (SUBSET T) \ {T}
      BY <3>1
    <3>3. h[T \ {c}] \in Int /\ \A x \in T \ {c} : h[T \ {c}] = w[x] + h[(T \ {c}) \ {x}]
      BY <1>3, <3>2
    <3>4. h[T] \in Int
      BY <3>1, <3>2, <3>3
    <3>5. ASSUME NEW x \in T, x # c
          PROVE  h[T] = w[x] + h[T \ {x}]
      <4>1. w[x] \in Int /\ T \ {x} \in (SUBSET T) \ {T} /\ c \in T \ {x}
        BY <3>1, <3>5
      <4>2. h[T \ {x}] = w[c] + h[(T \ {x}) \ {c}]
        BY <1>3, <4>1
      <4>3. (T \ {x}) \ {c} = (T \ {c}) \ {x} /\ (T \ {c}) \ {x} \in (SUBSET T) \ {T}
        BY <3>1
      <4>4. h[T \ {c}] = w[x] + h[(T \ {c}) \ {x}] /\ h[(T \ {c}) \ {x}] \in Int
        BY <1>3, <3>3, <3>5, <4>3
      <4>5. h[T \ {x}] = w[c] + h[(T \ {c}) \ {x}]
        BY <4>2, <4>3
      <4> QED
        BY ONLY <3>1, <3>2, <4>1, <4>4, <4>5
    <3>6. \A x \in T : h[T] = w[x] + h[T \ {x}]
      BY <3>1, <3>5
    <3> QED
      BY <3>4, <3>6
  <2> QED
    BY <2>1, <2>2
<1>4. SUBSET S \subseteq Good
  <2> HIDE DEF Good
  <2> QED
    BY <1>3, SubsetInduction
<1>5. S \in SUBSET S /\ \A x \in S : S \ {x} \in SUBSET S
  OBVIOUS
<1>6. h[S] \in Int /\ \A x \in S : h[S] = w[x] + h[S \ {x}]
  BY <1>4, <1>5
<1> QED
  BY <1>2, <1>5, <1>6

LEMMA SumAdd ==
  ASSUME NEW X, NEW w \in [X -> Int], NEW S \in SUBSET X, IsFiniteSet(S),
         NEW x \in X, x \notin S
  PROVE  SumOver(w, S \cup {x}) = SumOver(w, S) + w[x]
<1>1. IsFiniteSet(S \cup {x}) /\ S \cup {x} \in SUBSET X /\ x \in S \cup {x}
  BY FS_AddElement
<1>2. SumOver(w, S \cup {x}) = w[x] + SumOver(w, (S \cup {x}) \ {x})
  BY <1>1, SumTakeOut
<1>3. (S \cup {x}) \ {x} = S
  OBVIOUS
<1>4. SumOver(w, S) \in Int /\ w[x] \in Int
  BY SumTakeOut
<1>5. SumOver(w, (S \cup {x}) \ {x}) = SumOver(w, S)
  BY <1>3
<1> QED
  BY ONLY <1>2, <1>4, <1>5

(* Only the values on the set count.                                        *)
LEMMA SumCongruent ==
  ASSUME NEW S, IsFiniteSet(S), NEW w, NEW v, \A x \in S : w[x] = v[x]
  PROVE  SumOver(w, S) = SumOver(v, S)
<1>1. PICK h : Sums(h, w, S) /\ SumOver(w, S) = h[S]
  BY SumIsSolution
<1>2. PICK g : Sums(g, v, S) /\ SumOver(v, S) = g[S]
  BY SumIsSolution
<1>3. Sums(h, v, S)
  <2> DEFINE any(s) == CHOOSE x \in s : TRUE
  <2>1. \A s \in SUBSET S : s # {} => w[any(s)] = v[any(s)]
    <3> SUFFICES ASSUME NEW s \in SUBSET S, s # {} PROVE w[any(s)] = v[any(s)]
      OBVIOUS
    <3>1. any(s) \in s
      OBVIOUS
    <3> HIDE DEF any
    <3> QED
      BY <3>1
  <2>2. h = [s \in SUBSET S |-> IF s = {} THEN 0 ELSE w[any(s)] + h[s \ {any(s)}]]
    BY <1>1 DEF Sums
  <2> HIDE DEF any
  <2>3. h = [s \in SUBSET S |-> IF s = {} THEN 0 ELSE v[any(s)] + h[s \ {any(s)}]]
    BY <2>1, <2>2
  <2> QED
    BY <2>3 DEF Sums, any
<1>4. S \in SUBSET S
  OBVIOUS
<1>5. g[S] = h[S]
  BY <1>2, <1>3, <1>4, SumsAgree
<1> QED
  BY <1>1, <1>2, <1>5

(* Sums keep the order of their terms.                                      *)
LEMMA SumOrdered ==
  ASSUME NEW X, NEW w \in [X -> Int], NEW v \in [X -> Int],
         NEW S \in SUBSET X, IsFiniteSet(S), \A x \in S : w[x] <= v[x]
  PROVE  SumOver(w, S) <= SumOver(v, S)
<1> DEFINE Good == {T \in SUBSET S : SumOver(w, T) <= SumOver(v, T)}
<1>1. ASSUME NEW T \in SUBSET S, \A U \in (SUBSET T) \ {T} : U \in Good
      PROVE  T \in Good
  <2>1. IsFiniteSet(T) /\ T \in SUBSET X
    BY FS_Subset
  <2>2. CASE T = {}
    <3>1. SumOver(w, T) = 0 /\ SumOver(v, T) = 0
      BY <2>2, SumEmpty
    <3> QED
      BY <3>1
  <2>3. CASE T # {}
    <3>1. PICK x \in T : TRUE
      BY <2>3
    <3>2. T \ {x} \in (SUBSET T) \ {T}
      BY <3>1
    <3>3. IsFiniteSet(T \ {x}) /\ T \ {x} \in SUBSET X
      BY <2>1, <3>2, FS_Subset
    <3>4. SumOver(w, T \ {x}) <= SumOver(v, T \ {x})
      BY <1>1, <3>2
    <3>5. /\ SumOver(w, T) = w[x] + SumOver(w, T \ {x})
          /\ SumOver(v, T) = v[x] + SumOver(v, T \ {x})
      BY <2>1, <3>1, SumTakeOut
    <3>6. SumOver(w, T \ {x}) \in Int /\ SumOver(v, T \ {x}) \in Int
      BY <3>3, SumTakeOut
    <3>7. w[x] \in Int /\ v[x] \in Int /\ w[x] <= v[x]
      BY <3>1
    <3>8. SumOver(w, T) <= SumOver(v, T)
      BY ONLY <3>4, <3>5, <3>6, <3>7
    <3> QED
      BY <3>8
  <2> QED
    BY <2>2, <2>3
<1>2. SUBSET S \subseteq Good
  <2> HIDE DEF Good
  <2> QED
    BY <1>1, SubsetInduction
<1>3. S \in SUBSET S
  OBVIOUS
<1> QED
  BY <1>2, <1>3

LEMMA SumOfZeros ==
  ASSUME NEW S, IsFiniteSet(S), NEW w, \A x \in S : w[x] = 0
  PROVE  SumOver(w, S) = 0
<1> DEFINE zero == [x \in S |-> 0]
           Good == {T \in SUBSET S : SumOver(zero, T) = 0}
<1>1. ASSUME NEW T \in SUBSET S, \A U \in (SUBSET T) \ {T} : U \in Good
      PROVE  T \in Good
  <2>1. IsFiniteSet(T) /\ zero \in [S -> Int] /\ \A x \in T : zero[x] = 0
    BY FS_Subset
  <2>2. CASE T = {}
    BY <2>2, SumEmpty
  <2>3. CASE T # {}
    <3>1. PICK x \in T : TRUE
      BY <2>3
    <3>2. T \ {x} \in (SUBSET T) \ {T}
      BY <3>1
    <3>3. SumOver(zero, T \ {x}) = 0
      BY <1>1, <3>2
    <3> HIDE DEF zero
    <3>4. SumOver(zero, T) = zero[x] + SumOver(zero, T \ {x})
      BY <2>1, <3>1, SumTakeOut
    <3>5. SumOver(zero, T) = 0
      BY <2>1, <3>1, <3>3, <3>4
    <3> QED
      BY <3>5
  <2> QED
    BY <2>2, <2>3
<1>2. SUBSET S \subseteq Good
  <2> HIDE DEF Good
  <2> QED
    BY <1>1, SubsetInduction
<1>3. S \in SUBSET S
  OBVIOUS
<1>4. SumOver(zero, S) = 0
  BY <1>2, <1>3
<1>5. \A x \in S : w[x] = zero[x]
  OBVIOUS
<1> HIDE DEF zero
<1>6. SumOver(w, S) = SumOver(zero, S)
  BY <1>5, SumCongruent
<1> QED
  BY <1>4, <1>6

(* A sum of naturals is one, and none of its terms exceeds it.              *)
LEMMA SumOfNaturals ==
  ASSUME NEW X, NEW w \in [X -> Nat], NEW S \in SUBSET X, IsFiniteSet(S)
  PROVE  SumOver(w, S) \in Nat /\ \A x \in S : w[x] <= SumOver(w, S)
<1> DEFINE zero == [x \in X |-> 0]
<1>1. w \in [X -> Int] /\ zero \in [X -> Int] /\ \A x \in X : zero[x] = 0 /\ 0 <= w[x]
  OBVIOUS
<1> HIDE DEF zero
<1>2. ASSUME NEW T \in SUBSET S PROVE SumOver(w, T) \in Nat
  <2>1. IsFiniteSet(T) /\ T \in SUBSET X
    BY FS_Subset
  <2>2. SumOver(w, T) \in Int /\ SumOver(zero, T) = 0
    BY <1>1, <2>1, SumTakeOut, SumOfZeros
  <2>3. SumOver(zero, T) <= SumOver(w, T)
    <3>1. \A x \in T : zero[x] <= w[x]
      BY <1>1, <2>1
    <3> QED
      BY <1>1, <2>1, <3>1, SumOrdered
  <2> QED
    BY <2>2, <2>3
<1>3. ASSUME NEW x \in S PROVE w[x] <= SumOver(w, S)
  <2>1. SumOver(w, S) = w[x] + SumOver(w, S \ {x})
    BY <1>1, SumTakeOut
  <2>2. S \ {x} \in SUBSET S
    OBVIOUS
  <2>3. SumOver(w, S \ {x}) \in Nat
    BY <1>2, <2>2
  <2>4. w[x] \in Nat
    OBVIOUS
  <2> QED
    BY ONLY <2>1, <2>3, <2>4
<1>4. S \in SUBSET S
  OBVIOUS
<1> QED
  BY <1>2, <1>3, <1>4

(* w is a plus c times b.                                                   *)
Linear(w, a, b, c, X) ==
  /\ w \in [X -> Int] /\ a \in [X -> Int] /\ b \in [X -> Int] /\ c \in Int
  /\ \A x \in X : w[x] = a[x] + c * b[x]

(* Sums are linear.                                                         *)
LEMMA SumLinear ==
  ASSUME NEW S, IsFiniteSet(S), NEW w, NEW a, NEW b, NEW c, Linear(w, a, b, c, S)
  PROVE  SumOver(w, S) = SumOver(a, S) + c * SumOver(b, S)
<1>0. /\ w \in [S -> Int] /\ a \in [S -> Int] /\ b \in [S -> Int] /\ c \in Int
      /\ \A x \in S : w[x] = a[x] + c * b[x]
  BY DEF Linear
<1> DEFINE Good == {T \in SUBSET S : SumOver(w, T) = SumOver(a, T) + c * SumOver(b, T)}
<1>1. ASSUME NEW T \in SUBSET S, \A U \in (SUBSET T) \ {T} : U \in Good
      PROVE  T \in Good
  <2>1. IsFiniteSet(T) /\ T \in SUBSET S
    BY FS_Subset
  <2>2. CASE T = {}
    <3>1. SumOver(w, T) = 0 /\ SumOver(a, T) = 0 /\ SumOver(b, T) = 0
      BY <2>2, SumEmpty
    <3> QED
      BY <2>2, <3>1, <1>0
  <2>3. CASE T # {}
    <3>1. PICK x \in T : TRUE
      BY <2>3
    <3>2. T \ {x} \in (SUBSET T) \ {T}
      BY <3>1
    <3>3. IsFiniteSet(T \ {x}) /\ T \ {x} \in SUBSET S
      BY <2>1, <3>2, FS_Subset
    <3>4. SumOver(w, T \ {x}) = SumOver(a, T \ {x}) + c * SumOver(b, T \ {x})
      BY <1>1, <3>2
    <3>5. /\ SumOver(w, T) = w[x] + SumOver(w, T \ {x})
          /\ SumOver(a, T) = a[x] + SumOver(a, T \ {x})
          /\ SumOver(b, T) = b[x] + SumOver(b, T \ {x})
      <4>1. SumOver(w, T) = w[x] + SumOver(w, T \ {x})
        BY <1>0, <2>1, <3>1, SumTakeOut
      <4>2. SumOver(a, T) = a[x] + SumOver(a, T \ {x})
        BY <1>0, <2>1, <3>1, SumTakeOut
      <4>3. SumOver(b, T) = b[x] + SumOver(b, T \ {x})
        BY <1>0, <2>1, <3>1, SumTakeOut
      <4> QED
        BY <4>1, <4>2, <4>3
    <3>6. SumOver(a, T \ {x}) \in Int /\ SumOver(b, T \ {x}) \in Int
      BY <1>0, <3>3, SumTakeOut
    <3>7. a[x] \in Int /\ b[x] \in Int /\ w[x] = a[x] + c * b[x]
      BY <1>0, <3>1
    <3>8. c * (b[x] + SumOver(b, T \ {x})) = c * b[x] + c * SumOver(b, T \ {x})
      BY ONLY <1>0, <3>6, <3>7
    <3>9. c * b[x] \in Int /\ c * SumOver(b, T \ {x}) \in Int
      BY ONLY <3>6, <3>7, <1>0
    <3>10. SumOver(w, T) = SumOver(a, T) + c * SumOver(b, T)
      BY ONLY <3>4, <3>5, <3>6, <3>7, <3>8, <3>9
    <3> QED
      BY <3>10
  <2> QED
    BY <2>2, <2>3
<1>2. SUBSET S \subseteq Good
  <2> HIDE DEF Good
  <2> QED
    BY <1>1, SubsetInduction
<1>3. S \in SUBSET S
  OBVIOUS
<1> QED
  BY <1>2, <1>3

LEMMA SumChange ==
  ASSUME NEW X, NEW w \in [X -> Int], NEW v \in [X -> Int],
         NEW S \in SUBSET X, IsFiniteSet(S), NEW x \in S,
         \A y \in S : y # x => v[y] = w[y]
  PROVE  SumOver(v, S) = SumOver(w, S) + (v[x] - w[x])
<1>1. IsFiniteSet(S \ {x}) /\ S \ {x} \in SUBSET X
  BY FS_Subset
<1>2. SumOver(v, S \ {x}) = SumOver(w, S \ {x}) /\ SumOver(w, S \ {x}) \in Int
  BY <1>1, SumCongruent, SumTakeOut
<1>3. /\ SumOver(w, S) = w[x] + SumOver(w, S \ {x})
      /\ SumOver(v, S) = v[x] + SumOver(v, S \ {x})
  BY SumTakeOut
<1>4. w[x] \in Int /\ v[x] \in Int
  OBVIOUS
<1> QED
  BY ONLY <1>2, <1>3, <1>4

(* A finite set of naturals has an upper bound, and a greatest element.     *)
LEMMA BoundExists ==
  ASSUME NEW S \in SUBSET Nat, IsFiniteSet(S)
  PROVE  \E n \in Nat : \A x \in S : x <= n
<1> DEFINE id == [x \in S |-> x]
<1>1. id \in [S -> Nat] /\ \A x \in S : id[x] = x
  OBVIOUS
<1> HIDE DEF id
<1>2. SumOver(id, S) \in Nat /\ \A x \in S : id[x] <= SumOver(id, S)
  BY <1>1, SumOfNaturals
<1> QED
  BY <1>1, <1>2

LEMMA GreatestExists ==
  ASSUME NEW S \in SUBSET Nat, IsFiniteSet(S), S # {}
  PROVE  \E n \in S : \A x \in S : x <= n
<1> DEFINE Above == {n \in Nat : \A x \in S : x <= n}
           n == Min(Above)
<1>1. Above \in SUBSET Nat /\ Above # {}
  BY BoundExists
<1> HIDE DEF Above
<1>2. n \in Above /\ \A k \in Above : n <= k
  BY <1>1, MinIsLeast
<1> HIDE DEF n
<1>3. n \in Nat /\ \A x \in S : x <= n /\ x \in Nat
  BY <1>2 DEF Above
<1>4. n \in S
  <2> SUFFICES ASSUME n \notin S PROVE FALSE
    OBVIOUS
  <2>1. \A x \in S : x <= n - 1
    BY <1>3
  <2>2. n - 1 \in Nat
    <3>1. PICK x \in S : TRUE
      OBVIOUS
    <3>2. x \in Nat /\ x <= n - 1
      BY <1>3, <2>1
    <3> QED
      BY <1>3, <3>2
  <2>3. n - 1 \in Above
    BY <2>1, <2>2 DEF Above
  <2>4. n <= n - 1
    BY <1>2, <2>3
  <2> QED
    BY <1>3, <2>4
<1> QED
  BY <1>3, <1>4

(* Only the part of a set where the summand is not zero counts.             *)
LEMMA SumSupport ==
  ASSUME NEW X, NEW w \in [X -> Int], NEW S \in SUBSET X, IsFiniteSet(S),
         NEW T \in SUBSET S, \A x \in S \ T : w[x] = 0
  PROVE  SumOver(w, S) = SumOver(w, T)
<1> DEFINE Good == {U \in SUBSET S : SumOver(w, U) = SumOver(w, U \cap T)}
<1>1. ASSUME NEW U \in SUBSET S, \A V \in (SUBSET U) \ {U} : V \in Good
      PROVE  U \in Good
  <2>1. CASE U = {}
    <3>1. U \cap T = U
      BY <2>1
    <3> QED
      BY <3>1
  <2>2. CASE U # {}
    <3>1. PICK x \in U : TRUE
      BY <2>2
    <3>2. U \ {x} \in (SUBSET U) \ {U}
      BY <3>1
    <3>3. SumOver(w, U \ {x}) = SumOver(w, (U \ {x}) \cap T)
      BY <1>1, <3>2
    <3>4. IsFiniteSet(U) /\ U \in SUBSET X /\ IsFiniteSet(U \cap T) /\ U \cap T \in SUBSET X
      BY FS_Subset
    <3>5. SumOver(w, U) = w[x] + SumOver(w, U \ {x})
      BY <3>1, <3>4, SumTakeOut
    <3>6. CASE x \in T
      <4>1. x \in U \cap T /\ (U \ {x}) \cap T = (U \cap T) \ {x}
        BY <3>1, <3>6
      <4>2. SumOver(w, U \cap T) = w[x] + SumOver(w, (U \cap T) \ {x})
        BY <3>4, <4>1, SumTakeOut
      <4> QED
        BY <3>3, <3>5, <4>1, <4>2
    <3>7. CASE x \notin T
      <4>1. (U \ {x}) \cap T = U \cap T /\ w[x] = 0
        BY <3>1, <3>7
      <4>2. SumOver(w, U \cap T) \in Int
        BY <3>4, SumTakeOut
      <4>3. SumOver(w, U) = 0 + SumOver(w, U \cap T)
        BY <3>3, <3>5, <4>1
      <4>4. SumOver(w, U) = SumOver(w, U \cap T)
        BY ONLY <4>2, <4>3
      <4> QED
        BY <4>4
    <3> QED
      BY <3>6, <3>7
  <2> QED
    BY <2>1, <2>2
<1>2. SUBSET S \subseteq Good
  <2> HIDE DEF Good
  <2> QED
    BY <1>1, SubsetInduction
<1>3. S \in SUBSET S /\ S \cap T = T
  OBVIOUS
<1> QED
  BY <1>2, <1>3

LEMMA BothGrow ==
  ASSUME NEW p \in Int, NEW q \in Int, NEW r \in Int, NEW s \in Int, NEW d \in Int,
         NEW p1, NEW s1, p + q = r + s, p1 = p + d, s1 = s + d
  PROVE  p1 + q = r + s1
<1> QED
  OBVIOUS

(* The integer b grows, in n steps, by the values of w that follow the first *)
(* L; from is one of the positions up to there.                              *)
Grows(b, n, w, L) == \A k \in 1..n : b[k] = b[k - 1] + w[L + k]

Accrues(b, n, w, L, from) ==
  /\ n \in Nat /\ L \in Nat /\ from \in 0..L
  /\ w \in [1..(L + n) -> Int] /\ b \in [0..n -> Int]
  /\ Grows(b, n, w, L)

(* A quantity that grows by one value after another grows by their sum.     *)
LEMMA SumAlong ==
  ASSUME NEW n, NEW L, NEW from, NEW w, NEW b, Accrues(b, n, w, L, from)
  PROVE  b[n] + SumOver(w, (from + 1)..L) = b[0] + SumOver(w, (from + 1)..(L + n))
<1> DEFINE X == 1..(L + n)
           Upto(k) == (from + 1)..(L + k)
           T == {k \in Nat : k <= n => b[k] + SumOver(w, Upto(0)) = b[0] + SumOver(w, Upto(k))}
<1>1. /\ n \in Nat /\ L \in Nat /\ from \in Nat /\ from <= L
      /\ X = 1..(L + n) /\ Grows(b, n, w, L)
  BY DEF Accrues
<1>2. w \in [X -> Int] /\ b \in [0..n -> Int]
  BY DEF Accrues
<1> HIDE DEF X
<1>3. \A k \in 0..n : /\ Upto(k) \in SUBSET X /\ IsFiniteSet(Upto(k))
                      /\ SumOver(w, Upto(k)) \in Int
  <2> SUFFICES ASSUME NEW k \in 0..n
               PROVE  /\ Upto(k) \in SUBSET X /\ IsFiniteSet(Upto(k))
                      /\ SumOver(w, Upto(k)) \in Int
    OBVIOUS
  <2>1. from + 1 \in Int /\ L + k \in Int /\ L + k <= L + n /\ from + 1 >= 1
    BY <1>1
  <2>2. Upto(k) \in SUBSET X
    BY <1>1, <2>1
  <2>3. IsFiniteSet(Upto(k))
    BY <2>1, FS_Interval
  <2> HIDE DEF Upto
  <2> QED
    BY <1>2, <2>2, <2>3, SumTakeOut
<1>4. 0 \in T
  BY <1>1
<1>5. ASSUME NEW k \in Nat, k \in T PROVE k + 1 \in T
  <2> SUFFICES ASSUME k + 1 <= n
               PROVE  b[k + 1] + SumOver(w, Upto(0)) = b[0] + SumOver(w, Upto(k + 1))
    OBVIOUS
  <2>1. k \in 0..n /\ k + 1 \in 1..n /\ (k + 1) - 1 = k /\ 0 \in 0..n
    BY <1>1
  <2>2. b[k] + SumOver(w, Upto(0)) = b[0] + SumOver(w, Upto(k))
    BY <1>5, <2>1
  <2> DEFINE x == L + (k + 1)
             U == Upto(k)
  <2>3. x \in X /\ x \notin U
    BY <1>1, <2>1
  <2>4. Upto(k + 1) = U \cup {x}
    <3>1. \A y \in Int : y \in Upto(k + 1) <=> y \in U \/ y = x
      BY <1>1, <2>1
    <3>2. Upto(k + 1) \subseteq Int /\ U \subseteq Int /\ x \in Int
      BY <1>1, <2>1
    <3> HIDE DEF Upto, U, x
    <3> QED
      BY <3>1, <3>2
  <2>5. U \in SUBSET X /\ IsFiniteSet(U) /\ SumOver(w, U) \in Int
    BY <1>3, <2>1
  <2>6. b[k + 1] = b[k] + w[x]
    BY <1>1, <2>1 DEF Grows
  <2>7. SumOver(w, Upto(0)) \in Int
    BY <1>3, <2>1
  <2>8. SumOver(w, Upto(k + 1)) = SumOver(w, U) + w[x]
    <3> HIDE DEF x, U, Upto, T
    <3>1. SumOver(w, U \cup {x}) = SumOver(w, U) + w[x]
      BY <1>2, <2>3, <2>5, SumAdd
    <3> QED
      BY <2>4, <3>1
  <2> HIDE DEF x, U, Upto, T
  <2>9. b[k] + SumOver(w, Upto(0)) = b[0] + SumOver(w, U)
    BY <2>2 DEF U
  <2>10. b[k] \in Int /\ b[k + 1] \in Int /\ b[0] \in Int /\ w[x] \in Int
    BY <1>2, <2>1, <2>3
  <2> DEFINE p == b[k]
             p1 == b[k + 1]
             q == SumOver(w, Upto(0))
             r == b[0]
             s == SumOver(w, U)
             s1 == SumOver(w, Upto(k + 1))
             d == w[x]
  <2>11. p \in Int /\ q \in Int /\ r \in Int /\ s \in Int /\ d \in Int
    BY <2>5, <2>7, <2>10
  <2>12. p + q = r + s /\ p1 = p + d /\ s1 = s + d
    BY <2>6, <2>8, <2>9
  <2> HIDE DEF p, p1, q, r, s, s1, d
  <2>13. p1 + q = r + s1
    BY <2>11, <2>12, BothGrow
  <2> QED
    BY <2>13 DEF p1, q, r, s1
<1>6. Nat \subseteq T
  <2> HIDE DEF T
  <2> QED
    BY <1>4, <1>5, NatSetInduction
<1>7. Upto(0) = (from + 1)..L
  BY <1>1
<1> QED
  BY <1>1, <1>6, <1>7

------------------------------------------------------------------------------
(* Flattening a sequence of sequences                                       *)

(* f lists the concatenations of the first 1, 2, ..., n sequences.          *)
Flattens(f, seqs, n) ==
  f = [i \in 1..n |-> IF i = 1 THEN seqs[i] ELSE f[i - 1] \o seqs[i]]

LEMMA FlattensExists ==
  ASSUME NEW seqs, NEW n \in Nat
  PROVE  \E f : Flattens(f, seqs, n)
<1> DEFINE T == {k \in Nat : \E f : Flattens(f, seqs, k)}
<1>1. 0 \in T
  <2> DEFINE f == [i \in 1..0 |-> seqs[i]]
  <2>1. Flattens(f, seqs, 0)
    BY DEF Flattens
  <2> QED
    BY <2>1
<1>2. ASSUME NEW k \in Nat, k \in T PROVE k + 1 \in T
  <2>1. PICK f : Flattens(f, seqs, k)
    BY <1>2
  <2> DEFINE g == [i \in 1..(k + 1) |->
                     IF i = k + 1 THEN (IF k = 0 THEN seqs[1] ELSE f[k] \o seqs[k + 1])
                     ELSE f[i]]
             h == [i \in 1..(k + 1) |-> IF i = 1 THEN seqs[i] ELSE g[i - 1] \o seqs[i]]
  <2>2. ASSUME NEW i \in 1..(k + 1)
        PROVE  g[i] = IF i = 1 THEN seqs[i] ELSE g[i - 1] \o seqs[i]
    <3>1. CASE i = k + 1
      <4>1. i # 1 => g[i - 1] = f[k] /\ k # 0
        BY <3>1
      <4> QED
        BY <3>1, <4>1
    <3>2. CASE i \in 1..k
      <4>1. f[i] = IF i = 1 THEN seqs[i] ELSE f[i - 1] \o seqs[i]
        BY <2>1, <3>2 DEF Flattens
      <4>2. g[i] = f[i] /\ (i # 1 => g[i - 1] = f[i - 1])
        BY <3>2
      <4> QED
        BY <4>1, <4>2
    <3> QED
      BY <3>1, <3>2
  <2>3. Flattens(g, seqs, k + 1)
    <3>1. g = [i \in 1..(k + 1) |-> g[i]]
      OBVIOUS
    <3> HIDE DEF g
    <3> QED
      BY <2>2, <3>1 DEF Flattens
  <2> QED
    BY <2>3
<1>3. Nat \subseteq T
  <2> HIDE DEF T
  <2> QED
    BY <1>1, <1>2, NatSetInduction
<1> QED
  BY <1>3

(* FlattenSeq is such a list's last entry.                                  *)
LEMMA FlattenIsLast ==
  ASSUME NEW S, NEW seqs \in Seq(Seq(S)), Len(seqs) # 0
  PROVE  \E f : /\ Flattens(f, seqs, Len(seqs)) /\ f \in [1..Len(seqs) -> Seq(S)]
                /\ FlattenSeq(seqs) = f[Len(seqs)]
<1> DEFINE n == Len(seqs)
           f == CHOOSE f : f = [i \in 1..n |-> IF i = 1 THEN seqs[i] ELSE f[i - 1] \o seqs[i]]
<1>1. n \in Nat /\ n # 0 /\ \A i \in 1..n : seqs[i] \in Seq(S)
  OBVIOUS
<1>2. FlattenSeq(seqs) = f[n]
  BY DEF FlattenSeq
<1>3. Flattens(f, seqs, n)
  <2>1. \E g : Flattens(g, seqs, n)
    BY <1>1, FlattensExists
  <2>2. \E g : g = [i \in 1..n |-> IF i = 1 THEN seqs[i] ELSE g[i - 1] \o seqs[i]]
    BY <2>1 DEF Flattens
  <2> HIDE DEF n
  <2> QED
    BY <2>2 DEF Flattens
<1> HIDE DEF f, n
<1> DEFINE T == {k \in Nat : k \in 1..n => f[k] \in Seq(S)}
<1>4. 0 \in T
  OBVIOUS
<1>5. ASSUME NEW k \in Nat, k \in T PROVE k + 1 \in T
  <2> SUFFICES ASSUME k + 1 \in 1..n PROVE f[k + 1] \in Seq(S)
    OBVIOUS
  <2>1. f[k + 1] = IF k + 1 = 1 THEN seqs[k + 1] ELSE f[(k + 1) - 1] \o seqs[k + 1]
    BY <1>3 DEF Flattens
  <2>2. CASE k = 0
    BY <1>1, <2>1, <2>2
  <2>3. CASE k # 0
    <3>1. k \in 1..n /\ (k + 1) - 1 = k /\ k + 1 # 1
      BY <1>1, <2>3
    <3>2. f[k] \in Seq(S) /\ seqs[k + 1] \in Seq(S)
      BY <1>1, <1>5, <3>1
    <3>3. f[k + 1] = f[k] \o seqs[k + 1]
      BY <2>1, <3>1
    <3> QED
      BY <3>2, <3>3
  <2> QED
    BY <2>2, <2>3
<1>6. Nat \subseteq T
  <2> HIDE DEF T
  <2> QED
    BY <1>4, <1>5, NatSetInduction
<1>7. f \in [1..n -> Seq(S)]
  <2> DEFINE body(i) == IF i = 1 THEN seqs[i] ELSE f[i - 1] \o seqs[i]
  <2>1. f = [i \in 1..n |-> body(i)]
    BY <1>3 DEF Flattens
  <2>2. \A i \in 1..n : f[i] \in Seq(S)
    <3>1. \A i \in 1..n : i \in Nat /\ i \in T
      BY <1>6, <1>1
    <3> QED
      BY <3>1
  <2> HIDE DEF body, T
  <2> QED
    BY <2>1, <2>2
<1> QED
  BY <1>2, <1>3, <1>7 DEF n

(* Appending a sequence to those flattened appends its elements.            *)
LEMMA FlattenAppend ==
  ASSUME NEW S, NEW seqs \in Seq(Seq(S)), NEW x \in Seq(S)
  PROVE  /\ FlattenSeq(seqs) \in Seq(S)
         /\ FlattenSeq(Append(seqs, x)) = FlattenSeq(seqs) \o x
<1> DEFINE n == Len(seqs)
           t == Append(seqs, x)
<1>1. /\ t \in Seq(Seq(S)) /\ n \in Nat /\ Len(t) = n + 1 /\ t[n + 1] = x
      /\ \A i \in 1..n : t[i] = seqs[i]
  OBVIOUS
<1> HIDE DEF t
<1>2. PICK g : /\ Flattens(g, t, n + 1) /\ g \in [1..(n + 1) -> Seq(S)]
               /\ FlattenSeq(t) = g[n + 1]
  <2>1. Len(t) # 0
    BY <1>1
  <2>2. \E g : /\ Flattens(g, t, Len(t)) /\ g \in [1..Len(t) -> Seq(S)]
               /\ FlattenSeq(t) = g[Len(t)]
    BY <1>1, <2>1, FlattenIsLast
  <2> HIDE DEF n
  <2> QED
    BY <1>1, <2>2
<1>3. CASE n = 0
  <2>1. FlattenSeq(seqs) = seqs /\ seqs = <<>>
    BY <1>3 DEF FlattenSeq
  <2>2. g[1] = t[1] /\ t[1] = x /\ n + 1 = 1
    BY <1>1, <1>2, <1>3 DEF Flattens
  <2>3. FlattenSeq(t) = x
    BY <1>2, <2>2
  <2> QED
    BY <2>1, <2>3 DEF t
<1>4. CASE n # 0
  <2>1. PICK f : /\ Flattens(f, seqs, n) /\ f \in [1..n -> Seq(S)]
                 /\ FlattenSeq(seqs) = f[n]
    BY <1>4, FlattenIsLast
  <2> HIDE DEF n
  <2> DEFINE T == {k \in Nat : k \in 1..n => g[k] = f[k]}
  <2>2. 0 \in T
    OBVIOUS
  <2>3. ASSUME NEW k \in Nat, k \in T PROVE k + 1 \in T
    <3> SUFFICES ASSUME k + 1 \in 1..n PROVE g[k + 1] = f[k + 1]
      OBVIOUS
    <3>1. k + 1 \in 1..(n + 1) /\ t[k + 1] = seqs[k + 1] /\ (k + 1) - 1 = k
      BY <1>1
    <3>2. g[k + 1] = IF k + 1 = 1 THEN t[k + 1] ELSE g[k] \o t[k + 1]
      BY <1>2, <3>1 DEF Flattens
    <3>3. f[k + 1] = IF k + 1 = 1 THEN seqs[k + 1] ELSE f[k] \o seqs[k + 1]
      BY <2>1, <3>1 DEF Flattens
    <3>4. k + 1 # 1 => g[k] = f[k]
      BY <1>1, <2>3
    <3> QED
      BY <3>1, <3>2, <3>3, <3>4
  <2>4. Nat \subseteq T
    <3> HIDE DEF T
    <3> QED
      BY <2>2, <2>3, NatSetInduction
  <2>5. n \in 1..n /\ n + 1 \in 1..(n + 1) /\ (n + 1) - 1 = n /\ n + 1 # 1
    BY <1>1, <1>4
  <2>6. g[n] = f[n]
    BY <1>1, <2>4, <2>5
  <2>7. g[n + 1] = g[n] \o t[n + 1]
    BY <1>2, <2>5 DEF Flattens
  <2>8. f[n] \in Seq(S)
    BY <2>1, <2>5
  <2> HIDE DEF T
  <2> QED
    BY <1>1, <1>2, <2>1, <2>6, <2>7, <2>8 DEF t
<1> QED
  BY <1>3, <1>4

==============================================================================
