---------------------------- MODULE Admission_proofs ----------------------------
(***************************************************************************)
(* What the dispatcher's sums are worth, and what the view of resources    *)
(* says, for all tasks, tenants, requests, limits and widths of a u64.     *)
(*                                                                         *)
(* A sum over the tasks is a fold.  That a fold takes its elements one by  *)
(* one is shown first, and what follows for every finite set: a set of     *)
(* finite sets that has members has a smallest one (SubsetInduction).      *)
(* AddedUpValue then reads every dimension of a sum as a number, and the   *)
(* lemmas on Covers carry the numbers through a cycle.                     *)
(*                                                                         *)
(* AdmissionInv relates the sums of a cycle to what the rows hold.  They   *)
(* cover it as far as a u64 goes (RuntimeCovered, TenantsCovered), and     *)
(* what may still be taken back was added to the runtime's without         *)
(* saturating.  InOrder says how the list and the rows belong together,    *)
(* and PassedOver that a row the loop has left behind still does not fit.  *)
(***************************************************************************)
EXTENDS ResourceView, FiniteSetTheorems, WellFoundedInduction, TLAPS

-----------------------------------------------------------------------------
(* Induction over finite sets, and folds *)

\* WFMin for sets: a set of elements of a well-founded order has a minimal one.
LEMMA MinimalElement ==
    ASSUME NEW R, NEW F, IsWellFoundedOn(R, F), NEW Bad, Bad \subseteq F, Bad # {}
    PROVE  \E X \in Bad : \A Y \in Bad : ~(<<Y, X>> \in R)
  BY WFMin, Zenon

\* Induction over the subsets of a finite set, its hypothesis given as a set.
LEMMA SubsetInduction ==
    ASSUME NEW Base, IsFiniteSet(Base), NEW Good \in SUBSET (SUBSET Base),
           \A X \in SUBSET Base : (\A Y \in SUBSET X : Y # X => Y \in Good) => X \in Good
    PROVE  Good = SUBSET Base
<1> SUFFICES ASSUME Good # SUBSET Base PROVE FALSE
  OBVIOUS
<1> DEFINE Bad == (SUBSET Base) \ Good
           R == StrictSubsetOrdering(Base)
           F == FiniteSubsetsOf(Base)
<1>1. Bad # {} /\ Bad \subseteq F
  BY FS_Subset DEF FiniteSubsetsOf
<1>2. IsWellFoundedOn(R, F)
  BY FS_StrictSubsetOrderingWellFounded
<1>3. PICK X \in Bad : \A Y \in Bad : ~(<<Y, X>> \in R)
  <2> HIDE DEF R, Bad, F
  <2> QED
    BY <1>1, <1>2, MinimalElement
<1>4. ASSUME NEW Y \in SUBSET X, Y # X PROVE Y \in Good
  <2>1. X \in SUBSET Base /\ Y \in SUBSET Base
    OBVIOUS
  <2>2. <<Y, X>> \in R
    BY <1>4, <2>1 DEF StrictSubsetOrdering
  <2>3. Y \notin Bad
    BY <1>3, <2>2
  <2> QED
    BY <2>1, <2>3
<1> QED
  BY <1>4

\* Induction over Nat, its hypothesis given as a set.
LEMMA NatSetInduction ==
    ASSUME NEW Good \in SUBSET Nat, 0 \in Good, \A n \in Good : n + 1 \in Good
    PROVE  Good = Nat
<1> SUFFICES ASSUME Good # Nat PROVE FALSE
  OBVIOUS
<1> DEFINE Bad == Nat \ Good
           R == OpToRel(<, Nat)
<1>1. \A m, n \in Nat : m < n => <<m, n>> \in R
  BY Zenon DEF OpToRel
<1>2. IsWellFoundedOn(R, Nat)
  BY NatLessThanWellFounded
<1>3. Bad # {} /\ Bad \subseteq Nat /\ \A n \in Nat : n \in Bad <=> n \notin Good
  OBVIOUS
<1> HIDE DEF R, Bad
<1>4. PICK n \in Bad : \A m \in Bad : ~(<<m, n>> \in R)
  <2>1. \E n \in Bad : \A m \in Bad : ~(<<m, n>> \in R)
    BY <1>2, <1>3, WFMin, Zenon
  <2> QED
    BY <2>1
<1>5. n # 0 /\ n - 1 \in Nat /\ n - 1 < n
  BY <1>3, <1>4
<1>6. n - 1 \in Good
  BY <1>1, <1>3, <1>4, <1>5
<1>7. n \in Good
  BY <1>3, <1>4, <1>5, <1>6
<1> QED
  BY <1>3, <1>4, <1>7

Some(S) == CHOOSE x \in S : TRUE

LEMMA SomeIn == \A S : S # {} => Some(S) \in S
  BY DEF Some

\* g is the fold of h from start over the subsets of S, whose elements it takes as
\* the folds of the community modules do.
FoldsOver(g, S, V, start, h) ==
    /\ g \in [SUBSET S -> V]
    /\ \A T \in SUBSET S : g[T] = IF T = {} THEN start ELSE h[<<Some(T), g[T \ {Some(T)}]>>]

LEMMA FoldExists ==
    ASSUME NEW S, IsFiniteSet(S), NEW V, NEW start \in V, NEW h \in [S \X V -> V]
    PROVE  \E g : FoldsOver(g, S, V, start, h)
<1> DEFINE Small(n) == {T \in SUBSET S : Cardinality(T) <= n}
           Folds(g, n) == \A T \in Small(n) :
                            g[T] = IF T = {} THEN start ELSE h[<<Some(T), g[T \ {Some(T)}]>>]
           Good == {n \in Nat : \E g \in [Small(n) -> V] : Folds(g, n)}
<1>1. 0 \in Good
  <2>1. \A T \in Small(0) : T = {}
    <3> SUFFICES ASSUME NEW T \in Small(0) PROVE T = {}
      OBVIOUS
    <3>1. IsFiniteSet(T) /\ Cardinality(T) \in Nat /\ Cardinality(T) <= 0
      BY FS_Subset, FS_CardinalityType
    <3> QED
      BY <3>1, FS_EmptySet
  <2> DEFINE g == [T \in Small(0) |-> start]
  <2>2. g \in [Small(0) -> V] /\ Folds(g, 0)
    BY <2>1
  <2> QED
    BY <2>2
<1>2. ASSUME NEW n \in Good PROVE n + 1 \in Good
  <2>1. PICK g \in [Small(n) -> V] : Folds(g, n)
    OBVIOUS
  <2>2. ASSUME NEW T \in Small(n + 1), T # {}
        PROVE  Some(T) \in T /\ Some(T) \in S /\ T \ {Some(T)} \in Small(n)
    <3>1. Some(T) \in T
      BY <2>2, SomeIn
    <3>2. IsFiniteSet(T) /\ Cardinality(T) \in Nat /\ Cardinality(T) <= n + 1
      BY FS_Subset, FS_CardinalityType
    <3>3. Cardinality(T \ {Some(T)}) = Cardinality(T) - 1
      BY <3>1, <3>2, FS_RemoveElement
    <3> QED
      BY <3>1, <3>2, <3>3
  <2>3. Small(n) \subseteq Small(n + 1)
    <3> SUFFICES ASSUME NEW T \in Small(n) PROVE T \in Small(n + 1)
      OBVIOUS
    <3>1. Cardinality(T) \in Nat
      BY FS_Subset, FS_CardinalityType
    <3> QED
      BY <3>1
  <2> DEFINE k == [T \in Small(n + 1) |->
                     IF T = {} THEN start ELSE h[<<Some(T), g[T \ {Some(T)}]>>]]
  <2> HIDE DEF Small
  <2>4. \A T \in Small(n) : k[T] = g[T]
    BY <2>1, <2>3
  <2>5. k \in [Small(n + 1) -> V]
    BY <2>2
  <2>6. Folds(k, n + 1)
    <3>1. ASSUME NEW T \in Small(n + 1), T # {} PROVE k[T \ {Some(T)}] = g[T \ {Some(T)}]
      BY <2>2, <2>4, <3>1
    <3>2. \A T \in Small(n + 1) :
             k[T] = IF T = {} THEN start ELSE h[<<Some(T), g[T \ {Some(T)}]>>]
      OBVIOUS
    <3> HIDE DEF k
    <3> QED
      BY <3>1, <3>2
  <2> HIDE DEF k, Folds
  <2>7. \E f \in [Small(n + 1) -> V] : Folds(f, n + 1)
    BY <2>5, <2>6
  <2> QED
    BY <2>7
<1>3. Good = Nat
  <2>1. Good \in SUBSET Nat
    OBVIOUS
  <2> HIDE DEF Good
  <2> QED
    BY <1>1, <1>2, <2>1, NatSetInduction
<1>4. Cardinality(S) \in Nat
  BY FS_CardinalityType
<1>5. Small(Cardinality(S)) = SUBSET S
  BY FS_Subset
<1>6. \E g \in [Small(Cardinality(S)) -> V] : Folds(g, Cardinality(S))
  BY <1>3, <1>4
<1> QED
  BY <1>5, <1>6 DEF FoldsOver

\* k computes the same, as far as its values are in V.
Computes(k, S, V, start, h) ==
    /\ k[{}] = start
    /\ \A T \in SUBSET S : (T # {} /\ k[T \ {Some(T)}] \in V) =>
                             k[T] = h[<<Some(T), k[T \ {Some(T)}]>>]

Agree(k, g, S) == \A T \in SUBSET S : k[T] = g[T]

\* Whatever else computes the values of a fold agrees with it.
LEMMA FoldUnique ==
    ASSUME NEW S, NEW V, NEW start, NEW h, NEW g, FoldsOver(g, S, V, start, h),
           IsFiniteSet(S), NEW R, NEW k, Computes(k, R, V, start, h), R \in SUBSET S
    PROVE  Agree(k, g, R)
<1> DEFINE Good == {T \in SUBSET R : k[T] = g[T]}
<1>1. ASSUME NEW T \in SUBSET R, \A U \in SUBSET T : U # T => U \in Good
      PROVE  T \in Good
  <2>1. CASE T = {}
    BY <2>1 DEF FoldsOver, Computes
  <2>2. CASE T # {}
    <3>1. Some(T) \in T
      BY <2>2, SomeIn
    <3>2. T \ {Some(T)} \in Good
      BY <1>1, <3>1
    <3>3. k[T \ {Some(T)}] = g[T \ {Some(T)}] /\ g[T \ {Some(T)}] \in V
      BY <3>2 DEF FoldsOver
    <3> QED
      BY <2>2, <3>3 DEF FoldsOver, Computes
  <2> QED
    BY <2>1, <2>2
<1>2. IsFiniteSet(R)
  BY FS_Subset
<1>3. Good \in SUBSET (SUBSET R)
  OBVIOUS
<1>4. Good = SUBSET R
  <2> HIDE DEF Good
  <2> QED
    BY <1>1, <1>2, <1>3, SubsetInduction
<1> QED
  BY <1>4 DEF Agree

LEMMA SumFold ==
    ASSUME NEW Base, IsFiniteSet(Base), NEW w \in [Base -> Nat]
    PROVE  \A S \in SUBSET Base :
              /\ SumFunctionOnSet(w, S) \in Nat
              /\ SumFunctionOnSet(w, S) = IF S = {} THEN 0
                   ELSE w[Some(S)] + SumFunctionOnSet(w, S \ {Some(S)})
<1> DEFINE h == [p \in Base \X Nat |-> w[p[1]] + p[2]]
<1>1. h \in [Base \X Nat -> Nat]
  OBVIOUS
<1>2. PICK g : FoldsOver(g, Base, Nat, 0, h)
  <2> HIDE DEF h
  <2> QED
    BY <1>1, FoldExists
<1>3. \A T \in SUBSET Base, n \in Nat : T # {} => h[<<Some(T), n>>] = w[Some(T)] + n
  BY SomeIn
<1>4. ASSUME NEW S \in SUBSET Base PROVE SumFunctionOnSet(w, S) = g[S]
  <2> DEFINE Iter(k) == k = [T \in SUBSET S |-> IF T = {} THEN 0
                                   ELSE w[Some(T)] + k[T \ {Some(T)}]]
             iter == CHOOSE k : Iter(k)
  <2>1. SumFunctionOnSet(w, S) = iter[S]
    BY DEF SumFunctionOnSet, FoldFunctionOnSet, MapThenFoldSet, Some
  <2>2. \E k : Iter(k)
    <3> DEFINE k == [T \in SUBSET S |-> g[T]]
    <3>1. \A T \in SUBSET S : k[T] = IF T = {} THEN 0 ELSE w[Some(T)] + k[T \ {Some(T)}]
      <4> SUFFICES ASSUME NEW T \in SUBSET S
                   PROVE  k[T] = IF T = {} THEN 0 ELSE w[Some(T)] + k[T \ {Some(T)}]
        OBVIOUS
      <4>1. T \ {Some(T)} \in SUBSET S /\ g[T \ {Some(T)}] \in Nat
        BY <1>2 DEF FoldsOver
      <4>2. g[T] = IF T = {} THEN 0 ELSE h[<<Some(T), g[T \ {Some(T)}]>>]
        BY <1>2 DEF FoldsOver
      <4> HIDE DEF h
      <4> QED
        BY <1>3, <4>1, <4>2
    <3>2. Iter(k)
      BY <3>1
    <3> HIDE DEF k
    <3> QED
      BY <3>2
  <2>3. Iter(iter)
    <3> HIDE DEF Iter
    <3> QED
      BY <2>2
  <2>4. Computes(iter, S, Nat, 0, h)
    <3> HIDE DEF h, iter
    <3> QED
      BY <1>3, <2>3 DEF Computes
  <2>5. Agree(iter, g, S)
    <3> HIDE DEF h, iter, Iter
    <3> QED
      BY <1>2, <2>4, FoldUnique
  <2> QED
    BY <2>1, <2>5 DEF Agree
<1> HIDE DEF h
<1>5. \A S \in SUBSET Base :
         g[S] \in Nat /\ g[S] = IF S = {} THEN 0 ELSE w[Some(S)] + g[S \ {Some(S)}]
  BY <1>2, <1>3 DEF FoldsOver
<1> QED
  BY <1>4, <1>5

\* The sum is written out whichever element is taken first.
AddsUp(w, Base) ==
    \A S \in SUBSET Base :
        /\ SumFunctionOnSet(w, S) \in Nat
        /\ S = {} => SumFunctionOnSet(w, S) = 0
        /\ \A x \in S : SumFunctionOnSet(w, S) = w[x] + SumFunctionOnSet(w, S \ {x})

LEMMA SumAddsUp ==
    ASSUME NEW Base, IsFiniteSet(Base), NEW w \in [Base -> Nat]
    PROVE  AddsUp(w, Base)
<1> DEFINE Sum(S) == SumFunctionOnSet(w, S)
           Good == {S \in SUBSET Base : \A x \in S : Sum(S) = w[x] + Sum(S \ {x})}
<1>1. \A S \in SUBSET Base : /\ Sum(S) \in Nat
                             /\ S = {} => Sum(S) = 0
                             /\ S # {} => Sum(S) = w[Some(S)] + Sum(S \ {Some(S)})
  BY SumFold
<1> HIDE DEF Sum
<1>2. ASSUME NEW S \in SUBSET Base, \A U \in SUBSET S : U # S => U \in Good
      PROVE  S \in Good
  <2> SUFFICES ASSUME NEW x \in S PROVE Sum(S) = w[x] + Sum(S \ {x})
    OBVIOUS
  <2> DEFINE y == Some(S)
  <2>1. y \in S /\ Sum(S) = w[y] + Sum(S \ {y})
    BY <1>1, SomeIn
  <2> HIDE DEF y
  <2>2. CASE x = y
    BY <2>1, <2>2
  <2>3. CASE x # y
    <3>1. S \ {y} \in Good /\ S \ {x} \in Good
      BY <1>2, <2>1
    <3>2. Sum(S \ {y}) = w[x] + Sum((S \ {y}) \ {x})
      BY <2>3, <3>1
    <3>3. Sum(S \ {x}) = w[y] + Sum((S \ {x}) \ {y})
      BY <2>1, <2>3, <3>1
    <3>4. (S \ {x}) \ {y} = (S \ {y}) \ {x}
      OBVIOUS
    <3>5. Sum((S \ {x}) \ {y}) \in Nat /\ w[x] \in Nat /\ w[y] \in Nat
      BY <1>1, <2>1
    <3> QED
      BY <2>1, <3>2, <3>3, <3>4, <3>5
  <2> QED
    BY <2>2, <2>3
<1>3. Good \in SUBSET (SUBSET Base)
  OBVIOUS
<1>4. Good = SUBSET Base
  <2> HIDE DEF Good
  <2> QED
    BY <1>2, <1>3, SubsetInduction
<1> QED
  BY <1>1, <1>4 DEF Sum, AddsUp

\* Only the summands of the set matter.
LEMMA SumCongruent ==
    ASSUME NEW Base, IsFiniteSet(Base), NEW w, NEW v, AddsUp(w, Base), AddsUp(v, Base)
    PROVE  \A S \in SUBSET Base : (\A x \in S : w[x] = v[x]) =>
              SumFunctionOnSet(w, S) = SumFunctionOnSet(v, S)
<1> DEFINE SumW(S) == SumFunctionOnSet(w, S)
           SumV(S) == SumFunctionOnSet(v, S)
           Good == {S \in SUBSET Base : (\A x \in S : w[x] = v[x]) => SumW(S) = SumV(S)}
<1>1. \A S \in SUBSET Base : /\ S = {} => SumW(S) = 0
                             /\ \A x \in S : SumW(S) = w[x] + SumW(S \ {x})
  BY DEF AddsUp
<1>2. \A S \in SUBSET Base : /\ S = {} => SumV(S) = 0
                             /\ \A x \in S : SumV(S) = v[x] + SumV(S \ {x})
  BY DEF AddsUp
<1> HIDE DEF SumW, SumV
<1>3. ASSUME NEW S \in SUBSET Base, \A U \in SUBSET S : U # S => U \in Good
      PROVE  S \in Good
  <2> SUFFICES ASSUME \A x \in S : w[x] = v[x] PROVE SumW(S) = SumV(S)
    OBVIOUS
  <2>1. CASE S = {}
    BY <1>1, <1>2, <2>1
  <2>2. ASSUME NEW x \in S PROVE SumW(S) = SumV(S)
    <3>1. S \ {x} \in Good
      BY <1>3
    <3>2. SumW(S \ {x}) = SumV(S \ {x}) /\ w[x] = v[x]
      BY <3>1
    <3> QED
      BY <1>1, <1>2, <3>2
  <2> QED
    BY <2>1, <2>2
<1>4. Good \in SUBSET (SUBSET Base)
  OBVIOUS
<1>5. Good = SUBSET Base
  <2> HIDE DEF Good
  <2> QED
    BY <1>3, <1>4, SubsetInduction
<1> QED
  BY <1>5 DEF SumW, SumV

-----------------------------------------------------------------------------
(* Options and amounts *)

LEMMA OptionValue ==
    /\ OrZero({}) = 0
    /\ \A n : OrZero({n}) = n
    /\ \A o \in Option : OrZero(o) \in U64 /\ (o # {} => o = {OrZero(o)})
<1>1. \A n : OrZero({n}) = n
  <2> SUFFICES ASSUME NEW n PROVE OrZero({n}) = n
    OBVIOUS
  <2>1. (CHOOSE m \in {n} : TRUE) \in {n}
    OBVIOUS
  <2> QED
    BY <2>1 DEF OrZero
<1>2. OrZero({}) = 0
  BY DEF OrZero
<1>3. 0 \in U64
  BY MaxU64Assumption DEF U64
<1>4. ASSUME NEW o \in Option PROVE OrZero(o) \in U64 /\ (o # {} => o = {OrZero(o)})
  <2>1. CASE o = {}
    BY <1>2, <1>3, <2>1
  <2>2. CASE o # {}
    <3>1. PICK n \in U64 : o = {n}
      BY <2>2 DEF Option
    <3> QED
      BY <1>1, <3>1
  <2> QED
    BY <2>1, <2>2
<1> QED
  BY <1>1, <1>2, <1>4

LEMMA Saturates ==
    ASSUME NEW a \in Nat, NEW b \in Nat
    PROVE  /\ SaturatingAdd(a, b) \in U64 /\ SaturatingSub(a, b) \in Nat
           /\ SaturatingSub(a, b) <= a
           /\ SaturatingAdd(a, b) <= a + b
           /\ SaturatingAdd(a, b) < MaxU64 => SaturatingAdd(a, b) = a + b
           /\ a <= MaxU64 => SaturatingAdd(a, b) >= a
  BY MaxU64Assumption DEF SaturatingAdd, SaturatingSub, U64

\* What AddOption and SubOption do to the number.
LEMMA AddOptionValue ==
    ASSUME NEW a \in Option, NEW x \in Option
    PROVE  /\ AddOption(a, x) \in Option
           /\ OrZero(AddOption(a, x)) = SaturatingAdd(OrZero(a), OrZero(x))
           /\ a # {} => AddOption(a, x) # {}
<1>1. OrZero(a) \in U64 /\ OrZero(x) \in U64 /\ OrZero(a) \in Nat /\ OrZero(a) <= MaxU64
  BY OptionValue DEF U64
<1>2. CASE x = {}
  <2>1. SaturatingAdd(OrZero(a), 0) = OrZero(a)
    BY <1>1, MaxU64Assumption DEF SaturatingAdd
  <2> QED
    BY <1>2, <2>1, OptionValue DEF AddOption
<1>3. CASE x # {}
  <2>1. SaturatingAdd(OrZero(a), OrZero(x)) \in U64
    BY <1>1, Saturates DEF U64
  <2>2. AddOption(a, x) = {SaturatingAdd(OrZero(a), OrZero(x))}
    BY <1>3 DEF AddOption
  <2> QED
    BY <2>1, <2>2, OptionValue DEF Option
<1> QED
  BY <1>2, <1>3

LEMMA SubOptionValue ==
    ASSUME NEW a \in Option, NEW x \in Option
    PROVE  /\ SubOption(a, x) \in Option
           /\ OrZero(SubOption(a, x)) = SaturatingSub(OrZero(a), OrZero(x))
           /\ a # {} => SubOption(a, x) # {}
<1>1. OrZero(a) \in U64 /\ OrZero(x) \in U64 /\ OrZero(a) \in Nat /\ OrZero(x) \in Nat
  BY OptionValue DEF U64
<1>2. CASE x = {} \/ a = {}
  <2>1. OrZero(x) = 0 \/ OrZero(a) = 0
    BY <1>2, OptionValue
  <2>2. SaturatingSub(OrZero(a), OrZero(x)) = OrZero(a)
    BY <1>1, <2>1 DEF SaturatingSub
  <2> QED
    BY <1>2, <2>2 DEF SubOption
<1>3. CASE x # {} /\ a # {}
  <2>1. SaturatingSub(OrZero(a), OrZero(x)) \in U64
    BY <1>1, MaxU64Assumption DEF SaturatingSub, U64
  <2>2. SubOption(a, x) = {SaturatingSub(OrZero(a), OrZero(x))}
    BY <1>3 DEF SubOption
  <2> QED
    BY <2>1, <2>2, OptionValue DEF Option
<1> QED
  BY <1>2, <1>3

LEMMA AmountType ==
    /\ \A a \in Amount : /\ a.task_slots \in U64 /\ a.task_slots \in Nat
                         /\ a.task_slots <= MaxU64
                         /\ \A d \in Optional : a[d] \in Option
    /\ Nothing \in Amount
    /\ \A limit \in Amount : ZeroOf(limit) \in Amount
    /\ \A m, p \in Option : FromLimits(m, p) \in Amount
<1>1. 0 \in U64 /\ 1 \in U64 /\ {} \in Option /\ {0} \in Option
  BY MaxU64Assumption DEF U64, Option
<1>2. Nothing \in Amount
  BY <1>1 DEF Amount, Nothing
<1>3. \A limit \in Amount : ZeroOf(limit) \in Amount
  BY <1>1 DEF Amount, ZeroOf
<1>4. \A m, p \in Option : FromLimits(m, p) \in Amount
  BY <1>1 DEF Amount, FromLimits
<1>5. ASSUME NEW a \in Amount
      PROVE  /\ a.task_slots \in U64 /\ a.task_slots \in Nat /\ a.task_slots <= MaxU64
             /\ \A d \in Optional : a[d] \in Option
  <2>1. a.task_slots \in U64
    BY DEF Amount
  <2>2. a.memory_bytes \in Option /\ a.pids \in Option
    BY DEF Amount
  <2>3. \A d \in Optional : a[d] \in Option
    BY <2>2 DEF Optional
  <2> QED
    BY <2>1, <2>3, MaxU64Assumption DEF U64
<1> QED
  BY <1>2, <1>3, <1>4, <1>5

LEMMA AddReservationValue ==
    ASSUME NEW a \in Amount, NEW x \in Amount
    PROVE  /\ AddReservation(a, x) \in Amount
           /\ AddReservation(a, x).task_slots = SaturatingAdd(a.task_slots, x.task_slots)
           /\ \A d \in Optional : AddReservation(a, x)[d] = AddOption(a[d], x[d])
<1>1. SaturatingAdd(a.task_slots, x.task_slots) \in U64
  BY AmountType, Saturates
<1>2. \A d \in Optional : AddOption(a[d], x[d]) \in Option
  BY AmountType, AddOptionValue
<1> QED
  BY <1>1, <1>2 DEF AddReservation, Amount, Optional

LEMMA SubtractReservationValue ==
    ASSUME NEW a \in Amount, NEW x \in Amount
    PROVE  /\ SubtractReservation(a, x) \in Amount
           /\ SubtractReservation(a, x).task_slots =
                SaturatingSub(a.task_slots, x.task_slots)
           /\ \A d \in Optional : SubtractReservation(a, x)[d] = SubOption(a[d], x[d])
<1>1. SaturatingSub(a.task_slots, x.task_slots) \in U64
  <2>1. a.task_slots \in Nat /\ x.task_slots \in Nat /\ a.task_slots <= MaxU64
    BY AmountType
  <2> QED
    BY <2>1, MaxU64Assumption DEF SaturatingSub, U64
<1>2. \A d \in Optional : SubOption(a[d], x[d]) \in Option
  BY AmountType, SubOptionValue
<1> QED
  BY <1>1, <1>2 DEF SubtractReservation, Amount, Optional

-----------------------------------------------------------------------------
(* AddedUp *)

\* What AddedUp is, with one of the tasks taken last.
AddsReservations(start, res, Base) ==
    \A S \in SUBSET Base :
        /\ AddedUp(start, res, S) \in Amount
        /\ S = {} => AddedUp(start, res, S) = start
        /\ S # {} => /\ Some(S) \in S
                     /\ AddedUp(start, res, S) =
                          AddReservation(AddedUp(start, res, S \ {Some(S)}), res[Some(S)])

LEMMA AmountFold ==
    ASSUME NEW Base, IsFiniteSet(Base), NEW res \in [Base -> Amount], NEW start \in Amount
    PROVE  AddsReservations(start, res, Base)
<1> DEFINE h == [p \in Base \X Amount |-> AddReservation(p[2], res[p[1]])]
<1>1. h \in [Base \X Amount -> Amount]
  BY AddReservationValue
<1>2. PICK g : FoldsOver(g, Base, Amount, start, h)
  <2> HIDE DEF h
  <2> QED
    BY <1>1, FoldExists
<1>3. \A T \in SUBSET Base, a \in Amount :
         T # {} => h[<<Some(T), a>>] = AddReservation(a, res[Some(T)])
  BY SomeIn
<1>4. ASSUME NEW S \in SUBSET Base PROVE AddedUp(start, res, S) = g[S]
  <2> DEFINE Iter(k) == k = [T \in SUBSET S |-> IF T = {} THEN start
                                ELSE AddReservation(k[T \ {Some(T)}], res[Some(T)])]
             iter == CHOOSE k : Iter(k)
  <2>1. AddedUp(start, res, S) = iter[S]
    BY DEF AddedUp, FoldFunctionOnSet, MapThenFoldSet, Some
  <2>2. \E k : Iter(k)
    <3> DEFINE k == [T \in SUBSET S |-> g[T]]
    <3>1. \A T \in SUBSET S : k[T] = IF T = {} THEN start
                                ELSE AddReservation(k[T \ {Some(T)}], res[Some(T)])
      <4> SUFFICES ASSUME NEW T \in SUBSET S
                   PROVE  k[T] = IF T = {} THEN start
                                 ELSE AddReservation(k[T \ {Some(T)}], res[Some(T)])
        OBVIOUS
      <4>1. T \ {Some(T)} \in SUBSET S /\ g[T \ {Some(T)}] \in Amount
        BY <1>2 DEF FoldsOver
      <4>2. g[T] = IF T = {} THEN start ELSE h[<<Some(T), g[T \ {Some(T)}]>>]
        BY <1>2 DEF FoldsOver
      <4> HIDE DEF h
      <4> QED
        BY <1>3, <4>1, <4>2
    <3>2. Iter(k)
      BY <3>1
    <3> HIDE DEF k
    <3> QED
      BY <3>2
  <2>3. Iter(iter)
    <3> HIDE DEF Iter
    <3> QED
      BY <2>2
  <2>4. Computes(iter, S, Amount, start, h)
    <3> HIDE DEF h, iter
    <3> QED
      BY <1>3, <2>3 DEF Computes
  <2>5. Agree(iter, g, S)
    <3> HIDE DEF h, iter, Iter
    <3> QED
      BY <1>2, <2>4, FoldUnique
  <2> QED
    BY <2>1, <2>5 DEF Agree
<1> HIDE DEF h
<1>5. ASSUME NEW S \in SUBSET Base
      PROVE  /\ g[S] \in Amount
             /\ S = {} => g[S] = start
             /\ S # {} => Some(S) \in S /\ g[S] = AddReservation(g[S \ {Some(S)}], res[Some(S)])
  <2>1. /\ g[S] \in Amount /\ g[S \ {Some(S)}] \in Amount
        /\ g[S] = IF S = {} THEN start ELSE h[<<Some(S), g[S \ {Some(S)}]>>]
    BY <1>2 DEF FoldsOver
  <2> QED
    BY <1>3, <2>1, SomeIn
<1> QED
  BY <1>4, <1>5 DEF AddsReservations

\* What the tasks of S hold together, in slots and in dimension d.
SlotsOf(res) == [t \in Tasks |-> res[t].task_slots]

PartOf(res, d) == [t \in Tasks |-> OrZero(res[t][d])]

SlotTotal(res, S) == SumFunctionOnSet(SlotsOf(res), S)

PartTotal(res, S, d) == SumFunctionOnSet(PartOf(res, d), S)

HasTotals(res) ==
    \A S \in SUBSET Tasks :
        /\ SlotTotal(res, S) \in Nat
        /\ S = {} => SlotTotal(res, S) = 0
        /\ \A t \in S : SlotTotal(res, S) = res[t].task_slots + SlotTotal(res, S \ {t})
        /\ \A d \in Optional :
              /\ PartTotal(res, S, d) \in Nat
              /\ S = {} => PartTotal(res, S, d) = 0
              /\ \A t \in S : PartTotal(res, S, d) =
                                OrZero(res[t][d]) + PartTotal(res, S \ {t}, d)

LEMMA SumsOfAmounts ==
    ASSUME NEW res \in [Tasks -> Amount]
    PROVE  AddsUp(SlotsOf(res), Tasks) /\ \A d \in Optional : AddsUp(PartOf(res, d), Tasks)
<1>1. SlotsOf(res) \in [Tasks -> Nat]
  BY AmountType DEF SlotsOf
<1>2. \A d \in Optional : PartOf(res, d) \in [Tasks -> Nat]
  BY AmountType, OptionValue DEF PartOf, U64
<1> QED
  BY <1>1, <1>2, SumAddsUp, TasksAssumption

LEMMA Totals ==
    ASSUME NEW res \in [Tasks -> Amount]
    PROVE  HasTotals(res)
<1>1. AddsUp(SlotsOf(res), Tasks) /\ \A d \in Optional : AddsUp(PartOf(res, d), Tasks)
  BY SumsOfAmounts
<1>2. ASSUME NEW S \in SUBSET Tasks
      PROVE  /\ SlotTotal(res, S) \in Nat
             /\ S = {} => SlotTotal(res, S) = 0
             /\ \A t \in S : SlotTotal(res, S) = res[t].task_slots + SlotTotal(res, S \ {t})
  <2>1. \A t \in Tasks : SlotsOf(res)[t] = res[t].task_slots
    BY DEF SlotsOf
  <2> QED
    BY <1>1, <2>1 DEF AddsUp, SlotTotal
<1>3. ASSUME NEW S \in SUBSET Tasks, NEW d \in Optional
      PROVE  /\ PartTotal(res, S, d) \in Nat
             /\ S = {} => PartTotal(res, S, d) = 0
             /\ \A t \in S : PartTotal(res, S, d) =
                               OrZero(res[t][d]) + PartTotal(res, S \ {t}, d)
  <2>1. \A t \in Tasks : PartOf(res, d)[t] = OrZero(res[t][d])
    BY DEF PartOf
  <2> QED
    BY <1>1, <2>1 DEF AddsUp, PartTotal
<1> QED
  BY <1>2, <1>3 DEF HasTotals

\* What a task holds that is not of S does not matter.
SameTotals(res, other, S) ==
    /\ SlotTotal(res, S) = SlotTotal(other, S)
    /\ \A d \in Optional : PartTotal(res, S, d) = PartTotal(other, S, d)

LEMMA TotalsOfSame ==
    ASSUME NEW res \in [Tasks -> Amount], NEW other \in [Tasks -> Amount],
           NEW S \in SUBSET Tasks, \A t \in S : res[t] = other[t]
    PROVE  SameTotals(res, other, S)
<1>1. /\ AddsUp(SlotsOf(res), Tasks) /\ AddsUp(SlotsOf(other), Tasks)
      /\ \A d \in Optional : AddsUp(PartOf(res, d), Tasks) /\ AddsUp(PartOf(other, d), Tasks)
  BY SumsOfAmounts
<1>2. SlotTotal(res, S) = SlotTotal(other, S)
  <2>1. \A t \in S : SlotsOf(res)[t] = SlotsOf(other)[t]
    BY DEF SlotsOf
  <2> HIDE DEF SlotsOf
  <2> QED
    BY <1>1, <2>1, SumCongruent, TasksAssumption DEF SlotTotal
<1>3. ASSUME NEW d \in Optional PROVE PartTotal(res, S, d) = PartTotal(other, S, d)
  <2>1. \A t \in S : PartOf(res, d)[t] = PartOf(other, d)[t]
    BY DEF PartOf
  <2>2. AddsUp(PartOf(res, d), Tasks) /\ AddsUp(PartOf(other, d), Tasks)
    BY <1>1
  <2> QED
    BY <2>1, <2>2, SumCongruent, TasksAssumption DEF PartTotal
<1> QED
  BY <1>2, <1>3 DEF SameTotals

LEMMA SaturatedSum ==
    ASSUME NEW a \in Nat, NEW b \in Nat, NEW c \in Nat
    PROVE  SaturatingAdd(SaturatingAdd(a, b), c) = SaturatingAdd(a, c + b)
  BY MaxU64Assumption DEF SaturatingAdd

\* Every dimension of AddedUp holds its total, as far as a u64 goes, in whatever order
\* the tasks are taken.
CountsUp(start, res, S) ==
    /\ AddedUp(start, res, S) \in Amount
    /\ AddedUp(start, res, S).task_slots = SaturatingAdd(start.task_slots, SlotTotal(res, S))
    /\ \A d \in Optional :
          /\ OrZero(AddedUp(start, res, S)[d]) =
               SaturatingAdd(OrZero(start[d]), PartTotal(res, S, d))
          /\ start[d] # {} => AddedUp(start, res, S)[d] # {}

LEMMA AddedUpValue ==
    ASSUME NEW res \in [Tasks -> Amount], NEW start \in Amount, NEW U \in SUBSET Tasks
    PROVE  CountsUp(start, res, U)
<1> DEFINE Up(S) == AddedUp(start, res, S)
           Slots(S) == SlotTotal(res, S)
           Part(S, d) == PartTotal(res, S, d)
           Right(S) ==
             /\ Up(S).task_slots = SaturatingAdd(start.task_slots, Slots(S))
             /\ \A d \in Optional :
                   /\ OrZero(Up(S)[d]) = SaturatingAdd(OrZero(start[d]), Part(S, d))
                   /\ start[d] # {} => Up(S)[d] # {}
<1>1. /\ start.task_slots \in Nat /\ start.task_slots <= MaxU64
      /\ \A d \in Optional : start[d] \in Option /\ OrZero(start[d]) \in Nat
                             /\ OrZero(start[d]) <= MaxU64
  <2>1. \A o \in Option : OrZero(o) \in Nat /\ OrZero(o) <= MaxU64
    BY OptionValue, MaxU64Assumption DEF U64
  <2> QED
    BY <2>1, AmountType
<1>2. \A S \in SUBSET Tasks :
         /\ Up(S) \in Amount
         /\ S = {} => Up(S) = start
         /\ S # {} => Some(S) \in S /\ Up(S) = AddReservation(Up(S \ {Some(S)}), res[Some(S)])
  <2>1. AddsReservations(start, res, Tasks)
    <3> HIDE DEF Up, Slots, Part, Right
    <3> QED
      BY AmountFold, TasksAssumption
  <2> QED
    BY <2>1 DEF AddsReservations
<1>3. \A S \in SUBSET Tasks :
         /\ Slots(S) \in Nat
         /\ S = {} => Slots(S) = 0
         /\ \A t \in S : Slots(S) = res[t].task_slots + Slots(S \ {t})
  BY Totals DEF HasTotals
<1>4. \A d \in Optional : \A S \in SUBSET Tasks :
         /\ Part(S, d) \in Nat
         /\ S = {} => Part(S, d) = 0
         /\ \A t \in S : Part(S, d) = OrZero(res[t][d]) + Part(S \ {t}, d)
  BY Totals DEF HasTotals
<1> HIDE DEF Up, Slots, Part
<1> DEFINE Good == {S \in SUBSET Tasks : Right(S)}
<1>5. ASSUME NEW S \in SUBSET Tasks, \A R \in SUBSET S : R # S => R \in Good
      PROVE  S \in Good
  <2>1. CASE S = {}
    <3>1. Up(S) = start /\ Slots(S) = 0 /\ \A d \in Optional : Part(S, d) = 0
      BY <1>2, <1>3, <1>4, <2>1
    <3>2. SaturatingAdd(start.task_slots, 0) = start.task_slots
      BY <1>1, MaxU64Assumption DEF SaturatingAdd
    <3>3. \A d \in Optional : SaturatingAdd(OrZero(start[d]), 0) = OrZero(start[d])
      BY <1>1, MaxU64Assumption DEF SaturatingAdd
    <3> QED
      BY <3>1, <3>2, <3>3
  <2>2. CASE S # {}
    <3> DEFINE t == Some(S)
               R == S \ {t}
    <3>1. t \in S /\ t \in Tasks /\ Up(S) = AddReservation(Up(R), res[t])
      BY <1>2, <2>2
    <3>2. R \in SUBSET Tasks /\ R \in Good
      BY <1>5, <3>1
    <3>3. Up(R) \in Amount /\ res[t] \in Amount
      BY <1>2, <3>1, <3>2
    <3>4. /\ Slots(S) = res[t].task_slots + Slots(R)
          /\ \A d \in Optional : Part(S, d) = OrZero(res[t][d]) + Part(R, d)
      BY <1>3, <1>4, <3>1
    <3> HIDE DEF t, R
    <3>5. /\ Slots(R) \in Nat /\ res[t].task_slots \in Nat
          /\ \A d \in Optional : /\ Part(R, d) \in Nat /\ OrZero(res[t][d]) \in Nat
                                 /\ Up(R)[d] \in Option /\ res[t][d] \in Option
      <4>1. Slots(R) \in Nat /\ \A d \in Optional : Part(R, d) \in Nat
        BY <1>3, <1>4, <3>2
      <4>2. /\ res[t].task_slots \in Nat
            /\ \A d \in Optional : Up(R)[d] \in Option /\ res[t][d] \in Option
        BY <3>3, AmountType
      <4>3. \A o \in Option : OrZero(o) \in Nat
        BY OptionValue DEF U64
      <4> QED
        BY <4>1, <4>2, <4>3
    <3>6. Up(S).task_slots = SaturatingAdd(start.task_slots, Slots(S))
      <4>1. Up(S).task_slots = SaturatingAdd(Up(R).task_slots, res[t].task_slots)
        BY <3>1, <3>3, AddReservationValue
      <4>2. Up(R).task_slots = SaturatingAdd(start.task_slots, Slots(R))
        BY <3>2
      <4>3. SaturatingAdd(SaturatingAdd(start.task_slots, Slots(R)), res[t].task_slots) =
              SaturatingAdd(start.task_slots, res[t].task_slots + Slots(R))
        <5> start.task_slots \in Nat /\ Slots(R) \in Nat /\ res[t].task_slots \in Nat
          BY <1>1, <3>5
        <5> QED
          BY SaturatedSum
      <4> QED
        BY <3>4, <4>1, <4>2, <4>3
    <3>7. ASSUME NEW d \in Optional
          PROVE  /\ OrZero(Up(S)[d]) = SaturatingAdd(OrZero(start[d]), Part(S, d))
                 /\ start[d] # {} => Up(S)[d] # {}
      <4>1. Up(S)[d] = AddOption(Up(R)[d], res[t][d])
        BY <3>1, <3>3, AddReservationValue
      <4>2. /\ OrZero(Up(R)[d]) = SaturatingAdd(OrZero(start[d]), Part(R, d))
            /\ start[d] # {} => Up(R)[d] # {}
        BY <3>2
      <4>3. /\ OrZero(Up(S)[d]) = SaturatingAdd(OrZero(Up(R)[d]), OrZero(res[t][d]))
            /\ Up(R)[d] # {} => Up(S)[d] # {}
        BY <3>5, <4>1, AddOptionValue
      <4>4. SaturatingAdd(SaturatingAdd(OrZero(start[d]), Part(R, d)), OrZero(res[t][d])) =
              SaturatingAdd(OrZero(start[d]), OrZero(res[t][d]) + Part(R, d))
        BY <1>1, <3>5, SaturatedSum
      <4> QED
        BY <3>4, <4>2, <4>3, <4>4
    <3> QED
      BY <3>6, <3>7
  <2> QED
    BY <2>1, <2>2
<1>6. Good \in SUBSET (SUBSET Tasks)
  OBVIOUS
<1>7. Good = SUBSET Tasks
  <2> HIDE DEF Good
  <2> QED
    BY <1>5, <1>6, SubsetInduction, TasksAssumption
<1>8. \A S \in SUBSET Tasks : Right(S)
  BY <1>7
<1> QED
  BY <1>2, <1>8 DEF Up, Slots, Part, CountsUp

-----------------------------------------------------------------------------
(* A sum kept by hand *)

\* The sum a stands for what the tasks of S hold in the dimensions D, as far as a
\* u64 goes; or, exactly, for all of it.
Covers(a, S, res, D) ==
    /\ a.task_slots >= SaturatingAdd(SlotTotal(res, S), 0)
    /\ \A d \in D : OrZero(a[d]) >= SaturatingAdd(PartTotal(res, S, d), 0)

Exceeds(a, S, res, D) ==
    /\ a.task_slots >= SlotTotal(res, S)
    /\ \A d \in D : OrZero(a[d]) >= PartTotal(res, S, d)

Limited(limit) == {d \in Optional : limit[d] # {}}

Names(a, limit) == \A d \in Limited(limit) : a[d] # {}

LEMMA Capped ==
    ASSUME NEW n \in Nat
    PROVE  /\ SaturatingAdd(n, 0) \in Nat
           /\ SaturatingAdd(n, 0) <= n
           /\ n <= MaxU64 => SaturatingAdd(n, 0) = n
           /\ SaturatingAdd(n, 0) < MaxU64 => SaturatingAdd(n, 0) = n
  BY MaxU64Assumption DEF SaturatingAdd

LEMMA OrZeroNat ==
    \A o \in Option : OrZero(o) \in Nat /\ OrZero(o) <= MaxU64
  BY OptionValue, MaxU64Assumption DEF U64

\* A sum of a fold covers what it adds up.
LEMMA CountCovers ==
    ASSUME NEW res \in [Tasks -> Amount], NEW start \in Amount, NEW S \in SUBSET Tasks
    PROVE  Covers(AddedUp(start, res, S), S, res, Optional)
<1>1. CountsUp(start, res, S) /\ HasTotals(res)
  BY AddedUpValue, Totals
<1>2. SaturatingAdd(start.task_slots, SlotTotal(res, S)) >= SaturatingAdd(SlotTotal(res, S), 0)
  <2>1. start.task_slots \in Nat /\ SlotTotal(res, S) \in Nat
    BY <1>1, AmountType DEF HasTotals
  <2> QED
    BY <2>1, MaxU64Assumption DEF SaturatingAdd
<1>3. ASSUME NEW d \in Optional
      PROVE  SaturatingAdd(OrZero(start[d]), PartTotal(res, S, d)) >=
               SaturatingAdd(PartTotal(res, S, d), 0)
  <2>1. OrZero(start[d]) \in Nat /\ PartTotal(res, S, d) \in Nat
    BY <1>1, AmountType, OrZeroNat DEF HasTotals
  <2> QED
    BY <2>1, MaxU64Assumption DEF SaturatingAdd
<1> QED
  BY <1>1, <1>2, <1>3 DEF Covers, CountsUp

LEMMA CoverSame ==
    ASSUME NEW a, NEW S \in SUBSET Tasks, NEW D \in SUBSET Optional,
           NEW res \in [Tasks -> Amount], NEW other \in [Tasks -> Amount],
           \A t \in S : res[t] = other[t]
    PROVE  /\ Covers(a, S, res, D) => Covers(a, S, other, D)
           /\ Exceeds(a, S, res, D) => Exceeds(a, S, other, D)
<1>1. SameTotals(res, other, S)
  BY TotalsOfSame
<1> QED
  BY <1>1 DEF SameTotals, Covers, Exceeds

\* A task that ends leaves the sum too high at most.
LEMMA CoverWithout ==
    ASSUME NEW a \in Amount, NEW S \in SUBSET Tasks, NEW D \in SUBSET Optional,
           NEW res \in [Tasks -> Amount], NEW t \in S
    PROVE  /\ Covers(a, S, res, D) => Covers(a, S \ {t}, res, D)
           /\ Exceeds(a, S, res, D) => Exceeds(a, S \ {t}, res, D)
<1>1. HasTotals(res) /\ S \ {t} \in SUBSET Tasks /\ t \in Tasks
  BY Totals
<1>2. a.task_slots \in Nat /\ \A d \in D : OrZero(a[d]) \in Nat
  BY AmountType, OrZeroNat
<1>3. /\ SlotTotal(res, S \ {t}) \in Nat /\ SlotTotal(res, S) \in Nat
      /\ SlotTotal(res, S \ {t}) <= SlotTotal(res, S)
  <2>1. /\ SlotTotal(res, S \ {t}) \in Nat /\ SlotTotal(res, S) \in Nat
        /\ SlotTotal(res, S) = res[t].task_slots + SlotTotal(res, S \ {t})
    BY <1>1 DEF HasTotals
  <2>2. res[t].task_slots \in Nat
    BY <1>1, AmountType
  <2> QED
    BY <2>1, <2>2
<1>4. ASSUME NEW d \in D
      PROVE  /\ PartTotal(res, S \ {t}, d) \in Nat /\ PartTotal(res, S, d) \in Nat
             /\ PartTotal(res, S \ {t}, d) <= PartTotal(res, S, d)
  <2>1. /\ PartTotal(res, S \ {t}, d) \in Nat /\ PartTotal(res, S, d) \in Nat
        /\ PartTotal(res, S, d) = OrZero(res[t][d]) + PartTotal(res, S \ {t}, d)
    BY <1>1 DEF HasTotals
  <2>2. OrZero(res[t][d]) \in Nat
    BY <1>1, AmountType, OrZeroNat
  <2> QED
    BY <2>1, <2>2
<1>5. \A m, n \in Nat : m <= n => SaturatingAdd(m, 0) <= SaturatingAdd(n, 0)
  BY MaxU64Assumption DEF SaturatingAdd
<1>6. \A m \in Nat : SaturatingAdd(m, 0) \in Nat
  BY Capped
<1>7. Covers(a, S, res, D) => Covers(a, S \ {t}, res, D)
  <2> SUFFICES ASSUME Covers(a, S, res, D) PROVE Covers(a, S \ {t}, res, D)
    OBVIOUS
  <2>1. a.task_slots >= SaturatingAdd(SlotTotal(res, S \ {t}), 0)
    <3>1. /\ SaturatingAdd(SlotTotal(res, S \ {t}), 0) <= SaturatingAdd(SlotTotal(res, S), 0)
          /\ SaturatingAdd(SlotTotal(res, S \ {t}), 0) \in Nat
          /\ SaturatingAdd(SlotTotal(res, S), 0) \in Nat
      BY <1>3, <1>5, <1>6
    <3>2. a.task_slots >= SaturatingAdd(SlotTotal(res, S), 0)
      BY DEF Covers
    <3> QED
      BY <1>2, <3>1, <3>2
  <2>2. ASSUME NEW d \in D PROVE OrZero(a[d]) >= SaturatingAdd(PartTotal(res, S \ {t}, d), 0)
    <3>1. /\ SaturatingAdd(PartTotal(res, S \ {t}, d), 0)
                <= SaturatingAdd(PartTotal(res, S, d), 0)
          /\ SaturatingAdd(PartTotal(res, S \ {t}, d), 0) \in Nat
          /\ SaturatingAdd(PartTotal(res, S, d), 0) \in Nat
      BY <1>4, <1>5, <1>6
    <3>2. OrZero(a[d]) >= SaturatingAdd(PartTotal(res, S, d), 0)
      BY DEF Covers
    <3> QED
      BY <1>2, <3>1, <3>2
  <2> QED
    BY <2>1, <2>2 DEF Covers
<1>8. Exceeds(a, S, res, D) => Exceeds(a, S \ {t}, res, D)
  BY <1>2, <1>3, <1>4 DEF Exceeds
<1> QED
  BY <1>7, <1>8

\* A task added to the set and to the sum.
LEMMA CoverWith ==
    ASSUME NEW a \in Amount, NEW S \in SUBSET Tasks, NEW D \in SUBSET Optional,
           NEW res \in [Tasks -> Amount], NEW t \in Tasks \ S, Covers(a, S, res, D)
    PROVE  Covers(AddReservation(a, res[t]), S \cup {t}, res, D)
<1> DEFINE T == S \cup {t}
           b == AddReservation(a, res[t])
<1>1. HasTotals(res) /\ T \in SUBSET Tasks /\ t \in T /\ T \ {t} = S
  BY Totals
<1>2. \A x, n, k \in Nat : x >= SaturatingAdd(n, 0) =>
         SaturatingAdd(x, k) >= SaturatingAdd(k + n, 0)
  BY MaxU64Assumption DEF SaturatingAdd
<1>3. /\ b.task_slots = SaturatingAdd(a.task_slots, res[t].task_slots)
      /\ \A d \in Optional : b[d] = AddOption(a[d], res[t][d])
  BY AddReservationValue
<1> HIDE DEF T, b
<1>4. b.task_slots >= SaturatingAdd(SlotTotal(res, T), 0)
  <2>1. /\ SlotTotal(res, S) \in Nat
        /\ SlotTotal(res, T) = res[t].task_slots + SlotTotal(res, S)
    BY <1>1 DEF HasTotals
  <2>2. res[t].task_slots \in Nat /\ a.task_slots \in Nat
    BY AmountType
  <2>3. a.task_slots >= SaturatingAdd(SlotTotal(res, S), 0)
    BY DEF Covers
  <2> QED
    BY <1>2, <1>3, <2>1, <2>2, <2>3
<1>5. ASSUME NEW d \in D PROVE OrZero(b[d]) >= SaturatingAdd(PartTotal(res, T, d), 0)
  <2>1. /\ PartTotal(res, S, d) \in Nat
        /\ PartTotal(res, T, d) = OrZero(res[t][d]) + PartTotal(res, S, d)
    BY <1>1 DEF HasTotals
  <2>2. res[t][d] \in Option /\ a[d] \in Option
    BY AmountType
  <2>3. OrZero(a[d]) >= SaturatingAdd(PartTotal(res, S, d), 0)
    BY DEF Covers
  <2>4. OrZero(b[d]) = SaturatingAdd(OrZero(a[d]), OrZero(res[t][d]))
    BY <1>3, <2>2, AddOptionValue
  <2>5. OrZero(res[t][d]) \in Nat /\ OrZero(a[d]) \in Nat
    BY <2>2, OrZeroNat
  <2> QED
    BY <1>2, <2>1, <2>3, <2>4, <2>5
<1> QED
  BY <1>4, <1>5 DEF Covers, T, b

\* A request that fits on top of a sum that covers S is within the limit together with
\* S, and after adding it the sum is exact in the dimensions that were compared.
WithinLimit(limit, S, res, D) ==
    /\ SlotTotal(res, S) <= limit.task_slots
    /\ \A d \in D : \A max \in limit[d] : PartTotal(res, S, d) <= max

LEMMA FitIsExact ==
    ASSUME NEW limit, Bounded(limit), NEW a \in Amount, Names(a, limit),
           NEW S \in SUBSET Tasks, NEW res \in [Tasks -> Amount],
           Covers(a, S, res, Limited(limit)), NEW t \in Tasks \ S, Fits(limit, a, res[t])
    PROVE  /\ WithinLimit(limit, S \cup {t}, res, Limited(res[t]))
           /\ Exceeds(AddReservation(a, res[t]), S \cup {t}, res,
                      Limited(limit) \cap Limited(res[t]))
<1> DEFINE T == S \cup {t}
           b == AddReservation(a, res[t])
<1>1. HasTotals(res) /\ T \in SUBSET Tasks /\ t \in T /\ T \ {t} = S
  BY Totals
<1>2. \A x, n, k, max \in Nat :
         (x >= SaturatingAdd(n, 0) /\ SaturatingAdd(x, k) <= max /\ max < MaxU64) =>
            k + n <= SaturatingAdd(x, k) /\ k + n <= max
  BY MaxU64Assumption DEF SaturatingAdd
<1>3. /\ b.task_slots = SaturatingAdd(a.task_slots, res[t].task_slots)
      /\ \A d \in Optional : b[d] = AddOption(a[d], res[t][d])
  BY AddReservationValue
<1> HIDE DEF T, b
<1>4. SlotTotal(res, T) <= limit.task_slots /\ SlotTotal(res, T) <= b.task_slots
  <2>1. /\ SlotTotal(res, S) \in Nat
        /\ SlotTotal(res, T) = res[t].task_slots + SlotTotal(res, S)
    BY <1>1 DEF HasTotals
  <2>2. res[t].task_slots \in Nat /\ a.task_slots \in Nat /\ limit.task_slots \in Nat
    BY AmountType DEF Bounded
  <2>3. /\ a.task_slots >= SaturatingAdd(SlotTotal(res, S), 0)
        /\ SaturatingAdd(a.task_slots, res[t].task_slots) <= limit.task_slots
        /\ limit.task_slots < MaxU64
    BY DEF Covers, Fits, Bounded
  <2> QED
    BY <1>2, <1>3, <2>1, <2>2, <2>3
<1>5. ASSUME NEW d \in Limited(limit) \cap Limited(res[t])
      PROVE  /\ PartTotal(res, T, d) <= OrZero(b[d])
             /\ \A max \in limit[d] : PartTotal(res, T, d) <= max
  <2>1. d \in Optional /\ limit[d] # {} /\ res[t][d] # {} /\ a[d] # {}
    BY DEF Limited, Names
  <2>2. /\ PartTotal(res, S, d) \in Nat
        /\ PartTotal(res, T, d) = OrZero(res[t][d]) + PartTotal(res, S, d)
    BY <1>1, <2>1 DEF HasTotals
  <2>3. res[t][d] \in Option /\ a[d] \in Option /\ limit[d] \in Option
    BY <2>1, AmountType DEF Bounded
  <2>4. OrZero(a[d]) >= SaturatingAdd(PartTotal(res, S, d), 0)
    BY DEF Covers
  <2>5. OrZero(b[d]) = SaturatingAdd(OrZero(a[d]), OrZero(res[t][d]))
    BY <1>3, <2>1, <2>3, AddOptionValue
  <2>6. OrZero(res[t][d]) \in Nat /\ OrZero(a[d]) \in Nat /\ OrZero(limit[d]) \in Nat
    BY <2>3, OrZeroNat
  <2>7. /\ limit[d] = {OrZero(limit[d])} /\ a[d] = {OrZero(a[d])}
        /\ res[t][d] = {OrZero(res[t][d])}
    BY <2>1, <2>3, OptionValue
  <2>8. /\ SaturatingAdd(OrZero(a[d]), OrZero(res[t][d])) <= OrZero(limit[d])
        /\ OrZero(limit[d]) < MaxU64
    <3>1. /\ OrZero(a[d]) \in a[d] /\ OrZero(res[t][d]) \in res[t][d]
          /\ OrZero(limit[d]) \in limit[d]
      BY <2>7
    <3> QED
      BY <2>1, <3>1 DEF Fits, Bounded
  <2>9. PartTotal(res, T, d) <= OrZero(b[d]) /\ PartTotal(res, T, d) <= OrZero(limit[d])
    BY <1>2, <2>2, <2>4, <2>5, <2>6, <2>8
  <2> QED
    BY <2>7, <2>9
<1>6. \A d \in Optional : \A max \in limit[d] : d \in Limited(limit)
  BY DEF Limited
<1>7. Limited(res[t]) \subseteq Optional
  BY DEF Limited
<1>8. WithinLimit(limit, T, res, Limited(res[t]))
  BY <1>4, <1>5, <1>6, <1>7 DEF WithinLimit
<1>9. Exceeds(b, T, res, Limited(limit) \cap Limited(res[t]))
  <2>1. b.task_slots \in Nat /\ SlotTotal(res, T) \in Nat
    <3>1. b \in Amount
      BY AddReservationValue DEF b
    <3> QED
      BY <1>1, <3>1, AmountType DEF HasTotals
  <2>2. ASSUME NEW d \in Limited(limit) \cap Limited(res[t])
        PROVE  OrZero(b[d]) >= PartTotal(res, T, d)
    <3>1. d \in Optional
      BY DEF Limited
    <3>2. OrZero(b[d]) \in Nat /\ PartTotal(res, T, d) \in Nat
      <4>1. b \in Amount
        BY AddReservationValue DEF b
      <4> QED
        BY <1>1, <3>1, <4>1, AmountType, OrZeroNat DEF HasTotals
    <3> QED
      BY <1>5, <3>2
  <2> QED
    BY <1>4, <2>1, <2>2 DEF Exceeds
<1> QED
  BY <1>8, <1>9 DEF T, b

\* What is taken back from a sum that was exact leaves it covering the others.
LEMMA CoverTakenBack ==
    ASSUME NEW a \in Amount, NEW S \in SUBSET Tasks, NEW D \in SUBSET Optional,
           NEW res \in [Tasks -> Amount], NEW t \in S,
           Covers(a, S, res, D), Exceeds(a, S, res, D \cap Limited(res[t]))
    PROVE  Covers(SubtractReservation(a, res[t]), S \ {t}, res, D)
<1> DEFINE R == S \ {t}
           b == SubtractReservation(a, res[t])
<1>1. HasTotals(res) /\ R \in SUBSET Tasks /\ t \in Tasks
  BY Totals
<1>2. \A x, n, k \in Nat : x >= k + n => SaturatingSub(x, k) >= SaturatingAdd(n, 0)
  BY MaxU64Assumption DEF SaturatingAdd, SaturatingSub
<1>3. /\ b.task_slots = SaturatingSub(a.task_slots, res[t].task_slots)
      /\ \A d \in Optional : b[d] = SubOption(a[d], res[t][d])
  BY SubtractReservationValue
<1>4. /\ SlotTotal(res, R) \in Nat
      /\ SlotTotal(res, S) = res[t].task_slots + SlotTotal(res, R)
  BY <1>1 DEF HasTotals
<1>5. \A d \in Optional : /\ PartTotal(res, R, d) \in Nat
                          /\ PartTotal(res, S, d) = OrZero(res[t][d]) + PartTotal(res, R, d)
  BY <1>1 DEF HasTotals
<1> HIDE DEF R, b
<1>6. b.task_slots >= SaturatingAdd(SlotTotal(res, R), 0)
  <2>1. res[t].task_slots \in Nat /\ a.task_slots \in Nat
    BY <1>1, AmountType
  <2>2. a.task_slots >= SlotTotal(res, S)
    BY DEF Exceeds
  <2> QED
    BY <1>2, <1>3, <1>4, <2>1, <2>2
<1>7. ASSUME NEW d \in D PROVE OrZero(b[d]) >= SaturatingAdd(PartTotal(res, R, d), 0)
  <2>1. res[t][d] \in Option /\ a[d] \in Option
    BY <1>1, AmountType
  <2>2. OrZero(b[d]) = SaturatingSub(OrZero(a[d]), OrZero(res[t][d]))
    BY <1>3, <2>1, SubOptionValue
  <2>3. OrZero(res[t][d]) \in Nat /\ OrZero(a[d]) \in Nat
    BY <2>1, OrZeroNat
  <2>4. CASE res[t][d] = {}
    <3>1. OrZero(res[t][d]) = 0
      BY <2>4, OptionValue
    <3>2. OrZero(a[d]) >= SaturatingAdd(PartTotal(res, S, d), 0)
      BY DEF Covers
    <3>3. PartTotal(res, S, d) = PartTotal(res, R, d)
      BY <1>5, <3>1
    <3>4. SaturatingSub(OrZero(a[d]), 0) = OrZero(a[d])
      BY <2>3 DEF SaturatingSub
    <3> QED
      BY <2>2, <3>1, <3>2, <3>3, <3>4
  <2>5. CASE res[t][d] # {}
    <3>1. OrZero(a[d]) >= PartTotal(res, S, d)
      BY <2>5 DEF Exceeds, Limited
    <3> QED
      BY <1>2, <1>5, <2>2, <2>3, <3>1
  <2> QED
    BY <2>4, <2>5
<1> QED
  BY <1>6, <1>7 DEF Covers, R, b
-----------------------------------------------------------------------------
(* What the actions do to the rows and to the cycle *)

LEMMA RequestType ==
    \A rq \in Requests : /\ rq.res \in Amount /\ rq.res.task_slots = 1
                         /\ rq.tenant \in Tenants
<1> SUFFICES ASSUME NEW rq \in Requests
             PROVE  rq.res \in Amount /\ rq.res.task_slots = 1 /\ rq.tenant \in Tenants
  OBVIOUS
<1>1. rq.res \in {FromLimits(m, p) : m, p \in Option} /\ rq.tenant \in Tenants
  BY RequestsAssumption
<1>2. PICK m \in Option, p \in Option : rq.res = FromLimits(m, p)
  BY <1>1
<1> QED
  BY <1>1, <1>2, AmountType DEF FromLimits

LEMMA ConfigType ==
    ASSUME config \in Configs
    PROVE  /\ Bounded(config.capacity)
           /\ \A tn \in Tenants : /\ ZeroOfTenant(tn) \in Amount
                                  /\ \A q \in config.quotas[tn] :
                                        Bounded(q) /\ Names(ZeroOfTenant(tn), q)
<1>1. ASSUME NEW tn \in Tenants
      PROVE  /\ ZeroOfTenant(tn) \in Amount
             /\ \A q \in config.quotas[tn] : Bounded(q) /\ Names(ZeroOfTenant(tn), q)
  <2>1. CASE config.quotas[tn] = {}
    BY <2>1, AmountType DEF ZeroOfTenant
  <2>2. CASE config.quotas[tn] # {}
    <3>1. PICK q \in config.quotas[tn] : config.quotas[tn] = {q} /\ Bounded(q)
      BY <2>2, ConfigsAssumption
    <3>2. (CHOOSE p \in config.quotas[tn] : TRUE) = q
      BY <3>1
    <3>3. ZeroOfTenant(tn) = ZeroOf(q)
      BY <2>2, <3>2 DEF ZeroOfTenant
    <3>4. Names(ZeroOf(q), q)
      BY DEF Names, Limited, ZeroOf, Optional
    <3> QED
      BY <3>1, <3>3, <3>4, AmountType DEF Bounded
  <2> QED
    BY <2>1, <2>2
<1> QED
  BY <1>1, ConfigsAssumption

Present == {u \in Tasks : rows[u].stage # "absent"}

\* Only the stage of t changes.
Moves(t, stage) ==
    /\ rows' \in [Tasks -> Row]
    /\ \A u \in Tasks : /\ rows'[u].stage = IF u = t THEN stage ELSE rows[u].stage
                        /\ rows'[u].res = rows[u].res
                        /\ rows'[u].tenant = rows[u].tenant
                        /\ rows'[u].born = rows[u].born

LEMMA StageSet ==
    ASSUME rows \in [Tasks -> Row], NEW t \in Tasks, NEW stage \in Stage,
           rows' = [rows EXCEPT ![t].stage = stage]
    PROVE  Moves(t, stage)
  BY DEF Moves, Row

LEMMA SubmitSteps ==
    ASSUME TypeOK, NEW t \in Tasks, NEW rq \in Requests, Submit(t, rq)
    PROVE  /\ rows' \in [Tasks -> Row]
           /\ \A u \in Tasks : u # t => rows'[u] = rows[u]
           /\ rows[t].stage = "absent" /\ rows'[t].stage = "waiting"
           /\ rows'[t].res = rq.res /\ rows'[t].tenant = rq.tenant
           /\ rows'[t].born = 1 + Cardinality(Present)
           /\ Present' = Present \cup {t}
           /\ IsFiniteSet(Present) /\ Cardinality(Present) \in Nat
           /\ Cardinality(Present') = Cardinality(Present) + 1
<1> DEFINE row == [stage |-> "waiting", res |-> rq.res, tenant |-> rq.tenant,
                   born |-> 1 + Cardinality(Present)]
<1>1. rows' = [rows EXCEPT ![t] = row] /\ rows[t].stage = "absent"
  BY DEF Submit, Present
<1>2. IsFiniteSet(Present) /\ Cardinality(Present) \in Nat
  BY TasksAssumption, FS_Subset, FS_CardinalityType DEF Present
<1>3. t \notin Present /\ Present \cup {t} \in SUBSET Tasks
  BY <1>1 DEF Present
<1>4. Cardinality(Present \cup {t}) = Cardinality(Present) + 1
  BY <1>2, <1>3, FS_AddElement
<1>5. Cardinality(Present \cup {t}) <= Cardinality(Tasks) /\ Cardinality(Tasks) \in Nat
  BY <1>3, TasksAssumption, FS_Subset, FS_CardinalityType
<1>6. row \in Row
  BY <1>2, <1>4, <1>5, RequestType DEF Row, Stage
<1>7. rows \in [Tasks -> Row]
  BY DEF TypeOK
<1>8. /\ row.stage = "waiting" /\ row.res = rq.res /\ row.tenant = rq.tenant
      /\ row.born = 1 + Cardinality(Present)
  OBVIOUS
<1> HIDE DEF row
<1>9. rows'[t] = row /\ \A u \in Tasks : u # t => rows'[u] = rows[u]
  BY <1>1, <1>7
<1>10. Present' = Present \cup {t}
  BY <1>8, <1>9 DEF Present
<1>11. rows' \in [Tasks -> Row]
  BY <1>1, <1>6, <1>7
<1> QED
  BY <1>1, <1>2, <1>4, <1>8, <1>9, <1>10, <1>11

LEMMA ReserveSteps ==
    ASSUME TypeOK, NEW t \in Tasks, DispatchReserve(t)
    PROVE  /\ Moves(t, "reserved")
           /\ cycle' \in Cycle
           /\ cycle'.pc = cycle.pc /\ cycle'.todo = cycle.todo \ {t}
           /\ cycle'.reserved = AddReservation(cycle.reserved, rows[t].res)
           /\ \A tn \in Tenants : cycle'.tenant[tn] =
                IF tn = rows[t].tenant THEN AddReservation(cycle.tenant[tn], rows[t].res)
                                       ELSE cycle.tenant[tn]
<1> DEFINE mine == rows[t].tenant
           more == [cycle.tenant EXCEPT ![mine] = AddReservation(@, rows[t].res)]
<1>1. rows \in [Tasks -> Row] /\ cycle \in Cycle
  BY DEF TypeOK
<1>2. Moves(t, "reserved")
  BY <1>1, StageSet DEF DispatchReserve, Stage
<1>3. rows[t].res \in Amount /\ mine \in Tenants /\ cycle.reserved \in Amount
      /\ cycle.tenant \in [Tenants -> Amount]
  BY <1>1 DEF Row, Cycle
<1>4. AddReservation(cycle.reserved, rows[t].res) \in Amount
  BY <1>3, AddReservationValue
<1>5. \A tn \in Tenants : AddReservation(cycle.tenant[tn], rows[t].res) \in Amount
  BY <1>3, AddReservationValue
<1>6. cycle' = [cycle EXCEPT !.todo = cycle.todo \ {t},
                             !.reserved = AddReservation(cycle.reserved, rows[t].res),
                             !.tenant = more]
  BY <1>1 DEF DispatchReserve, Cycle
<1>7. /\ more \in [Tenants -> Amount]
      /\ \A tn \in Tenants : more[tn] =
            IF tn = mine THEN AddReservation(cycle.tenant[tn], rows[t].res)
                         ELSE cycle.tenant[tn]
  BY <1>3, <1>5
<1> HIDE DEF more, mine
<1>8. /\ cycle'.pc = cycle.pc /\ cycle'.todo = cycle.todo \ {t}
      /\ cycle'.reserved = AddReservation(cycle.reserved, rows[t].res)
      /\ cycle'.tenant = more
  BY <1>1, <1>6 DEF Cycle
<1>9. cycle' \in Cycle
  BY <1>1, <1>4, <1>6, <1>7 DEF Cycle
<1> QED
  BY <1>2, <1>7, <1>8, <1>9 DEF mine

LEMMA SpawnFailsSteps ==
    ASSUME TypeOK, NEW t \in Tasks, DispatchSpawnFails(t)
    PROVE  /\ Moves(t, "ended")
           /\ cycle' \in Cycle
           /\ cycle'.pc = cycle.pc /\ cycle'.todo = cycle.todo
           /\ cycle'.reserved = SubtractReservation(cycle.reserved, rows[t].res)
           /\ cycle'.tenant = cycle.tenant
<1>1. rows \in [Tasks -> Row] /\ cycle \in Cycle
  BY DEF TypeOK
<1>2. Moves(t, "ended")
  BY <1>1, StageSet DEF DispatchSpawnFails, Stage
<1>3. SubtractReservation(cycle.reserved, rows[t].res) \in Amount
  BY <1>1, SubtractReservationValue DEF Row, Cycle
<1>4. cycle' = [cycle EXCEPT !.reserved = SubtractReservation(cycle.reserved, rows[t].res)]
  BY DEF DispatchSpawnFails
<1> QED
  BY <1>1, <1>2, <1>3, <1>4 DEF Cycle

LEMMA CountSteps ==
    ASSUME TypeOK, DispatchCount
    PROVE  /\ cycle' \in Cycle
           /\ cycle'.pc = "counted" /\ cycle'.todo = cycle.todo
           /\ cycle'.reserved = ReservedCapacity(config.capacity, Active, Res)
           /\ \A tn \in Tenants : cycle'.tenant[tn] = TenantSum(tn)
           /\ Res \in [Tasks -> Amount]
<1> DEFINE sum == ReservedCapacity(config.capacity, Active, Res)
           sums == [tn \in Tenants |-> TenantSum(tn)]
<1>1. rows \in [Tasks -> Row] /\ cycle \in Cycle /\ config \in Configs
  BY DEF TypeOK
<1>2. Res \in [Tasks -> Amount]
  BY <1>1 DEF Res, Row
<1>3. Active \in SUBSET Tasks /\ \A tn \in Tenants : ActiveOf(tn) \in SUBSET Tasks
  BY DEF Active, ActiveOf
<1>4. sum \in Amount
  <2>1. ZeroOf(config.capacity) \in Amount
    BY <1>1, ConfigType, AmountType DEF Bounded
  <2>2. CountsUp(ZeroOf(config.capacity), Res, Active)
    BY <1>2, <1>3, <2>1, AddedUpValue
  <2> QED
    BY <2>2 DEF CountsUp, ReservedCapacity
<1>5. ASSUME NEW tn \in Tenants PROVE TenantSum(tn) \in Amount
  <2>1. CountsUp(ZeroOfTenant(tn), Res, ActiveOf(tn))
    BY <1>1, <1>2, <1>3, ConfigType, AddedUpValue
  <2> QED
    BY <2>1 DEF CountsUp, TenantSum
<1>6. cycle' = [cycle EXCEPT !.pc = "counted", !.reserved = sum, !.tenant = sums]
  BY DEF DispatchCount
<1>7. sums \in [Tenants -> Amount] /\ \A tn \in Tenants : sums[tn] = TenantSum(tn)
  BY <1>5
<1> HIDE DEF sum, sums
<1>8. cycle' \in Cycle
  BY <1>1, <1>4, <1>6, <1>7 DEF Cycle
<1>9. /\ cycle'.pc = "counted" /\ cycle'.todo = cycle.todo
      /\ cycle'.reserved = sum /\ cycle'.tenant = sums
  BY <1>1, <1>6 DEF Cycle
<1> QED
  BY <1>2, <1>7, <1>8, <1>9 DEF sum

LEMMA NoCycleType ==
    NoCycle \in Cycle
  BY AmountType DEF NoCycle, Cycle

LEMMA TypeInit ==
    Init => TypeOK
<1> SUFFICES ASSUME Init PROVE TypeOK
  OBVIOUS
<1>1. (CHOOSE tn \in Tenants : TRUE) \in Tenants
  BY TasksAssumption
<1>2. 0 \in 0..Cardinality(Tasks)
  BY TasksAssumption, FS_CardinalityType
<1>3. \A tn \in Tenants : NoRow(tn) \in Row
  BY <1>2, AmountType DEF NoRow, Row, Stage
<1>4. rows \in [Tasks -> Row]
  BY <1>1, <1>3 DEF Init
<1> QED
  BY <1>4, NoCycleType, LimitsAssumption DEF Init, TypeOK

LEMMA TypeNext ==
    TypeOK /\ [Next]_vars => TypeOK'
<1> SUFFICES ASSUME TypeOK, Next PROVE TypeOK'
  BY DEF TypeOK, vars, Active, Row, Cycle
<1>1. rows \in [Tasks -> Row] /\ cycle \in Cycle
  BY DEF TypeOK
<1>2. ASSUME NEW t \in Tasks, NEW rq \in Requests, Submit(t, rq) PROVE TypeOK'
  <2>1. rows' \in [Tasks -> Row]
    BY <1>2, SubmitSteps
  <2> QED
    BY <1>2, <2>1 DEF Submit, TypeOK
<1>3. CASE DispatchCount
  BY <1>3, CountSteps DEF DispatchCount, TypeOK
<1>4. CASE DispatchList
  <2>1. Oldest(Accepted, QueueLimit) \in SUBSET Tasks
    BY DEF Oldest, Accepted
  <2>2. cycle' \in Cycle
    BY <1>1, <1>4, <2>1 DEF DispatchList, Cycle
  <2> QED
    BY <1>4, <2>2 DEF DispatchList, TypeOK
<1>5. CASE DispatchEnd
  BY <1>5, NoCycleType DEF DispatchEnd, TypeOK
<1>6. ASSUME NEW t \in Tasks, DispatchPass(t) PROVE TypeOK'
  <2>1. cycle' \in Cycle
    BY <1>1, <1>6 DEF DispatchPass, Cycle
  <2> QED
    BY <1>6, <2>1 DEF DispatchPass, TypeOK
<1>7. ASSUME NEW t \in Tasks, DispatchReserve(t) PROVE TypeOK'
  BY <1>7, ReserveSteps DEF DispatchReserve, TypeOK, Moves
<1>8. ASSUME NEW t \in Tasks, DispatchSpawn(t) PROVE TypeOK'
  <2>1. Moves(t, "holding")
    BY <1>1, <1>8, StageSet DEF DispatchSpawn, Stage
  <2> QED
    BY <1>8, <2>1 DEF DispatchSpawn, TypeOK, Moves
<1>9. ASSUME NEW t \in Tasks, DispatchSpawnFails(t) PROVE TypeOK'
  BY <1>9, SpawnFailsSteps DEF DispatchSpawnFails, TypeOK, Moves
<1>10. ASSUME NEW t \in Tasks, Finish(t) PROVE TypeOK'
  <2>1. Moves(t, "ended")
    BY <1>1, <1>10, StageSet DEF Finish, Stage
  <2> QED
    BY <1>10, <2>1 DEF Finish, TypeOK, Moves
<1>11. ASSUME NEW c \in Configs, Restart(c) PROVE TypeOK'
  <2>1. rows' \in [Tasks -> Row]
    BY <1>1, <1>11 DEF Restart, Row, Stage
  <2>2. restarts' \in 0..MaxRestarts
    BY <1>11, LimitsAssumption DEF Restart, TypeOK
  <2> QED
    BY <1>11, <2>1, <2>2, NoCycleType DEF Restart, TypeOK
<1> QED
  BY <1>2, <1>3, <1>4, <1>5, <1>6, <1>7, <1>8, <1>9, <1>10, <1>11 DEF Next, Dispatcher

\* The handler of the view changes nothing of the rest.
LEMMA ViewStep ==
    [ViewNext]_viewVars => [Next]_vars
  BY DEF ViewNext, ViewList, ViewCount, viewVars, vars

LEMMA ViewTypeNext ==
    ViewTypeOK /\ [ViewNext]_viewVars => ViewTypeOK'
<1> SUFFICES ASSUME ViewTypeOK, [ViewNext]_viewVars PROVE ViewTypeOK'
  OBVIOUS
<1>1. TypeOK'
  BY TypeNext, ViewStep DEF ViewTypeOK
<1>2. Active \in SUBSET Tasks
  BY DEF Active
<1>3. view' \in [pc : {"idle", "listed"}, active : SUBSET Tasks]
  BY <1>2 DEF ViewTypeOK, ViewNext, ViewList, ViewCount, viewVars, NoView
<1> QED
  BY <1>1, <1>3 DEF ViewTypeOK

(* The rows, the sums of the dispatcher and the state of the handler keep their
   types under every handler, restart and request. *)

THEOREM ViewTypeCorrect == ViewSpec => []ViewTypeOK
<1>1. ViewInit => ViewTypeOK
  BY TypeInit DEF ViewInit, ViewTypeOK, NoView
<1> QED
  BY <1>1, ViewTypeNext, PTL DEF ViewSpec

-----------------------------------------------------------------------------
(* The order of the dispatcher's list *)

\* QueueLimit bounds the accepted rows, so that the list takes all of them; a row gets
\* its place when it is born; only one row is reserved at a time, within a cycle.
InOrder ==
    /\ Cardinality(Accepted) <= QueueLimit
    /\ \A t \in Tasks : rows[t].stage # "absent" =>
          rows[t].born <= Cardinality(Present) /\ rows[t].res.task_slots = 1
    /\ cycle.pc # "work" => cycle.todo = {} /\ \A t \in Tasks : rows[t].stage # "reserved"
    /\ \A t \in cycle.todo : rows[t].stage = "waiting"
    /\ \A t, u \in Tasks : (rows[t].stage = "reserved" /\ rows[u].stage = "reserved") => t = u

LEMMA FewerAccepted ==
    ASSUME Accepted' \in SUBSET Accepted, Cardinality(Accepted) <= QueueLimit
    PROVE  Cardinality(Accepted') <= QueueLimit
<1>1. IsFiniteSet(Accepted)
  BY TasksAssumption, FS_Subset DEF Accepted
<1>2. /\ Cardinality(Accepted') <= Cardinality(Accepted)
      /\ Cardinality(Accepted') \in Nat /\ Cardinality(Accepted) \in Nat
  BY <1>1, FS_Subset, FS_CardinalityType
<1> QED
  BY <1>2, LimitsAssumption

LEMMA InOrderMoves ==
    ASSUME TypeOK, InOrder, NEW t \in Tasks, NEW stage \in {"reserved", "holding", "ended"},
           Moves(t, stage), rows[t].stage # "absent"
    PROVE  /\ \A u \in Tasks : rows'[u].stage # "absent" =>
                rows'[u].born <= Cardinality(Present') /\ rows'[u].res.task_slots = 1
           /\ (stage = "reserved" => t \in Accepted) => Cardinality(Accepted') <= QueueLimit
<1>1. Present' = Present
  BY DEF Present, Moves
<1>2. (stage = "reserved" => t \in Accepted) => Accepted' \in SUBSET Accepted
  BY DEF Accepted, Moves
<1> QED
  BY <1>1, <1>2, FewerAccepted DEF InOrder, Moves

LEMMA InOrderNext ==
    TypeOK /\ InOrder /\ [Next]_vars => InOrder'
<1> SUFFICES ASSUME TypeOK, InOrder, Next PROVE InOrder'
  BY DEF InOrder, vars, Accepted, Present
<1>1. rows \in [Tasks -> Row] /\ cycle \in Cycle
  BY DEF TypeOK
<1>2. ASSUME NEW t \in Tasks, NEW rq \in Requests, Submit(t, rq) PROVE InOrder'
  <2>1. /\ \A u \in Tasks : u # t => rows'[u] = rows[u]
        /\ rows[t].stage = "absent" /\ rows'[t].stage = "waiting"
        /\ rows'[t].res.task_slots = 1
        /\ rows'[t].born = 1 + Cardinality(Present)
        /\ Cardinality(Present) \in Nat /\ Cardinality(Present') = Cardinality(Present) + 1
    BY <1>2, SubmitSteps, RequestType
  <2>2. cycle' = cycle
    BY <1>2 DEF Submit
  <2>3. Cardinality(Accepted') <= QueueLimit
    <3>1. Accepted' = Accepted \cup {t} /\ t \notin Accepted
      BY <2>1 DEF Accepted
    <3>2. IsFiniteSet(Accepted) /\ Cardinality(Accepted) \in Nat
      BY TasksAssumption, FS_Subset, FS_CardinalityType DEF Accepted
    <3>3. Cardinality(Accepted') = Cardinality(Accepted) + 1
      BY <3>1, <3>2, FS_AddElement
    <3>4. Cardinality(Accepted) < QueueLimit
      BY <1>2 DEF Submit
    <3> QED
      BY <3>2, <3>3, <3>4, LimitsAssumption
  <2>4. ASSUME NEW u \in Tasks, rows'[u].stage # "absent"
        PROVE  rows'[u].born <= Cardinality(Present') /\ rows'[u].res.task_slots = 1
    <3>1. CASE u = t
      BY <2>1, <3>1
    <3>2. CASE u # t
      <4>1. rows'[u] = rows[u]
        BY <2>1, <3>2
      <4>2. rows[u].born <= Cardinality(Present) /\ rows[u].res.task_slots = 1
        BY <2>4, <4>1 DEF InOrder
      <4>3. rows[u].born \in Nat
        BY <1>1, TasksAssumption, FS_CardinalityType DEF Row
      <4> QED
        BY <2>1, <4>1, <4>2, <4>3
    <3> QED
      BY <3>1, <3>2
  <2>5. \A u \in cycle.todo : u \in Tasks
    BY <1>1 DEF Cycle
  <2> QED
    BY <2>1, <2>2, <2>3, <2>4, <2>5 DEF InOrder
<1>3. CASE DispatchCount
  <2>1. rows' = rows /\ cycle'.pc = "counted" /\ cycle'.todo = cycle.todo /\ cycle.pc = "idle"
    BY <1>3, CountSteps DEF DispatchCount
  <2> QED
    BY <2>1 DEF InOrder, Accepted, Present
<1>4. CASE DispatchList
  <2>1. /\ rows' = rows /\ cycle.pc = "counted"
        /\ cycle'.pc = "work" /\ cycle'.todo = Oldest(Accepted, QueueLimit)
    BY <1>1, <1>4 DEF DispatchList, Cycle
  <2>2. \A t \in Oldest(Accepted, QueueLimit) : rows[t].stage = "waiting"
    BY <2>1 DEF InOrder, Oldest, Accepted
  <2> QED
    BY <2>1, <2>2 DEF InOrder, Accepted, Present
<1>5. CASE DispatchEnd
  BY <1>5 DEF DispatchEnd, InOrder, NoCycle, Accepted, Present
<1>6. ASSUME NEW t \in Tasks, DispatchPass(t) PROVE InOrder'
  <2>1. rows' = rows /\ cycle'.pc = cycle.pc /\ cycle'.todo = cycle.todo \ {t}
    BY <1>1, <1>6 DEF DispatchPass, Cycle
  <2> QED
    BY <2>1 DEF InOrder, Accepted, Present
<1>7. ASSUME NEW t \in Tasks, DispatchReserve(t) PROVE InOrder'
  <2>1. Moves(t, "reserved") /\ cycle'.pc = cycle.pc /\ cycle'.todo = cycle.todo \ {t}
    BY <1>7, ReserveSteps
  <2>2. /\ cycle.pc = "work" /\ t \in cycle.todo
        /\ \A u \in Tasks : rows[u].stage # "reserved"
    BY <1>7 DEF DispatchReserve, TakesUp
  <2>3. rows[t].stage = "waiting" /\ t \in Accepted
    BY <2>2 DEF InOrder, Accepted
  <2>4. /\ \A u \in Tasks : rows'[u].stage # "absent" =>
                rows'[u].born <= Cardinality(Present') /\ rows'[u].res.task_slots = 1
        /\ Cardinality(Accepted') <= QueueLimit
    BY <2>1, <2>3, InOrderMoves
  <2>5. cycle.todo \in SUBSET Tasks
    BY <1>1 DEF Cycle
  <2> QED
    BY <2>1, <2>2, <2>4, <2>5 DEF InOrder, Moves
<1>8. ASSUME NEW t \in Tasks, NEW stage \in {"holding", "ended"}, Moves(t, stage),
             rows[t].stage \in {"reserved", "holding"},
             cycle'.pc = cycle.pc, cycle'.todo = cycle.todo
      PROVE  InOrder'
  <2>1. /\ \A u \in Tasks : rows'[u].stage # "absent" =>
                rows'[u].born <= Cardinality(Present') /\ rows'[u].res.task_slots = 1
        /\ Cardinality(Accepted') <= QueueLimit
    BY <1>8, InOrderMoves
  <2>2. cycle.todo \in SUBSET Tasks /\ t \notin cycle.todo
    BY <1>1, <1>8 DEF Cycle, InOrder
  <2> QED
    BY <1>8, <2>1, <2>2 DEF InOrder, Moves
<1>9. ASSUME NEW t \in Tasks, DispatchSpawn(t) PROVE InOrder'
  BY <1>1, <1>8, <1>9, StageSet DEF DispatchSpawn, Stage
<1>10. ASSUME NEW t \in Tasks, DispatchSpawnFails(t) PROVE InOrder'
  <2>1. rows[t].stage = "reserved"
    BY <1>10 DEF DispatchSpawnFails
  <2> QED
    BY <1>8, <1>10, <2>1, SpawnFailsSteps
<1>11. ASSUME NEW t \in Tasks, Finish(t) PROVE InOrder'
  BY <1>1, <1>8, <1>11, StageSet DEF Finish, Stage
<1>12. ASSUME NEW c \in Configs, Restart(c) PROVE InOrder'
  <2>1. /\ \A u \in Tasks : /\ rows'[u].res = rows[u].res /\ rows'[u].born = rows[u].born
                            /\ rows'[u].stage = IF rows[u].stage = "reserved" THEN "waiting"
                                                                    ELSE rows[u].stage
        /\ cycle' = NoCycle
    BY <1>1, <1>12 DEF Restart, Row
  <2>2. Accepted' = Accepted /\ Present' = Present
    BY <2>1 DEF Accepted, Present
  <2> QED
    BY <2>1, <2>2 DEF InOrder, NoCycle
<1> QED
  BY <1>2, <1>3, <1>4, <1>5, <1>6, <1>7, <1>9, <1>10, <1>11, <1>12 DEF Next, Dispatcher

LEMMA InOrderInit ==
    Init => InOrder
<1> SUFFICES ASSUME Init PROVE InOrder
  OBVIOUS
<1>1. \A t \in Tasks : rows[t].stage = "absent"
  BY DEF Init, NoRow
<1>2. Accepted = {}
  BY <1>1 DEF Accepted
<1>3. Cardinality(Accepted) <= QueueLimit
  BY <1>2, FS_EmptySet, LimitsAssumption
<1> QED
  BY <1>1, <1>3 DEF InOrder, Init, NoCycle
-----------------------------------------------------------------------------
(* The sums of a cycle *)

RuntimeCovered ==
    cycle.pc # "idle" =>
        /\ Names(cycle.reserved, config.capacity)
        /\ Covers(cycle.reserved, Active, Res, Limited(config.capacity))
        /\ \A t \in Tasks : rows[t].stage = "reserved" =>
              Exceeds(cycle.reserved, Active, Res,
                      Limited(config.capacity) \cap Limited(Res[t]))

TenantsCovered ==
    cycle.pc # "idle" => \A tn \in Tenants :
        /\ Covers(cycle.tenant[tn], ActiveOf(tn), Res, Optional)
        /\ \A q \in config.quotas[tn] : Names(cycle.tenant[tn], q)

LEMMA NamesKept ==
    ASSUME NEW a \in Amount, NEW x \in Amount, NEW limit, Names(a, limit)
    PROVE  Names(AddReservation(a, x), limit) /\ Names(SubtractReservation(a, x), limit)
<1>1. \A d \in Optional : /\ a[d] \in Option /\ x[d] \in Option
                          /\ AddReservation(a, x)[d] = AddOption(a[d], x[d])
                          /\ SubtractReservation(a, x)[d] = SubOption(a[d], x[d])
  BY AmountType, AddReservationValue, SubtractReservationValue
<1>2. \A d \in Limited(limit) : d \in Optional /\ a[d] # {}
  BY DEF Limited, Names
<1>3. \A d \in Limited(limit) : AddOption(a[d], x[d]) # {} /\ SubOption(a[d], x[d]) # {}
  BY <1>1, <1>2, AddOptionValue, SubOptionValue
<1> QED
  BY <1>1, <1>2, <1>3 DEF Names

LEMMA ResType ==
    ASSUME TypeOK
    PROVE  /\ Res \in [Tasks -> Amount]
           /\ \A t \in Tasks : Res[t] = rows[t].res
           /\ Active \in SUBSET Tasks /\ \A tn \in Tenants : ActiveOf(tn) \in SUBSET Tasks
           /\ \A limit : Limited(limit) \in SUBSET Optional
           /\ cycle.reserved \in Amount
           /\ \A tn \in Tenants : cycle.tenant[tn] \in Amount
           /\ \A t \in Tasks : rows[t].tenant \in Tenants
  BY DEF TypeOK, Res, Row, Active, ActiveOf, Limited, Cycle

LEMMA MovesRes ==
    ASSUME TypeOK, NEW t \in Tasks, NEW stage, Moves(t, stage)
    PROVE  /\ Res' = Res
           /\ (rows[t].stage \in {"reserved", "holding"} /\ stage = "ended") =>
                 /\ t \in Active /\ Active' = Active \ {t}
                 /\ \A tn \in Tenants : ActiveOf(tn)' = ActiveOf(tn) \ {t}
           /\ (rows[t].stage = "reserved" /\ stage = "holding") =>
                 /\ Active' = Active
                 /\ \A tn \in Tenants : ActiveOf(tn)' = ActiveOf(tn)
           /\ (rows[t].stage = "waiting" /\ stage = "reserved") =>
                 /\ t \in Tasks \ Active /\ Active' = Active \cup {t}
                 /\ \A tn \in Tenants : ActiveOf(tn)' =
                       IF tn = rows[t].tenant THEN ActiveOf(tn) \cup {t} ELSE ActiveOf(tn)
<1>1. Res' = Res
  BY DEF Res, Moves
<1>2. \A u \in Tasks : /\ rows'[u].stage = IF u = t THEN stage ELSE rows[u].stage
                       /\ rows'[u].tenant = rows[u].tenant
  BY DEF Moves
<1>3. /\ Active = {u \in Tasks : rows[u].stage \in {"reserved", "holding"}}
      /\ Active' = {u \in Tasks : rows'[u].stage \in {"reserved", "holding"}}
  BY DEF Active
<1>4. \A tn \in Tenants : /\ ActiveOf(tn) = {u \in Active : rows[u].tenant = tn}
                          /\ ActiveOf(tn)' = {u \in Active' : rows'[u].tenant = tn}
  BY DEF ActiveOf
<1>5. CASE rows[t].stage \in {"reserved", "holding"} /\ stage = "ended"
  <2>1. t \in Active /\ Active' = Active \ {t}
    BY <1>2, <1>3, <1>5
  <2>2. Active \in SUBSET Tasks
    BY <1>3
  <2>3. \A tn \in Tenants : ActiveOf(tn)' = ActiveOf(tn) \ {t}
    BY <1>2, <1>4, <2>1, <2>2
  <2> QED
    BY <1>1, <1>5, <2>1, <2>3
<1>6. CASE rows[t].stage = "reserved" /\ stage = "holding"
  <2>1. Active' = Active
    BY <1>2, <1>3, <1>6
  <2>2. Active \in SUBSET Tasks
    BY <1>3
  <2>3. \A tn \in Tenants : ActiveOf(tn)' = ActiveOf(tn)
    BY <1>2, <1>4, <2>1, <2>2
  <2> QED
    BY <1>1, <1>6, <2>1, <2>3
<1>7. CASE rows[t].stage = "waiting" /\ stage = "reserved"
  <2>1. t \in Tasks \ Active /\ Active' = Active \cup {t}
    BY <1>2, <1>3, <1>7
  <2>2. Active \in SUBSET Tasks
    BY <1>3
  <2>3. \A tn \in Tenants : ActiveOf(tn)' =
           IF tn = rows[t].tenant THEN ActiveOf(tn) \cup {t} ELSE ActiveOf(tn)
    BY <1>2, <1>4, <2>1, <2>2
  <2> QED
    BY <1>1, <1>7, <2>1, <2>3
<1> QED
  BY <1>1, <1>5, <1>6, <1>7

LEMMA SubmitKeepsActive ==
    ASSUME TypeOK, TypeOK', NEW t \in Tasks, NEW rq \in Requests, Submit(t, rq)
    PROVE  /\ Active' = Active /\ \A tn \in Tenants : ActiveOf(tn)' = ActiveOf(tn)
           /\ \A u \in Tasks : u # t => Res'[u] = Res[u]
           /\ t \notin Active /\ rows[t].stage = "absent" /\ rows'[t].stage = "waiting"
           /\ cycle' = cycle /\ config' = config
<1>1. /\ \A u \in Tasks : u # t => rows'[u] = rows[u]
      /\ rows[t].stage = "absent" /\ rows'[t].stage = "waiting"
  BY SubmitSteps
<1>2. Active' = Active /\ t \notin Active
  BY <1>1 DEF Active
<1>3. \A tn \in Tenants : ActiveOf(tn)' = ActiveOf(tn)
  BY <1>1, <1>2 DEF ActiveOf, Active
<1>4. \A u \in Tasks : u # t => Res'[u] = Res[u]
  BY <1>1 DEF Res
<1> QED
  BY <1>1, <1>2, <1>3, <1>4 DEF Submit

LEMMA RuntimeCoveredNext ==
    ASSUME TypeOK, TypeOK', InOrder, InOrder', RuntimeCovered, [Next]_vars
    PROVE  RuntimeCovered'
<1>0. ASSUME UNCHANGED vars PROVE RuntimeCovered'
  <2>1. rows' = rows /\ cycle' = cycle /\ config' = config
    BY <1>0 DEF vars
  <2>2. Res' = Res /\ Active' = Active
    BY <2>1 DEF Res, Active
  <2> QED
    BY <2>1, <2>2 DEF RuntimeCovered
<1> SUFFICES ASSUME Next PROVE RuntimeCovered'
  BY <1>0
<1> DEFINE D == Limited(config.capacity)
<1>1. /\ Res \in [Tasks -> Amount] /\ Active \in SUBSET Tasks
      /\ \A t \in Tasks : Res[t] = rows[t].res
      /\ D \in SUBSET Optional /\ cycle.reserved \in Amount
      /\ \A limit : D \cap Limited(limit) \in SUBSET Optional
  BY ResType
<1>2. Res' \in [Tasks -> Amount]
  BY DEF TypeOK, Res, Row
<1> HIDE DEF D
<1>3. ASSUME NEW t \in Tasks, NEW rq \in Requests, Submit(t, rq) PROVE RuntimeCovered'
  <2>1. /\ Active' = Active /\ \A u \in Tasks : u # t => Res'[u] = Res[u]
        /\ t \notin Active /\ rows'[t].stage = "waiting"
        /\ cycle' = cycle /\ config' = config
    BY <1>3, SubmitKeepsActive
  <2>2. \A u \in Tasks : u # t => rows'[u] = rows[u]
    BY <1>3, SubmitSteps
  <2> SUFFICES ASSUME cycle.pc # "idle"
               PROVE  /\ Names(cycle.reserved, config.capacity)
                      /\ Covers(cycle.reserved, Active, Res', D)
                      /\ \A u \in Tasks : rows'[u].stage = "reserved" =>
                            Exceeds(cycle.reserved, Active, Res', D \cap Limited(Res'[u]))
    BY <2>1 DEF RuntimeCovered, D
  <2>3. /\ Names(cycle.reserved, config.capacity)
        /\ Covers(cycle.reserved, Active, Res, D)
        /\ \A u \in Tasks : rows[u].stage = "reserved" =>
              Exceeds(cycle.reserved, Active, Res, D \cap Limited(Res[u]))
    BY DEF RuntimeCovered, D
  <2>4. \A u \in Active : Res[u] = Res'[u]
    BY <1>1, <2>1
  <2>5. Covers(cycle.reserved, Active, Res', D)
    BY <1>1, <1>2, <2>3, <2>4, CoverSame
  <2>6. ASSUME NEW u \in Tasks, rows'[u].stage = "reserved"
        PROVE  Exceeds(cycle.reserved, Active, Res', D \cap Limited(Res'[u]))
    <3>1. u # t /\ rows[u].stage = "reserved" /\ Res'[u] = Res[u]
      BY <2>1, <2>2, <2>6
    <3>2. Exceeds(cycle.reserved, Active, Res, D \cap Limited(Res[u]))
      BY <2>3, <3>1
    <3>3. D \cap Limited(Res[u]) \in SUBSET Optional
      BY <1>1
    <3>4. Exceeds(cycle.reserved, Active, Res', D \cap Limited(Res[u]))
      BY <1>1, <1>2, <2>4, <3>2, <3>3, CoverSame
    <3> QED
      BY <3>1, <3>4
  <2> QED
    BY <2>3, <2>5, <2>6
<1>4. CASE DispatchCount
  <2>1. /\ cycle'.reserved = ReservedCapacity(config.capacity, Active, Res)
        /\ rows' = rows /\ config' = config /\ cycle.pc = "idle"
    BY <1>4, CountSteps DEF DispatchCount
  <2>2. Active' = Active /\ Res' = Res
    BY <2>1 DEF Active, Res
  <2>3. ZeroOf(config.capacity) \in Amount /\ Names(ZeroOf(config.capacity), config.capacity)
    <3>1. config.capacity \in Amount
      BY ConfigType DEF TypeOK, Bounded
    <3> QED
      BY <3>1, AmountType DEF Names, Limited, ZeroOf, Optional
  <2>4. /\ Covers(cycle'.reserved, Active, Res, Optional)
        /\ CountsUp(ZeroOf(config.capacity), Res, Active)
    BY <1>1, <2>1, <2>3, CountCovers, AddedUpValue DEF ReservedCapacity
  <2>5. Names(cycle'.reserved, config.capacity)
    BY <2>1, <2>3, <2>4 DEF CountsUp, ReservedCapacity, Names, Limited
  <2>6. Covers(cycle'.reserved, Active, Res, D)
    BY <1>1, <2>4 DEF Covers
  <2>7. \A t \in Tasks : rows[t].stage # "reserved"
    BY <2>1 DEF InOrder
  <2> QED
    BY <2>1, <2>2, <2>5, <2>6, <2>7 DEF RuntimeCovered, D
<1>5. ASSUME rows' = rows, config' = config, cycle'.reserved = cycle.reserved,
             cycle.pc # "idle"
      PROVE  RuntimeCovered'
  BY <1>5 DEF RuntimeCovered, Active, Res
<1>6. CASE DispatchList
  BY <1>5, <1>6 DEF DispatchList, TypeOK, Cycle
<1>7. CASE DispatchEnd
  BY <1>7 DEF DispatchEnd, RuntimeCovered, NoCycle
<1>8. ASSUME NEW t \in Tasks, DispatchPass(t) PROVE RuntimeCovered'
  BY <1>5, <1>8 DEF DispatchPass, TakesUp, TypeOK, Cycle
<1>9. ASSUME NEW t \in Tasks, DispatchReserve(t) PROVE RuntimeCovered'
  <2>1. /\ Moves(t, "reserved") /\ config' = config
        /\ cycle'.reserved = AddReservation(cycle.reserved, Res[t])
    BY <1>1, <1>9, ReserveSteps DEF DispatchReserve
  <2>2. /\ cycle.pc = "work" /\ t \in cycle.todo
        /\ \A u \in Tasks : rows[u].stage # "reserved"
        /\ Fits(config.capacity, cycle.reserved, Res[t])
    BY <1>1, <1>9 DEF DispatchReserve, TakesUp, CanReserve
  <2>3. rows[t].stage = "waiting"
    BY <2>2 DEF InOrder
  <2>4. Res' = Res /\ t \in Tasks \ Active /\ Active' = Active \cup {t}
    BY <2>1, <2>3, MovesRes
  <2>5. Names(cycle.reserved, config.capacity) /\ Covers(cycle.reserved, Active, Res, D)
    BY <2>2 DEF RuntimeCovered, D
  <2>6. Covers(cycle'.reserved, Active', Res, D)
    BY <1>1, <2>1, <2>4, <2>5, CoverWith
  <2>7. Names(cycle'.reserved, config.capacity)
    BY <1>1, <2>1, <2>5, NamesKept
  <2>8. Exceeds(cycle'.reserved, Active', Res, D \cap Limited(Res[t]))
    <3>1. Bounded(config.capacity)
      BY ConfigType DEF TypeOK
    <3>2. Exceeds(AddReservation(cycle.reserved, Res[t]), Active \cup {t}, Res,
                  Limited(config.capacity) \cap Limited(Res[t]))
      BY <1>1, <2>2, <2>4, <2>5, <3>1, FitIsExact DEF D
    <3> QED
      BY <2>1, <2>4, <3>2 DEF D
  <2>9. \A u \in Tasks : rows'[u].stage = "reserved" => u = t
    BY <2>1, <2>2 DEF Moves
  <2> QED
    BY <2>1, <2>4, <2>6, <2>7, <2>8, <2>9 DEF RuntimeCovered, D
<1>10. ASSUME NEW t \in Tasks, DispatchSpawn(t) PROVE RuntimeCovered'
  <2>1. /\ Moves(t, "holding") /\ rows[t].stage = "reserved"
        /\ cycle' = cycle /\ config' = config
    BY <1>10, StageSet DEF DispatchSpawn, Stage, TypeOK
  <2>2. Res' = Res /\ Active' = Active
    BY <2>1, MovesRes
  <2>3. \A u \in Tasks : rows'[u].stage = "reserved" => rows[u].stage = "reserved"
    BY <2>1 DEF Moves
  <2> QED
    BY <2>1, <2>2, <2>3 DEF RuntimeCovered
<1>11. ASSUME NEW t \in Tasks, DispatchSpawnFails(t) PROVE RuntimeCovered'
  <2>1. /\ Moves(t, "ended") /\ rows[t].stage = "reserved" /\ config' = config
        /\ cycle'.pc = cycle.pc
        /\ cycle'.reserved = SubtractReservation(cycle.reserved, Res[t])
    BY <1>1, <1>11, SpawnFailsSteps DEF DispatchSpawnFails
  <2>2. Res' = Res /\ t \in Active /\ Active' = Active \ {t}
    BY <2>1, MovesRes
  <2>3. \A u \in Tasks : rows'[u].stage # "reserved"
    BY <2>1 DEF Moves, InOrder
  <2> SUFFICES ASSUME cycle.pc # "idle"
               PROVE  /\ Names(cycle'.reserved, config.capacity)
                      /\ Covers(cycle'.reserved, Active', Res, D)
    BY <2>1, <2>2, <2>3 DEF RuntimeCovered, D
  <2>4. /\ Names(cycle.reserved, config.capacity) /\ Covers(cycle.reserved, Active, Res, D)
        /\ Exceeds(cycle.reserved, Active, Res, D \cap Limited(Res[t]))
    BY <2>1 DEF RuntimeCovered, D
  <2>5. Covers(cycle'.reserved, Active', Res, D)
    BY <1>1, <2>1, <2>2, <2>4, CoverTakenBack
  <2>6. Names(cycle'.reserved, config.capacity)
    <3>1. Res[t] \in Amount
      BY <1>1
    <3> QED
      BY <1>1, <2>1, <2>4, <3>1, NamesKept
  <2> QED
    BY <2>5, <2>6
<1>12. ASSUME NEW t \in Tasks, Finish(t) PROVE RuntimeCovered'
  <2>1. /\ Moves(t, "ended") /\ rows[t].stage = "holding"
        /\ cycle' = cycle /\ config' = config
    BY <1>12, StageSet DEF Finish, Stage, TypeOK
  <2>2. Res' = Res /\ t \in Active /\ Active' = Active \ {t}
    BY <2>1, MovesRes
  <2>3. \A u \in Tasks : rows'[u].stage = "reserved" => rows[u].stage = "reserved"
    BY <2>1 DEF Moves
  <2> SUFFICES ASSUME cycle.pc # "idle"
               PROVE  /\ Names(cycle.reserved, config.capacity)
                      /\ Covers(cycle.reserved, Active \ {t}, Res, D)
                      /\ \A u \in Tasks : rows'[u].stage = "reserved" =>
                            Exceeds(cycle.reserved, Active \ {t}, Res, D \cap Limited(Res[u]))
    BY <2>1, <2>2 DEF RuntimeCovered, D
  <2>4. /\ Names(cycle.reserved, config.capacity) /\ Covers(cycle.reserved, Active, Res, D)
        /\ \A u \in Tasks : rows'[u].stage = "reserved" =>
              Exceeds(cycle.reserved, Active, Res, D \cap Limited(Res[u]))
    BY <2>3 DEF RuntimeCovered, D
  <2>5. Covers(cycle.reserved, Active \ {t}, Res, D)
    BY <1>1, <2>2, <2>4, CoverWithout
  <2>6. ASSUME NEW u \in Tasks, rows'[u].stage = "reserved"
        PROVE  Exceeds(cycle.reserved, Active \ {t}, Res, D \cap Limited(Res[u]))
    <3>1. D \cap Limited(Res[u]) \in SUBSET Optional
      BY <1>1
    <3> QED
      BY <1>1, <2>2, <2>4, <2>6, <3>1, CoverWithout
  <2> QED
    BY <2>4, <2>5, <2>6
<1>13. ASSUME NEW c \in Configs, Restart(c) PROVE RuntimeCovered'
  BY <1>13 DEF Restart, RuntimeCovered, NoCycle
<1> QED
  BY <1>3, <1>4, <1>6, <1>7, <1>8, <1>9, <1>10, <1>11, <1>12, <1>13 DEF Next, Dispatcher

LEMMA TenantsCoveredNext ==
    ASSUME TypeOK, TypeOK', InOrder, TenantsCovered, [Next]_vars
    PROVE  TenantsCovered'
<1>0. ASSUME UNCHANGED vars PROVE TenantsCovered'
  <2>1. rows' = rows /\ cycle' = cycle /\ config' = config
    BY <1>0 DEF vars
  <2>2. Res' = Res /\ \A tn \in Tenants : ActiveOf(tn)' = ActiveOf(tn)
    BY <2>1 DEF Res, Active, ActiveOf
  <2> QED
    BY <2>1, <2>2 DEF TenantsCovered
<1> SUFFICES ASSUME Next PROVE TenantsCovered'
  BY <1>0
<1>1. /\ Res \in [Tasks -> Amount] /\ \A tn \in Tenants : ActiveOf(tn) \in SUBSET Tasks
      /\ \A t \in Tasks : Res[t] = rows[t].res
      /\ \A tn \in Tenants : cycle.tenant[tn] \in Amount
  BY ResType
<1>2. Res' \in [Tasks -> Amount]
  BY DEF TypeOK, Res, Row
<1>3. ASSUME NEW t \in Tasks, NEW rq \in Requests, Submit(t, rq) PROVE TenantsCovered'
  <2>1. /\ \A u \in Tasks : u # t => Res'[u] = Res[u]
        /\ \A tn \in Tenants : ActiveOf(tn)' = ActiveOf(tn)
        /\ t \notin Active /\ cycle' = cycle /\ config' = config
    BY <1>3, SubmitKeepsActive
  <2>2. \A tn \in Tenants : \A u \in ActiveOf(tn) : Res[u] = Res'[u]
    BY <1>1, <2>1 DEF ActiveOf
  <2>3. ASSUME NEW tn \in Tenants, Covers(cycle.tenant[tn], ActiveOf(tn), Res, Optional)
        PROVE  Covers(cycle.tenant[tn], ActiveOf(tn), Res', Optional)
    BY <1>1, <1>2, <2>2, <2>3, CoverSame
  <2> QED
    BY <2>1, <2>3 DEF TenantsCovered
<1>4. CASE DispatchCount
  <2>1. /\ \A tn \in Tenants : cycle'.tenant[tn] = TenantSum(tn)
        /\ rows' = rows /\ config' = config
    BY <1>4, CountSteps DEF DispatchCount
  <2>2. Res' = Res /\ \A tn \in Tenants : ActiveOf(tn)' = ActiveOf(tn)
    BY <2>1 DEF Res, Active, ActiveOf
  <2>3. ASSUME NEW tn \in Tenants
        PROVE  /\ Covers(cycle'.tenant[tn], ActiveOf(tn), Res, Optional)
               /\ \A q \in config.quotas[tn] : Names(cycle'.tenant[tn], q)
    <3>1. /\ ZeroOfTenant(tn) \in Amount
          /\ \A q \in config.quotas[tn] : Names(ZeroOfTenant(tn), q)
      BY ConfigType DEF TypeOK
    <3>2. /\ Covers(TenantSum(tn), ActiveOf(tn), Res, Optional)
          /\ CountsUp(ZeroOfTenant(tn), Res, ActiveOf(tn))
      BY <1>1, <3>1, CountCovers, AddedUpValue DEF TenantSum
    <3> QED
      BY <2>1, <3>1, <3>2 DEF CountsUp, TenantSum, Names, Limited
  <2> QED
    BY <2>1, <2>2, <2>3 DEF TenantsCovered
<1>5. ASSUME Res' = Res, \A tn \in Tenants : ActiveOf(tn)' = ActiveOf(tn),
             config' = config, cycle'.tenant = cycle.tenant, cycle.pc # "idle"
      PROVE  TenantsCovered'
  BY <1>5 DEF TenantsCovered
<1>6. ASSUME rows' = rows
      PROVE  Res' = Res /\ \A tn \in Tenants : ActiveOf(tn)' = ActiveOf(tn)
  BY <1>6 DEF Res, Active, ActiveOf
<1>7. CASE DispatchList
  <2>1. /\ rows' = rows /\ config' = config /\ cycle'.tenant = cycle.tenant
        /\ cycle.pc # "idle"
    BY <1>7 DEF DispatchList, TypeOK, Cycle
  <2> QED
    BY <1>5, <1>6, <2>1
<1>8. CASE DispatchEnd
  BY <1>8 DEF DispatchEnd, TenantsCovered, NoCycle
<1>9. ASSUME NEW t \in Tasks, DispatchPass(t) PROVE TenantsCovered'
  <2>1. /\ rows' = rows /\ config' = config /\ cycle'.tenant = cycle.tenant
        /\ cycle.pc # "idle"
    BY <1>9 DEF DispatchPass, TakesUp, TypeOK, Cycle
  <2> QED
    BY <1>5, <1>6, <2>1
<1>10. ASSUME NEW t \in Tasks, DispatchReserve(t) PROVE TenantsCovered'
  <2>1. /\ Moves(t, "reserved") /\ config' = config
        /\ \A tn \in Tenants : cycle'.tenant[tn] =
              IF tn = rows[t].tenant THEN AddReservation(cycle.tenant[tn], Res[t])
                                     ELSE cycle.tenant[tn]
    <3>1. /\ Moves(t, "reserved")
          /\ \A tn \in Tenants : cycle'.tenant[tn] =
                IF tn = rows[t].tenant THEN AddReservation(cycle.tenant[tn], rows[t].res)
                                       ELSE cycle.tenant[tn]
      BY <1>10, ReserveSteps
    <3>2. config' = config /\ Res[t] = rows[t].res
      BY <1>1, <1>10 DEF DispatchReserve
    <3> QED
      BY <3>1, <3>2
  <2>2. cycle.pc = "work" /\ rows[t].stage = "waiting"
    BY <1>10 DEF DispatchReserve, TakesUp, InOrder
  <2>3. /\ Res' = Res /\ t \in Tasks \ Active
        /\ \A tn \in Tenants : ActiveOf(tn)' =
              IF tn = rows[t].tenant THEN ActiveOf(tn) \cup {t} ELSE ActiveOf(tn)
    BY <2>1, <2>2, MovesRes
  <2>4. ASSUME NEW tn \in Tenants
        PROVE  /\ Covers(cycle'.tenant[tn], ActiveOf(tn)', Res, Optional)
               /\ \A q \in config.quotas[tn] : Names(cycle'.tenant[tn], q)
    <3>1. /\ Covers(cycle.tenant[tn], ActiveOf(tn), Res, Optional)
          /\ \A q \in config.quotas[tn] : Names(cycle.tenant[tn], q)
      BY <2>2 DEF TenantsCovered
    <3>2. CASE tn = rows[t].tenant
      <4>1. /\ cycle'.tenant[tn] = AddReservation(cycle.tenant[tn], Res[t])
            /\ ActiveOf(tn)' = ActiveOf(tn) \cup {t}
        BY <2>1, <2>3, <3>2
      <4>2. cycle.tenant[tn] \in Amount /\ ActiveOf(tn) \in SUBSET Tasks
            /\ t \in Tasks \ ActiveOf(tn) /\ Res[t] \in Amount
        BY <1>1, <2>3 DEF ActiveOf
      <4>3. Covers(cycle'.tenant[tn], ActiveOf(tn)', Res, Optional)
        <5>1. Covers(AddReservation(cycle.tenant[tn], Res[t]), ActiveOf(tn) \cup {t}, Res,
                     Optional)
          BY <1>1, <3>1, <4>2, CoverWith
        <5> QED
          BY <4>1, <5>1
      <4>4. \A q \in config.quotas[tn] : Names(cycle'.tenant[tn], q)
        BY <3>1, <4>1, <4>2, NamesKept
      <4> QED
        BY <4>3, <4>4
    <3>3. CASE tn # rows[t].tenant
      BY <2>1, <2>3, <3>1, <3>3
    <3> QED
      BY <3>2, <3>3
  <2> QED
    BY <2>1, <2>3, <2>4 DEF TenantsCovered
<1>11. ASSUME NEW t \in Tasks, DispatchSpawn(t) PROVE TenantsCovered'
  <2>1. /\ Moves(t, "holding") /\ rows[t].stage = "reserved"
        /\ cycle' = cycle /\ config' = config
    BY <1>11, StageSet DEF DispatchSpawn, Stage, TypeOK
  <2>2. Res' = Res /\ \A tn \in Tenants : ActiveOf(tn)' = ActiveOf(tn)
    BY <2>1, MovesRes
  <2> QED
    BY <2>1, <2>2 DEF TenantsCovered
<1>12. ASSUME NEW t \in Tasks, Moves(t, "ended"), rows[t].stage \in {"reserved", "holding"},
              cycle'.pc = cycle.pc, cycle'.tenant = cycle.tenant, config' = config
       PROVE  TenantsCovered'
  <2>1. Res' = Res /\ \A tn \in Tenants : ActiveOf(tn)' = ActiveOf(tn) \ {t}
    BY <1>12, MovesRes
  <2>2. ASSUME NEW tn \in Tenants, Covers(cycle.tenant[tn], ActiveOf(tn), Res, Optional)
        PROVE  Covers(cycle.tenant[tn], ActiveOf(tn) \ {t}, Res, Optional)
    <3>1. CASE t \in ActiveOf(tn)
      BY <1>1, <2>2, <3>1, CoverWithout
    <3>2. CASE t \notin ActiveOf(tn)
      <4>1. ActiveOf(tn) \ {t} = ActiveOf(tn)
        BY <3>2
      <4> QED
        BY <2>2, <4>1
    <3> QED
      BY <3>1, <3>2
  <2> QED
    BY <1>12, <2>1, <2>2 DEF TenantsCovered
<1>13. ASSUME NEW t \in Tasks, DispatchSpawnFails(t) PROVE TenantsCovered'
  <2>1. /\ Moves(t, "ended") /\ rows[t].stage = "reserved" /\ config' = config
        /\ cycle'.pc = cycle.pc /\ cycle'.tenant = cycle.tenant
    BY <1>13, SpawnFailsSteps DEF DispatchSpawnFails
  <2> QED
    BY <1>12, <2>1
<1>14. ASSUME NEW t \in Tasks, Finish(t) PROVE TenantsCovered'
  <2>1. /\ Moves(t, "ended") /\ rows[t].stage = "holding"
        /\ cycle' = cycle /\ config' = config
    BY <1>14, StageSet DEF Finish, Stage, TypeOK
  <2> QED
    BY <1>12, <2>1
<1>15. ASSUME NEW c \in Configs, Restart(c) PROVE TenantsCovered'
  BY <1>15 DEF Restart, TenantsCovered, NoCycle
<1> QED
  BY <1>3, <1>4, <1>7, <1>8, <1>9, <1>10, <1>11, <1>13, <1>14, <1>15 DEF Next, Dispatcher

\* The inductive invariant: the sums of a cycle stand for what is held, and a reserved
\* task can be taken back from the sum of the runtime.
AdmissionInv ==
    /\ TypeOK
    /\ InOrder
    /\ RuntimeCovered
    /\ TenantsCovered

LEMMA AdmissionInvInit ==
    Init => AdmissionInv
  BY TypeInit, InOrderInit
  DEF AdmissionInv, RuntimeCovered, TenantsCovered, Init, NoCycle

LEMMA AdmissionInvNext ==
    AdmissionInv /\ [Next]_vars => AdmissionInv'
<1> SUFFICES ASSUME AdmissionInv, [Next]_vars PROVE AdmissionInv'
  OBVIOUS
<1>1. TypeOK /\ InOrder /\ RuntimeCovered /\ TenantsCovered
  BY DEF AdmissionInv
<1>2. TypeOK' /\ InOrder'
  BY <1>1, TypeNext, InOrderNext
<1>3. RuntimeCovered'
  BY <1>1, <1>2, RuntimeCoveredNext
<1>4. TenantsCovered'
  BY <1>1, <1>2, TenantsCoveredNext
<1> QED
  BY <1>2, <1>3, <1>4 DEF AdmissionInv

(* The counts and the list of the dispatcher stay within what the rows say. *)
THEOREM AdmissionInvariant == ViewSpec => []AdmissionInv
<1>1. ViewInit => AdmissionInv
  BY AdmissionInvInit DEF ViewInit
<1>2. AdmissionInv /\ [ViewNext]_viewVars => AdmissionInv'
  BY AdmissionInvNext, ViewStep
<1> QED
  BY <1>1, <1>2, PTL DEF ViewSpec

LEMMA TrueSums ==
    ASSUME TypeOK
    PROVE  \A S \in SUBSET Tasks :
              /\ SlotSum(S) = SlotTotal(Res, S)
              /\ \A d \in Optional : TrueSum(S, d) = PartTotal(Res, S, d)
<1>1. \A t \in Tasks : Res[t] = rows[t].res
  BY ResType
<1>2. [t \in Tasks |-> rows[t].res.task_slots] = SlotsOf(Res)
  BY <1>1 DEF SlotsOf
<1>3. ASSUME NEW d \in Optional
      PROVE  [t \in Tasks |-> OrZero(rows[t].res[d])] = PartOf(Res, d)
  BY <1>1 DEF PartOf
<1>4. \A S \in SUBSET Tasks : SlotSum(S) = SlotTotal(Res, S)
  BY <1>2 DEF SlotSum, SlotTotal
<1>5. \A S \in SUBSET Tasks : \A d \in Optional : TrueSum(S, d) = PartTotal(Res, S, d)
  BY <1>3 DEF TrueSum, PartTotal
<1> QED
  BY <1>4, <1>5

(* While list_active_reservations is at most one cycle old, neither the sum
   dispatch_waiting keeps for the runtime nor that of a tenant is below what the
   tasks hold: complete_task only lowers what is held, and subtract_reservation
   never takes back more than add_reservation gave. *)

THEOREM SumsNeverTooLow == ViewSpec => []CountsCover
<1>1. ASSUME AdmissionInv PROVE CountsCover
  <2>1. TypeOK /\ RuntimeCovered /\ TenantsCovered
    BY <1>1 DEF AdmissionInv
  <2>2. Active \in SUBSET Tasks /\ \A tn \in Tenants : ActiveOf(tn) \in SUBSET Tasks
    BY <2>1, ResType
  <2> SUFFICES ASSUME cycle.pc # "idle"
               PROVE  CountsCover
    BY DEF CountsCover
  <2>3. /\ SlotSum(Active) = SlotTotal(Res, Active)
        /\ \A tn \in Tenants : SlotSum(ActiveOf(tn)) = SlotTotal(Res, ActiveOf(tn))
    BY <2>1, <2>2, TrueSums
  <2>4. \A d \in Optional :
           /\ TrueSum(Active, d) = PartTotal(Res, Active, d)
           /\ \A tn \in Tenants : TrueSum(ActiveOf(tn), d) = PartTotal(Res, ActiveOf(tn), d)
    BY <2>1, <2>2, TrueSums
  <2>5. /\ cycle.reserved.task_slots >= SaturatingAdd(SlotTotal(Res, Active), 0)
        /\ \A d \in Optional : config.capacity[d] # {} =>
              OrZero(cycle.reserved[d]) >= SaturatingAdd(PartTotal(Res, Active, d), 0)
    BY <2>1 DEF RuntimeCovered, Covers, Limited
  <2>6. ASSUME NEW tn \in Tenants
        PROVE  /\ cycle.tenant[tn].task_slots >=
                     SaturatingAdd(SlotTotal(Res, ActiveOf(tn)), 0)
               /\ \A d \in Optional : OrZero(cycle.tenant[tn][d]) >=
                     SaturatingAdd(PartTotal(Res, ActiveOf(tn), d), 0)
    BY <2>1 DEF TenantsCovered, Covers
  <2> QED
    BY <2>3, <2>4, <2>5, <2>6 DEF CountsCover
<1> QED
  BY <1>1, AdmissionInvariant, PTL

LEMMA FitsRespected ==
    ASSUME TypeOK, NEW limit, Bounded(limit), NEW S \in SUBSET Tasks, NEW t \in Tasks \ S,
           NEW a \in Amount, Names(a, limit), Covers(a, S, Res, Limited(limit)),
           Fits(limit, a, rows[t].res)
    PROVE  Respected(limit, S \cup {t}, t)
<1> DEFINE T == S \cup {t}
<1>1. Res \in [Tasks -> Amount] /\ Res[t] = rows[t].res /\ T \in SUBSET Tasks
  BY ResType
<1>2. WithinLimit(limit, T, Res, Limited(Res[t]))
  BY <1>1, FitIsExact
<1>3. SlotSum(T) = SlotTotal(Res, T) /\ \A d \in Optional : TrueSum(T, d) = PartTotal(Res, T, d)
  BY <1>1, TrueSums
<1> HIDE DEF T
<1>4. \A d \in Optional : rows[t].res[d] # {} => d \in Limited(Res[t])
  BY <1>1 DEF Limited
<1>5. Respected(limit, T, t)
  BY <1>2, <1>3, <1>4 DEF WithinLimit, Respected
<1> QED
  BY <1>5 DEF T

LEMMA OnlyReserveReserves ==
    ASSUME TypeOK, Next, NEW t \in Tasks,
           rows[t].stage # "reserved", rows'[t].stage = "reserved"
    PROVE  DispatchReserve(t)
<1>1. rows \in [Tasks -> Row]
  BY DEF TypeOK
<1>2. ASSUME NEW u \in Tasks, NEW rq \in Requests, Submit(u, rq) PROVE FALSE
  <2>1. rows'[u].stage = "waiting" /\ \A v \in Tasks : v # u => rows'[v] = rows[v]
    BY <1>2, SubmitSteps
  <2> QED
    BY <2>1
<1>3. ~DispatchCount /\ ~DispatchList /\ ~DispatchEnd /\ ~(\E u \in Tasks : DispatchPass(u))
  BY DEF DispatchCount, DispatchList, DispatchEnd, DispatchPass
<1>4. ASSUME NEW u \in Tasks, NEW stage \in {"holding", "ended"}, Moves(u, stage) PROVE FALSE
  BY <1>4 DEF Moves
<1>5. ASSUME NEW u \in Tasks, DispatchSpawn(u) PROVE FALSE
  BY <1>1, <1>4, <1>5, StageSet DEF DispatchSpawn, Stage
<1>6. ASSUME NEW u \in Tasks, DispatchSpawnFails(u) PROVE FALSE
  BY <1>4, <1>6, SpawnFailsSteps
<1>7. ASSUME NEW u \in Tasks, Finish(u) PROVE FALSE
  BY <1>1, <1>4, <1>7, StageSet DEF Finish, Stage
<1>8. ASSUME NEW c \in Configs, Restart(c) PROVE FALSE
  <2>1. rows'[t] = IF rows[t].stage = "reserved" THEN [rows[t] EXCEPT !.stage = "waiting"]
                                                 ELSE rows[t]
    BY <1>8 DEF Restart
  <2> QED
    BY <2>1
<1>9. ASSUME NEW u \in Tasks, DispatchReserve(u) PROVE u = t
  <2>1. Moves(u, "reserved")
    BY <1>9, ReserveSteps
  <2> QED
    BY <2>1 DEF Moves
<1> QED
  BY <1>2, <1>3, <1>5, <1>6, <1>7, <1>8, <1>9 DEF Next, Dispatcher

(* A step of dispatch_waiting that gives a task its reservation leaves the capacity of
   the runtime, and the quota of the tenant, respected by what all tasks really hold,
   although can_reserve and can_reserve_for_tenant compare the sums of the cycle and
   not the rows. *)

THEOREM NoOvercommit == ViewSpec => ReservationsFit
<1> DEFINE Fit(t) ==
      (rows[t].stage # "reserved" /\ rows'[t].stage = "reserved") =>
          /\ Respected(config.capacity, Active \cup {t}, t)
          /\ \A q \in config.quotas[rows[t].tenant] :
               Respected(q, ActiveOf(rows[t].tenant) \cup {t}, t)
<1>1. ASSUME AdmissionInv, [ViewNext]_viewVars PROVE [\A t \in Tasks : Fit(t)]_vars
  <2>1. [Next]_vars
    BY <1>1, ViewStep
  <2> SUFFICES ASSUME Next, NEW t \in Tasks,
                      rows[t].stage # "reserved", rows'[t].stage = "reserved"
               PROVE  /\ Respected(config.capacity, Active \cup {t}, t)
                      /\ \A q \in config.quotas[rows[t].tenant] :
                           Respected(q, ActiveOf(rows[t].tenant) \cup {t}, t)
    BY <2>1
  <2>2. TypeOK /\ InOrder /\ RuntimeCovered /\ TenantsCovered
    BY <1>1 DEF AdmissionInv
  <2>3. DispatchReserve(t)
    BY <2>2, OnlyReserveReserves
  <2>4. /\ cycle.pc = "work" /\ rows[t].stage = "waiting" /\ CanReserve(t)
    BY <2>2, <2>3 DEF DispatchReserve, TakesUp, InOrder
  <2> DEFINE tn == rows[t].tenant
  <2>5. /\ tn \in Tenants /\ cycle.reserved \in Amount /\ cycle.tenant[tn] \in Amount
        /\ Active \in SUBSET Tasks /\ ActiveOf(tn) \in SUBSET Tasks
        /\ t \in Tasks \ Active /\ t \in Tasks \ ActiveOf(tn)
    <3>1. tn \in Tenants /\ cycle.reserved \in Amount /\ cycle.tenant[tn] \in Amount
          /\ Active \in SUBSET Tasks /\ ActiveOf(tn) \in SUBSET Tasks
      BY <2>2, ResType
    <3>2. t \notin Active
      BY <2>4 DEF Active
    <3>3. t \notin ActiveOf(tn)
      BY <3>2 DEF ActiveOf
    <3> QED
      BY <3>1, <3>2, <3>3
  <2>6. /\ Bounded(config.capacity) /\ \A q \in config.quotas[tn] : Bounded(q)
    BY <2>2, <2>5, ConfigType DEF TypeOK
  <2>7. Respected(config.capacity, Active \cup {t}, t)
    <3>1. /\ Names(cycle.reserved, config.capacity)
          /\ Covers(cycle.reserved, Active, Res, Limited(config.capacity))
          /\ Fits(config.capacity, cycle.reserved, rows[t].res)
      BY <2>2, <2>4 DEF RuntimeCovered, CanReserve
    <3> QED
      BY <2>2, <2>5, <2>6, <3>1, FitsRespected
  <2>8. ASSUME NEW q \in config.quotas[tn] PROVE Respected(q, ActiveOf(tn) \cup {t}, t)
    <3>1. /\ Names(cycle.tenant[tn], q)
          /\ Covers(cycle.tenant[tn], ActiveOf(tn), Res, Optional)
          /\ Fits(q, cycle.tenant[tn], rows[t].res)
      BY <2>2, <2>4, <2>5 DEF TenantsCovered, CanReserve
    <3>2. Covers(cycle.tenant[tn], ActiveOf(tn), Res, Limited(q))
      BY <3>1 DEF Covers, Limited
    <3> QED
      BY <2>2, <2>5, <2>6, <3>1, <3>2, FitsRespected
  <2> QED
    BY <2>7, <2>8
<1> QED
  BY <1>1, AdmissionInvariant, PTL DEF ViewSpec, ReservationsFit
-----------------------------------------------------------------------------
(* What the view shows *)

\* Since the list was taken no task of it went back to waiting.
ListedWereActive ==
    view.pc = "listed" =>
        \A t \in view.active : rows[t].stage \in {"reserved", "holding", "ended"}

LEMMA NeverBackToWaiting ==
    ASSUME TypeOK, InOrder, Next, restarts' = restarts, NEW t \in Tasks,
           rows[t].stage \in {"reserved", "holding", "ended"}
    PROVE  rows'[t].stage \in {"reserved", "holding", "ended"}
<1>1. rows \in [Tasks -> Row] /\ restarts \in Nat
  BY LimitsAssumption DEF TypeOK
<1>2. ASSUME NEW u \in Tasks, NEW rq \in Requests, Submit(u, rq)
      PROVE  rows'[t].stage \in {"reserved", "holding", "ended"}
  <2>1. rows[u].stage = "absent" /\ \A v \in Tasks : v # u => rows'[v] = rows[v]
    BY <1>2, SubmitSteps
  <2> QED
    BY <2>1
<1>3. CASE DispatchCount \/ DispatchList \/ DispatchEnd \/ \E u \in Tasks : DispatchPass(u)
  BY <1>3 DEF DispatchCount, DispatchList, DispatchEnd, DispatchPass
<1>4. ASSUME NEW u \in Tasks, NEW stage \in {"reserved", "holding", "ended"}, Moves(u, stage)
      PROVE  rows'[t].stage \in {"reserved", "holding", "ended"}
  BY <1>4 DEF Moves
<1>5. ASSUME NEW u \in Tasks, DispatchReserve(u)
      PROVE  rows'[t].stage \in {"reserved", "holding", "ended"}
  BY <1>4, <1>5, ReserveSteps
<1>6. ASSUME NEW u \in Tasks, DispatchSpawn(u)
      PROVE  rows'[t].stage \in {"reserved", "holding", "ended"}
  BY <1>1, <1>4, <1>6, StageSet DEF DispatchSpawn, Stage
<1>7. ASSUME NEW u \in Tasks, DispatchSpawnFails(u)
      PROVE  rows'[t].stage \in {"reserved", "holding", "ended"}
  BY <1>4, <1>7, SpawnFailsSteps
<1>8. ASSUME NEW u \in Tasks, Finish(u)
      PROVE  rows'[t].stage \in {"reserved", "holding", "ended"}
  BY <1>1, <1>4, <1>8, StageSet DEF Finish, Stage
<1>9. ~(\E c \in Configs : Restart(c))
  BY <1>1 DEF Restart
<1> QED
  BY <1>2, <1>3, <1>5, <1>6, <1>7, <1>8, <1>9 DEF Next, Dispatcher

LEMMA ListedNext ==
    ASSUME ViewTypeOK, InOrder, ListedWereActive, [ViewNext]_viewVars
    PROVE  ListedWereActive'
<1>1. TypeOK /\ \A t \in view.active : t \in Tasks
  BY DEF ViewTypeOK
<1>2. CASE ViewList
  <2>1. rows' = rows /\ view' = [pc |-> "listed", active |-> Active]
    BY <1>2 DEF ViewList, vars
  <2>2. \A t \in Active : rows[t].stage \in {"reserved", "holding"}
    BY DEF Active
  <2> QED
    BY <2>1, <2>2 DEF ListedWereActive
<1>3. CASE ViewCount
  BY <1>3 DEF ViewCount, NoView, ListedWereActive
<1>4. CASE Next /\ view' = IF restarts' = restarts THEN view ELSE NoView
  <2>1. CASE restarts' = restarts
    <3>1. view' = view
      BY <1>4, <2>1
    <3>2. \A t \in view.active : rows[t].stage \in {"reserved", "holding", "ended"} =>
             rows'[t].stage \in {"reserved", "holding", "ended"}
      BY <1>1, <1>4, <2>1, NeverBackToWaiting
    <3> QED
      BY <3>1, <3>2 DEF ListedWereActive
  <2>2. CASE restarts' # restarts
    BY <1>4, <2>2 DEF NoView, ListedWereActive
  <2> QED
    BY <2>1, <2>2
<1>5. CASE UNCHANGED viewVars
  BY <1>5 DEF viewVars, vars, ListedWereActive
<1> QED
  BY <1>2, <1>3, <1>4, <1>5 DEF ViewNext

(* runtime_resources reads the active reservations and the waiting tasks in two
   transactions; whatever the dispatcher, the shims and recover do between them, no
   task is in both lists of one answer. *)

THEOREM ViewShowsTasksOnce == ViewSpec => []NeverShownTwice
<1>1. ViewInit => ListedWereActive
  BY DEF ViewInit, NoView, ListedWereActive
<1>2. ViewTypeOK /\ AdmissionInv /\ ListedWereActive /\ [ViewNext]_viewVars => ListedWereActive'
  BY ListedNext DEF AdmissionInv
<1>3. ListedWereActive => NeverShownTwice
  BY DEF ListedWereActive, NeverShownTwice, Waiting
<1> QED
  BY <1>1, <1>2, <1>3, ViewTypeCorrect, AdmissionInvariant, PTL DEF ViewSpec

LEMMA RestIsRoom ==
    ASSUME NEW limit, Bounded(limit), NEW a \in Amount, NEW b \in Amount, Names(a, limit),
           a.task_slots = b.task_slots, \A d \in Optional : OrZero(a[d]) = OrZero(b[d]),
           NEW res \in Amount, res.task_slots = 1, \A d \in Optional : 0 \notin res[d]
    PROVE  FitsInto(AvailableCapacity(limit, b), res) <=> Fits(limit, a, res)
<1> DEFINE rest == AvailableCapacity(limit, b)
<1>1. \A max, have, x \in Nat : (max < MaxU64 /\ x # 0) =>
         (x <= SaturatingSub(max, have) <=> SaturatingAdd(have, x) <= max)
  BY MaxU64Assumption DEF SaturatingAdd, SaturatingSub
<1>2. res.task_slots <= rest.task_slots <=>
         SaturatingAdd(a.task_slots, res.task_slots) <= limit.task_slots
  <2>1. /\ limit.task_slots \in Nat /\ limit.task_slots < MaxU64
        /\ a.task_slots \in Nat /\ res.task_slots \in Nat /\ res.task_slots # 0
    BY AmountType DEF Bounded
  <2>2. rest.task_slots = SaturatingSub(limit.task_slots, a.task_slots)
    BY DEF AvailableCapacity
  <2> HIDE DEF rest
  <2> QED
    BY <1>1, <2>1, <2>2
<1>3. ASSUME NEW d \in Optional
      PROVE  (\A x \in res[d], r \in rest[d] : x <= r) <=>
             (\A have \in a[d], x \in res[d], max \in limit[d] : SaturatingAdd(have, x) <= max)
  <2>1. rest[d] = {SaturatingSub(max, OrZero(b[d])) : max \in limit[d]}
    BY DEF AvailableCapacity, Optional
  <2> HIDE DEF rest
  <2>2. limit[d] \in Option /\ a[d] \in Option /\ res[d] \in Option /\ b[d] \in Option
    BY AmountType DEF Bounded
  <2>3. \A max \in limit[d] : max \in Nat /\ max < MaxU64
    BY <2>2, MaxU64Assumption DEF Option, U64, Bounded
  <2>4. \A x \in res[d] : x \in Nat /\ x # 0
    BY <2>2, MaxU64Assumption DEF Option, U64
  <2>5. OrZero(a[d]) \in Nat /\ OrZero(a[d]) = OrZero(b[d])
    BY <2>2, OrZeroNat
  <2>6. CASE limit[d] = {}
    BY <2>1, <2>6
  <2>7. CASE limit[d] # {}
    <3>1. a[d] # {}
      BY <2>7 DEF Names, Limited
    <3>2. \A have : have \in a[d] <=> have = OrZero(a[d])
      BY <2>2, <3>1, OptionValue
    <3>3. (\A x \in res[d], r \in rest[d] : x <= r) <=>
          (\A x \in res[d], max \in limit[d] : x <= SaturatingSub(max, OrZero(a[d])))
      BY <2>1, <2>5
    <3>4. (\A have \in a[d], x \in res[d], max \in limit[d] : SaturatingAdd(have, x) <= max) <=>
          (\A x \in res[d], max \in limit[d] : SaturatingAdd(OrZero(a[d]), x) <= max)
      BY <3>2
    <3>5. \A x \in res[d], max \in limit[d] :
             x <= SaturatingSub(max, OrZero(a[d])) <=> SaturatingAdd(OrZero(a[d]), x) <= max
      BY <1>1, <2>3, <2>4, <2>5
    <3> QED
      BY <3>3, <3>4, <3>5
  <2> QED
    BY <2>6, <2>7
<1> HIDE DEF rest
<1>4. FitsInto(rest, res) <=> Fits(limit, a, res)
  BY <1>2, <1>3 DEF FitsInto, Fits
<1> QED
  BY <1>4 DEF rest

\* Where a sum starts makes no difference to its numbers.
LEMMA StartsAtZero ==
    /\ Nothing.task_slots = 0 /\ \A d \in Optional : OrZero(Nothing[d]) = 0
    /\ \A limit : /\ ZeroOf(limit).task_slots = 0
                  /\ \A d \in Optional : OrZero(ZeroOf(limit)[d]) = 0
    /\ \A tn : /\ ZeroOfTenant(tn).task_slots = 0
               /\ \A d \in Optional : OrZero(ZeroOfTenant(tn)[d]) = 0
<1>1. Nothing.task_slots = 0 /\ \A d \in Optional : OrZero(Nothing[d]) = 0
  BY OptionValue DEF Nothing, Optional
<1>2. ASSUME NEW limit
      PROVE  /\ ZeroOf(limit).task_slots = 0
             /\ \A d \in Optional : OrZero(ZeroOf(limit)[d]) = 0
  <2>1. ZeroOf(limit).task_slots = 0 /\ \A d \in Optional : ZeroOf(limit)[d] \in {{}, {0}}
    BY DEF ZeroOf, Optional
  <2>2. OrZero({}) = 0 /\ OrZero({0}) = 0
    BY OptionValue
  <2> QED
    BY <2>1, <2>2
<1>3. ASSUME NEW tn
      PROVE  /\ ZeroOfTenant(tn).task_slots = 0
             /\ \A d \in Optional : OrZero(ZeroOfTenant(tn)[d]) = 0
  BY <1>1, <1>2 DEF ZeroOfTenant
<1> QED
  BY <1>1, <1>2, <1>3

LEMMA AvailableRight ==
    ASSUME TypeOK, NEW rq \in Requests, \A d \in Optional : 0 \notin rq.res[d]
    PROVE  /\ FitsInto(Available, rq.res) <=>
                Fits(config.capacity, ReservedCapacity(config.capacity, Active, Res), rq.res)
           /\ \A q \in config.quotas[rq.tenant] : \A rest \in TenantAvailable(rq.tenant) :
                FitsInto(rest, rq.res) <=> Fits(q, TenantSum(rq.tenant), rq.res)
<1> DEFINE tn == rq.tenant
<1>1. rq.res \in Amount /\ rq.res.task_slots = 1 /\ tn \in Tenants
  BY RequestType
<1>2. /\ Res \in [Tasks -> Amount] /\ Active \in SUBSET Tasks /\ ActiveOf(tn) \in SUBSET Tasks
  BY <1>1, ResType
<1>3. /\ Bounded(config.capacity) /\ ZeroOfTenant(tn) \in Amount
      /\ \A q \in config.quotas[tn] : Bounded(q) /\ Names(ZeroOfTenant(tn), q)
  BY <1>1, ConfigType DEF TypeOK
<1>4. FitsInto(Available, rq.res) <=>
         Fits(config.capacity, ReservedCapacity(config.capacity, Active, Res), rq.res)
  <2> DEFINE limit == config.capacity
             a == ReservedCapacity(limit, Active, Res)
  <2>1. ZeroOf(limit) \in Amount /\ Names(ZeroOf(limit), limit)
    <3>1. limit \in Amount
      BY <1>3 DEF Bounded
    <3> QED
      BY <3>1, AmountType DEF Names, Limited, ZeroOf, Optional
  <2>2. CountsUp(ZeroOf(limit), Res, Active)
    BY <1>2, <2>1, AddedUpValue
  <2>3. a \in Amount /\ Names(a, limit)
    BY <2>1, <2>2 DEF CountsUp, ReservedCapacity, Names, Limited
  <2>4. Available = AvailableCapacity(limit, a)
    BY DEF Available
  <2>5. Bounded(limit)
    BY <1>3
  <2> HIDE DEF a, limit
  <2>6. FitsInto(AvailableCapacity(limit, a), rq.res) <=> Fits(limit, a, rq.res)
    BY <1>1, <2>3, <2>5, RestIsRoom
  <2> QED
    BY <2>4, <2>6 DEF a, limit
<1>5. ASSUME NEW q \in config.quotas[tn], NEW rest \in TenantAvailable(tn)
      PROVE  FitsInto(rest, rq.res) <=> Fits(q, TenantSum(tn), rq.res)
  <2> DEFINE a == TenantSum(tn)
             b == TenantReserved(tn)
  <2>1. config.quotas[tn] = {q}
    BY <1>1, <1>5, ConfigsAssumption DEF TypeOK
  <2>2. rest = AvailableCapacity(q, b)
    BY <1>5, <2>1 DEF TenantAvailable
  <2>3. CountsUp(ZeroOfTenant(tn), Res, ActiveOf(tn)) /\ CountsUp(Nothing, Res, ActiveOf(tn))
    BY <1>2, <1>3, AmountType, AddedUpValue
  <2>4. /\ a \in Amount /\ b \in Amount /\ Names(a, q)
        /\ a.task_slots = b.task_slots /\ \A d \in Optional : OrZero(a[d]) = OrZero(b[d])
    BY <1>3, <2>3, StartsAtZero DEF CountsUp, TenantSum, TenantReserved, Names, Limited
  <2>5. Bounded(q)
    BY <1>3
  <2> HIDE DEF a, b
  <2>6. FitsInto(AvailableCapacity(q, b), rq.res) <=> Fits(q, a, rq.res)
    BY <1>1, <2>4, <2>5, RestIsRoom
  <2> QED
    BY <2>2, <2>6 DEF a
<1> QED
  BY <1>4, <1>5

(* What available_capacity and tenant_available_capacity leave over admits the very
   requests can_reserve and can_reserve_for_tenant admit on the sums dispatch_waiting
   takes of the same rows. *)

THEOREM ViewAgreesWithDispatcher == ViewSpec => []AvailableIsRight
<1>1. ViewTypeOK => AvailableIsRight
  BY AvailableRight DEF ViewTypeOK, AvailableIsRight
<1> QED
  BY <1>1, ViewTypeCorrect, PTL
-----------------------------------------------------------------------------
(* Who is passed over *)

LEMMA MoreFitsLess ==
    ASSUME NEW limit, Bounded(limit), NEW a \in Amount, NEW x \in Amount, NEW res \in Amount,
           Fits(limit, AddReservation(a, x), res)
    PROVE  Fits(limit, a, res)
<1> DEFINE b == AddReservation(a, x)
<1>1. /\ b.task_slots = SaturatingAdd(a.task_slots, x.task_slots)
      /\ \A d \in Optional : b[d] = AddOption(a[d], x[d])
  BY AddReservationValue
<1>2. \A m, n, k, max \in Nat :
         (m <= MaxU64 /\ max < MaxU64 /\ SaturatingAdd(SaturatingAdd(m, n), k) <= max) =>
            SaturatingAdd(m, k) <= max
  BY MaxU64Assumption DEF SaturatingAdd
<1> HIDE DEF b
<1>3. SaturatingAdd(a.task_slots, res.task_slots) <= limit.task_slots
  <2>1. /\ a.task_slots \in Nat /\ a.task_slots <= MaxU64 /\ x.task_slots \in Nat
        /\ res.task_slots \in Nat /\ limit.task_slots \in Nat /\ limit.task_slots < MaxU64
    BY AmountType DEF Bounded
  <2>2. SaturatingAdd(b.task_slots, res.task_slots) <= limit.task_slots
    BY DEF Fits, b
  <2> QED
    BY <1>1, <1>2, <2>1, <2>2
<1>4. ASSUME NEW d \in Optional, NEW have \in a[d], NEW y \in res[d], NEW max \in limit[d]
      PROVE  SaturatingAdd(have, y) <= max
  <2>1. a[d] \in Option /\ x[d] \in Option /\ res[d] \in Option /\ limit[d] \in Option
    BY AmountType DEF Bounded
  <2>2. /\ have = OrZero(a[d]) /\ have \in Nat /\ have <= MaxU64
        /\ y \in Nat /\ max \in Nat /\ max < MaxU64
    <3>1. a[d] = {OrZero(a[d])} /\ OrZero(a[d]) \in Nat /\ OrZero(a[d]) <= MaxU64
      BY <1>4, <2>1, OptionValue, OrZeroNat
    <3>2. y \in Nat
      BY <1>4, <2>1, MaxU64Assumption DEF Option, U64
    <3>3. max \in Nat /\ max < MaxU64
      BY <1>4, <2>1, MaxU64Assumption DEF Option, U64, Bounded
    <3> QED
      BY <1>4, <3>1, <3>2, <3>3
  <2>3. /\ b[d] \in Option /\ b[d] # {}
        /\ OrZero(b[d]) = SaturatingAdd(have, OrZero(x[d])) /\ OrZero(x[d]) \in Nat
    BY <1>1, <1>4, <2>1, <2>2, AddOptionValue, OrZeroNat
  <2>4. SaturatingAdd(OrZero(b[d]), y) <= max
    <3>1. OrZero(b[d]) \in b[d]
      BY <2>3, OptionValue
    <3> QED
      BY <1>4, <3>1 DEF Fits, b
  <2> QED
    BY <1>2, <2>2, <2>3, <2>4
<1> QED
  BY <1>3, <1>4 DEF Fits

\* What fitted and is taken back leaves the sum as it was, wherever it is compared.
LEMMA TakenBackFits ==
    ASSUME NEW limit, Bounded(limit), NEW a \in Amount, NEW x \in Amount, NEW res \in Amount,
           Fits(limit, a, x), Fits(limit, SubtractReservation(AddReservation(a, x), x), res)
    PROVE  Fits(limit, a, res)
<1> DEFINE b == AddReservation(a, x)
           c == SubtractReservation(b, x)
<1>1. /\ b \in Amount /\ b.task_slots = SaturatingAdd(a.task_slots, x.task_slots)
      /\ \A d \in Optional : b[d] = AddOption(a[d], x[d])
  BY AddReservationValue
<1> HIDE DEF b
<1>2. /\ c.task_slots = SaturatingSub(b.task_slots, x.task_slots)
      /\ \A d \in Optional : c[d] = SubOption(b[d], x[d])
  BY <1>1, SubtractReservationValue
<1> HIDE DEF c
<1>3. \A m, n, max \in Nat : (SaturatingAdd(m, n) <= max /\ max < MaxU64) =>
         SaturatingSub(SaturatingAdd(m, n), n) = m
  BY MaxU64Assumption DEF SaturatingAdd, SaturatingSub
<1>4. SaturatingAdd(a.task_slots, res.task_slots) <= limit.task_slots
  <2>1. /\ a.task_slots \in Nat /\ x.task_slots \in Nat
        /\ limit.task_slots \in Nat /\ limit.task_slots < MaxU64
    BY AmountType DEF Bounded
  <2>2. SaturatingAdd(a.task_slots, x.task_slots) <= limit.task_slots
    BY DEF Fits
  <2>3. c.task_slots = a.task_slots
    BY <1>1, <1>2, <1>3, <2>1, <2>2
  <2>4. SaturatingAdd(c.task_slots, res.task_slots) <= limit.task_slots
    BY DEF Fits, b, c
  <2> QED
    BY <2>3, <2>4
<1>5. ASSUME NEW d \in Optional, NEW have \in a[d], NEW y \in res[d], NEW max \in limit[d]
      PROVE  SaturatingAdd(have, y) <= max
  <2>1. a[d] \in Option /\ x[d] \in Option /\ limit[d] \in Option /\ b[d] \in Option
    BY <1>1, AmountType DEF Bounded
  <2>2. a[d] = {have} /\ have = OrZero(a[d]) /\ have \in Nat
    BY <1>5, <2>1, OptionValue, OrZeroNat
  <2>3. max \in Nat /\ max < MaxU64
    BY <1>5, <2>1, MaxU64Assumption DEF Option, U64, Bounded
  <2>4. c[d] = a[d]
    <3>1. CASE x[d] = {}
      BY <1>1, <1>2, <3>1 DEF AddOption, SubOption
    <3>2. CASE x[d] # {}
      <4>1. OrZero(x[d]) \in x[d] /\ OrZero(x[d]) \in Nat
        BY <2>1, <3>2, OptionValue, OrZeroNat
      <4>2. SaturatingAdd(have, OrZero(x[d])) <= max
        BY <1>5, <4>1 DEF Fits
      <4>3. b[d] = {SaturatingAdd(have, OrZero(x[d]))}
        BY <1>1, <2>2, <3>2 DEF AddOption
      <4>4. OrZero(b[d]) = SaturatingAdd(have, OrZero(x[d])) /\ b[d] # {}
        BY <4>3, OptionValue
      <4>5. c[d] = {SaturatingSub(OrZero(b[d]), OrZero(x[d]))}
        BY <1>2, <3>2, <4>4 DEF SubOption
      <4>6. SaturatingSub(SaturatingAdd(have, OrZero(x[d])), OrZero(x[d])) = have
        BY <1>3, <2>2, <2>3, <4>1, <4>2
      <4> QED
        BY <2>2, <4>4, <4>5, <4>6
    <3> QED
      BY <3>1, <3>2
  <2> QED
    BY <1>5, <2>4 DEF Fits, b, c
<1> QED
  BY <1>4, <1>5 DEF Fits

\* What asks for no more in any dimension fits where the other fits.
LEMMA SmallerFits ==
    ASSUME NEW limit, Bounded(limit), NEW a \in Amount, NEW big \in Amount,
           NEW small \in Amount, small.task_slots = big.task_slots,
           \A d \in Optional : \A x \in small[d] : \E y \in big[d] : x <= y,
           Fits(limit, a, big)
    PROVE  Fits(limit, a, small)
<1>1. \A m, x, y, max \in Nat :
         (x <= y /\ SaturatingAdd(m, y) <= max) => SaturatingAdd(m, x) <= max
  BY MaxU64Assumption DEF SaturatingAdd
<1>2. ASSUME NEW d \in Optional, NEW have \in a[d], NEW x \in small[d], NEW max \in limit[d]
      PROVE  SaturatingAdd(have, x) <= max
  <2>1. PICK y \in big[d] : x <= y
    BY <1>2
  <2>2. a[d] \in Option /\ small[d] \in Option /\ big[d] \in Option /\ limit[d] \in Option
    BY AmountType DEF Bounded
  <2>3. have \in Nat /\ x \in Nat /\ y \in Nat /\ max \in Nat
    BY <1>2, <2>2, MaxU64Assumption DEF Option, U64
  <2>4. SaturatingAdd(have, y) <= max
    BY <1>2 DEF Fits
  <2> QED
    BY <1>1, <2>1, <2>3, <2>4
<1> QED
  BY <1>2 DEF Fits

\* With the runtime's sum a, and the sums of the tenants as they are, t does not fit.
TooMuch(a, t) ==
    \/ ~Fits(config.capacity, a, rows[t].res)
    \/ \E q \in config.quotas[rows[t].tenant] :
         ~Fits(q, cycle.tenant[rows[t].tenant], rows[t].res)

\* A waiting task that is older than one still in the list was taken up before and did
\* not fit; it does not fit now, nor when the reservation under way is taken back.
PassedOver ==
    \A t \in Tasks, u \in cycle.todo :
        (t \notin cycle.todo /\ rows[t].stage = "waiting" /\ rows[t].born < rows[u].born) =>
            /\ TooMuch(cycle.reserved, t)
            /\ \A r \in Tasks : rows[r].stage = "reserved" =>
                  TooMuch(SubtractReservation(cycle.reserved, rows[r].res), t)

LEMMA ListIsComplete ==
    ASSUME TypeOK, InOrder
    PROVE  Oldest(Accepted, QueueLimit) = Accepted
<1>1. IsFiniteSet(Accepted) /\ Cardinality(Accepted) \in Nat
      /\ Cardinality(Accepted) <= QueueLimit
  BY TasksAssumption, FS_Subset, FS_CardinalityType DEF Accepted, InOrder
<1>2. \A t \in Accepted : rows[t].born \in Nat
  BY TasksAssumption, FS_CardinalityType DEF TypeOK, Row, Accepted
<1>3. ASSUME NEW t \in Accepted
      PROVE  Cardinality({u \in Accepted : rows[u].born < rows[t].born}) < QueueLimit
  <2> DEFINE S == {u \in Accepted : rows[u].born < rows[t].born}
  <2>1. S \subseteq Accepted \ {t}
    BY <1>2
  <2>2. /\ IsFiniteSet(Accepted \ {t})
        /\ Cardinality(Accepted \ {t}) = Cardinality(Accepted) - 1
    BY <1>1, FS_RemoveElement
  <2> HIDE DEF S
  <2>3. Cardinality(S) <= Cardinality(Accepted \ {t}) /\ Cardinality(S) \in Nat
    BY <2>1, <2>2, FS_Subset, FS_CardinalityType
  <2>4. Cardinality(S) < QueueLimit
    BY <1>1, <2>2, <2>3, LimitsAssumption
  <2> QED
    BY <2>4 DEF S
<1> QED
  BY <1>3 DEF Oldest

\* The pairs PassedOver speaks of.
Overtakes(u, t) ==
    /\ u \in cycle.todo /\ t \in Tasks \ cycle.todo
    /\ rows[t].stage = "waiting" /\ rows[t].born < rows[u].born

\* A step keeps PassedOver if it keeps what is compared and the pairs are old ones.
LEMMA PassedOverKept ==
    ASSUME TypeOK, PassedOver,
           config' = config, cycle'.tenant = cycle.tenant, cycle'.reserved = cycle.reserved,
           \A t, u : Overtakes(u, t)' =>
              /\ Overtakes(u, t)
              /\ rows'[t].res = rows[t].res /\ rows'[t].tenant = rows[t].tenant,
           \A r \in Tasks : rows'[r].stage = "reserved" =>
              rows[r].stage = "reserved" /\ rows'[r].res = rows[r].res
    PROVE  PassedOver'
<1> SUFFICES ASSUME NEW t, NEW u, Overtakes(u, t)'
             PROVE  /\ TooMuch(cycle.reserved, t)'
                    /\ \A r \in Tasks : rows'[r].stage = "reserved" =>
                          TooMuch(SubtractReservation(cycle.reserved, rows[r].res), t)'
  BY DEF PassedOver, Overtakes
<1>1. /\ t \in Tasks /\ u \in cycle.todo /\ t \notin cycle.todo
      /\ rows[t].stage = "waiting" /\ rows[t].born < rows[u].born
      /\ rows'[t].res = rows[t].res /\ rows'[t].tenant = rows[t].tenant
  BY DEF Overtakes
<1>2. \A a : TooMuch(a, t) =>
         \/ ~Fits(config'.capacity, a, rows'[t].res)
         \/ \E q \in config'.quotas[rows'[t].tenant] :
              ~Fits(q, cycle'.tenant[rows'[t].tenant], rows'[t].res)
  BY <1>1 DEF TooMuch
<1>3. /\ TooMuch(cycle.reserved, t)
      /\ \A r \in Tasks : rows[r].stage = "reserved" =>
            TooMuch(SubtractReservation(cycle.reserved, rows[r].res), t)
  BY <1>1 DEF PassedOver
<1>4. TooMuch(cycle.reserved, t)'
  BY <1>2, <1>3 DEF TooMuch
<1>5. ASSUME NEW r \in Tasks, rows'[r].stage = "reserved"
      PROVE  TooMuch(SubtractReservation(cycle.reserved, rows[r].res), t)'
  <2>1. TooMuch(SubtractReservation(cycle.reserved, rows[r].res), t)
    BY <1>3, <1>5
  <2>2. SubtractReservation(cycle'.reserved, rows'[r].res) =
           SubtractReservation(cycle.reserved, rows[r].res)
    BY <1>5
  <2> QED
    BY <1>2, <2>1, <2>2 DEF TooMuch
<1> QED
  BY <1>4, <1>5

\* What a failed check of can_reserve says later in the cycle.
LEMMA StaysTooMuch ==
    ASSUME TypeOK, NEW t \in Tasks, NEW r \in Tasks, DispatchReserve(r),
           TooMuch(cycle.reserved, t), Moves(r, "reserved"), config' = config,
           cycle'.reserved = AddReservation(cycle.reserved, rows[r].res),
           \A tn \in Tenants : cycle'.tenant[tn] =
                IF tn = rows[r].tenant THEN AddReservation(cycle.tenant[tn], rows[r].res)
                                       ELSE cycle.tenant[tn]
    PROVE  /\ TooMuch(cycle.reserved, t)'
           /\ TooMuch(SubtractReservation(cycle.reserved, rows[r].res), t)'
<1> DEFINE tn == rows[t].tenant
           x == rows[r].res
           y == rows[t].res
<1>1. /\ tn \in Tenants /\ x \in Amount /\ y \in Amount
      /\ cycle.reserved \in Amount /\ cycle.tenant[tn] \in Amount
  BY DEF TypeOK, Row, Cycle
<1>2. /\ Bounded(config.capacity) /\ \A q \in config.quotas[tn] : Bounded(q)
  BY <1>1, ConfigType DEF TypeOK
<1>3. rows'[t].res = y /\ rows'[t].tenant = tn /\ rows'[r].res = x
  BY DEF Moves
<1>4. Fits(config.capacity, cycle.reserved, x)
  BY DEF DispatchReserve, CanReserve
<1>5. cycle'.tenant[tn] = AddReservation(cycle.tenant[tn], x)
      \/ cycle'.tenant[tn] = cycle.tenant[tn]
  BY <1>1
<1>6. \/ ~Fits(config.capacity, cycle.reserved, y)
      \/ \E q \in config.quotas[tn] : ~Fits(q, cycle.tenant[tn], y)
  BY DEF TooMuch
<1> HIDE DEF tn, x, y
<1>7. CASE ~Fits(config.capacity, cycle.reserved, y)
  <2>1. ~Fits(config.capacity, AddReservation(cycle.reserved, x), y)
    BY <1>1, <1>2, <1>7, MoreFitsLess
  <2>2. ~Fits(config.capacity, SubtractReservation(AddReservation(cycle.reserved, x), x), y)
    BY <1>1, <1>2, <1>4, <1>7, TakenBackFits
  <2>3. cycle'.reserved = AddReservation(cycle.reserved, x)
    BY DEF x
  <2>4. /\ ~Fits(config'.capacity, cycle'.reserved, rows'[t].res)
        /\ ~Fits(config'.capacity, SubtractReservation(cycle'.reserved, rows'[r].res),
                 rows'[t].res)
    BY <1>3, <2>1, <2>2, <2>3
  <2> QED
    BY <2>4 DEF TooMuch
<1>8. ASSUME NEW q \in config.quotas[tn], ~Fits(q, cycle.tenant[tn], y)
      PROVE  /\ TooMuch(cycle.reserved, t)'
             /\ TooMuch(SubtractReservation(cycle.reserved, rows[r].res), t)'
  <2>1. ~Fits(q, AddReservation(cycle.tenant[tn], x), y)
    BY <1>1, <1>2, <1>8, MoreFitsLess
  <2>2. ~Fits(q, cycle'.tenant[tn], y)
    BY <1>5, <1>8, <2>1
  <2>3. \E p \in config'.quotas[rows'[t].tenant] :
           ~Fits(p, cycle'.tenant[rows'[t].tenant], rows'[t].res)
    BY <1>3, <2>2
  <2> QED
    BY <2>3 DEF TooMuch
<1> QED
  BY <1>6, <1>7, <1>8

LEMMA PassedOverNext ==
    ASSUME TypeOK, TypeOK', InOrder, InOrder', PassedOver, [Next]_vars
    PROVE  PassedOver'
<1>0. ASSUME UNCHANGED vars PROVE PassedOver'
  <2>1. rows' = rows /\ cycle' = cycle /\ config' = config
    BY <1>0 DEF vars
  <2>2. \A t, u : Overtakes(u, t)' => Overtakes(u, t)
    BY <2>1 DEF Overtakes
  <2> QED
    BY <2>1, <2>2, PassedOverKept
<1> SUFFICES ASSUME Next PROVE PassedOver'
  BY <1>0
<1>1. rows \in [Tasks -> Row] /\ cycle \in Cycle /\ cycle.todo \in SUBSET Tasks
  BY DEF TypeOK, Cycle
<1>2. ASSUME cycle'.todo = {} PROVE PassedOver'
  BY <1>2 DEF PassedOver
<1>3. ASSUME NEW t \in Tasks, NEW rq \in Requests, Submit(t, rq) PROVE PassedOver'
  <2>1. /\ \A u \in Tasks : u # t => rows'[u] = rows[u]
        /\ rows[t].stage = "absent" /\ rows'[t].stage = "waiting"
        /\ rows'[t].born = 1 + Cardinality(Present) /\ Cardinality(Present) \in Nat
    BY <1>3, SubmitSteps
  <2>2. cycle' = cycle /\ config' = config
    BY <1>3 DEF Submit
  <2>3. \A u \in cycle.todo : /\ u \in Tasks /\ u # t /\ rows[u].born \in Nat
                              /\ rows[u].born <= Cardinality(Present)
    <3>1. \A u \in cycle.todo : u \in Tasks /\ rows[u].stage = "waiting"
      BY <1>1 DEF InOrder
    <3>2. \A u \in cycle.todo : u # t /\ rows[u].born <= Cardinality(Present)
      BY <2>1, <3>1 DEF InOrder
    <3>3. \A u \in Tasks : rows[u].born \in Nat
      BY <1>1, TasksAssumption, FS_CardinalityType DEF Row
    <3> QED
      BY <3>1, <3>2, <3>3
  <2>4. ASSUME NEW v, NEW u, Overtakes(u, v)'
        PROVE  /\ Overtakes(u, v)
               /\ rows'[v].res = rows[v].res /\ rows'[v].tenant = rows[v].tenant
    <3>1. /\ u \in cycle.todo /\ v \in Tasks \ cycle.todo
          /\ rows'[v].stage = "waiting" /\ rows'[v].born < rows'[u].born
      BY <2>2, <2>4 DEF Overtakes
    <3>2. rows'[u] = rows[u]
      BY <2>1, <2>3, <3>1
    <3>3. v # t
      BY <2>1, <2>3, <3>1, <3>2
    <3>4. rows'[v] = rows[v]
      BY <2>1, <3>1, <3>3
    <3> QED
      BY <3>1, <3>2, <3>4 DEF Overtakes
  <2>5. \A r \in Tasks : rows'[r].stage = "reserved" =>
           rows[r].stage = "reserved" /\ rows'[r].res = rows[r].res
    BY <2>1
  <2> QED
    BY <2>2, <2>4, <2>5, PassedOverKept
<1>4. CASE DispatchCount
  BY <1>2, <1>4, CountSteps DEF DispatchCount, InOrder
<1>5. CASE DispatchList
  <2>1. rows' = rows /\ cycle'.todo = Accepted
    BY <1>1, <1>5, ListIsComplete DEF DispatchList, Cycle
  <2>2. \A t \in Tasks : rows[t].stage = "waiting" => t \in Accepted
    BY DEF Accepted
  <2> QED
    BY <2>1, <2>2 DEF PassedOver
<1>6. CASE DispatchEnd
  BY <1>2, <1>6 DEF DispatchEnd, NoCycle
<1>7. ASSUME NEW t \in Tasks, DispatchPass(t) PROVE PassedOver'
  <2>1. /\ rows' = rows /\ config' = config /\ cycle'.todo = cycle.todo \ {t}
        /\ cycle'.reserved = cycle.reserved /\ cycle'.tenant = cycle.tenant
    BY <1>1, <1>7 DEF DispatchPass, Cycle
  <2>2. (\A u \in Tasks : rows[u].stage # "reserved") /\ ~CanReserve(t)
    BY <1>7 DEF DispatchPass, TakesUp
  <2>3. TooMuch(cycle.reserved, t)
    BY <2>2 DEF CanReserve, TooMuch
  <2>4. ASSUME NEW v \in Tasks, NEW u \in cycle'.todo, v \notin cycle'.todo,
               rows'[v].stage = "waiting", rows'[v].born < rows'[u].born
        PROVE  TooMuch(cycle.reserved, v)
    <3>1. CASE v = t
      BY <2>3, <3>1
    <3>2. CASE v # t
      <4>1. u \in cycle.todo /\ v \notin cycle.todo
        BY <2>1, <2>4, <3>2
      <4> QED
        BY <2>1, <2>4, <4>1 DEF PassedOver
    <3> QED
      BY <3>1, <3>2
  <2>5. \A v : TooMuch(cycle.reserved, v) => TooMuch(cycle.reserved, v)'
    BY <2>1 DEF TooMuch
  <2>6. \A r \in Tasks : rows'[r].stage # "reserved"
    BY <2>1, <2>2
  <2> QED
    BY <2>4, <2>5, <2>6 DEF PassedOver
<1>8. ASSUME NEW r \in Tasks, DispatchReserve(r) PROVE PassedOver'
  <2>1. /\ Moves(r, "reserved") /\ cycle'.todo = cycle.todo \ {r} /\ config' = config
        /\ cycle'.reserved = AddReservation(cycle.reserved, rows[r].res)
        /\ \A tn \in Tenants : cycle'.tenant[tn] =
             IF tn = rows[r].tenant THEN AddReservation(cycle.tenant[tn], rows[r].res)
                                    ELSE cycle.tenant[tn]
    BY <1>8, ReserveSteps DEF DispatchReserve
  <2>2. \A u \in Tasks : rows'[u].stage = "reserved" => u = r
    BY <1>8, <2>1 DEF DispatchReserve, TakesUp, Moves
  <2>3. ASSUME NEW v \in Tasks, NEW u \in cycle'.todo, v \notin cycle'.todo,
               rows'[v].stage = "waiting", rows'[v].born < rows'[u].born
        PROVE  /\ TooMuch(cycle.reserved, v)'
               /\ TooMuch(SubtractReservation(cycle.reserved, rows[r].res), v)'
    <3>1. /\ u \in cycle.todo /\ u \in Tasks /\ v # r /\ v \notin cycle.todo
          /\ rows[v].stage = "waiting" /\ rows[v].born < rows[u].born
      BY <1>1, <2>1, <2>3 DEF Moves
    <3>2. TooMuch(cycle.reserved, v)
      BY <3>1 DEF PassedOver
    <3> QED
      BY <1>8, <2>1, <3>2, StaysTooMuch
  <2> QED
    BY <2>2, <2>3 DEF PassedOver
<1>9. ASSUME NEW t \in Tasks, NEW stage \in {"holding", "ended"}, Moves(t, stage),
             cycle' = cycle, config' = config
      PROVE  PassedOver'
  <2>1. \A v, u : Overtakes(u, v)' =>
           /\ Overtakes(u, v)
           /\ rows'[v].res = rows[v].res /\ rows'[v].tenant = rows[v].tenant
    BY <1>1, <1>9 DEF Overtakes, Moves
  <2>2. \A r \in Tasks : rows'[r].stage = "reserved" =>
           rows[r].stage = "reserved" /\ rows'[r].res = rows[r].res
    BY <1>9 DEF Moves
  <2> QED
    BY <1>9, <2>1, <2>2, PassedOverKept
<1>10. ASSUME NEW t \in Tasks, DispatchSpawn(t) PROVE PassedOver'
  BY <1>1, <1>9, <1>10, StageSet DEF DispatchSpawn, Stage
<1>11. ASSUME NEW t \in Tasks, DispatchSpawnFails(t) PROVE PassedOver'
  <2>1. /\ Moves(t, "ended") /\ rows[t].stage = "reserved" /\ config' = config
        /\ cycle'.todo = cycle.todo /\ cycle'.tenant = cycle.tenant
        /\ cycle'.reserved = SubtractReservation(cycle.reserved, rows[t].res)
    BY <1>11, SpawnFailsSteps DEF DispatchSpawnFails
  <2>2. \A r \in Tasks : rows'[r].stage # "reserved"
    BY <2>1 DEF Moves, InOrder
  <2>3. ASSUME NEW v \in Tasks, NEW u \in cycle'.todo, v \notin cycle'.todo,
               rows'[v].stage = "waiting", rows'[v].born < rows'[u].born
        PROVE  TooMuch(cycle.reserved, v)'
    <3>1. /\ u \in cycle.todo /\ u \in Tasks /\ v \notin cycle.todo
          /\ rows[v].stage = "waiting" /\ rows[v].born < rows[u].born
          /\ rows'[v].res = rows[v].res /\ rows'[v].tenant = rows[v].tenant
      BY <1>1, <2>1, <2>3 DEF Moves
    <3>2. TooMuch(SubtractReservation(cycle.reserved, rows[t].res), v)
      BY <2>1, <3>1 DEF PassedOver
    <3> QED
      BY <2>1, <3>1, <3>2 DEF TooMuch
  <2> QED
    BY <2>2, <2>3 DEF PassedOver
<1>12. ASSUME NEW t \in Tasks, Finish(t) PROVE PassedOver'
  BY <1>1, <1>9, <1>12, StageSet DEF Finish, Stage
<1>13. ASSUME NEW c \in Configs, Restart(c) PROVE PassedOver'
  BY <1>2, <1>13 DEF Restart, NoCycle
<1> QED
  BY <1>3, <1>4, <1>5, <1>6, <1>7, <1>8, <1>10, <1>11, <1>12, <1>13 DEF Next, Dispatcher

(* dispatch_waiting reads its list in the order of admission and compares each row with
   sums that only grow, but for what a failed spawn gives back: a younger task never
   gets a reservation while an older one of its tenant that asks for no more waits. *)

THEOREM NobodyOvertaken == ViewSpec => NoOvertaking
<1>1. ViewInit => PassedOver
  BY DEF ViewInit, Init, NoCycle, PassedOver
<1>2. AdmissionInv /\ AdmissionInv' /\ PassedOver /\ [ViewNext]_viewVars => PassedOver'
  BY PassedOverNext, ViewStep DEF AdmissionInv
<1>3. ASSUME AdmissionInv, PassedOver, [ViewNext]_viewVars
      PROVE  [\A t, u \in Tasks :
          ( /\ rows[u].stage # "reserved" /\ rows'[u].stage = "reserved"
            /\ rows[t].stage = "waiting" /\ rows[t].born < rows[u].born
            /\ rows[t].tenant = rows[u].tenant ) => ~AsksNoMore(t, u)]_vars
  <2>1. [Next]_vars
    BY <1>3, ViewStep
  <2> SUFFICES ASSUME Next, NEW t \in Tasks, NEW u \in Tasks,
                      rows[u].stage # "reserved", rows'[u].stage = "reserved",
                      rows[t].stage = "waiting", rows[t].born < rows[u].born,
                      rows[t].tenant = rows[u].tenant, AsksNoMore(t, u)
               PROVE  FALSE
    BY <2>1
  <2>2. TypeOK /\ InOrder
    BY <1>3 DEF AdmissionInv
  <2>3. DispatchReserve(u)
    BY <2>2, OnlyReserveReserves
  <2>4. /\ u \in cycle.todo /\ \A v \in cycle.todo : rows[u].born <= rows[v].born
        /\ CanReserve(u)
    BY <2>3 DEF DispatchReserve, TakesUp
  <2>5. /\ rows[t].born \in Nat /\ rows[u].born \in Nat
        /\ rows[t].res \in Amount /\ rows[u].res \in Amount
        /\ rows[t].tenant \in Tenants
        /\ cycle.reserved \in Amount /\ cycle.tenant[rows[t].tenant] \in Amount
    <3>1. rows[t].born \in Nat /\ rows[u].born \in Nat
      BY <2>2, TasksAssumption, FS_CardinalityType DEF TypeOK, Row
    <3> QED
      BY <2>2, <3>1 DEF TypeOK, Row, Cycle
  <2>6. t \notin cycle.todo
    BY <2>4, <2>5
  <2>7. TooMuch(cycle.reserved, t)
    BY <1>3, <2>4, <2>6 DEF PassedOver
  <2>8. rows[t].res.task_slots = rows[u].res.task_slots
    BY <2>2, <2>4 DEF InOrder
  <2>9. \A d \in Optional : \A x \in rows[t].res[d] : \E y \in rows[u].res[d] : x <= y
    BY DEF AsksNoMore
  <2>10. ASSUME NEW limit, Bounded(limit), NEW a \in Amount, Fits(limit, a, rows[u].res)
         PROVE  Fits(limit, a, rows[t].res)
    BY <2>5, <2>8, <2>9, <2>10, SmallerFits
  <2>11. Bounded(config.capacity) /\ \A q \in config.quotas[rows[t].tenant] : Bounded(q)
    BY <2>2, <2>5, ConfigType DEF TypeOK
  <2>12. Fits(config.capacity, cycle.reserved, rows[t].res)
    BY <2>4, <2>5, <2>10, <2>11 DEF CanReserve
  <2>13. \A q \in config.quotas[rows[t].tenant] :
            Fits(q, cycle.tenant[rows[t].tenant], rows[t].res)
    BY <2>4, <2>5, <2>10, <2>11 DEF CanReserve
  <2> QED
    BY <2>7, <2>12, <2>13 DEF TooMuch
<1> QED
  BY <1>1, <1>2, <1>3, AdmissionInvariant, PTL DEF ViewSpec, NoOvertaking

=============================================================================
