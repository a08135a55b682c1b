----------------------------- MODULE OrderProofs -----------------------------
(***************************************************************************)
(* Lemmas about the two orders that the models are built on.               *)
(*                                                                         *)
(* What the operators of MutableAntichain compute, for any orders of times *)
(* that satisfy Ordered and WellFounded: rebuild yields the least of the   *)
(* positive times, and update_iter keeps the frontier exact even when it   *)
(* skips the rebuild.                                                      *)
(*                                                                         *)
(* And finite sets of numbers: there is one way to put them in order, and  *)
(* it leaves nothing out.  Induction over finite sets is by a smallest     *)
(* counterexample.  Sums over finite sets are taken apart in the same way: *)
(* SumFunctionOnSet of the community modules folds over a set in an order  *)
(* that is not known, and a sum does not depend on it.  These lemmas do    *)
(* not speak of Times, TimeLeq, TimeOrd.                                   *)
(***************************************************************************)
EXTENDS MutableAntichain, Orders, Functions, FiniteSetTheorems, WellFoundedInduction, TLAPS

-----------------------------------------------------------------------------
(* Antichains of times.                                                      *)

Least(S) == {t \in S : ~ \E s \in S : less_than(s, t)}

\* Where times are finitely many, this follows from Ordered.
WellFounded == \A S \in SUBSET Times : S # {} => Least(S) # {}

(* Antisymmetry of the partial order comes from that of the total order it  *)
(* is sorted by (PartialOrder and Ord of a Timestamp).                      *)
LEMMA Antisymmetric ==
    ASSUME Ordered, NEW s \in Times, NEW t \in Times, less_equal(s, t), less_equal(t, s)
    PROVE  s = t
BY DEF Ordered

(* Under every time of a set there is a least one of the set.               *)
LEMMA LeastBelow ==
    ASSUME Ordered, WellFounded, NEW S \in SUBSET Times, NEW t \in S
    PROVE  \E s \in Least(S) : less_equal(s, t)
<1> DEFINE T == {s \in S : less_equal(s, t)}
<1>1. t \in T
  BY DEF Ordered
<1>2. PICK s \in T : ~ \E u \in T : less_than(u, s)
  BY <1>1, T \in SUBSET Times DEF WellFounded, Least
<1>3. \A u \in S : less_than(u, s) => u \in T
  BY <1>2 DEF Ordered, less_than
<1>. QED  BY <1>2, <1>3 DEF Least

(* MutableAntichain::rebuild: taking the positive times in sorted order     *)
(* and dropping what a kept one is less_equal to leaves the least of them.  *)
LEMMA RebuildLeast ==
    ASSUME Ordered, WellFounded, NEW updates \in [Times -> Int]
    PROVE  rebuild(updates) = Least(Positive(updates))
<1> DEFINE P == Positive(updates)
           Picked(F) == \A t \in P :
              t \in F <=> ~ \E f \in F : <<f, t>> \in TimeOrd /\ f # t /\ less_equal(f, t)
<1>1. P \in SUBSET Times
  BY DEF Positive
<1>2. Least(P) \in SUBSET P /\ Picked(Least(P))
  <2>1. Least(P) \in SUBSET P
    BY DEF Least
  <2>2. ASSUME NEW t \in P, t \in Least(P), NEW f \in Least(P), f # t, less_equal(f, t)
        PROVE  FALSE
    BY <2>1, <2>2 DEF Least, less_than
  <2>3. ASSUME NEW t \in P, t \notin Least(P)
        PROVE  \E f \in Least(P) : <<f, t>> \in TimeOrd /\ f # t /\ less_equal(f, t)
    <3>1. PICK f \in Least(P) : less_equal(f, t)
      BY <1>1, LeastBelow
    <3>. QED  BY <1>1, <2>1, <2>3, <3>1 DEF Ordered
  <2> HIDE DEF P
  <2>. QED  BY <2>1, <2>2, <2>3
<1>3. ASSUME NEW F \in SUBSET P, Picked(F)
      PROVE  F = Least(P)
  <2>1. ASSUME NEW t \in Least(P)
        PROVE  t \in F
    BY <1>3, <2>1 DEF Least, less_than
  <2>2. ASSUME NEW t \in F
        PROVE  t \in Least(P)
    <3>1. SUFFICES ASSUME NEW s \in P, less_than(s, t) PROVE FALSE
      BY DEF Least
    <3>2. PICK u \in Least(P) : less_equal(u, s)
      BY <1>1, LeastBelow
    <3>3. u \in Times /\ s \in Times /\ t \in Times /\ u \in F /\ t \in P
      BY <1>1, <2>1, <3>1, <3>2 DEF Least
    <3>4. less_equal(u, t) /\ u # t
      BY <3>1, <3>2, <3>3, Antisymmetric DEF Ordered, less_than
    <3>. QED  BY <1>3, <3>3, <3>4 DEF Ordered
  <2>. QED  BY <2>1, <2>2
<1>4. rebuild(updates) = CHOOSE F \in SUBSET P : Picked(F)
  BY DEF rebuild
<1> HIDE DEF P, Picked
<1>5. rebuild(updates) \in SUBSET P /\ Picked(rebuild(updates))
  BY <1>2, <1>4, Zenon
<1>. QED  BY <1>3, <1>5 DEF P

(* MutableAntichain::update_iter: an exact frontier stays exact, whatever   *)
(* the batch, and in particular where every update of the batch is at a     *)
(* time for which rebuild_required lets it skip the rebuild.                *)
THEOREM UpdateExact ==
    ASSUME Ordered, WellFounded, NEW m \in Antichain, Exact(m),
           NEW batch \in [Times -> Int]
    PROVE  /\ update_iter(m, batch) \in Antichain
           /\ Exact(update_iter(m, batch))
           /\ update_iter(m, batch).updates = [t \in Times |-> m.updates[t] + batch[t]]
<1> DEFINE n == update_iter(m, batch)
           new == [t \in Times |-> m.updates[t] + batch[t]]
<1>1. /\ m.updates \in [Times -> Int] /\ m.frontier \in SUBSET Times
      /\ m.frontier = Least(Positive(m.updates))
  BY DEF Antichain, Exact, Least
<1>2. new \in [Times -> Int] /\ n.updates = new
  BY <1>1 DEF update_iter
<1>3. CASE \E t \in Times : batch[t] # 0 /\ rebuild_required(m, t, batch[t])
  <2>1. n.frontier = Least(Positive(new)) /\ n = [updates |-> new, frontier |-> n.frontier]
    BY <1>2, <1>3, RebuildLeast DEF update_iter
  <2>2. Least(Positive(new)) \in SUBSET Times
    BY DEF Least, Positive
  <2> HIDE DEF n, new
  <2>3. n \in Antichain /\ Exact(n)
    BY <1>2, <2>1, <2>2 DEF Antichain, Exact, Least
  <2>. QED  BY <1>2, <2>3 DEF n, new
<1>4. CASE \A t \in Times : batch[t] # 0 => ~ rebuild_required(m, t, batch[t])
  <2>1. n = [updates |-> new, frontier |-> m.frontier]
    BY <1>4 DEF update_iter
  <2>2. ASSUME NEW t \in Times, batch[t] # 0
        PROVE  \/ \E f \in m.frontier : less_than(f, t)
               \/ batch[t] < 0 /\ ~ \E f \in m.frontier : less_equal(f, t)
    BY <1>4, <2>2 DEF rebuild_required
  <2>3. ASSUME NEW f \in m.frontier
        PROVE  f \in Positive(new)
    <3>1. f \in Times /\ m.updates[f] > 0 /\ less_equal(f, f)
      BY <1>1 DEF Least, Positive, Ordered
    <3>2. ~ \E g \in m.frontier : less_than(g, f)
      BY <1>1 DEF Least
    <3>3. batch[f] = 0
      BY <2>2, <3>1, <3>2
    <3>4. new[f] = m.updates[f] /\ m.updates[f] \in Int
      BY <1>1, <3>1, <3>3
    <3>. QED  BY <3>1, <3>4 DEF Positive
  <2>4. ASSUME NEW t \in Positive(new), t \notin m.frontier
        PROVE  \E f \in m.frontier : less_than(f, t)
    <3>1. t \in Times /\ m.updates[t] + batch[t] > 0 /\ m.updates[t] \in Int /\ batch[t] \in Int
      BY <1>1 DEF Positive
    <3>2. CASE t \in Positive(m.updates)
      <4>1. \E f \in m.frontier : less_equal(f, t)
        BY <1>1, <3>2, LeastBelow DEF Positive
      <4>. QED  BY <2>4, <4>1 DEF less_than
    <3>3. CASE t \notin Positive(m.updates)
      <4>1. batch[t] > 0
        BY <3>1, <3>3 DEF Positive
      <4>. QED  BY <2>2, <3>1, <4>1
    <3>. QED  BY <3>2, <3>3
  <2>5. m.frontier = Least(Positive(new))
    <3>1. ASSUME NEW f \in m.frontier, NEW s \in Positive(new), less_than(s, f)
          PROVE  FALSE
      <4>1. PICK g \in m.frontier : less_equal(g, s)
        BY <2>4 DEF less_than, Ordered, Positive
      <4>2. f \in Times /\ g \in Times /\ s \in Times /\ ~ less_than(g, f)
        BY <1>1 DEF Least, Positive
      <4>. QED  BY <3>1, <4>1, <4>2, Antisymmetric DEF less_than, Ordered
    <3>. QED  BY <2>3, <2>4, <3>1 DEF Least
  <2> HIDE DEF n, new
  <2>6. n \in Antichain /\ Exact(n)
    BY <1>1, <1>2, <2>1, <2>5 DEF Antichain, Exact, Least
  <2>. QED  BY <1>2, <2>6 DEF n, new
<1>. QED  BY <1>2, <1>3, <1>4

(* The changes that update_iter drains are those of the frontier.           *)
LEMMA ChangeValues ==
    ASSUME NEW old, NEW new, NEW t
    PROVE  /\ Change(old, new, t) = 1 <=> t \in new.frontier \ old.frontier
           /\ Change(old, new, t) = -1 <=> t \in old.frontier \ new.frontier
           /\ Change(old, new, t) \in {-1, 0, 1}
BY DEF Change

-----------------------------------------------------------------------------
(* Finite sets, and numbers in order.                                        *)

Increasing(s) == \A i, j \in DOMAIN s : i < j => s[i] < s[j]
Enumerates(s, S) == s \in [1 .. Cardinality(S) -> S] /\ Increasing(s)

\* Among finite sets there is one that contains no other: the form of
\* induction over finite sets that the next lemma needs.
LEMMA SmallestSet ==
    \A S, F : IsFiniteSet(S) /\ (\A T \in F : T \subseteq S) /\ F # {}
               => \E T \in F : \A U \in F : U \subseteq T => U = T
<1> SUFFICES ASSUME NEW S, NEW F, IsFiniteSet(S), \A T \in F : T \subseteq S, F # {}
             PROVE  \E T \in F : \A U \in F : U \subseteq T => U = T
  OBVIOUS
<1>1. /\ IsWellFoundedOn(StrictSubsetOrdering(S), FiniteSubsetsOf(S))
      /\ FiniteSubsetsOf(S) = SUBSET S
  BY FS_StrictSubsetOrderingWellFounded, FS_FiniteSubsetsOfFinite
<1>2. PICK T \in F : \A U \in F : <<U, T>> \notin StrictSubsetOrdering(S)
  BY <1>1, WFMin
<1>. QED  BY <1>2 DEF StrictSubsetOrdering

\* The sizes of the ranges of indices, and of two sets of processes that are apart.
LEMMA Sizes ==
    /\ \A m \in Nat : \A a \in Int :
           IsFiniteSet(a .. a + m - 1) /\ Cardinality(a .. a + m - 1) = m
    /\ \A S, T : IsFiniteSet(S) /\ IsFiniteSet(T) /\ S \cap T = {}
           => Cardinality(S \cup T) = Cardinality(S) + Cardinality(T)
<1>1. ASSUME NEW m \in Nat, NEW a \in Int
      PROVE  IsFiniteSet(a .. a + m - 1) /\ Cardinality(a .. a + m - 1) = m
  <2>1. PICK b \in Int : b = a + m - 1
    OBVIOUS
  <2>2. IsFiniteSet(a .. b) /\ Cardinality(a .. b) = IF a > b THEN 0 ELSE b - a + 1
    BY FS_Interval
  <2>3. (IF a > b THEN 0 ELSE b - a + 1) = m
    BY <2>1
  <2>. QED  BY <2>1, <2>2, <2>3
<1>2. ASSUME NEW S, NEW T, IsFiniteSet(S), IsFiniteSet(T), S \cap T = {}
      PROVE  Cardinality(S \cup T) = Cardinality(S) + Cardinality(T)
  <2>1. Cardinality(S \cup T) = Cardinality(S) + Cardinality(T) - Cardinality(S \cap T)
    BY <1>2, FS_Union
  <2>2. Cardinality(S \cap T) = 0 /\ Cardinality(S) \in Nat /\ Cardinality(T) \in Nat
    BY <1>2, FS_EmptySet, FS_CardinalityType
  <2>. QED  BY <2>1, <2>2
<1>. QED  BY <1>1, <1>2

\* A finite set of numbers that is not empty has a largest one.
LEMMA LargestExists ==
    ASSUME NEW S \in SUBSET Int, IsFiniteSet(S), S # {}
    PROVE  \E m \in S : \A x \in S : x <= m
<1> DEFINE Bad == {T \in SUBSET S : T # {} /\ ~ \E m \in T : \A x \in T : x <= m}
<1>1. SUFFICES ASSUME Bad # {} PROVE FALSE
  OBVIOUS
<1>2. PICK T \in Bad : \A U \in Bad : U \subseteq T => U = T
  <2>1. \A T \in Bad : T \subseteq S
    OBVIOUS
  <2> HIDE DEF Bad
  <2>. QED  BY <1>1, <2>1, SmallestSet
<1>3. PICK y \in T : TRUE
  OBVIOUS
<1> DEFINE R == T \ {y}
<1>4. R # {} /\ R \notin Bad
  <2>1. R # {}
    <3>1. PICK x \in T : ~ x <= y
      BY <1>2, <1>3
    <3>2. y <= y
      BY <1>3
    <3>. QED  BY <3>1, <3>2
  <2>2. R \subseteq T /\ R # T
    BY <1>3
  <2>. QED  BY <1>2, <2>1, <2>2, Zenon
<1>5. PICK m \in T \ {y} : \A x \in T \ {y} : x <= m
  BY <1>4
<1>6. CASE y <= m
  BY <1>3, <1>5, <1>6
<1>7. CASE m <= y
  BY <1>3, <1>5, <1>7
<1>. QED  BY <1>3, <1>5, <1>6, <1>7

\* A finite set of numbers that is not empty has a smallest one.
LEMMA SmallestExists ==
    ASSUME NEW S \in SUBSET Int, IsFiniteSet(S), S # {}
    PROVE  \E m \in S : \A x \in S : m <= x
<1> DEFINE Bad == {T \in SUBSET S : T # {} /\ ~ \E m \in T : \A x \in T : m <= x}
<1>1. SUFFICES ASSUME Bad # {} PROVE FALSE
  OBVIOUS
<1>2. PICK T \in Bad : \A U \in Bad : U \subseteq T => U = T
  <2>1. \A T \in Bad : T \subseteq S
    OBVIOUS
  <2> HIDE DEF Bad
  <2>. QED  BY <1>1, <2>1, SmallestSet
<1>3. PICK y \in T : TRUE
  OBVIOUS
<1> DEFINE R == T \ {y}
<1>4. R # {} /\ R \notin Bad
  <2>1. R # {}
    <3>1. PICK x \in T : ~ y <= x
      BY <1>2, <1>3
    <3>2. y <= y
      BY <1>3
    <3>. QED  BY <3>1, <3>2
  <2>2. R \subseteq T /\ R # T
    BY <1>3
  <2>. QED  BY <1>2, <2>1, <2>2, Zenon
<1>5. PICK m \in T \ {y} : \A x \in T \ {y} : m <= x
  BY <1>4
<1>6. CASE m <= y
  BY <1>3, <1>5, <1>6
<1>7. CASE y <= m
  BY <1>3, <1>5, <1>7
<1>. QED  BY <1>3, <1>5, <1>6, <1>7

\* A finite set of numbers can be put in order, as the lists of addresses are.
LEMMA OrderExists ==
    ASSUME NEW S \in SUBSET Int, IsFiniteSet(S)
    PROVE  \E s : Enumerates(s, S)
<1> DEFINE Bad == {T \in SUBSET S : ~ \E s : Enumerates(s, T)}
<1>1. SUFFICES ASSUME Bad # {} PROVE FALSE
  OBVIOUS
<1>2. PICK T \in Bad : \A U \in Bad : U \subseteq T => U = T
  <2>1. \A T \in Bad : T \subseteq S
    OBVIOUS
  <2> HIDE DEF Bad
  <2>. QED  BY <1>1, <2>1, SmallestSet
<1>3. IsFiniteSet(T) /\ T \in SUBSET Int
  BY FS_Subset
<1>4. CASE T = {}
  <2>1. Enumerates([i \in 1 .. 0 |-> 0], T)
    BY <1>4, FS_EmptySet DEF Enumerates, Increasing
  <2>. QED  BY <2>1
<1>5. CASE T # {}
  <2>1. PICK m \in T : \A x \in T : x <= m
    BY <1>3, <1>5, LargestExists
  <2>2. PICK s : Enumerates(s, T \ {m})
    BY <1>2, <2>1
  <2> DEFINE n == Cardinality(T)
             t == [i \in 1 .. n |-> IF i = n THEN m ELSE s[i]]
  <2>3. n \in Nat \ {0} /\ Cardinality(T \ {m}) = n - 1
    BY <1>3, <1>5, FS_RemoveElement, FS_CardinalityType, FS_EmptySet
  <2>4. \A i \in 1 .. n - 1 : s[i] \in T \ {m}
    BY <2>2, <2>3 DEF Enumerates
  <2>5. \A i, j \in 1 .. n - 1 : i < j => s[i] < s[j]
    BY <2>2, <2>3 DEF Enumerates, Increasing
  <2>6. t \in [1 .. n -> T]
    BY <2>3, <2>4
  <2>7. Increasing(t)
    <3>1. SUFFICES ASSUME NEW i \in 1 .. n, NEW j \in 1 .. n, i < j
                   PROVE  t[i] < t[j]
      BY DEF Increasing
    <3>2. i \in 1 .. n - 1 /\ t[i] = s[i] /\ s[i] \in T \ {m}
      BY <2>3, <2>4, <3>1
    <3>3. CASE j = n
      <4>1. s[i] <= m /\ s[i] # m /\ s[i] \in Int /\ m \in Int
        BY <1>3, <2>1, <3>2
      <4>2. t[j] = m
        BY <2>3, <3>3
      <4>. QED  BY <3>2, <4>1, <4>2
    <3>4. CASE j # n
      BY <2>3, <2>5, <3>1, <3>2, <3>4
    <3>. QED  BY <3>3, <3>4
  <2>. QED  BY <2>6, <2>7 DEF Enumerates
<1>. QED  BY <1>4, <1>5

\* InOrder is such an order, of as many elements as the set has.
LEMMA InOrderEnumerates ==
    ASSUME NEW S \in SUBSET Int, IsFiniteSet(S)
    PROVE  /\ Enumerates(InOrder(S), S)
           /\ InOrder(S) \in Seq(S)
           /\ Len(InOrder(S)) = Cardinality(S)
           /\ Cardinality(S) \in Nat
<1>1. Enumerates(InOrder(S), S)
  BY OrderExists DEF InOrder, Enumerates, Increasing
<1>2. Cardinality(S) \in Nat
  BY FS_CardinalityType
<1>. QED  BY <1>1, <1>2 DEF Enumerates

\* Nothing is left out of an order.
LEMMA OrderComplete ==
    ASSUME NEW S \in SUBSET Int, IsFiniteSet(S), NEW s, Enumerates(s, S)
    PROVE  \A x \in S : \E i \in 1 .. Cardinality(S) : s[i] = x
<1> DEFINE n == Cardinality(S)
<1>1. n \in Nat
  BY FS_CardinalityType
<1>2. IsFiniteSet(1 .. n) /\ Cardinality(1 .. n) = n
  BY <1>1, FS_Interval
<1>3. s \in Injection(1 .. n, S)
  <2>1. ASSUME NEW i \in 1 .. n, NEW j \in 1 .. n, s[i] = s[j]
        PROVE  i = j
    <3>1. s[i] \in Int /\ s[j] \in Int
      BY DEF Enumerates
    <3>2. (i < j => s[i] < s[j]) /\ (j < i => s[j] < s[i])
      BY DEF Enumerates, Increasing
    <3>. QED  BY <1>1, <2>1, <3>1, <3>2
  <2>. QED  BY <2>1 DEF Injection, IsInjective, Enumerates
<1>4. s \in Surjection(1 .. n, S)
  BY <1>2, <1>3, FS_Injection
<1>. QED  BY <1>4 DEF Surjection

\* Nor does one differ from another: it is the only one.
LEMMA OrderUnique ==
    ASSUME NEW S \in SUBSET Int, IsFiniteSet(S), NEW s, NEW t,
           Enumerates(s, S), Enumerates(t, S)
    PROVE  s = t
<1> DEFINE n == Cardinality(S)
           Bad == {i \in 1 .. n : s[i] # t[i]}
<1>1. n \in Nat /\ s \in [1 .. n -> S] /\ t \in [1 .. n -> S]
  BY FS_CardinalityType DEF Enumerates
<1>2. ASSUME Bad # {} PROVE FALSE
  <2>1. PICK k \in Bad : \A i \in Bad : k <= i
    <3>1. IsFiniteSet(1 .. n)
      BY <1>1, FS_Interval
    <3>2. IsFiniteSet(Bad) /\ Bad \in SUBSET Int
      <4>1. Bad \in SUBSET (1 .. n)
        OBVIOUS
      <4> HIDE DEF Bad
      <4>2. IsFiniteSet(Bad)
        BY <3>1, <4>1, FS_Subset
      <4>. QED  BY <1>1, <4>1, <4>2
    <3> HIDE DEF Bad
    <3>. QED  BY <1>2, <3>2, SmallestExists
  <2>2. ASSUME NEW u, NEW v, Enumerates(u, S), Enumerates(v, S), u[k] < v[k],
               \A i \in 1 .. k - 1 : u[i] = v[i]
        PROVE  FALSE
    <3>0. u[k] \in S /\ k \in 1 .. n /\ u \in [1 .. n -> S] /\ v \in [1 .. n -> S]
      BY <1>1, <2>2 DEF Enumerates
    <3>1. PICK j \in 1 .. n : v[j] = u[k]
      <4>1. \A x \in S : \E i \in 1 .. Cardinality(S) : v[i] = x
        BY <2>2, OrderComplete
      <4>. QED  BY <3>0, <4>1
    <3>2. u[k] \in Int /\ v[k] \in Int /\ v[j] \in Int
      BY <3>0, <3>1
    <3>3. j < k => u[j] < u[k]
      BY <2>2, <3>0 DEF Enumerates, Increasing
    <3>4. j > k => v[k] < v[j]
      BY <2>2, <3>0 DEF Enumerates, Increasing
    <3>5. j < k => u[j] = v[j]
      BY <1>1, <2>2, <3>0
    <3>. QED  BY <1>1, <2>2, <3>0, <3>1, <3>2, <3>3, <3>4, <3>5
  <2>3. \A i \in 1 .. k - 1 : s[i] = t[i]
    BY <1>1, <2>1
  <2>4. s[k] < t[k] \/ t[k] < s[k]
    <3>1. s[k] \in Int /\ t[k] \in Int /\ s[k] # t[k]
      BY <1>1, <2>1
    <3>. QED  BY <3>1
  <2>. QED  BY <2>2, <2>3, <2>4
<1>. QED  BY <1>1, <1>2

\* The next size of a buffer is larger, and so large that any request fits in some size.
LEMMA Powers ==
    /\ \A k \in Nat : 2^k \in Nat /\ k < 2^k
    /\ \A j, k \in Nat : j < k => 2^j < 2^k
<1>1. ASSUME NEW k \in Nat
      PROVE  /\ 2^k \in Nat /\ 2^k = Cardinality(SUBSET (1 .. k)) /\ IsFiniteSet(SUBSET (1 .. k))
  <2>1. IsFiniteSet(1 .. k) /\ Cardinality(1 .. k) = k
    <3>1. 1 + k - 1 = k
      OBVIOUS
    <3>2. IsFiniteSet(1 .. 1 + k - 1) /\ Cardinality(1 .. 1 + k - 1) = k
      BY Sizes
    <3>. QED  BY <3>1, <3>2, Zenon
  <2>2. IsFiniteSet(SUBSET (1 .. k)) /\ Cardinality(SUBSET (1 .. k)) = 2^Cardinality(1 .. k)
    BY <2>1, FS_SUBSET, Zenon
  <2>3. IsFiniteSet(SUBSET (1 .. k)) /\ Cardinality(SUBSET (1 .. k)) = 2^k
    BY <2>1, <2>2, Zenon
  <2>4. Cardinality(SUBSET (1 .. k)) \in Nat
    BY <2>3, FS_CardinalityType
  <2>. QED  BY <2>3, <2>4, Zenon
<1>2. ASSUME NEW j \in Nat, NEW k \in Nat, j < k
      PROVE  2^j < 2^k
  <2>1. SUBSET (1 .. j) \in SUBSET SUBSET (1 .. k)
    BY <1>2
  <2>2. 1 .. k \in SUBSET (1 .. k) /\ 1 .. k \notin SUBSET (1 .. j)
    <3>1. k \in 1 .. k /\ k \notin 1 .. j
      BY <1>2
    <3>. QED  BY <3>1
  <2> DEFINE S == SUBSET (1 .. k)
             T == SUBSET (1 .. j)
  <2>3. T \in SUBSET S /\ S # T /\ IsFiniteSet(S) /\ 2^k = Cardinality(S) /\ 2^j = Cardinality(T)
    BY <1>1, <2>1, <2>2, Zenon
  <2>4. Cardinality(T) <= Cardinality(S) /\ Cardinality(S) # Cardinality(T)
    <3> HIDE DEF S, T
    <3>. QED  BY <2>3, FS_Subset
  <2>5. 2^j \in Int /\ 2^k \in Int
    BY <1>1
  <2>6. Cardinality(T) \in Int /\ Cardinality(S) \in Int
    BY <2>3, <2>5, Zenon
  <2>7. \A a, b \in Int : a <= b /\ b # a => a < b
    OBVIOUS
  <2>8. Cardinality(T) < Cardinality(S)
    <3> HIDE DEF S, T
    <3>. QED  BY <2>4, <2>6, <2>7
  <2>. QED  BY <2>3, <2>8, Zenon
<1>3. ASSUME NEW k \in Nat
      PROVE  k < 2^k
  <2> DEFINE Bad == {i \in 0 .. k : ~ i < 2^i}
  <2>1. SUFFICES ASSUME Bad # {} PROVE FALSE
    OBVIOUS
  <2>2. IsFiniteSet(Bad) /\ Bad \in SUBSET Int
    <3>1. IsFiniteSet(0 .. k) /\ Bad \in SUBSET (0 .. k)
      BY FS_Interval
    <3> HIDE DEF Bad
    <3>2. IsFiniteSet(Bad)
      BY <3>1, FS_Subset
    <3>. QED  BY <3>1, <3>2
  <2>3. PICK b \in Bad : \A i \in Bad : b <= i
    <3> HIDE DEF Bad
    <3>. QED  BY <2>1, <2>2, SmallestExists
  <2>4. CASE b = 0
    <3>1. 2^b > 0
      <4>1. 2^0 = 1
        OBVIOUS
      <4>. QED  BY <2>4, <4>1
    <3>. QED  BY <2>3, <2>4, <3>1
  <2>5. CASE b # 0
    <3>1. b - 1 \in Nat /\ b - 1 \in 0 .. k /\ b \in Nat /\ b - 1 < b
      BY <2>5
    <3>2. b - 1 < 2^(b - 1)
      BY <2>3, <3>1
    <3>3. 2^(b - 1) < 2^b
      BY <1>2, <3>1
    <3>4. 2^(b - 1) \in Int /\ 2^b \in Int
      BY <1>1, <3>1
    <3>5. \A x, y \in Int : b - 1 < x /\ x < y => b < y
      BY <3>1
    <3>. QED  BY <2>3, <3>2, <3>3, <3>4, <3>5
  <2>. QED  BY <2>4, <2>5
<1>. QED  BY <1>1, <1>2, <1>3

\* What is kept of a vector when other elements are taken out of it: elements
\* of the set, none of them twice if none was there twice.
LEMMA AmongFacts ==
    ASSUME NEW T, NEW s \in Seq(T), NEW S
    PROVE  /\ Among(s, S) \in Seq(T)
           /\ \A k \in DOMAIN Among(s, S) : Among(s, S)[k] \in S
           /\ \A k \in DOMAIN Among(s, S) : \E i \in DOMAIN s : s[i] = Among(s, S)[k]
           /\ (\A i, j \in DOMAIN s : s[i] = s[j] => i = j)
              => \A k, l \in DOMAIN Among(s, S) : Among(s, S)[k] = Among(s, S)[l] => k = l
<1> DEFINE places == {i \in DOMAIN s : s[i] \in S}
           n == Cardinality(places)
           e == InOrder(places)
<1>1. IsFiniteSet(places) /\ places \in SUBSET Int
  <2>1. DOMAIN s = 1 .. Len(s) /\ Len(s) \in Nat
    OBVIOUS
  <2>2. IsFiniteSet(DOMAIN s)
    BY <2>1, FS_Interval
  <2>3. places \in SUBSET DOMAIN s
    OBVIOUS
  <2> HIDE DEF places
  <2>4. IsFiniteSet(places)
    BY <2>2, <2>3, FS_Subset
  <2>. QED  BY <2>1, <2>3, <2>4
<1>2. Enumerates(e, places) /\ n \in Nat
  <2> HIDE DEF places
  <2>. QED  BY <1>1, InOrderEnumerates
<1>3. Among(s, S) = [k \in 1 .. n |-> s[e[k]]]
  BY Zenon DEF Among, Selected
<1>4. \A k \in 1 .. n : e[k] \in DOMAIN s /\ s[e[k]] \in S /\ s[e[k]] \in T /\ e[k] \in Int
  <2>1. \A k \in 1 .. n : e[k] \in places
    BY <1>2 DEF Enumerates
  <2> HIDE DEF e, n
  <2>. QED  BY <1>1, <2>1
<1>5. \A k, l \in 1 .. n : e[k] = e[l] => k = l
  <2>1. \A k, l \in 1 .. n : k < l => e[k] < e[l]
    BY <1>2 DEF Enumerates, Increasing
  <2> HIDE DEF e, n
  <2>. QED  BY <1>2, <1>4, <2>1
<1> HIDE DEF e, n
<1>. QED  BY <1>2, <1>3, <1>4, <1>5, SMTT(30)

\* Induction up to a bound.
LEMMA Upward ==
    \A n \in Nat : \A G :
        0 \in G /\ (\A i \in 0 .. n - 1 : i \in G => i + 1 \in G) => \A i \in 0 .. n : i \in G
<1> SUFFICES ASSUME NEW n \in Nat, NEW G, 0 \in G, \A i \in 0 .. n - 1 : i \in G => i + 1 \in G
             PROVE  \A i \in 0 .. n : i \in G
  OBVIOUS
<1> DEFINE Bad == {i \in 0 .. n : i \notin G}
<1>1. SUFFICES ASSUME Bad # {} PROVE FALSE
  OBVIOUS
<1>2. IsFiniteSet(Bad) /\ Bad \in SUBSET Int
  <2>1. IsFiniteSet(0 .. n) /\ Bad \in SUBSET (0 .. n)
    BY FS_Interval
  <2> HIDE DEF Bad
  <2>2. IsFiniteSet(Bad)
    BY <2>1, FS_Subset
  <2>. QED  BY <2>1, <2>2
<1>3. PICK b \in Bad : \A i \in Bad : b <= i
  <2> HIDE DEF Bad
  <2>. QED  BY <1>1, <1>2, SmallestExists
<1>4. b # 0 /\ b \in 0 .. n /\ b \notin G
  BY <1>3
<1>5. b - 1 \in 0 .. n - 1 /\ b - 1 + 1 = b /\ ~ b <= b - 1 /\ b - 1 \in 0 .. n
  BY <1>4
<1>6. b - 1 \in G
  BY <1>3, <1>5
<1>. QED  BY <1>4, <1>5, <1>6

\* What is selected: all elements at the indices, and no others.
LEMMA SelectedFacts ==
    \A T : \A s \in Seq(T) : \A P \in SUBSET (DOMAIN s) :
        /\ Selected(s, P) \in Seq(T) /\ Len(Selected(s, P)) = Cardinality(P)
        /\ \A k \in DOMAIN Selected(s, P) : \E i \in P : Selected(s, P)[k] = s[i]
        /\ P = {} => Selected(s, P) = <<>>
        /\ IsFiniteSet(P) /\ P \in SUBSET Int /\ Cardinality(P) \in Nat /\ Enumerates(InOrder(P), P)
<1> SUFFICES ASSUME NEW T, NEW s \in Seq(T), NEW P \in SUBSET (DOMAIN s)
             PROVE  /\ Selected(s, P) \in Seq(T) /\ Len(Selected(s, P)) = Cardinality(P)
                    /\ \A k \in DOMAIN Selected(s, P) : \E i \in P : Selected(s, P)[k] = s[i]
                    /\ P = {} => Selected(s, P) = <<>>
                    /\ IsFiniteSet(P) /\ P \in SUBSET Int /\ Cardinality(P) \in Nat
                    /\ Enumerates(InOrder(P), P)
  OBVIOUS
<1> DEFINE n == Cardinality(P)
           e == InOrder(P)
<1>1. IsFiniteSet(P) /\ P \in SUBSET Int
  <2>1. DOMAIN s = 1 .. Len(s) /\ Len(s) \in Nat
    OBVIOUS
  <2>2. IsFiniteSet(DOMAIN s)
    BY <2>1, FS_Interval
  <2>. QED  BY <2>1, <2>2, FS_Subset
<1>2. Enumerates(e, P) /\ n \in Nat
  BY <1>1, InOrderEnumerates
<1>3. \A k \in 1 .. n : e[k] \in P
  BY <1>2 DEF Enumerates
<1>4. Selected(s, P) = [k \in 1 .. n |-> s[e[k]]]
  BY Zenon DEF Selected
<1>5. P = {} => n = 0
  BY FS_EmptySet
<1> HIDE DEF e, n
<1>6. \A k \in 1 .. n : s[e[k]] \in T
  BY <1>3
<1>7. Selected(s, P) \in Seq(T) /\ Len(Selected(s, P)) = n
  BY <1>2, <1>4, <1>6
<1>8. P = {} => Selected(s, P) = <<>>
  BY <1>5, <1>7
<1>9. \A k \in DOMAIN Selected(s, P) : \E i \in P : Selected(s, P)[k] = s[i]
  BY <1>2, <1>3, <1>4
<1>. QED  BY <1>1, <1>2, <1>7, <1>8, <1>9 DEF e, n

\* The indices Q of a vector that comes behind n elements.
Behind(n, Q) == {n + j : j \in Q}
Joined(a, b, P, Q) ==
    (\A i \in P : i \in DOMAIN a) /\ (\A j \in Q : j \in DOMAIN b)
    => Selected(a \o b, P \cup Behind(Len(a), Q)) = Selected(a, P) \o Selected(b, Q)

\* Of two vectors in a row, first what is selected from the one, then from the other.
LEMMA SelectedConcatenated ==
    \A T : \A a, b \in Seq(T) : \A P, Q : Joined(a, b, P, Q)
<1> SUFFICES ASSUME NEW T, NEW a \in Seq(T), NEW b \in Seq(T), NEW P, NEW Q
             PROVE  Joined(a, b, P, Q)
  OBVIOUS
<1> SUFFICES ASSUME \A i \in P : i \in DOMAIN a, \A j \in Q : j \in DOMAIN b
             PROVE  Selected(a \o b, P \cup Behind(Len(a), Q)) = Selected(a, P) \o Selected(b, Q)
  BY Zenon DEF Joined
<1>0. P \in SUBSET (DOMAIN a) /\ Q \in SUBSET (DOMAIN b)
  OBVIOUS
<1> DEFINE m == Len(a)
           R == P \cup {m + j : j \in Q}
           p == Cardinality(P)
           q == Cardinality(Q)
           e == InOrder(P)
           f == InOrder(Q)
           t == [k \in 1 .. p + q |-> IF k <= p THEN e[k] ELSE m + f[k - p]]
<1>1. /\ p \in Nat /\ IsFiniteSet(P) /\ P \in SUBSET Int /\ Enumerates(e, P)
      /\ Selected(a, P) \in Seq(T) /\ Len(Selected(a, P)) = p
  BY <1>0, SelectedFacts
<1>2. /\ q \in Nat /\ IsFiniteSet(Q) /\ Q \in SUBSET Int /\ Enumerates(f, Q)
      /\ Selected(b, Q) \in Seq(T) /\ Len(Selected(b, Q)) = q
  BY <1>0, SelectedFacts
<1>3. /\ m \in Nat /\ a \o b \in Seq(T)
      /\ \A i \in P : i \in 1 .. m /\ i \in DOMAIN (a \o b) /\ (a \o b)[i] = a[i]
      /\ \A j \in Q : j \in Nat \ {0} /\ m + j \in DOMAIN (a \o b) /\ (a \o b)[m + j] = b[j]
  OBVIOUS
<1>4. R \in SUBSET (DOMAIN (a \o b))
  <2> SUFFICES ASSUME NEW x \in R PROVE x \in DOMAIN (a \o b)
    OBVIOUS
  <2>. QED  BY <1>3
<1>5. IsFiniteSet(R) /\ R \in SUBSET Int /\ Cardinality(R) \in Nat /\ Enumerates(InOrder(R), R)
  <2> DEFINE c == a \o b
  <2>1. c \in Seq(T) /\ R \in SUBSET (DOMAIN c)
    BY <1>3, <1>4
  <2> HIDE DEF R, c
  <2>. QED  BY <2>1, SelectedFacts
<1>6. /\ \A k \in 1 .. p : e[k] \in P
      /\ \A k \in 1 .. q : f[k] \in Q
      /\ \A i, j \in 1 .. p : i < j => e[i] < e[j]
      /\ \A i, j \in 1 .. q : i < j => f[i] < f[j]
  BY <1>1, <1>2 DEF Enumerates, Increasing
<1>7. (\A x \in P : \E k \in 1 .. p : e[k] = x) /\ (\A x \in Q : \E k \in 1 .. q : f[k] = x)
  <2> HIDE DEF e, f
  <2>1. \A x \in P : \E k \in 1 .. p : e[k] = x
    BY <1>1, OrderComplete
  <2>2. \A x \in Q : \E k \in 1 .. q : f[k] = x
    BY <1>2, OrderComplete
  <2>. QED  BY <2>1, <2>2
<1> HIDE DEF e, f, p, q
<1>8. \A k \in 1 .. p + q :
         \/ k \in 1 .. p /\ t[k] = e[k] /\ t[k] \in P
         \/ k - p \in 1 .. q /\ ~ k <= p /\ t[k] = m + f[k - p] /\ f[k - p] \in Q
  <2> SUFFICES ASSUME NEW k \in 1 .. p + q
               PROVE  \/ k \in 1 .. p /\ t[k] = e[k] /\ t[k] \in P
                      \/ k - p \in 1 .. q /\ ~ k <= p /\ t[k] = m + f[k - p] /\ f[k - p] \in Q
    OBVIOUS
  <2>1. t[k] = IF k <= p THEN e[k] ELSE m + f[k - p]
    OBVIOUS
  <2>2. k \in 1 .. p \/ (k - p \in 1 .. q /\ ~ k <= p)
    BY <1>1, <1>2
  <2>3. k \in 1 .. p => k <= p
    BY <1>1
  <2> HIDE DEF t
  <2>. QED  BY <1>6, <2>1, <2>2, <2>3
<1>9. \A k \in 1 .. p + q : t[k] \in R
  BY <1>8
<1>10. \A i, j \in 1 .. p + q : i < j => t[i] < t[j]
  <2> SUFFICES ASSUME NEW i \in 1 .. p + q, NEW j \in 1 .. p + q, i < j PROVE t[i] < t[j]
    OBVIOUS
  <2>1. CASE j \in 1 .. p /\ t[j] = e[j]
    <3>1. i \in 1 .. p /\ t[i] = e[i]
      BY <1>1, <1>8, <2>1
    <3>. QED  BY <1>6, <2>1, <3>1
  <2>2. CASE j - p \in 1 .. q /\ t[j] = m + f[j - p] /\ f[j - p] \in Q
    <3>1. CASE i \in 1 .. p /\ t[i] \in P
      <4>1. t[i] \in 1 .. m /\ f[j - p] \in Nat \ {0}
        BY <1>3, <2>2, <3>1
      <4>. QED  BY <1>3, <2>2, <4>1
    <3>2. CASE i - p \in 1 .. q /\ t[i] = m + f[i - p] /\ f[i - p] \in Q
      <4>1. f[i - p] < f[j - p]
        <5>1. i - p < j - p
          BY <1>1
        <5>. QED  BY <1>6, <2>2, <3>2, <5>1
      <4>2. f[i - p] \in Int /\ f[j - p] \in Int
        BY <1>2, <2>2, <3>2
      <4>. QED  BY <1>3, <2>2, <3>2, <4>1, <4>2
    <3>. QED  BY <1>8, <3>1, <3>2
  <2>. QED  BY <1>8, <2>1, <2>2
<1>11. \A x \in R : \E k \in 1 .. p + q : t[k] = x
  <2> SUFFICES ASSUME NEW x \in R PROVE \E k \in 1 .. p + q : t[k] = x
    OBVIOUS
  <2>1. CASE x \in P
    <3>1. PICK k \in 1 .. p : e[k] = x
      BY <1>7, <2>1
    <3>2. k \in 1 .. p + q /\ t[k] = e[k]
      BY <1>1, <1>2
    <3>. QED  BY <3>1, <3>2
  <2>2. CASE \E j \in Q : x = m + j
    <3>1. PICK j \in Q : x = m + j
      BY <2>2
    <3>2. PICK k \in 1 .. q : f[k] = j
      BY <1>7
    <3>3. PICK l \in 1 .. p + q : ~ l <= p /\ l - p = k
      <4>1. p \in Nat /\ q \in Nat
        BY <1>1, <1>2
      <4> DEFINE l == k + p
      <4>2. l \in 1 .. p + q /\ ~ l <= p /\ l - p = k
        BY <4>1
      <4> HIDE DEF l
      <4>. QED  BY <4>2
    <3>4. t[l] = m + f[l - p]
      BY <3>3
    <3>. QED  BY <3>1, <3>2, <3>3, <3>4
  <2>. QED  BY <2>1, <2>2
<1>12. Cardinality(R) = p + q
  <2> DEFINE N == p + q
  <2>1. N \in Nat /\ \A k \in 1 .. N : t[k] \in Int
    <3>1. N \in Nat
      BY <1>1, <1>2
    <3>2. \A x \in R : x \in Int
      <4> HIDE DEF R
      <4>. QED  BY <1>5
    <3> HIDE DEF t, R
    <3>. QED  BY <1>9, <3>1, <3>2
  <2>2. t \in Bijection(1 .. N, R)
    <3>1. t \in [1 .. N -> R]
      <4>1. t = [k \in 1 .. N |-> t[k]]
        OBVIOUS
      <4>2. \A k \in 1 .. N : t[k] \in R
        BY <1>9
      <4> HIDE DEF t, R, N
      <4>. QED  BY <4>1, <4>2
    <3>2. \A i, j \in 1 .. N : t[i] = t[j] => i = j
      <4> SUFFICES ASSUME NEW i \in 1 .. N, NEW j \in 1 .. N, t[i] = t[j], i # j PROVE FALSE
        OBVIOUS
      <4>1. i < j \/ j < i
        BY <2>1
      <4>2. t[i] < t[j] \/ t[j] < t[i]
        BY <1>10, <4>1
      <4>3. t[i] \in Int /\ t[j] \in Int
        BY <2>1
      <4> HIDE DEF t
      <4>. QED  BY <4>2, <4>3
    <3>3. t \in Injection(1 .. N, R)
      <4> HIDE DEF t, R
      <4>. QED  BY <3>1, <3>2 DEF Injection, IsInjective
    <3>4. t \in Surjection(1 .. N, R)
      <4> HIDE DEF t, R
      <4>. QED  BY <1>11, <3>1 DEF Surjection, N
    <3> HIDE DEF t, R
    <3>. QED  BY <3>3, <3>4 DEF Bijection
  <2>3. IsFiniteSet(1 .. N) /\ Cardinality(1 .. N) = N
    BY <2>1, FS_Interval
  <2>4. Cardinality(1 .. N) = Cardinality(R)
    <3>1. ExistsBijection(1 .. N, R)
      <4> HIDE DEF t, R, N
      <4>. QED  BY <2>2 DEF ExistsBijection
    <3> DEFINE I == 1 .. N
    <3>2. IsFiniteSet(I) /\ ExistsBijection(I, R)
      BY <2>3, <3>1
    <3> HIDE DEF t, R, I
    <3>3. Cardinality(R) = Cardinality(I)
      BY <3>2, FS_Bijection
    <3>. QED  BY <3>3 DEF I
  <2>. QED  BY <2>3, <2>4
<1>13. InOrder(R) = t
  <2>1. Enumerates(t, R)
    <3>1. t \in [1 .. Cardinality(R) -> R]
      BY <1>9, <1>12
    <3>2. Increasing(t)
      <4>1. DOMAIN t = 1 .. p + q
        OBVIOUS
      <4> HIDE DEF t
      <4>. QED  BY <1>10, <4>1 DEF Increasing
    <3> HIDE DEF t, R
    <3>. QED  BY <3>1, <3>2 DEF Enumerates
  <2> HIDE DEF t, R
  <2>. QED  BY <1>5, <2>1, OrderUnique
<1>14. Selected(a \o b, R) = [k \in 1 .. p + q |-> (a \o b)[t[k]]]
  <2> HIDE DEF t, R
  <2>. QED  BY <1>12, <1>13 DEF Selected
<1> DEFINE left == Selected(a, P)
           right == Selected(b, Q)
<1>15. left = [k \in 1 .. p |-> a[e[k]]] /\ right = [k \in 1 .. q |-> b[f[k]]]
  BY Zenon DEF Selected, p, q, e, f
<1>16. \A k \in 1 .. p + q : (a \o b)[t[k]] = (left \o right)[k]
  <2> SUFFICES ASSUME NEW k \in 1 .. p + q PROVE (a \o b)[t[k]] = (left \o right)[k]
    OBVIOUS
  <2>1. CASE k \in 1 .. p /\ t[k] = e[k] /\ t[k] \in P
    <3>1. (left \o right)[k] = left[k]
      <4> HIDE DEF left, right
      <4>. QED  BY <1>1, <1>2, <2>1 DEF left, right
    <3>. QED  BY <1>3, <1>15, <2>1, <3>1
  <2>2. CASE k - p \in 1 .. q /\ ~ k <= p /\ t[k] = m + f[k - p] /\ f[k - p] \in Q
    <3>1. (left \o right)[k] = right[k - p]
      <4>1. left \in Seq(T) /\ right \in Seq(T) /\ Len(left) = p /\ Len(right) = q
        BY <1>1, <1>2
      <4> HIDE DEF left, right
      <4>. QED  BY <1>1, <1>2, <2>2, <4>1
    <3>. QED  BY <1>3, <1>15, <2>2, <3>1
  <2>. QED  BY <1>8, <2>1, <2>2
<1>17. left \o right \in Seq(T) /\ Len(left \o right) = p + q
  <2>1. left \in Seq(T) /\ right \in Seq(T) /\ Len(left) = p /\ Len(right) = q
    BY <1>1, <1>2
  <2> HIDE DEF left, right
  <2>. QED  BY <2>1
<1>18. left \o right = [k \in 1 .. p + q |-> (left \o right)[k]]
  <2> DEFINE c == left \o right
  <2>1. c \in Seq(T) /\ Len(c) = p + q
    BY <1>17
  <2>2. c = [k \in 1 .. p + q |-> c[k]]
    <3> HIDE DEF c
    <3>1. \A x \in Seq(T) : x = [k \in 1 .. Len(x) |-> x[k]]
      OBVIOUS
    <3>. QED  BY <2>1, <3>1
  <2>. QED  BY <2>2
<1>. QED
  <2> HIDE DEF t, R, left, right
  <2>1. Selected(a \o b, R) = [k \in 1 .. p + q |-> (left \o right)[k]]
    <3>1. \A k \in 1 .. p + q : (a \o b)[t[k]] = (left \o right)[k]
      BY <1>16
    <3>. QED  BY <1>14, <3>1
  <2>2. Selected(a \o b, R) = left \o right
    BY <1>18, <2>1, Zenon
  <2>. QED  BY <2>2, Zenon DEF left, right, R, Behind

\* The indices of what is in M are those of the one vector and then of the other.
LEMMA AmongConcatenated ==
    \A T : \A a, b \in Seq(T) : \A M : Among(a \o b, M) = Among(a, M) \o Among(b, M)
<1> SUFFICES ASSUME NEW T, NEW a \in Seq(T), NEW b \in Seq(T), NEW M
             PROVE  Among(a \o b, M) = Among(a, M) \o Among(b, M)
  OBVIOUS
<1> DEFINE P == {i \in DOMAIN a : a[i] \in M}
           Q == {j \in DOMAIN b : b[j] \in M}
           R == {i \in DOMAIN (a \o b) : (a \o b)[i] \in M}
<1>1. \A i \in DOMAIN (a \o b) :
         \/ i \in DOMAIN a /\ (a \o b)[i] = a[i]
         \/ \E j \in DOMAIN b : i = Len(a) + j /\ (a \o b)[i] = b[j]
  <2> SUFFICES ASSUME NEW i \in DOMAIN (a \o b)
               PROVE  \/ i \in DOMAIN a /\ (a \o b)[i] = a[i]
                      \/ \E j \in DOMAIN b : i = Len(a) + j /\ (a \o b)[i] = b[j]
    OBVIOUS
  <2>1. CASE i \in DOMAIN a
    BY <2>1
  <2>2. CASE i \notin DOMAIN a
    <3> DEFINE j == i - Len(a)
    <3>1. j \in DOMAIN b /\ i = Len(a) + j /\ (a \o b)[i] = b[j]
      BY <2>2
    <3>. QED  BY <3>1
  <2>. QED  BY <2>1, <2>2
<1>2. /\ \A i \in DOMAIN a : i \in DOMAIN (a \o b) /\ (a \o b)[i] = a[i]
      /\ \A j \in DOMAIN b : Len(a) + j \in DOMAIN (a \o b) /\ (a \o b)[Len(a) + j] = b[j]
  OBVIOUS
<1>3. \A i : i \in R <=> i \in P \cup {Len(a) + j : j \in Q}
  <2> SUFFICES ASSUME NEW i PROVE i \in R <=> i \in P \/ \E j \in Q : i = Len(a) + j
    OBVIOUS
  <2>1. i \in R => i \in P \/ \E j \in Q : i = Len(a) + j
    BY <1>1
  <2>2. i \in P \/ (\E j \in Q : i = Len(a) + j) => i \in R
    BY <1>2
  <2>. QED  BY <2>1, <2>2
<1>4. R = P \cup Behind(Len(a), Q)
  <2> HIDE DEF P, Q, R
  <2>. QED  BY <1>3 DEF Behind
<1>5. Selected(a \o b, P \cup Behind(Len(a), Q)) = Selected(a, P) \o Selected(b, Q)
  <2>1. (\A i \in P : i \in DOMAIN a) /\ (\A j \in Q : j \in DOMAIN b)
    OBVIOUS
  <2> HIDE DEF P, Q
  <2>2. Joined(a, b, P, Q)
    BY SelectedConcatenated
  <2>. QED  BY <2>1, <2>2 DEF Joined
<1>6. Among(a \o b, M) = Selected(a \o b, R) /\ Among(a, M) = Selected(a, P) /\ Among(b, M) = Selected(b, Q)
  BY Zenon DEF Among
<1> HIDE DEF P, Q, R
<1>. QED  BY <1>4, <1>5, <1>6, Zenon

\* What is kept of nothing, of a single element, and where nothing, or the same, is in the sets.
LEMMA AmongCases ==
    \A T : \A a \in Seq(T) :
        /\ \A M : Among(a, M) \in Seq(T)
        /\ \A M : \A k \in DOMAIN Among(a, M) : Among(a, M)[k] \in M
        /\ \A M : (\A i \in DOMAIN a : a[i] \notin M) => Among(a, M) = <<>>
        /\ \A M, N : (\A i \in DOMAIN a : a[i] \in M <=> a[i] \in N) => Among(a, M) = Among(a, N)
        /\ \A M : (\A i \in DOMAIN a : a[i] \in M) => Among(a, M) = a
<1> SUFFICES ASSUME NEW T, NEW a \in Seq(T), NEW M
             PROVE  /\ Among(a, M) \in Seq(T)
                    /\ \A k \in DOMAIN Among(a, M) : Among(a, M)[k] \in M
                    /\ (\A i \in DOMAIN a : a[i] \notin M) => Among(a, M) = <<>>
                    /\ \A N : (\A i \in DOMAIN a : a[i] \in M <=> a[i] \in N) => Among(a, M) = Among(a, N)
                    /\ (\A i \in DOMAIN a : a[i] \in M) => Among(a, M) = a
  OBVIOUS
<1> DEFINE P == {i \in DOMAIN a : a[i] \in M}
<1>1. P \in SUBSET (DOMAIN a) /\ Among(a, M) = Selected(a, P)
  BY Zenon DEF Among
<1>2. P = {} => Selected(a, P) = <<>>
  <2> HIDE DEF P
  <2>. QED  BY <1>1, SelectedFacts
<1>3. (\A i \in DOMAIN a : a[i] \notin M) => Among(a, M) = <<>>
  BY <1>1, <1>2
<1>4. ASSUME NEW N, \A i \in DOMAIN a : a[i] \in M <=> a[i] \in N PROVE Among(a, M) = Among(a, N)
  <2>1. P = {i \in DOMAIN a : a[i] \in N}
    BY <1>4
  <2>. QED  BY <2>1, Zenon DEF Among
<1>5. ASSUME \A i \in DOMAIN a : a[i] \in M PROVE Among(a, M) = a
  <2> DEFINE n == Len(a)
             t == [k \in 1 .. n |-> k]
  <2>1. P = 1 .. n /\ n \in Nat
    BY <1>5
  <2>2. IsFiniteSet(P) /\ P \in SUBSET Int /\ Enumerates(InOrder(P), P)
    <3> HIDE DEF P, n
    <3>. QED  BY <1>1, SelectedFacts
  <2>3. Cardinality(P) = n
    <3> HIDE DEF P, n
    <3>1. Cardinality(1 .. n) = n
      BY <2>1, FS_Interval
    <3>. QED  BY <2>1, <3>1
  <2>4. Enumerates(t, P)
    <3>1. t \in [1 .. Cardinality(P) -> P]
      BY <2>1, <2>3
    <3>2. Increasing(t)
      BY DEF Increasing
    <3> HIDE DEF P, t
    <3>. QED  BY <3>1, <3>2 DEF Enumerates
  <2>5. InOrder(P) = t
    <3> HIDE DEF P, t
    <3>. QED  BY <2>2, <2>4, OrderUnique
  <2>6. Selected(a, P) = [k \in 1 .. n |-> a[t[k]]]
    <3> HIDE DEF P, t
    <3>. QED  BY <2>3, <2>5 DEF Selected
  <2>7. [k \in 1 .. n |-> a[t[k]]] = a
    OBVIOUS
  <2>. QED  BY <1>1, <2>6, <2>7, Zenon
<1>. QED  BY <1>3, <1>4, <1>5, AmongFacts, Zenon

\* To keep what is in M and of that what is in N is to keep what is in both.
LEMMA AmongAmong ==
    \A T : \A a \in Seq(T) : \A M, N : Among(Among(a, M), N) = Among(a, M \cap N)
<1> SUFFICES ASSUME NEW T, NEW a \in Seq(T), NEW M, NEW N
             PROVE  Among(Among(a, M), N) = Among(a, M \cap N)
  OBVIOUS
<1> DEFINE Front(k) == SubSeq(a, 1, k)
           Holds(s) == Among(Among(s, M), N) = Among(s, M \cap N)
           n == Len(a)
           G == {k \in 0 .. n : Holds(Front(k))}
<1>0. \A O : Among(<<>>, O) = <<>>
  <2>1. <<>> \in Seq({}) /\ DOMAIN <<>> = {}
    OBVIOUS
  <2>. QED  BY <2>1, AmongCases
<1>1. Holds(<<>>)
  BY <1>0
<1>2. ASSUME NEW s \in Seq(T), NEW x \in T, Holds(s) PROVE Holds(s \o <<x>>)
  <2> DEFINE one == <<x>>
  <2>1. one \in Seq(T) /\ DOMAIN one = {1} /\ one[1] = x
    OBVIOUS
  <2>2. Holds(one)
    <3> HIDE DEF one
    <3>1. CASE x \in M
      <4>1. Among(one, M) = one
        BY <2>1, <3>1, AmongCases
      <4>2. Among(one, N) = Among(one, M \cap N)
        BY <2>1, <3>1, AmongCases
      <4>. QED  BY <4>1, <4>2
    <3>2. CASE x \notin M
      <4>1. Among(one, M) = <<>> /\ Among(one, M \cap N) = <<>>
        BY <2>1, <3>2, AmongCases
      <4>. QED  BY <1>0, <4>1
    <3>. QED  BY <3>1, <3>2
  <2> HIDE DEF one
  <2> DEFINE A(t) == Among(t, M)
  <2>3. A(s) \in Seq(T) /\ A(one) \in Seq(T)
    BY <2>1, AmongCases
  <2>4. A(s \o one) = A(s) \o A(one)
    BY <2>1, AmongConcatenated, SMTT(30)
  <2>5. Among(A(s) \o A(one), N) = Among(A(s), N) \o Among(A(one), N)
    <3> DEFINE b == A(s)
               d == A(one)
    <3>1. b \in Seq(T) /\ d \in Seq(T)
      BY <2>3
    <3> HIDE DEF b, d
    <3>2. Among(b \o d, N) = Among(b, N) \o Among(d, N)
      BY <3>1, AmongConcatenated, SMTT(30)
    <3>. QED  BY <3>2 DEF b, d
  <2> DEFINE O == M \cap N
  <2>6. Among(s \o one, O) = Among(s, O) \o Among(one, O)
    <3> HIDE DEF O
    <3>. QED  BY <2>1, AmongConcatenated, SMTT(30)
  <2>7. Holds(s \o one)
    BY <1>2, <2>2, <2>4, <2>5, <2>6
  <2>. QED  BY <2>7 DEF one
<1> HIDE DEF Holds
<1>3. n \in Nat
  OBVIOUS
<1>4. 0 \in G
  <2>1. Front(0) = <<>>
    OBVIOUS
  <2> HIDE DEF Front
  <2>2. Holds(Front(0))
    BY <1>1, <2>1
  <2>. QED  BY <1>3, <2>2
<1>5. \A i \in 0 .. n - 1 : i \in G => i + 1 \in G
  <2> SUFFICES ASSUME NEW i \in 0 .. n - 1, Holds(Front(i)) PROVE Holds(Front(i + 1))
    BY <1>3
  <2>1. Front(i) \in Seq(T) /\ a[i + 1] \in T /\ Front(i + 1) = Front(i) \o <<a[i + 1]>>
    OBVIOUS
  <2> HIDE DEF Front
  <2>. QED  BY <1>2, <2>1
<1>6. n \in G
  <2>1. \A i \in 0 .. n : i \in G
    <3> HIDE DEF G, n
    <3>. QED  BY <1>3, <1>4, <1>5, Upward
  <2>. QED  BY <1>3, <2>1
<1>7. Front(n) = a
  OBVIOUS
<1>. QED  BY <1>6, <1>7 DEF Holds

-----------------------------------------------------------------------------
(* Sums over finite sets.                                                   *)

Chosen(s) == CHOOSE x \in s : TRUE

IsIter(f, S, g) ==
    g = [s \in SUBSET S |-> IF s = {} THEN 0 ELSE f[Chosen(s)] + g[s \ {Chosen(s)}]]
Iter(f, S) == CHOOSE g : IsIter(f, S, g)

\* The element that a fold takes next is one of the set.
LEMMA ChosenIn == ASSUME NEW S, S # {} PROVE Chosen(S) \in S
BY DEF Chosen

\* Two folds of the same function agree on the sets they share.
LEMMA IterUnique ==
    ASSUME NEW f, NEW S, NEW T, NEW g, NEW h, IsIter(f, S, g), IsIter(f, T, h),
           NEW u, u \subseteq S, u \subseteq T, IsFiniteSet(u)
    PROVE  g[u] = h[u]
<1> DEFINE Bad == {v \in SUBSET u : g[v] # h[v]}
<1>1. SUFFICES ASSUME Bad # {} PROVE FALSE
  OBVIOUS
<1>2. PICK v \in Bad : \A w \in Bad : w \subseteq v => w = v
  <2> Bad \in SUBSET SUBSET u
    OBVIOUS
  <2> HIDE DEF Bad
  <2>. QED  BY <1>1, SmallestSet
<1>3. v \in SUBSET S /\ v \in SUBSET T
  OBVIOUS
<1>4. /\ g[v] = IF v = {} THEN 0 ELSE f[Chosen(v)] + g[v \ {Chosen(v)}]
      /\ h[v] = IF v = {} THEN 0 ELSE f[Chosen(v)] + h[v \ {Chosen(v)}]
  BY <1>3, Zenon DEF IsIter
<1>5. v # {} => v \ {Chosen(v)} \notin Bad
  BY <1>2, ChosenIn
<1>. QED  BY <1>4, <1>5

\* A fold over a finite set is defined.
LEMMA IterExists ==
    ASSUME NEW f, NEW S, IsFiniteSet(S)
    PROVE  \E g : IsIter(f, S, g)
<1> DEFINE Bad == {T \in SUBSET S : ~ \E g : IsIter(f, T, g)}
<1>1. SUFFICES ASSUME Bad # {} PROVE FALSE
  OBVIOUS
<1>2. PICK T \in Bad : \A U \in Bad : U \subseteq T => U = T
  <2> Bad \in SUBSET SUBSET S
    OBVIOUS
  <2> HIDE DEF Bad
  <2>. QED  BY <1>1, SmallestSet
<1>3. ASSUME NEW U \in SUBSET T, U # T
      PROVE  IsIter(f, U, Iter(f, U))
  BY <1>2, <1>3, Zenon DEF Iter
<1> DEFINE Value(s) == Iter(f, s)[s]
           g == [s \in SUBSET T |->
                    IF s # T THEN Value(s)
                    ELSE IF T = {} THEN 0 ELSE f[Chosen(T)] + Value(T \ {Chosen(T)})]
<1>4. ASSUME NEW s \in SUBSET T
      PROVE  g[s] = IF s = {} THEN 0 ELSE f[Chosen(s)] + g[s \ {Chosen(s)}]
  <2>1. CASE s = T
    BY <2>1, ChosenIn
  <2>2. CASE s # T /\ s = {}
    BY <1>3, <2>2 DEF IsIter
  <2>3. CASE s # T /\ s # {}
    <3> DEFINE r == s \ {Chosen(s)}
    <3>1. r \in SUBSET s /\ r \in SUBSET T /\ r # T /\ IsFiniteSet(r)
      BY <2>3, ChosenIn, FS_Subset
    <3>2. Value(s) = f[Chosen(s)] + Iter(f, s)[r]
      BY <1>3, <2>3 DEF IsIter
    <3>3. Iter(f, s)[r] = Value(r)
      <4>1. IsIter(f, s, Iter(f, s)) /\ IsIter(f, r, Iter(f, r))
        BY <1>3, <2>3, <3>1
      <4>. QED  BY <3>1, <4>1, IterUnique
    <3>. QED  BY <2>3, <3>1, <3>2, <3>3
  <2>. QED  BY <2>1, <2>2, <2>3
<1>5. IsIter(f, T, g)
  <2>1. g = [s \in SUBSET T |-> g[s]]
    BY Zenon
  <2> HIDE DEF g
  <2>. QED  BY <1>4, <2>1 DEF IsIter
<1>. QED  BY <1>5

\* A sum takes one element after the other.
LEMMA SumUnfold ==
    ASSUME NEW f, NEW S, IsFiniteSet(S)
    PROVE  SumFunctionOnSet(f, S) = IF S = {} THEN 0 ELSE f[Chosen(S)] + SumFunctionOnSet(f, S \ {Chosen(S)})
<1>1. \A T : SumFunctionOnSet(f, T) = Iter(f, T)[T]
  BY DEF SumFunctionOnSet, FoldFunctionOnSet, MapThenFoldSet, Iter, IsIter, Chosen
<1> DEFINE r == S \ {Chosen(S)}
<1>2. IsFiniteSet(r)
  BY FS_Subset
<1>3. IsIter(f, S, Iter(f, S)) /\ IsIter(f, r, Iter(f, r))
  BY <1>2, IterExists, Zenon DEF Iter
<1>4. Iter(f, S)[r] = Iter(f, r)[r]
  BY <1>2, <1>3, IterUnique
<1>5. Iter(f, S)[S] = IF S = {} THEN 0 ELSE f[Chosen(S)] + Iter(f, S)[r]
  <2>1. S \in SUBSET S
    OBVIOUS
  <2>. QED  BY <1>3, <2>1, Zenon DEF IsIter
<1>. QED  BY <1>1, <1>4, <1>5

\* A sum of integers is an integer.
LEMMA SumInt ==
    ASSUME NEW f, NEW S, IsFiniteSet(S), \A x \in S : f[x] \in Int
    PROVE  SumFunctionOnSet(f, S) \in Int
<1> DEFINE Bad == {T \in SUBSET S : SumFunctionOnSet(f, T) \notin Int}
<1>1. SUFFICES ASSUME Bad # {} PROVE FALSE
  OBVIOUS
<1>2. PICK T \in Bad : \A U \in Bad : U \subseteq T => U = T
  <2> Bad \in SUBSET SUBSET S
    OBVIOUS
  <2> HIDE DEF Bad
  <2>. QED  BY <1>1, SmallestSet
<1>3. SumFunctionOnSet(f, T) = IF T = {} THEN 0 ELSE f[Chosen(T)] + SumFunctionOnSet(f, T \ {Chosen(T)})
  BY FS_Subset, SumUnfold
<1>. QED  BY <1>2, <1>3, ChosenIn

\* A sum is the same in any order: any element can be taken first.
LEMMA SumRemove ==
    ASSUME NEW f, NEW S, IsFiniteSet(S), \A x \in S : f[x] \in Int, NEW x \in S
    PROVE  SumFunctionOnSet(f, S) = f[x] + SumFunctionOnSet(f, S \ {x})
<1> DEFINE Bad == {T \in SUBSET S : \E y \in T : SumFunctionOnSet(f, T) # f[y] + SumFunctionOnSet(f, T \ {y})}
<1>1. SUFFICES ASSUME Bad # {} PROVE FALSE
  OBVIOUS
<1>2. PICK T \in Bad : \A U \in Bad : U \subseteq T => U = T
  <2> Bad \in SUBSET SUBSET S
    OBVIOUS
  <2> HIDE DEF Bad
  <2>. QED  BY <1>1, SmallestSet
<1>3. PICK y \in T : SumFunctionOnSet(f, T) # f[y] + SumFunctionOnSet(f, T \ {y})
  OBVIOUS
<1> DEFINE c == Chosen(T)
<1>4. c \in T /\ SumFunctionOnSet(f, T) = f[c] + SumFunctionOnSet(f, T \ {c})
  BY FS_Subset, SumUnfold, ChosenIn
<1>5. c # y
  BY <1>3, <1>4
<1>6. /\ SumFunctionOnSet(f, T \ {c}) = f[y] + SumFunctionOnSet(f, (T \ {c}) \ {y})
      /\ SumFunctionOnSet(f, T \ {y}) = f[c] + SumFunctionOnSet(f, (T \ {y}) \ {c})
  <2>1. T \ {c} \notin Bad /\ T \ {y} \notin Bad
    BY <1>2, <1>4
  <2>. QED  BY <1>4, <1>5, <2>1
<1>7. (T \ {c}) \ {y} = (T \ {y}) \ {c}
  OBVIOUS
<1>8. SumFunctionOnSet(f, (T \ {y}) \ {c}) \in Int /\ f[c] \in Int /\ f[y] \in Int
  BY <1>4, FS_Subset, SumInt
<1> DEFINE both == SumFunctionOnSet(f, (T \ {y}) \ {c})
<1>9. both \in Int /\ f[c] \in Int /\ f[y] \in Int
      /\ SumFunctionOnSet(f, T) = f[c] + (f[y] + both) /\ SumFunctionOnSet(f, T \ {y}) = f[c] + both
  BY <1>4, <1>6, <1>7, <1>8
<1> HIDE DEF both, c
<1>. QED  BY <1>3, <1>9

\* The sum of two functions.
LEMMA SumPlus ==
    ASSUME NEW f, NEW g, NEW h, NEW S, IsFiniteSet(S),
           \A x \in S : f[x] \in Int /\ g[x] \in Int /\ h[x] = f[x] + g[x]
    PROVE  SumFunctionOnSet(h, S) = SumFunctionOnSet(f, S) + SumFunctionOnSet(g, S)
<1> DEFINE Bad == {T \in SUBSET S : SumFunctionOnSet(h, T) # SumFunctionOnSet(f, T) + SumFunctionOnSet(g, T)}
<1>1. SUFFICES ASSUME Bad # {} PROVE FALSE
  OBVIOUS
<1>2. PICK T \in Bad : \A U \in Bad : U \subseteq T => U = T
  <2> Bad \in SUBSET SUBSET S
    OBVIOUS
  <2> HIDE DEF Bad
  <2>. QED  BY <1>1, SmallestSet
<1> DEFINE c == Chosen(T)
           r == T \ {c}
<1>3. IsFiniteSet(T) /\ IsFiniteSet(r)
  BY FS_Subset
<1>4. CASE T = {}
  <2>1. SumFunctionOnSet(f, T) = 0 /\ SumFunctionOnSet(g, T) = 0 /\ SumFunctionOnSet(h, T) = 0
    BY <1>3, <1>4, SumUnfold
  <2>. QED  BY <2>1
<1>5. CASE T # {}
  <2>1. c \in S /\ r \notin Bad
    BY <1>2, <1>5, ChosenIn
  <2>2. /\ SumFunctionOnSet(h, T) = h[c] + SumFunctionOnSet(h, r)
        /\ SumFunctionOnSet(f, T) = f[c] + SumFunctionOnSet(f, r)
        /\ SumFunctionOnSet(g, T) = g[c] + SumFunctionOnSet(g, r)
    BY <1>3, <1>5, SumUnfold
  <2>3. SumFunctionOnSet(f, r) \in Int /\ SumFunctionOnSet(g, r) \in Int
    BY <1>3, SumInt
  <2>4. f[c] \in Int /\ g[c] \in Int /\ h[c] = f[c] + g[c]
    BY <2>1
  <2>5. SumFunctionOnSet(h, r) = SumFunctionOnSet(f, r) + SumFunctionOnSet(g, r)
    BY <2>1
  <2> HIDE DEF c, r
  <2>. QED  BY <2>2, <2>3, <2>4, <2>5
<1>. QED  BY <1>4, <1>5

\* A sum of counts is positive when one of the counts is.
LEMMA SumPositive ==
    ASSUME NEW f, NEW S, IsFiniteSet(S), \A x \in S : f[x] \in Nat
    PROVE  SumFunctionOnSet(f, S) \in Nat /\ (SumFunctionOnSet(f, S) > 0 <=> \E x \in S : f[x] > 0)
<1> DEFINE Good(T) == SumFunctionOnSet(f, T) \in Nat /\ (SumFunctionOnSet(f, T) > 0 <=> \E x \in T : f[x] > 0)
           Bad == {T \in SUBSET S : ~ Good(T)}
<1>1. SUFFICES ASSUME Bad # {} PROVE FALSE
  OBVIOUS
<1>2. PICK T \in Bad : \A U \in Bad : U \subseteq T => U = T
  <2> Bad \in SUBSET SUBSET S
    OBVIOUS
  <2> HIDE DEF Bad
  <2>. QED  BY <1>1, SmallestSet
<1> DEFINE c == Chosen(T)
           r == T \ {c}
<1>3. IsFiniteSet(T) /\ IsFiniteSet(r)
  BY FS_Subset
<1>4. CASE T = {}
  <2>1. SumFunctionOnSet(f, T) = 0
    BY <1>3, <1>4, SumUnfold
  <2>. QED  BY <1>4, <2>1
<1>5. CASE T # {}
  <2>1. c \in T /\ Good(r)
    BY <1>2, <1>5, ChosenIn
  <2>2. SumFunctionOnSet(f, T) = f[c] + SumFunctionOnSet(f, r) /\ f[c] \in Nat
    BY <1>3, <1>5, <2>1, SumUnfold
  <2>3. (\E x \in T : f[x] > 0) <=> f[c] > 0 \/ \E x \in r : f[x] > 0
    BY <2>1
  <2> HIDE DEF c, r
  <2>4. Good(T)
    BY <2>1, <2>2, <2>3
  <2>. QED  BY <2>4
<1>. QED  BY <1>4, <1>5

\* Functions that agree on a set have the same sum over it.
LEMMA SumSame ==
    ASSUME NEW f, NEW g, NEW S, IsFiniteSet(S), \A x \in S : f[x] \in Int /\ g[x] = f[x]
    PROVE  SumFunctionOnSet(g, S) = SumFunctionOnSet(f, S)
<1> DEFINE Bad == {T \in SUBSET S : SumFunctionOnSet(g, T) # SumFunctionOnSet(f, T)}
<1>1. SUFFICES ASSUME Bad # {} PROVE FALSE
  OBVIOUS
<1>2. PICK T \in Bad : \A U \in Bad : U \subseteq T => U = T
  <2> Bad \in SUBSET SUBSET S
    OBVIOUS
  <2> HIDE DEF Bad
  <2>. QED  BY <1>1, SmallestSet
<1> DEFINE c == Chosen(T)
           r == T \ {c}
<1>3. IsFiniteSet(T) /\ IsFiniteSet(r)
  BY FS_Subset
<1>4. T # {}
  <2>1. SumFunctionOnSet(f, {}) = 0 /\ SumFunctionOnSet(g, {}) = 0
    BY SumUnfold, FS_EmptySet
  <2>. QED  BY <2>1
<1>5. c \in S /\ c \in T /\ r \notin Bad
  BY <1>2, <1>4, ChosenIn
<1>6. SumFunctionOnSet(f, T) = f[c] + SumFunctionOnSet(f, r) /\ SumFunctionOnSet(g, T) = g[c] + SumFunctionOnSet(g, r)
  BY <1>3, <1>4, SumUnfold
<1>. QED  BY <1>5, <1>6

\* A sum of nothing but zeros.
LEMMA SumZero ==
    ASSUME NEW f, NEW S, IsFiniteSet(S), \A x \in S : f[x] = 0
    PROVE  SumFunctionOnSet(f, S) = 0
<1>1. SumFunctionOnSet(f, S) \in Nat /\ (SumFunctionOnSet(f, S) > 0 <=> \E x \in S : f[x] > 0)
  BY SumPositive
<1>. QED  BY <1>1

\* A sum of counts of the other sign.
LEMMA SumNegative ==
    ASSUME NEW f, NEW S, IsFiniteSet(S), \A x \in S : f[x] \in Int /\ f[x] <= 0
    PROVE  /\ SumFunctionOnSet(f, S) \in Int /\ SumFunctionOnSet(f, S) <= 0
           /\ SumFunctionOnSet(f, S) = 0 => \A x \in S : f[x] = 0
           /\ \A x \in S : SumFunctionOnSet(f, S) <= f[x]
<1> DEFINE g == [x \in S |-> - f[x]]
           z == [x \in S |-> 0]
           sf == SumFunctionOnSet(f, S)
           sg == SumFunctionOnSet(g, S)
<1>1. \A x \in S : g[x] \in Nat /\ g[x] = - f[x]
  OBVIOUS
<1>2. sg \in Nat /\ (sg > 0 <=> \E x \in S : g[x] > 0)
  <2> HIDE DEF g
  <2>. QED  BY <1>1, SumPositive
<1>3. sf \in Int
  BY SumInt
<1>4. sf + sg = 0
  <2>1. SumFunctionOnSet(z, S) = 0
    <3>1. \A x \in S : z[x] = 0
      OBVIOUS
    <3> HIDE DEF z
    <3>. QED  BY <3>1, SumZero
  <2>2. \A x \in S : f[x] \in Int /\ g[x] \in Int /\ z[x] = f[x] + g[x]
    OBVIOUS
  <2> HIDE DEF z, g
  <2>. QED  BY <2>1, <2>2, SumPlus
<1>5. ASSUME NEW x \in S PROVE sf <= f[x]
  <2>1. IsFiniteSet(S \ {x}) /\ \A y \in S \ {x} : g[y] \in Nat
    BY <1>1, FS_Subset
  <2> DEFINE r == SumFunctionOnSet(g, S \ {x})
  <2>2. r \in Nat
    <3> HIDE DEF g
    <3>. QED  BY <2>1, SumPositive
  <2>3. sg = g[x] + r
    <3>1. \A y \in S : g[y] \in Int
      BY <1>1
    <3> HIDE DEF g
    <3>. QED  BY <3>1, SumRemove
  <2>4. g[x] = - f[x] /\ f[x] \in Int
    BY <1>1
  <2> HIDE DEF sf, sg, g, r
  <2>. QED  BY <1>2, <1>3, <1>4, <2>2, <2>3, <2>4
<1>6. (\A x \in S : ~ g[x] > 0) => \A x \in S : f[x] = 0
  BY <1>1
<1> HIDE DEF g, sf, sg
<1>7. sf <= 0 /\ (sf = 0 => sg = 0)
  BY <1>2, <1>3, <1>4
<1>. QED  BY <1>2, <1>3, <1>5, <1>6, <1>7 DEF sf

\* A positive sum has a positive part.
LEMMA SumSome ==
    ASSUME NEW f, NEW S, IsFiniteSet(S), \A x \in S : f[x] \in Int, SumFunctionOnSet(f, S) > 0
    PROVE  \E x \in S : f[x] > 0
<1>1. SUFFICES ASSUME ~ \E x \in S : f[x] > 0 PROVE FALSE
  OBVIOUS
<1>2. \A x \in S : f[x] \in Int /\ f[x] <= 0
  BY <1>1
<1>3. SumFunctionOnSet(f, S) \in Int /\ SumFunctionOnSet(f, S) <= 0
  BY <1>2, SumNegative
<1>. QED  BY <1>3

\* Parts of a sum of counts are not more than all of it.
LEMMA SumPart ==
    ASSUME NEW f, NEW S, IsFiniteSet(S), \A x \in S : f[x] \in Nat, NEW x \in S
    PROVE  f[x] <= SumFunctionOnSet(f, S)
<1>1. SumFunctionOnSet(f, S \ {x}) \in Nat
  BY FS_Subset, SumPositive
<1>2. SumFunctionOnSet(f, S) = f[x] + SumFunctionOnSet(f, S \ {x}) /\ f[x] \in Nat
  BY SumRemove
<1>. QED  BY <1>1, <1>2

\* One part of a sum changes.
LEMMA SumUpdate ==
    ASSUME NEW f, NEW g, NEW S, IsFiniteSet(S), NEW x \in S,
           \A y \in S : f[y] \in Int /\ g[y] \in Int /\ (y # x => g[y] = f[y])
    PROVE  SumFunctionOnSet(g, S) = SumFunctionOnSet(f, S) + (g[x] - f[x])
<1> DEFINE r == SumFunctionOnSet(f, S \ {x})
           q == SumFunctionOnSet(g, S \ {x})
<1>1. IsFiniteSet(S \ {x})
  BY FS_Subset
<1>2. q = r /\ r \in Int
  BY <1>1, SumSame, SumInt
<1>3. SumFunctionOnSet(f, S) = f[x] + r
  BY SumRemove
<1>4. SumFunctionOnSet(g, S) = g[x] + q
  BY SumRemove
<1>5. f[x] \in Int /\ g[x] \in Int
  OBVIOUS
<1> HIDE DEF q, r
<1>. QED  BY <1>2, <1>3, <1>4, <1>5

\* A sum of ones.
LEMMA SumOnes ==
    ASSUME NEW S, IsFiniteSet(S), NEW T \in SUBSET S
    PROVE  SumFunctionOnSet([x \in S |-> IF x \in T THEN 1 ELSE 0], S) = Cardinality(T)
<1> DEFINE f == [x \in S |-> IF x \in T THEN 1 ELSE 0]
           Bad == {U \in SUBSET S : SumFunctionOnSet(f, U) # Cardinality(U \cap T)}
<1>0. \A x \in S : f[x] = IF x \in T THEN 1 ELSE 0
  OBVIOUS
<1>1. SUFFICES ASSUME Bad # {} PROVE FALSE
  <2>1. S \cap T = T
    OBVIOUS
  <2>. QED  BY <2>1
<1> HIDE DEF f
<1>2. PICK U \in Bad : \A V \in Bad : V \subseteq U => V = U
  <2> Bad \in SUBSET SUBSET S
    OBVIOUS
  <2> HIDE DEF Bad
  <2>. QED  BY <1>1, SmallestSet
<1> DEFINE c == Chosen(U)
           r == U \ {c}
<1>3. IsFiniteSet(U) /\ IsFiniteSet(r) /\ IsFiniteSet(r \cap T)
  BY FS_Subset
<1>4. U # {}
  <2>1. SumFunctionOnSet(f, {}) = 0
    BY SumUnfold, FS_EmptySet
  <2>2. {} \cap T = {} /\ Cardinality({}) = 0
    BY FS_EmptySet
  <2>. QED  BY <2>1, <2>2
<1>5. c \in S /\ c \in U /\ r \notin Bad
  BY <1>2, <1>4, ChosenIn
<1>6. SumFunctionOnSet(f, U) = f[c] + SumFunctionOnSet(f, r)
  BY <1>3, <1>4, SumUnfold
<1>7. SumFunctionOnSet(f, r) = Cardinality(r \cap T)
  BY <1>5
<1>8. Cardinality(U \cap T) = f[c] + Cardinality(r \cap T)
  <2>1. CASE c \in T
    <3>1. U \cap T = (r \cap T) \cup {c} /\ c \notin r \cap T /\ f[c] = 1
      BY <1>0, <1>5, <2>1
    <3>2. Cardinality((r \cap T) \cup {c}) = Cardinality(r \cap T) + 1 /\ Cardinality(r \cap T) \in Nat
      BY <1>3, <3>1, FS_AddElement, FS_CardinalityType
    <3> HIDE DEF r
    <3>. QED  BY <3>1, <3>2
  <2>2. CASE c \notin T
    <3>1. U \cap T = r \cap T /\ f[c] = 0 /\ Cardinality(r \cap T) \in Nat
      BY <1>0, <1>3, <1>5, <2>2, FS_CardinalityType
    <3> HIDE DEF r, c
    <3>. QED  BY <3>1
  <2>. QED  BY <2>1, <2>2
<1>. QED  BY <1>6, <1>7, <1>8

\* What is zero does not matter to a sum.
LEMMA SumAmong ==
    ASSUME NEW f, NEW S, IsFiniteSet(S), NEW T \in SUBSET S, \A x \in S : f[x] \in Int, \A x \in S \ T : f[x] = 0
    PROVE  SumFunctionOnSet(f, T) = SumFunctionOnSet(f, S)
<1> DEFINE Bad == {U \in SUBSET S : SumFunctionOnSet(f, U) # SumFunctionOnSet(f, U \cap T)}
<1>1. SUFFICES ASSUME Bad # {} PROVE FALSE
  <2>1. S \cap T = T
    OBVIOUS
  <2>. QED  BY <2>1
<1>2. PICK U \in Bad : \A V \in Bad : V \subseteq U => V = U
  <2> Bad \in SUBSET SUBSET S
    OBVIOUS
  <2> HIDE DEF Bad
  <2>. QED  BY <1>1, SmallestSet
<1> DEFINE c == Chosen(U)
           r == U \ {c}
<1>3. IsFiniteSet(U) /\ IsFiniteSet(r) /\ IsFiniteSet(U \cap T)
  BY FS_Subset
<1>4. U # {}
  <2>1. {} \cap T = {}
    OBVIOUS
  <2>. QED  BY <2>1
<1>5. c \in S /\ c \in U /\ r \notin Bad
  BY <1>2, <1>4, ChosenIn
<1>6. SumFunctionOnSet(f, U) = f[c] + SumFunctionOnSet(f, r)
  BY <1>3, <1>4, SumUnfold
<1>7. SumFunctionOnSet(f, r) = SumFunctionOnSet(f, r \cap T)
  BY <1>5
<1>8. SumFunctionOnSet(f, U \cap T) = f[c] + SumFunctionOnSet(f, r \cap T)
  <2>1. CASE c \in T
    <3>1. (U \cap T) \ {c} = r \cap T /\ c \in U \cap T /\ \A x \in U \cap T : f[x] \in Int
      BY <1>5, <2>1
    <3>2. SumFunctionOnSet(f, U \cap T) = f[c] + SumFunctionOnSet(f, (U \cap T) \ {c})
      BY <1>3, <3>1, SumRemove
    <3>. QED  BY <3>1, <3>2
  <2>2. CASE c \notin T
    <3>1. U \cap T = r \cap T /\ f[c] = 0
      BY <1>5, <2>2
    <3>2. SumFunctionOnSet(f, r \cap T) \in Int
      <4>1. IsFiniteSet(r \cap T) /\ \A x \in r \cap T : f[x] \in Int
        BY <1>3, FS_Subset
      <4>. QED  BY <4>1, SumInt
    <3>3. SumFunctionOnSet(f, U \cap T) = SumFunctionOnSet(f, r \cap T)
      BY <3>1
    <3> HIDE DEF r, c
    <3>. QED  BY <3>1, <3>2, <3>3
  <2>. QED  BY <2>1, <2>2
<1>. QED  BY <1>2, <1>6, <1>7, <1>8

=============================================================================
