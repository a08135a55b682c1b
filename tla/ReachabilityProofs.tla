-------------------------- MODULE ReachabilityProofs --------------------------
(***************************************************************************)
(* Proofs about progress::reachability::Tracker, for every graph, order    *)
(* and bound that satisfies TrackerAssumption.                             *)
(***************************************************************************)
EXTENDS Reachability, FiniteSetTheorems, TLAPS

ChainLemmas == INSTANCE OrderProofs
OuterLemmas == INSTANCE OrderProofs
                  WITH Times <- OuterTimes, TimeLeq <- OuterLeq, TimeOrd <- OuterOrd

-----------------------------------------------------------------------------
Chosen(s) == CHOOSE x \in s : TRUE

IsIter(f, S, g) ==
    g = [s \in SUBSET S |-> IF s = {} THEN 0 ELSE f[Chosen(s)] + g[s \ {Chosen(s)}]]
Iter(f, S) == CHOOSE g : IsIter(f, S, g)

\* Among finite sets there is one that contains no other: induction over finite sets.
LEMMA SmallestSet ==
    ASSUME NEW S, IsFiniteSet(S), NEW F \in SUBSET SUBSET S, F # {}
    PROVE  \E T \in F : \A U \in F : U \subseteq T => U = T
<1>1. /\ IsWellFoundedOn(StrictSubsetOrdering(S), FiniteSubsetsOf(S))
      /\ FiniteSubsetsOf(S) = SUBSET S
  BY FS_StrictSubsetOrderingWellFounded, FS_FiniteSubsetsOfFinite
<1>2. PICK T \in F : \A U \in F : <<U, T>> \notin StrictSubsetOrdering(S)
  BY <1>1, WFMin
<1>. QED  BY <1>2 DEF StrictSubsetOrdering

\* The element that a fold takes next is one of the set.
LEMMA ChosenIn == ASSUME NEW S, S # {} PROVE Chosen(S) \in S
BY DEF Chosen

\* Two folds of the same function agree on the sets they share.
LEMMA IterUnique ==
    ASSUME NEW f, NEW S, NEW T, NEW g, NEW h, IsIter(f, S, g), IsIter(f, T, h),
           NEW u, u \subseteq S, u \subseteq T, IsFiniteSet(u)
    PROVE  g[u] = h[u]
<1> DEFINE Bad == {v \in SUBSET u : g[v] # h[v]}
<1>1. SUFFICES ASSUME Bad # {} PROVE FALSE
  OBVIOUS
<1>2. PICK v \in Bad : \A w \in Bad : w \subseteq v => w = v
  <2> Bad \in SUBSET SUBSET u
    OBVIOUS
  <2> HIDE DEF Bad
  <2>. QED  BY <1>1, SmallestSet
<1>3. v \in SUBSET S /\ v \in SUBSET T
  OBVIOUS
<1>4. /\ g[v] = IF v = {} THEN 0 ELSE f[Chosen(v)] + g[v \ {Chosen(v)}]
      /\ h[v] = IF v = {} THEN 0 ELSE f[Chosen(v)] + h[v \ {Chosen(v)}]
  BY <1>3, Zenon DEF IsIter
<1>5. v # {} => v \ {Chosen(v)} \notin Bad
  BY <1>2, ChosenIn
<1>. QED  BY <1>4, <1>5

\* A fold over a finite set is defined.
LEMMA IterExists ==
    ASSUME NEW f, NEW S, IsFiniteSet(S)
    PROVE  \E g : IsIter(f, S, g)
<1> DEFINE Bad == {T \in SUBSET S : ~ \E g : IsIter(f, T, g)}
<1>1. SUFFICES ASSUME Bad # {} PROVE FALSE
  OBVIOUS
<1>2. PICK T \in Bad : \A U \in Bad : U \subseteq T => U = T
  <2> Bad \in SUBSET SUBSET S
    OBVIOUS
  <2> HIDE DEF Bad
  <2>. QED  BY <1>1, SmallestSet
<1>3. ASSUME NEW U \in SUBSET T, U # T
      PROVE  IsIter(f, U, Iter(f, U))
  BY <1>2, <1>3, Zenon DEF Iter
<1> DEFINE Value(s) == Iter(f, s)[s]
           g == [s \in SUBSET T |->
                    IF s # T THEN Value(s)
                    ELSE IF T = {} THEN 0 ELSE f[Chosen(T)] + Value(T \ {Chosen(T)})]
<1>4. ASSUME NEW s \in SUBSET T
      PROVE  g[s] = IF s = {} THEN 0 ELSE f[Chosen(s)] + g[s \ {Chosen(s)}]
  <2>1. CASE s = T
    BY <2>1, ChosenIn
  <2>2. CASE s # T /\ s = {}
    BY <1>3, <2>2 DEF IsIter
  <2>3. CASE s # T /\ s # {}
    <3> DEFINE r == s \ {Chosen(s)}
    <3>1. r \in SUBSET s /\ r \in SUBSET T /\ r # T /\ IsFiniteSet(r)
      BY <2>3, ChosenIn, FS_Subset
    <3>2. Value(s) = f[Chosen(s)] + Iter(f, s)[r]
      BY <1>3, <2>3 DEF IsIter
    <3>3. Iter(f, s)[r] = Value(r)
      <4>1. IsIter(f, s, Iter(f, s)) /\ IsIter(f, r, Iter(f, r))
        BY <1>3, <2>3, <3>1
      <4>. QED  BY <3>1, <4>1, IterUnique
    <3>. QED  BY <2>3, <3>1, <3>2, <3>3
  <2>. QED  BY <2>1, <2>2, <2>3
<1>5. IsIter(f, T, g)
  <2>1. g = [s \in SUBSET T |-> g[s]]
    BY Zenon
  <2> HIDE DEF g
  <2>. QED  BY <1>4, <2>1 DEF IsIter
<1>. QED  BY <1>5

\* A sum takes one element after the other.
LEMMA SumUnfold ==
    ASSUME NEW f, NEW S, IsFiniteSet(S)
    PROVE  SumOver(f, S) = IF S = {} THEN 0 ELSE f[Chosen(S)] + SumOver(f, S \ {Chosen(S)})
<1>1. \A T : SumOver(f, T) = Iter(f, T)[T]
  BY DEF SumOver, MapThenSumSet, MapThenFoldSet, Iter, IsIter, Chosen
<1> DEFINE r == S \ {Chosen(S)}
<1>2. IsFiniteSet(r)
  BY FS_Subset
<1>3. IsIter(f, S, Iter(f, S)) /\ IsIter(f, r, Iter(f, r))
  BY <1>2, IterExists, Zenon DEF Iter
<1>4. Iter(f, S)[r] = Iter(f, r)[r]
  BY <1>2, <1>3, IterUnique
<1>5. Iter(f, S)[S] = IF S = {} THEN 0 ELSE f[Chosen(S)] + Iter(f, S)[r]
  <2>1. S \in SUBSET S
    OBVIOUS
  <2>. QED  BY <1>3, <2>1, Zenon DEF IsIter
<1>. QED  BY <1>1, <1>4, <1>5

\* A sum of integers is an integer.
LEMMA SumInt ==
    ASSUME NEW f, NEW S, IsFiniteSet(S), \A x \in S : f[x] \in Int
    PROVE  SumOver(f, S) \in Int
<1> DEFINE Bad == {T \in SUBSET S : SumOver(f, T) \notin Int}
<1>1. SUFFICES ASSUME Bad # {} PROVE FALSE
  OBVIOUS
<1>2. PICK T \in Bad : \A U \in Bad : U \subseteq T => U = T
  <2> Bad \in SUBSET SUBSET S
    OBVIOUS
  <2> HIDE DEF Bad
  <2>. QED  BY <1>1, SmallestSet
<1>3. SumOver(f, T) = IF T = {} THEN 0 ELSE f[Chosen(T)] + SumOver(f, T \ {Chosen(T)})
  BY FS_Subset, SumUnfold
<1>. QED  BY <1>2, <1>3, ChosenIn

\* A sum is the same in any order: any element can be taken first.
LEMMA SumRemove ==
    ASSUME NEW f, NEW S, IsFiniteSet(S), \A x \in S : f[x] \in Int, NEW x \in S
    PROVE  SumOver(f, S) = f[x] + SumOver(f, S \ {x})
<1> DEFINE Bad == {T \in SUBSET S : \E y \in T : SumOver(f, T) # f[y] + SumOver(f, T \ {y})}
<1>1. SUFFICES ASSUME Bad # {} PROVE FALSE
  OBVIOUS
<1>2. PICK T \in Bad : \A U \in Bad : U \subseteq T => U = T
  <2> Bad \in SUBSET SUBSET S
    OBVIOUS
  <2> HIDE DEF Bad
  <2>. QED  BY <1>1, SmallestSet
<1>3. PICK y \in T : SumOver(f, T) # f[y] + SumOver(f, T \ {y})
  OBVIOUS
<1> DEFINE c == Chosen(T)
<1>4. c \in T /\ SumOver(f, T) = f[c] + SumOver(f, T \ {c})
  BY FS_Subset, SumUnfold, ChosenIn
<1>5. c # y
  BY <1>3, <1>4
<1>6. /\ SumOver(f, T \ {c}) = f[y] + SumOver(f, (T \ {c}) \ {y})
      /\ SumOver(f, T \ {y}) = f[c] + SumOver(f, (T \ {y}) \ {c})
  <2>1. T \ {c} \notin Bad /\ T \ {y} \notin Bad
    BY <1>2, <1>4
  <2>. QED  BY <1>4, <1>5, <2>1
<1>7. (T \ {c}) \ {y} = (T \ {y}) \ {c}
  OBVIOUS
<1>8. SumOver(f, (T \ {y}) \ {c}) \in Int /\ f[c] \in Int /\ f[y] \in Int
  BY <1>4, FS_Subset, SumInt
<1> DEFINE both == SumOver(f, (T \ {y}) \ {c})
<1>9. both \in Int /\ f[c] \in Int /\ f[y] \in Int
      /\ SumOver(f, T) = f[c] + (f[y] + both) /\ SumOver(f, T \ {y}) = f[c] + both
  BY <1>4, <1>6, <1>7, <1>8
<1> HIDE DEF both, c
<1>. QED  BY <1>3, <1>9

\* The sum of two functions.
LEMMA SumPlus ==
    ASSUME NEW f, NEW g, NEW h, NEW S, IsFiniteSet(S),
           \A x \in S : f[x] \in Int /\ g[x] \in Int /\ h[x] = f[x] + g[x]
    PROVE  SumOver(h, S) = SumOver(f, S) + SumOver(g, S)
<1> DEFINE Bad == {T \in SUBSET S : SumOver(h, T) # SumOver(f, T) + SumOver(g, T)}
<1>1. SUFFICES ASSUME Bad # {} PROVE FALSE
  OBVIOUS
<1>2. PICK T \in Bad : \A U \in Bad : U \subseteq T => U = T
  <2> Bad \in SUBSET SUBSET S
    OBVIOUS
  <2> HIDE DEF Bad
  <2>. QED  BY <1>1, SmallestSet
<1> DEFINE c == Chosen(T)
           r == T \ {c}
<1>3. IsFiniteSet(T) /\ IsFiniteSet(r)
  BY FS_Subset
<1>4. CASE T = {}
  <2>1. SumOver(f, T) = 0 /\ SumOver(g, T) = 0 /\ SumOver(h, T) = 0
    BY <1>3, <1>4, SumUnfold
  <2>. QED  BY <2>1
<1>5. CASE T # {}
  <2>1. c \in S /\ r \notin Bad
    BY <1>2, <1>5, ChosenIn
  <2>2. /\ SumOver(h, T) = h[c] + SumOver(h, r)
        /\ SumOver(f, T) = f[c] + SumOver(f, r)
        /\ SumOver(g, T) = g[c] + SumOver(g, r)
    BY <1>3, <1>5, SumUnfold
  <2>3. SumOver(f, r) \in Int /\ SumOver(g, r) \in Int
    BY <1>3, SumInt
  <2>4. f[c] \in Int /\ g[c] \in Int /\ h[c] = f[c] + g[c]
    BY <2>1
  <2>5. SumOver(h, r) = SumOver(f, r) + SumOver(g, r)
    BY <2>1
  <2> HIDE DEF c, r
  <2>. QED  BY <2>2, <2>3, <2>4, <2>5
<1>. QED  BY <1>4, <1>5

\* A sum of counts is positive when one of the counts is.
LEMMA SumPositive ==
    ASSUME NEW f, NEW S, IsFiniteSet(S), \A x \in S : f[x] \in Nat
    PROVE  SumOver(f, S) \in Nat /\ (SumOver(f, S) > 0 <=> \E x \in S : f[x] > 0)
<1> DEFINE Good(T) == SumOver(f, T) \in Nat /\ (SumOver(f, T) > 0 <=> \E x \in T : f[x] > 0)
           Bad == {T \in SUBSET S : ~ Good(T)}
<1>1. SUFFICES ASSUME Bad # {} PROVE FALSE
  OBVIOUS
<1>2. PICK T \in Bad : \A U \in Bad : U \subseteq T => U = T
  <2> Bad \in SUBSET SUBSET S
    OBVIOUS
  <2> HIDE DEF Bad
  <2>. QED  BY <1>1, SmallestSet
<1> DEFINE c == Chosen(T)
           r == T \ {c}
<1>3. IsFiniteSet(T) /\ IsFiniteSet(r)
  BY FS_Subset
<1>4. CASE T = {}
  <2>1. SumOver(f, T) = 0
    BY <1>3, <1>4, SumUnfold
  <2>. QED  BY <1>4, <2>1
<1>5. CASE T # {}
  <2>1. c \in T /\ Good(r)
    BY <1>2, <1>5, ChosenIn
  <2>2. SumOver(f, T) = f[c] + SumOver(f, r) /\ f[c] \in Nat
    BY <1>3, <1>5, <2>1, SumUnfold
  <2>3. (\E x \in T : f[x] > 0) <=> f[c] > 0 \/ \E x \in r : f[x] > 0
    BY <2>1
  <2> HIDE DEF c, r
  <2>4. Good(T)
    BY <2>1, <2>2, <2>3
  <2>. QED  BY <2>4
<1>. QED  BY <1>4, <1>5

(* Among finitely many, in any order, there is a least one.                 *)
LEMMA LeastExists ==
    ASSUME NEW T, IsFiniteSet(T), NEW R,
           \A x, y, z \in T : <<x, y>> \in R /\ <<y, z>> \in R => <<x, z>> \in R,
           \A x, y \in T : <<x, y>> \in R /\ <<y, x>> \in R => x = y,
           NEW S \in SUBSET T, S # {}
    PROVE  \E x \in S : \A y \in S : <<y, x>> \in R => y = x
<1> DEFINE Has(U) == \E x \in U : \A y \in U : <<y, x>> \in R => y = x
           Bad == {U \in SUBSET T : U # {} /\ ~ Has(U)}
<1>1. SUFFICES ASSUME Bad # {} PROVE FALSE
  BY Zenon
<1>2. PICK U \in Bad : \A V \in Bad : V \subseteq U => V = U
  <2> Bad \in SUBSET SUBSET T
    OBVIOUS
  <2> HIDE DEF Bad
  <2>. QED  BY <1>1, SmallestSet
<1>3. PICK x \in U : TRUE
  OBVIOUS
<1>4. CASE U = {x}
  BY <1>4
<1>5. CASE U # {x}
  <2>1. U \ {x} # {} /\ U \ {x} # U /\ U \ {x} \subseteq U /\ U \ {x} \in SUBSET T
    BY <1>3, <1>5
  <2>2. U \ {x} \notin Bad
    <3> HIDE DEF Bad
    <3>. QED  BY <1>2, <2>1
  <2>3. Has(U \ {x})
    <3> HIDE DEF Has
    <3>. QED  BY <2>1, <2>2
  <2>4. PICK y \in U \ {x} : \A z \in U \ {x} : <<z, y>> \in R => z = y
    BY <2>3
  <2>5. CASE <<x, y>> \in R
    BY <2>4, <2>5, <1>3
  <2>6. CASE <<x, y>> \notin R
    BY <2>4, <2>6, <1>3
  <2>. QED  BY <2>5, <2>6
<1>. QED  BY <1>4, <1>5

-----------------------------------------------------------------------------
(* The orders of both kinds of times are well founded.                      *)
LEMMA ChainWellFounded == ChainLemmas!Ordered /\ ChainLemmas!WellFounded
<1> USE DEF ChainLemmas!less_equal, ChainLemmas!less_than, Chain!less_equal
<1>1. ChainLemmas!Ordered
  BY TrackerAssumption DEF Chain!Ordered, ChainLemmas!Ordered
<1>2. /\ \A x, y, z \in Times : <<x, y>> \in TimeLeq /\ <<y, z>> \in TimeLeq => <<x, z>> \in TimeLeq
      /\ \A x, y \in Times : <<x, y>> \in TimeLeq /\ <<y, x>> \in TimeLeq => x = y
      /\ IsFiniteSet(Times)
  BY <1>1, TrackerAssumption DEF ChainLemmas!Ordered
<1>3. ASSUME NEW S \in SUBSET Times, S # {}
      PROVE  \E x \in S : \A y \in S : <<y, x>> \in TimeLeq => y = x
  BY <1>2, <1>3, LeastExists
<1>. QED  BY <1>1, <1>3 DEF ChainLemmas!WellFounded, ChainLemmas!Least

(* The same for the times of the parent.                                    *)
LEMMA OuterWellFounded == OuterLemmas!Ordered /\ OuterLemmas!WellFounded
<1> USE DEF OuterLemmas!less_equal, OuterLemmas!less_than, Outer!less_equal
<1>1. OuterLemmas!Ordered
  BY TrackerAssumption DEF Outer!Ordered, OuterLemmas!Ordered
<1>2. /\ \A x, y, z \in OuterTimes : <<x, y>> \in OuterLeq /\ <<y, z>> \in OuterLeq => <<x, z>> \in OuterLeq
      /\ \A x, y \in OuterTimes : <<x, y>> \in OuterLeq /\ <<y, x>> \in OuterLeq => x = y
      /\ IsFiniteSet(OuterTimes)
  BY <1>1, TrackerAssumption DEF OuterLemmas!Ordered
<1>3. ASSUME NEW S \in SUBSET OuterTimes, S # {}
      PROVE  \E x \in S : \A y \in S : <<y, x>> \in OuterLeq => y = x
  BY <1>2, <1>3, LeastExists
<1>. QED  BY <1>1, <1>3 DEF OuterLemmas!WellFounded, OuterLemmas!Least

(* MutableAntichain::update_iter on the times of the scope.                 *)
LEMMA ChainUpdate ==
    ASSUME NEW m \in Chain!Antichain, Chain!Exact(m), NEW batch \in [Times -> Int]
    PROVE  /\ Chain!update_iter(m, batch) \in Chain!Antichain
           /\ Chain!Exact(Chain!update_iter(m, batch))
           /\ Chain!update_iter(m, batch).updates = [t \in Times |-> m.updates[t] + batch[t]]
<1> USE DEF Chain!Positive, ChainLemmas!Positive, Chain!less_than, ChainLemmas!less_than, Chain!less_equal, ChainLemmas!less_equal
<1>1. ChainLemmas!Ordered /\ ChainLemmas!WellFounded
  BY ChainWellFounded
<1>2. m \in ChainLemmas!Antichain /\ ChainLemmas!Exact(m)
  BY DEF Chain!Antichain, ChainLemmas!Antichain, Chain!Exact, ChainLemmas!Exact
<1>3. Chain!update_iter(m, batch) = ChainLemmas!update_iter(m, batch)
  BY DEF Chain!update_iter, ChainLemmas!update_iter, Chain!rebuild_required,
         ChainLemmas!rebuild_required, Chain!rebuild, ChainLemmas!rebuild
<1>4. /\ ChainLemmas!update_iter(m, batch) \in ChainLemmas!Antichain
      /\ ChainLemmas!Exact(ChainLemmas!update_iter(m, batch))
      /\ ChainLemmas!update_iter(m, batch).updates = [t \in Times |-> m.updates[t] + batch[t]]
  BY <1>1, <1>2, ChainLemmas!UpdateExact
<1>. QED
  BY <1>3, <1>4 DEF Chain!Antichain, ChainLemmas!Antichain, Chain!Exact, ChainLemmas!Exact

(* Under every scope's time with a positive count lies one of the frontier.  *)
LEMMA ChainFrontier ==
    ASSUME NEW m \in Chain!Antichain, Chain!Exact(m), NEW t \in Times, m.updates[t] > 0
    PROVE  \E f \in m.frontier :
              f \in Times /\ Chain!less_equal(f, t) /\ m.updates[f] > 0
<1> USE DEF Chain!Positive, ChainLemmas!Positive, Chain!less_than, ChainLemmas!less_than, Chain!less_equal, ChainLemmas!less_equal
<1>1. ChainLemmas!Ordered /\ ChainLemmas!WellFounded
  BY ChainWellFounded
<1>2. m.frontier = ChainLemmas!Least(ChainLemmas!Positive(m.updates))
  BY DEF Chain!Exact, ChainLemmas!Least
<1> DEFINE P == ChainLemmas!Positive(m.updates)
<1>3. P \in SUBSET Times /\ t \in P
  OBVIOUS
<1>4. \E f \in ChainLemmas!Least(P) : ChainLemmas!less_equal(f, t)
  <2> HIDE DEF P
  <2>. QED  BY <1>1, <1>3, ChainLemmas!LeastBelow
<1>. QED  BY <1>2, <1>4 DEF ChainLemmas!Least

(* The same for output_capabilities, on the times of the parent.            *)
LEMMA OuterUpdate ==
    ASSUME NEW m \in Outer!Antichain, Outer!Exact(m), NEW batch \in [OuterTimes -> Int]
    PROVE  /\ Outer!update_iter(m, batch) \in Outer!Antichain
           /\ Outer!Exact(Outer!update_iter(m, batch))
           /\ Outer!update_iter(m, batch).updates = [t \in OuterTimes |-> m.updates[t] + batch[t]]
<1> USE DEF Outer!Positive, OuterLemmas!Positive, Outer!less_than, OuterLemmas!less_than, Outer!less_equal, OuterLemmas!less_equal
<1>1. OuterLemmas!Ordered /\ OuterLemmas!WellFounded
  BY OuterWellFounded
<1>2. m \in OuterLemmas!Antichain /\ OuterLemmas!Exact(m)
  BY DEF Outer!Antichain, OuterLemmas!Antichain, Outer!Exact, OuterLemmas!Exact
<1>3. Outer!update_iter(m, batch) = OuterLemmas!update_iter(m, batch)
  BY DEF Outer!update_iter, OuterLemmas!update_iter, Outer!rebuild_required,
         OuterLemmas!rebuild_required, Outer!rebuild, OuterLemmas!rebuild
<1>4. /\ OuterLemmas!update_iter(m, batch) \in OuterLemmas!Antichain
      /\ OuterLemmas!Exact(OuterLemmas!update_iter(m, batch))
      /\ OuterLemmas!update_iter(m, batch).updates = [t \in OuterTimes |-> m.updates[t] + batch[t]]
  BY <1>1, <1>2, OuterLemmas!UpdateExact
<1>. QED
  BY <1>3, <1>4 DEF Outer!Antichain, OuterLemmas!Antichain, Outer!Exact, OuterLemmas!Exact

(* Under every parent's time with a positive count lies one of the frontier.  *)
LEMMA OuterFrontier ==
    ASSUME NEW m \in Outer!Antichain, Outer!Exact(m), NEW t \in OuterTimes, m.updates[t] > 0
    PROVE  \E f \in m.frontier :
              f \in OuterTimes /\ Outer!less_equal(f, t) /\ m.updates[f] > 0
<1> USE DEF Outer!Positive, OuterLemmas!Positive, Outer!less_than, OuterLemmas!less_than, Outer!less_equal, OuterLemmas!less_equal
<1>1. OuterLemmas!Ordered /\ OuterLemmas!WellFounded
  BY OuterWellFounded
<1>2. m.frontier = OuterLemmas!Least(OuterLemmas!Positive(m.updates))
  BY DEF Outer!Exact, OuterLemmas!Least
<1> DEFINE P == OuterLemmas!Positive(m.updates)
<1>3. P \in SUBSET OuterTimes /\ t \in P
  OBVIOUS
<1>4. \E f \in OuterLemmas!Least(P) : OuterLemmas!less_equal(f, t)
  <2> HIDE DEF P
  <2>. QED  BY <1>1, <1>3, OuterLemmas!LeastBelow
<1>. QED  BY <1>2, <1>4 DEF OuterLemmas!Least

(* The ports of a scope and the times in use are finitely many.             *)
LEMMA PointsFinite ==
    IsFiniteSet(Points) /\ \A S \in SUBSET Points : IsFiniteSet(S) /\ Cardinality(S) \in Nat
BY TrackerAssumption, FS_Product, FS_Subset, FS_CardinalityType DEF Points

(* What was added and what was removed make the difference of two counts.   *)
LEMMA CountDifference ==
    ASSUME NEW A \in SUBSET Points, NEW B \in SUBSET Points
    PROVE  Cardinality(B) = Cardinality(A) + Cardinality(B \ A) - Cardinality(A \ B)
<1>1. /\ Cardinality(A \ B) = Cardinality(A) - Cardinality(A \cap B)
      /\ Cardinality(B \ A) = Cardinality(B) - Cardinality(B \cap A)
      /\ A \cap B = B \cap A
  BY PointsFinite, FS_Difference
<1>2. /\ Cardinality(A) \in Nat /\ Cardinality(B) \in Nat /\ Cardinality(A \cap B) \in Nat
  BY PointsFinite
<1> DEFINE a == Cardinality(A)  b == Cardinality(B)  c == Cardinality(A \cap B)
<1>3. a \in Nat /\ b \in Nat /\ c \in Nat
      /\ Cardinality(A \ B) = a - c /\ Cardinality(B \ A) = b - c
  BY <1>1, <1>2
<1> HIDE DEF a, b, c
<1>4. b = a + (b - c) - (a - c)
  BY <1>3
<1>. QED  BY <1>3, <1>4 DEF a, b

-----------------------------------------------------------------------------
(* A sum of nothing but zeros is zero.                                      *)
LEMMA SumZero ==
    ASSUME NEW f, NEW S, IsFiniteSet(S), \A x \in S : f[x] = 0
    PROVE  SumOver(f, S) = 0
BY SumPositive

(* TimesAt collects finitely many times, and Leaving counts at each of them.*)
LEMMA TimesAtFinite == \A s : IsFiniteSet(TimesAt(s)) /\ TimesAt(s) \subseteq Times
BY TrackerAssumption, FS_Subset DEF TimesAt

\* What leaves a scope through an output is counted, never owed.
LEMMA LeavingNat == \A o : \A t \in Times : Leaving(o)[t] \in Nat
BY PointsFinite DEF Leaving

(* The tracker starts with nothing counted anywhere: the invariant holds.   *)
LEMMA InitInv == Init => TrackerInv
<1> SUFFICES ASSUME Init PROVE TrackerInv
  OBVIOUS
<1>1. /\ Chain!Empty \in Chain!Antichain /\ Chain!Empty.frontier = {}
      /\ \A t \in Times : Chain!Empty.updates[t] = 0
      /\ Outer!Empty \in Outer!Antichain /\ Outer!Empty.frontier = {}
      /\ \A t \in OuterTimes : Outer!Empty.updates[t] = 0
  BY DEF Chain!Empty, Chain!Antichain, Outer!Empty, Outer!Antichain
<1>2. \A p \in Points : p[1] \in Locations /\ p[2] \in Times
  BY DEF Points
<1>3. \A p \in Points : ~ AtOwnFrontier(p) /\ ~ AtFrontier(p)
  BY <1>1, <1>2 DEF Init, AtOwnFrontier, AtFrontier
<1>4. TypeOK
  BY <1>1, TrackerAssumption DEF Init, TypeOK, Zero, NoOutput
<1>5. Balanced
  <2>1. \A p \in Points : {q \in Into[p] : AtFrontier(q)} = {}
    BY <1>3 DEF Into
  <2>. QED  BY <1>1, <1>2, <1>3, <2>1, FS_EmptySet DEF Init, Balanced, Zero, Indicator
<1>6. AntichainsExact
  BY <1>1 DEF Init, AntichainsExact, Chain!Exact, Outer!Exact, Chain!Positive, Outer!Positive
<1>7. PushedExact
  BY <1>3 DEF Init, PushedExact, Zero, Indicator
<1>8. TotalCounts
  <2>1. {p \in Points : AtOwnFrontier(p)} = {}
    BY <1>3
  <2>2. ~ \E p \in Points : pointstamps[p[1]].updates[p[2]] > 0
    BY <1>1, <1>2 DEF Init
  <2>3. total_counts = 0 /\ Cardinality({p \in Points : AtOwnFrontier(p)}) = 0
    BY <2>1, FS_EmptySet DEF Init
  <2>. QED  BY <2>2, <2>3 DEF TotalCounts
<1>9. OutputsBalanced
  <2> SUFFICES ASSUME NEW o \in ScopeOutputs, NEW s \in OuterTimes
               PROVE  /\ output_capabilities[o].updates[s] = 0
                      /\ SumOver(output_changes[o], TimesAt(s)) = 0
                      /\ SumOver(Leaving(o), TimesAt(s)) = 0
    BY DEF OutputsBalanced
  <2>1. output_capabilities[o].updates[s] = 0
    BY <1>1 DEF Init
  <2>2. \A t \in Times : output_changes[o][t] = 0
    BY DEF Init, NoOutput
  <2>3. \A t \in Times : Leaving(o)[t] = 0
    <3>1. \A t : {p \in Points : AtOwnFrontier(p) /\ <<o, t>> \in output_summaries[p]} = {}
      BY <1>3
    <3>. QED  BY <3>1, FS_EmptySet DEF Leaving
  <2>. QED  BY <2>1, <2>2, <2>3, SumZero, TimesAtFinite
<1>. QED  BY <1>4, <1>5, <1>6, <1>7, <1>8, <1>9 DEF TrackerInv

(* Tracker::update only notes a change.                                     *)
LEMMA UpdateInv ==
    ASSUME TrackerInv, NEW p \in Tracked, NEW d \in {-1, 1}, update(p, d)
    PROVE  TrackerInv'
<1>1. p \in Points /\ d \in Int
  BY DEF Tracked
<1>2. TypeOK'
  BY <1>1, TrackerAssumption DEF TrackerInv, TypeOK, update
<1>. QED
  BY <1>2 DEF TrackerInv, update, Balanced, AntichainsExact, PushedExact, TotalCounts,
              OutputsBalanced, Leaving, AtOwnFrontier, AtFrontier

-----------------------------------------------------------------------------
(* Own counts of a location, seen from a point.                             *)
LEMMA PointParts ==
    /\ \A p \in Points : p[1] \in Locations /\ p[2] \in Times /\ p = <<p[1], p[2]>>
    /\ \A l \in Locations, t \in Times : <<l, t>> \in Points
BY DEF Points

(* total_counts "positive exactly when something has a positive count":     *)
(* no frontier element without a count, and no count without one below it.  *)
LEMMA SomethingCounted ==
    ASSUME NEW chains \in [Locations -> Chain!Antichain],
           \A l \in Locations : Chain!Exact(chains[l])
    PROVE  Cardinality({p \in Points : p[2] \in chains[p[1]].frontier}) > 0
              <=> \E p \in Points : chains[p[1]].updates[p[2]] > 0
<1> DEFINE Own == {p \in Points : p[2] \in chains[p[1]].frontier}
<1>1. Cardinality(Own) \in Nat /\ (Cardinality(Own) = 0 <=> Own = {})
  BY PointsFinite, FS_EmptySet
<1>2. ASSUME NEW p \in Points, p \in Own
      PROVE  chains[p[1]].updates[p[2]] > 0
  BY <1>2, PointParts DEF Chain!Exact, Chain!Positive
<1>3. ASSUME NEW p \in Points, chains[p[1]].updates[p[2]] > 0
      PROVE  Own # {}
  <2>1. PICK f \in chains[p[1]].frontier : f \in Times
    BY <1>3, PointParts, ChainFrontier
  <2>2. <<p[1], f>> \in Own
    BY <2>1, PointParts
  <2>. QED  BY <2>2
<1> HIDE DEF Own
<1>4. Cardinality(Own) > 0 <=> Own # {}
  BY <1>1
<1>5. Own \subseteq Points
  BY DEF Own
<1>6. Cardinality(Own) > 0 <=> \E p \in Points : chains[p[1]].updates[p[2]] > 0
  BY <1>2, <1>3, <1>4, <1>5
<1>. QED  BY <1>6 DEF Own

(* Step 1 of propagate_all: what is queued, counted and noted for the       *)
(* outputs is exactly the change of the locations' own frontiers.           *)
LEMMA AbsorbInv ==
    ASSUME TrackerInv, Absorb
    PROVE  TrackerInv'
<1> DEFINE batch(l) == [t \in Times |-> changes[<<l, t>>]]
           Sum(S) == Cardinality({p \in S : worklist'[p] = 1})
                       - Cardinality({p \in S : worklist'[p] = -1})
           Own == {p \in Points : AtOwnFrontier(p)}
           OwnNext == {p \in Points : AtOwnFrontier(p)'}
<1>1. /\ TypeOK /\ Returned
      /\ pointstamps' = [l \in Locations |-> Chain!update_iter(pointstamps[l], batch(l))]
      /\ worklist' = [p \in Points |->
             Chain!Change(pointstamps[p[1]], pointstamps'[p[1]], p[2])]
      /\ total_counts' = total_counts + Sum(Points)
      /\ output_changes' = [o \in ScopeOutputs |-> [t \in Times |->
             Sum({p \in Points : <<o, t>> \in output_summaries[p]})]]
      /\ changes' = Zero
      /\ UNCHANGED <<implications, pushed, told, output_capabilities, given>>
  <2> HIDE DEF batch
  <2>. QED  BY Zenon DEF Absorb, TrackerInv, batch
<1> HIDE DEF batch, Sum, Own, OwnNext
<1>2. /\ pointstamps' \in [Locations -> Chain!Antichain]
      /\ \A l \in Locations : Chain!Exact(pointstamps'[l])
  <2>1. ASSUME NEW l \in Locations
        PROVE  /\ pointstamps'[l] \in Chain!Antichain
               /\ Chain!Exact(pointstamps'[l])
    <3>1. batch(l) \in [Times -> Int]
      BY <1>1, PointParts DEF TypeOK, batch
    <3>2. pointstamps[l] \in Chain!Antichain /\ Chain!Exact(pointstamps[l])
      BY <1>1 DEF TypeOK, TrackerInv, AntichainsExact
    <3>3. pointstamps'[l] = Chain!update_iter(pointstamps[l], batch(l))
      BY <1>1
    <3>. QED  BY <3>1, <3>2, <3>3, ChainUpdate
  <2>. QED  BY <1>1, <2>1
<1>3. ASSUME NEW p \in Points
      PROVE  /\ worklist'[p] = Indicator(AtOwnFrontier(p)') - Indicator(AtOwnFrontier(p))
             /\ worklist'[p] = 1 <=> p \in OwnNext \ Own
             /\ worklist'[p] = -1 <=> p \in Own \ OwnNext
             /\ worklist'[p] \in Int
  BY <1>1 DEF Chain!Change, AtOwnFrontier, Indicator, Own, OwnNext
<1>4. ASSUME NEW S \in SUBSET Points
      PROVE  /\ Sum(S) = Cardinality(S \cap OwnNext) - Cardinality(S \cap Own)
             /\ Sum(S) \in Int
  <2>1. /\ {p \in S : worklist'[p] = 1} = (S \cap OwnNext) \ (S \cap Own)
        /\ {p \in S : worklist'[p] = -1} = (S \cap Own) \ (S \cap OwnNext)
    BY <1>3, Zenon
  <2> DEFINE A == S \cap Own  B == S \cap OwnNext
  <2>2. A \in SUBSET Points /\ B \in SUBSET Points
    OBVIOUS
  <2>3. Sum(S) = Cardinality(B \ A) - Cardinality(A \ B)
    BY <2>1 DEF Sum
  <2> HIDE DEF A, B
  <2>4. /\ Cardinality(B) = Cardinality(A) + Cardinality(B \ A) - Cardinality(A \ B)
        /\ Cardinality(B \ A) \in Nat /\ Cardinality(A \ B) \in Nat
        /\ Cardinality(A) \in Nat /\ Cardinality(B) \in Nat
    BY <2>2, CountDifference, PointsFinite
  <2>. QED  BY <2>3, <2>4 DEF A, B
<1>5. /\ Points \cap Own = Own /\ Points \cap OwnNext = OwnNext
      /\ Cardinality(Own) \in Nat /\ Cardinality(OwnNext) \in Nat
  BY PointsFinite DEF Own, OwnNext
<1>6. TypeOK'
  <2>1. worklist' \in [Points -> Int]
    BY <1>1, <1>3
  <2>2. output_changes' \in [ScopeOutputs -> [Times -> Int]]
    <3>. QED  BY <1>1, <1>4
  <2>3. total_counts' \in Int
    <3>1. total_counts \in Int
      BY <1>1 DEF TypeOK
    <3>2. total_counts' = total_counts + Sum(Points)
      BY <1>1, Zenon
    <3>3. Sum(Points) \in Int
      BY <1>4
    <3>. QED  BY <3>1, <3>2, <3>3
  <2>4. changes' \in [Points -> Int]
    BY <1>1 DEF Zero
  <2>. QED  BY <1>1, <1>2, <2>1, <2>2, <2>3, <2>4 DEF TypeOK
<1>7. Balanced'
  <2>1. ASSUME NEW p \in Points
        PROVE  /\ worklist[p] = 0 /\ implications'[p[1]].updates[p[2]] = implications[p[1]].updates[p[2]]
               /\ {q \in Into[p] : AtFrontier(q)'} = {q \in Into[p] : AtFrontier(q)}
    BY <1>1 DEF Returned, Zero, AtFrontier
  <2>2. ASSUME NEW p \in Points
        PROVE  /\ implications[p[1]].updates[p[2]] \in Int
               /\ Cardinality({q \in Into[p] : AtFrontier(q)}) \in Nat
    <3>1. {q \in Into[p] : AtFrontier(q)} \in SUBSET Points
      BY DEF Into
    <3>. QED  BY <1>1, <3>1, PointParts, PointsFinite DEF TypeOK, Chain!Antichain
  <2>. QED  BY <1>3, <2>1, <2>2 DEF Balanced, TrackerInv, Indicator
<1>8. AntichainsExact'
  BY <1>1, <1>2 DEF AntichainsExact, TrackerInv
<1>9. PushedExact'
  BY <1>1 DEF PushedExact, TrackerInv, AtFrontier
<1>10. TotalCounts'
  <2>1. total_counts' = Cardinality(OwnNext)
    <3>1. Sum(Points) = Cardinality(OwnNext) - Cardinality(Own)
      BY <1>4, <1>5
    <3>2. total_counts = Cardinality(Own)
      BY DEF TrackerInv, TotalCounts, Own
    <3>. QED  BY <1>1, <1>5, <3>1, <3>2
  <2>2. Cardinality(OwnNext) > 0 <=> \E p \in Points : pointstamps'[p[1]].updates[p[2]] > 0
    <3>1. OwnNext = {p \in Points : p[2] \in pointstamps'[p[1]].frontier}
      BY DEF AtOwnFrontier, OwnNext
    <3>. QED  BY <1>2, <3>1, SomethingCounted
  <2>. QED  BY <2>1, <2>2 DEF TotalCounts, OwnNext
<1>11. OutputsBalanced'
  <2> SUFFICES ASSUME NEW o \in ScopeOutputs, NEW s \in OuterTimes
               PROVE  output_capabilities'[o].updates[s] + SumOver(output_changes'[o], TimesAt(s))
                        = SumOver(Leaving(o)', TimesAt(s))
    BY DEF OutputsBalanced
  <2> DEFINE old == Leaving(o)  new == Leaving(o)'  moved == output_changes'[o]
             before == output_capabilities[o].updates[s]
  <2>1. ASSUME NEW t \in Times
        PROVE  /\ moved[t] \in Int /\ old[t] \in Nat /\ new[t] \in Nat
               /\ new[t] = moved[t] + old[t]
    <3> DEFINE S == {p \in Points : <<o, t>> \in output_summaries[p]}
    <3>1. moved[t] = Sum(S) /\ S \in SUBSET Points
      BY <1>1
    <3>2. old[t] = Cardinality(S \cap Own) /\ new[t] = Cardinality(S \cap OwnNext)
      <4>1. /\ S \cap Own = {p \in Points : AtOwnFrontier(p) /\ <<o, t>> \in output_summaries[p]}
            /\ S \cap OwnNext = {p \in Points : AtOwnFrontier(p)' /\ <<o, t>> \in output_summaries[p]}
        BY DEF Own, OwnNext
      <4>. QED  BY <4>1 DEF Leaving
    <3>3. Cardinality(S \cap Own) \in Nat /\ Cardinality(S \cap OwnNext) \in Nat
      BY PointsFinite
    <3> HIDE DEF S, old, new, moved
    <3>4. Sum(S) = Cardinality(S \cap OwnNext) - Cardinality(S \cap Own) /\ Sum(S) \in Int
      BY <1>4, <3>1
    <3>. QED  BY <3>1, <3>2, <3>3, <3>4
  <2>2. before + SumOver(output_changes[o], TimesAt(s)) = SumOver(old, TimesAt(s))
    BY DEF TrackerInv, OutputsBalanced
  <2>3. SumOver(output_changes[o], TimesAt(s)) = 0
    BY <1>1, TimesAtFinite, SumZero DEF Returned, NoOutput
  <2>4. before \in Int
    BY <1>1 DEF TypeOK, Outer!Antichain
  <2>5. SumOver(new, TimesAt(s)) = SumOver(moved, TimesAt(s)) + SumOver(old, TimesAt(s))
    <3> HIDE DEF old, new, moved
    <3>. QED  BY <2>1, TimesAtFinite, SumPlus
  <2>6. SumOver(moved, TimesAt(s)) \in Int
    <3> HIDE DEF old, new, moved
    <3>. QED  BY <2>1, TimesAtFinite, SumInt
  <2>7. output_capabilities'[o].updates[s] = before
    BY <1>1
  <2> HIDE DEF old, new, moved, before
  <2>8. before + SumOver(moved, TimesAt(s)) = SumOver(new, TimesAt(s))
    BY <2>2, <2>3, <2>4, <2>5, <2>6
  <2>. QED  BY <2>7, <2>8 DEF new, moved
<1>. QED  BY <1>6, <1>7, <1>8, <1>9, <1>10, <1>11 DEF TrackerInv

(* One turn of the loop of step 2 of propagate_all: what is taken off the   *)
(* worklist goes to the count, and only the change of the frontier is       *)
(* queued for the next hops.                                                *)
LEMMA PopInv ==
    ASSUME TrackerInv, Pop
    PROVE  TrackerInv'
<1>1. PICK p \in Pending :
        LET batch == [t \in Times |-> IF t = p[2] THEN worklist[p] ELSE 0]
            Diff(q) == IF q[1] # p[1] THEN 0
                       ELSE Chain!Change(implications[q[1]], implications'[q[1]], q[2])
            Moved(q, d) == Cardinality({r \in Into[q] : Diff(r) = d})
        IN  /\ implications' = [implications EXCEPT ![p[1]] = Chain!update_iter(@, batch)]
            /\ worklist' = [q \in Points |->
                  Moved(q, 1) - Moved(q, -1) + IF q = p THEN 0 ELSE worklist[q]]
            /\ pushed' = [q \in Points |-> pushed[q] + Diff(q)]
            /\ UNCHANGED <<changes, pointstamps, total_counts, output_changes, told,
                           output_capabilities, given>>
  BY Zenon DEF Pop
<1> DEFINE l == p[1]
           batch == [t \in Times |-> IF t = p[2] THEN worklist[p] ELSE 0]
           Diff(q) == IF q[1] # p[1] THEN 0
                      ELSE Chain!Change(implications[q[1]], implications'[q[1]], q[2])
           Moved(q, d) == Cardinality({r \in Into[q] : Diff(r) = d})
           At == {q \in Points : AtFrontier(q)}
           AtNext == {q \in Points : AtFrontier(q)'}
<1>2. /\ TypeOK
      /\ implications' = [implications EXCEPT ![l] = Chain!update_iter(implications[l], batch)]
      /\ worklist' = [q \in Points |->
            Moved(q, 1) - Moved(q, -1) + IF q = p THEN 0 ELSE worklist[q]]
      /\ pushed' = [q \in Points |-> pushed[q] + Diff(q)]
      /\ UNCHANGED <<changes, pointstamps, total_counts, output_changes, told,
                     output_capabilities, given>>
      /\ p \in Points /\ l \in Locations /\ p[2] \in Times
  BY <1>1, PointParts, Zenon DEF TrackerInv, Pending
<1> HIDE DEF Moved
<1>3. batch \in [Times -> Int]
  BY <1>2 DEF TypeOK
<1>4. /\ implications' \in [Locations -> Chain!Antichain]
      /\ \A k \in Locations : Chain!Exact(implications'[k])
      /\ \A q \in Points : implications'[q[1]].updates[q[2]] =
            implications[q[1]].updates[q[2]] + IF q = p THEN worklist[p] ELSE 0
  <2> DEFINE n == Chain!update_iter(implications[l], batch)
  <2>1. /\ n \in Chain!Antichain /\ Chain!Exact(n)
        /\ n.updates = [t \in Times |-> implications[l].updates[t] + batch[t]]
    BY <1>2, <1>3, ChainUpdate DEF TypeOK, TrackerInv, AntichainsExact
  <2>2. implications' = [implications EXCEPT ![l] = n]
    BY <1>2
  <2>3. \A t \in Times : batch[t] = IF t = p[2] THEN worklist[p] ELSE 0
    OBVIOUS
  <2> HIDE DEF n, batch, l
  <2>4. implications' \in [Locations -> Chain!Antichain]
    BY <1>2, <2>1, <2>2 DEF TypeOK
  <2>5. \A k \in Locations : implications'[k] = IF k = l THEN n ELSE implications[k]
    BY <1>2, <2>2 DEF TypeOK
  <2>6. \A k \in Locations : Chain!Exact(implications'[k])
    BY <2>1, <2>5 DEF TrackerInv, AntichainsExact
  <2>7. ASSUME NEW q \in Points
        PROVE  implications'[q[1]].updates[q[2]] =
                  implications[q[1]].updates[q[2]] + IF q = p THEN worklist[p] ELSE 0
    <3>1. q[1] \in Locations /\ q[2] \in Times /\ (q = p <=> q[1] = l /\ q[2] = p[2])
      BY <1>2, PointParts DEF l
    <3>2. implications[q[1]].updates[q[2]] \in Int
      BY <1>2, <3>1 DEF TypeOK, Chain!Antichain
    <3>3. CASE q[1] = l
      BY <2>1, <2>3, <2>5, <3>1, <3>3
    <3>4. CASE q[1] # l
      BY <2>5, <3>1, <3>2, <3>4
    <3>. QED  BY <3>3, <3>4
  <2>. QED  BY <2>4, <2>6, <2>7
<1>5. ASSUME NEW q \in Points
      PROVE  /\ Diff(q) = Indicator(AtFrontier(q)') - Indicator(AtFrontier(q))
             /\ Diff(q) = 1 <=> q \in AtNext \ At
             /\ Diff(q) = -1 <=> q \in At \ AtNext
             /\ Diff(q) \in Int
  <2>1. q[1] # l => implications'[q[1]] = implications[q[1]]
    BY <1>2, PointParts DEF TypeOK
  <2>. QED  BY <2>1 DEF Chain!Change, AtFrontier, Indicator
<1> HIDE DEF Diff, batch, l, At, AtNext
<1>6. ASSUME NEW q \in Points
      PROVE  /\ Moved(q, 1) - Moved(q, -1) =
                  Cardinality(Into[q] \cap AtNext) - Cardinality(Into[q] \cap At)
             /\ Moved(q, 1) \in Nat /\ Moved(q, -1) \in Nat
             /\ Cardinality(Into[q] \cap AtNext) \in Nat /\ Cardinality(Into[q] \cap At) \in Nat
  <2> DEFINE A == Into[q] \cap At  B == Into[q] \cap AtNext
  <2>1. Into[q] \subseteq Points
    BY DEF Into
  <2>2. {r \in Into[q] : Diff(r) = 1} = B \ A /\ {r \in Into[q] : Diff(r) = -1} = A \ B
    BY <1>5, <2>1
  <2>3. Moved(q, 1) = Cardinality(B \ A) /\ Moved(q, -1) = Cardinality(A \ B)
    BY <2>2, Zenon DEF Moved
  <2>4. A \in SUBSET Points /\ B \in SUBSET Points
    BY <2>1
  <2> HIDE DEF A, B
  <2>5. /\ Cardinality(B) = Cardinality(A) + Cardinality(B \ A) - Cardinality(A \ B)
        /\ Cardinality(B \ A) \in Nat /\ Cardinality(A \ B) \in Nat
        /\ Cardinality(A) \in Nat /\ Cardinality(B) \in Nat
    BY <2>4, CountDifference, PointsFinite
  <2>. QED  BY <2>3, <2>5 DEF A, B
<1>7. TypeOK'
  <2>1. worklist' \in [Points -> Int]
    <3>1. ASSUME NEW q \in Points
          PROVE  Moved(q, 1) - Moved(q, -1) + (IF q = p THEN 0 ELSE worklist[q]) \in Int
      <4>1. Moved(q, 1) \in Nat /\ Moved(q, -1) \in Nat /\ worklist[q] \in Int
        BY <1>2, <1>6 DEF TypeOK
      <4>. QED  BY <4>1
    <3>. QED  BY <1>2, <3>1
  <2>2. pushed' \in [Points -> Int]
    BY <1>2, <1>5 DEF TypeOK
  <2>. QED  BY <1>2, <1>4, <2>1, <2>2 DEF TypeOK
<1>8. Balanced'
  <2> SUFFICES ASSUME NEW q \in Points
               PROVE  implications'[q[1]].updates[q[2]] + worklist'[q] =
                         Indicator(AtOwnFrontier(q)')
                           + Cardinality({r \in Into[q] : AtFrontier(r)'})
    BY DEF Balanced
  <2> DEFINE count == implications[q[1]].updates[q[2]]
             queued == worklist[q]
             own == Indicator(AtOwnFrontier(q))
  <2>1. /\ {r \in Into[q] : AtFrontier(r)} = Into[q] \cap At
        /\ {r \in Into[q] : AtFrontier(r)'} = Into[q] \cap AtNext
    BY DEF Into, At, AtNext
  <2>2. count + queued = own + Cardinality(Into[q] \cap At)
    BY <2>1 DEF TrackerInv, Balanced
  <2>3. count \in Int /\ queued \in Int /\ own \in Int
    BY <1>2, PointParts DEF TypeOK, Chain!Antichain, Indicator
  <2>4. Indicator(AtOwnFrontier(q)') = own
    BY <1>2 DEF AtOwnFrontier
  <2>5. implications'[q[1]].updates[q[2]] = count + IF q = p THEN queued ELSE 0
    BY <1>4
  <2>6. worklist'[q] = Moved(q, 1) - Moved(q, -1) + IF q = p THEN 0 ELSE queued
    BY <1>2
  <2> HIDE DEF count, queued, own
  <2>7. implications'[q[1]].updates[q[2]] + worklist'[q] =
            count + queued + (Moved(q, 1) - Moved(q, -1))
    <3>1. Moved(q, 1) \in Nat /\ Moved(q, -1) \in Nat
      BY <1>6
    <3>2. CASE q = p
      BY <2>3, <2>5, <2>6, <3>1, <3>2
    <3>3. CASE q # p
      BY <2>3, <2>5, <2>6, <3>1, <3>3
    <3>. QED  BY <3>2, <3>3
  <2>. QED  BY <1>6, <2>1, <2>2, <2>3, <2>4, <2>7
<1>9. AntichainsExact'
  BY <1>2, <1>4 DEF AntichainsExact, TrackerInv
<1>10. PushedExact'
  <2> SUFFICES ASSUME NEW q \in Points
               PROVE  told'[q] + pushed'[q] = Indicator(AtFrontier(q)')
    BY DEF PushedExact
  <2>1. told[q] + pushed[q] = Indicator(AtFrontier(q))
    BY DEF TrackerInv, PushedExact
  <2>2. told'[q] = told[q] /\ pushed'[q] = pushed[q] + Diff(q)
    BY <1>2
  <2>3. told[q] \in Int /\ pushed[q] \in Int
    BY <1>2 DEF TypeOK
  <2>. QED  BY <1>5, <2>1, <2>2, <2>3 DEF Indicator
<1>11. TotalCounts'
  BY <1>2 DEF TrackerInv, TotalCounts, AtOwnFrontier
<1>12. OutputsBalanced'
  BY <1>2 DEF TrackerInv, OutputsBalanced, Leaving, AtOwnFrontier
<1>. QED  BY <1>7, <1>8, <1>9, <1>10, <1>11, <1>12 DEF TrackerInv

(* The end of Subgraph::propagate_pointstamps: what was collected goes to   *)
(* the children and, summed by outer time, into output_capabilities.        *)
LEMMA DrainInv ==
    ASSUME TrackerInv, Drain
    PROVE  TrackerInv'
<1> DEFINE batch(o) == [s \in OuterTimes |-> SumOver(output_changes[o], TimesAt(s))]
<1>1. /\ TypeOK
      /\ told' = [p \in Points |-> told[p] + pushed[p]]
      /\ pushed' = Zero
      /\ output_capabilities' = [o \in ScopeOutputs |->
             Outer!update_iter(output_capabilities[o], batch(o))]
      /\ output_changes' = NoOutput
      /\ UNCHANGED <<changes, pointstamps, implications, worklist, total_counts, given>>
  BY DEF TrackerInv, Drain, SumOver, TimesAt
<1>2. ASSUME NEW o \in ScopeOutputs
      PROVE  /\ output_capabilities'[o] \in Outer!Antichain
             /\ Outer!Exact(output_capabilities'[o])
             /\ output_capabilities'[o].updates =
                   [s \in OuterTimes |-> output_capabilities[o].updates[s] + batch(o)[s]]
  <2>1. batch(o) \in [OuterTimes -> Int]
    <3>1. \A s \in OuterTimes : SumOver(output_changes[o], TimesAt(s)) \in Int
      BY <1>1, TimesAtFinite, SumInt DEF TypeOK
    <3>. QED  BY <3>1
  <2>2. output_capabilities[o] \in Outer!Antichain /\ Outer!Exact(output_capabilities[o])
    BY <1>1 DEF TypeOK, TrackerInv, AntichainsExact
  <2>3. output_capabilities'[o] = Outer!update_iter(output_capabilities[o], batch(o))
    BY <1>1
  <2> HIDE DEF batch
  <2>. QED  BY <2>1, <2>2, <2>3, OuterUpdate
<1>3. TypeOK'
  <2>1. told' \in [Points -> Int] /\ pushed' \in [Points -> Int]
    BY <1>1 DEF TypeOK, Zero
  <2>2. output_changes' \in [ScopeOutputs -> [Times -> Int]]
    BY <1>1 DEF NoOutput
  <2>3. output_capabilities' \in [ScopeOutputs -> Outer!Antichain]
    <3> HIDE DEF batch
    <3>. QED  BY <1>1, <1>2
  <2>. QED  BY <1>1, <2>1, <2>2, <2>3 DEF TypeOK
<1>4. Balanced'
  BY <1>1 DEF TrackerInv, Balanced, AtFrontier, AtOwnFrontier
<1>5. AntichainsExact'
  BY <1>1, <1>2 DEF TrackerInv, AntichainsExact
<1>6. PushedExact'
  BY <1>1 DEF TrackerInv, PushedExact, AtFrontier, TypeOK, Zero
<1>7. TotalCounts'
  BY <1>1 DEF TrackerInv, TotalCounts, AtOwnFrontier
<1>8. OutputsBalanced'
  <2> SUFFICES ASSUME NEW o \in ScopeOutputs, NEW s \in OuterTimes
               PROVE  output_capabilities'[o].updates[s] + SumOver(output_changes'[o], TimesAt(s))
                        = SumOver(Leaving(o)', TimesAt(s))
    BY DEF OutputsBalanced
  <2>1. output_capabilities'[o].updates[s] = SumOver(Leaving(o), TimesAt(s))
    BY <1>2 DEF TrackerInv, OutputsBalanced
  <2>2. SumOver(output_changes'[o], TimesAt(s)) = 0
    BY <1>1, TimesAtFinite, SumZero DEF NoOutput
  <2>3. Leaving(o)' = Leaving(o)
    BY <1>1 DEF Leaving, AtOwnFrontier
  <2>4. SumOver(Leaving(o), TimesAt(s)) \in Int
    BY LeavingNat, TimesAtFinite, SumInt
  <2>. QED  BY <2>1, <2>2, <2>3, <2>4
<1>. QED  BY <1>3, <1>4, <1>5, <1>6, <1>7, <1>8 DEF TrackerInv

(* The tracker's counts, worklist, frontiers and what it has told balance   *)
(* at every turn of its loop (TrackerInv), for every graph and history.     *)
THEOREM TrackerBalances == Spec => []TrackerInv
<1>1. TrackerInv /\ [Next]_vars => TrackerInv'
  <2> SUFFICES ASSUME TrackerInv, [Next]_vars PROVE TrackerInv'
    OBVIOUS
  <2>1. CASE \E p \in Tracked, d \in {-1, 1} : update(p, d)
    BY <2>1, UpdateInv
  <2>2. CASE propagate_pointstamps
    BY <2>2, AbsorbInv, PopInv, DrainInv DEF propagate_pointstamps
  <2>3. CASE UNCHANGED vars
    BY <2>3 DEF vars, TrackerInv, TypeOK, Balanced, AntichainsExact, PushedExact, TotalCounts,
                OutputsBalanced, Leaving, AtOwnFrontier, AtFrontier
  <2>. QED  BY <2>1, <2>2, <2>3 DEF Next
<1>. QED  BY <1>1, InitInv, PTL DEF Spec

-----------------------------------------------------------------------------
(* Reached(p): some implication at or before p, at p's location, has a      *)
(* positive count.  Once the worklist is empty this says the same as        *)
(* Implied, because nothing supports itself: a hop never leads back.        *)
Counted(q) == implications[q[1]].updates[q[2]] > 0
Reached(p) == \E q \in Points : NoLater(q, p) /\ Counted(q)

(* Among the pointstamps, as among the times, there are least ones.         *)
LEMMA LeastPoint ==
    ASSUME NEW S \in SUBSET Points, S # {}
    PROVE  \E p \in S : \A q \in S : <<q, p>> \in Leq => q = p
<1>1. /\ \A p, q, r \in Points : <<p, q>> \in Leq /\ <<q, r>> \in Leq => <<p, r>> \in Leq
      /\ \A p, q \in Points : <<p, q>> \in Leq /\ <<q, p>> \in Leq => p = q
  BY TrackerAssumption
<1>. QED  BY <1>1, PointsFinite, LeastExists

(* The order of pointstamps, as TrackerAssumption states it.                *)
LEMMA GraphFacts ==
    /\ \A p \in Points : NoLater(p, p) /\ <<p, p>> \in Leq
    /\ \A p, q \in Points : NoLater(q, p) => <<q, p>> \in Leq
    /\ \A p, q, r \in Points : NoLater(p, q) /\ NoLater(q, r) => NoLater(p, r)
    /\ \A p, q \in Points : NoLater(p, q) /\ NoLater(q, p) => p = q
    /\ \A p, q, r \in Points : <<p, q>> \in Leq /\ <<q, r>> \in Leq => <<p, r>> \in Leq
    /\ \A p, q \in Points : q \in Below[p] <=> <<q, p>> \in Leq
    /\ \A p, q \in Points : q \in Into[p] <=> <<q, p>> \in Step
    /\ \A p, q \in Points : q \in OutOf[p] <=> <<p, q>> \in Step
    /\ \A p, q \in Points : <<q, p>> \in Step => <<q, p>> \in Leq /\ q # p /\ <<p, q>> \notin Leq
<1>1. /\ \A p \in Points : NoLater(p, p)
      /\ \A p, q, r \in Points : NoLater(p, q) /\ NoLater(q, r) => NoLater(p, r)
  BY TrackerAssumption, PointParts DEF NoLater, Chain!Ordered
<1>2. \A p, q \in Points : NoLater(p, q) /\ NoLater(q, p) => p = q
  BY TrackerAssumption, PointParts DEF NoLater, Chain!Ordered
<1>3. /\ \A p, q \in Points : q \in Below[p] <=> <<q, p>> \in Leq
      /\ \A p, q \in Points : q \in Into[p] <=> <<q, p>> \in Step
      /\ \A p, q \in Points : q \in OutOf[p] <=> <<p, q>> \in Step
  BY DEF Below, Into, OutOf
<1>4. /\ \A p, q \in Points : NoLater(q, p) => <<q, p>> \in Leq
      /\ \A p, q, r \in Points : <<p, q>> \in Leq /\ <<q, r>> \in Leq => <<p, r>> \in Leq
      /\ \A p, q \in Points : <<p, q>> \in Leq /\ <<q, p>> \in Leq => p = q
      /\ Step \subseteq Leq /\ \A p \in Points : <<p, p>> \notin Step
  BY TrackerAssumption
<1>. QED  BY <1>1, <1>2, <1>3, <1>4

(* What the balance means when nothing is queued: a time is counted where   *)
(* it is on the own frontier, or a hop away from a frontier element.        *)
LEMMA CountedMeans ==
    ASSUME TrackerInv, worklist = Zero, NEW p \in Points
    PROVE  /\ Counted(p) <=> AtOwnFrontier(p) \/ \E q \in Into[p] : AtFrontier(q)
           /\ AtFrontier(p) <=> Counted(p) /\ ~ \E q \in Earlier(p) : Counted(q)
           /\ AtFrontier(p) => Counted(p)
           /\ AtOwnFrontier(p) => pointstamps[p[1]].updates[p[2]] > 0
<1> DEFINE S == {q \in Into[p] : AtFrontier(q)}
           count == implications[p[1]].updates[p[2]]
<1>1. Cardinality(S) \in Nat /\ (Cardinality(S) = 0 <=> S = {})
  <2>1. S \in SUBSET Points
    BY DEF Into
  <2> HIDE DEF S
  <2>. QED  BY <2>1, PointsFinite, FS_EmptySet
<1>2. count + 0 = Indicator(AtOwnFrontier(p)) + Cardinality(S)
  BY DEF TrackerInv, Balanced, Zero
<1>3. count \in Int
  BY PointParts DEF TrackerInv, TypeOK, Chain!Antichain
<1>4. count > 0 <=> AtOwnFrontier(p) \/ S # {}
  <2> HIDE DEF count, S
  <2>. QED  BY <1>1, <1>2, <1>3 DEF Indicator
<1>5. implications[p[1]].frontier = {t \in Chain!Positive(implications[p[1]].updates) :
         ~ \E s \in Chain!Positive(implications[p[1]].updates) : Chain!less_than(s, t)}
  BY PointParts DEF TrackerInv, AntichainsExact, Chain!Exact
<1>6. AtFrontier(p) <=> Counted(p) /\ ~ \E q \in Earlier(p) : Counted(q)
  <2>1. (\E q \in Earlier(p) : Counted(q)) <=>
           \E s \in Chain!Positive(implications[p[1]].updates) : Chain!less_than(s, p[2])
    <3>1. ASSUME NEW q \in Earlier(p), Counted(q)
          PROVE  \E s \in Chain!Positive(implications[p[1]].updates) : Chain!less_than(s, p[2])
      BY <3>1, PointParts DEF Earlier, Counted, Chain!Positive
    <3>2. ASSUME NEW s \in Chain!Positive(implications[p[1]].updates), Chain!less_than(s, p[2])
          PROVE  \E q \in Earlier(p) : Counted(q)
      <4>1. <<p[1], s>> \in Earlier(p) /\ Counted(<<p[1], s>>)
        BY <3>2, PointParts DEF Earlier, Counted, Chain!Positive
      <4>. QED  BY <4>1
    <3>. QED  BY <3>1, <3>2
  <2>2. p[2] \in Chain!Positive(implications[p[1]].updates) <=> Counted(p)
    BY PointParts DEF Chain!Positive, Counted
  <2>. QED  BY <1>5, <2>1, <2>2 DEF AtFrontier
<1>7. AtOwnFrontier(p) => pointstamps[p[1]].updates[p[2]] > 0
  BY PointParts DEF TrackerInv, AntichainsExact, Chain!Exact, Chain!Positive, AtOwnFrontier
<1>. QED  BY <1>4, <1>6, <1>7 DEF Counted

(* Below everything reached there is an element of the location's frontier. *)
LEMMA ReachedFrontier ==
    ASSUME TrackerInv, NEW p \in Points, Reached(p)
    PROVE  \E f \in Points : NoLater(f, p) /\ AtFrontier(f)
<1>1. PICK q \in Points : NoLater(q, p) /\ Counted(q)
  BY DEF Reached
<1>2. PICK t \in implications[q[1]].frontier : t \in Times /\ Chain!less_equal(t, q[2])
  BY <1>1, PointParts, ChainFrontier DEF TrackerInv, TypeOK, AntichainsExact, Counted
<1> DEFINE f == <<q[1], t>>
<1>3. f \in Points /\ NoLater(f, q) /\ AtFrontier(f)
  BY <1>2, PointParts DEF NoLater, AtFrontier
<1>. QED  BY <1>1, <1>3, GraphFacts

(* Nothing is counted that no pointstamp could result in: not even around   *)
(* a cycle does a count support itself.                                     *)
LEMMA CountedImplied ==
    ASSUME TrackerInv, worklist = Zero
    PROVE  \A p \in Points : Counted(p) => Implied(p)
<1> DEFINE Bad == {p \in Points : Counted(p) /\ ~ Implied(p)}
<1>1. SUFFICES ASSUME Bad # {} PROVE FALSE
  OBVIOUS
<1>2. PICK p \in Bad : \A q \in Bad : <<q, p>> \in Leq => q = p
  <2> Bad \in SUBSET Points
    OBVIOUS
  <2> HIDE DEF Bad
  <2>. QED  BY <1>1, LeastPoint
<1>3. CASE AtOwnFrontier(p)
  BY <1>3, CountedMeans, GraphFacts DEF Implied
<1>4. CASE \E q \in Into[p] : AtFrontier(q)
  <2>1. PICK q \in Points : q \in Into[p] /\ AtFrontier(q)
    BY <1>4 DEF Into
  <2>2. Counted(q) /\ <<q, p>> \in Leq /\ q # p
    BY <2>1, CountedMeans, GraphFacts
  <2>3. Implied(q)
    BY <1>2, <2>2
  <2>4. PICK r \in Points : <<r, q>> \in Leq /\ pointstamps[r[1]].updates[r[2]] > 0
    BY <2>3, GraphFacts DEF Implied, Below
  <2>5. r \in Below[p]
    BY <2>2, <2>4, GraphFacts
  <2>. QED  BY <2>4, <2>5 DEF Implied
<1>. QED  BY <1>3, <1>4, CountedMeans

(* And everything that some pointstamp could result in is reached.          *)
LEMMA ImpliedReached ==
    ASSUME TrackerInv, worklist = Zero
    PROVE  \A p \in Points : Implied(p) => Reached(p)
<1> DEFINE Bad == {p \in Points : Implied(p) /\ ~ Reached(p)}
<1>1. SUFFICES ASSUME Bad # {} PROVE FALSE
  OBVIOUS
<1>2. PICK p \in Bad : \A q \in Bad : <<q, p>> \in Leq => q = p
  <2> Bad \in SUBSET Points
    OBVIOUS
  <2> HIDE DEF Bad
  <2>. QED  BY <1>1, LeastPoint
<1>3. PICK q \in Points : q \in Below[p] /\ pointstamps[q[1]].updates[q[2]] > 0
  BY DEF Implied, Below
<1>4. CASE NoLater(q, p)
  <2>1. PICK t \in pointstamps[q[1]].frontier : t \in Times /\ Chain!less_equal(t, q[2])
    BY <1>3, PointParts, ChainFrontier DEF TrackerInv, TypeOK, AntichainsExact
  <2> DEFINE f == <<q[1], t>>
  <2>2. f \in Points /\ NoLater(f, q) /\ AtOwnFrontier(f)
    BY <2>1, PointParts DEF NoLater, AtOwnFrontier
  <2>3. Counted(f)
    BY <2>2, CountedMeans
  <2>. QED  BY <1>4, <2>2, <2>3, GraphFacts DEF Reached
<1>5. CASE ~ NoLater(q, p)
  <2>1. PICK r \in Points : NoLater(r, p) /\ \E s \in Into[r] : q \in Below[s]
    BY <1>3, <1>5, TrackerAssumption
  <2>2. PICK s \in Points : s \in Into[r] /\ q \in Below[s]
    BY <2>1 DEF Into
  <2>3. Implied(s)
    BY <1>3, <2>2 DEF Implied
  <2>4. <<s, p>> \in Leq /\ s # p
    BY <2>1, <2>2, GraphFacts
  <2>5. Reached(s)
    BY <1>2, <2>3, <2>4
  <2>6. PICK f \in Points : NoLater(f, s) /\ AtFrontier(f)
    BY <2>5, ReachedFrontier
  <2>7. PICK u \in OutOf[f] : NoLater(u, r)
    <3>1. r \in OutOf[s]
      BY <2>2, GraphFacts
    <3>. QED  BY <2>6, <3>1, TrackerAssumption
  <2>8. u \in Points /\ f \in Into[u]
    BY <2>7, GraphFacts DEF OutOf
  <2>9. Counted(u)
    BY <2>6, <2>8, CountedMeans
  <2>. QED  BY <2>1, <2>7, <2>8, <2>9, GraphFacts DEF Reached
<1>. QED  BY <1>4, <1>5

(* FrontierExact: once the worklist is empty, what the children were told   *)
(* adds up to the antichain of what some pointstamp could result in.        *)
LEMMA BalancedIsExact == TrackerInv => FrontierExact
<1> SUFFICES ASSUME TrackerInv, Propagated, NEW p \in Points
             PROVE  told[p] = Indicator(Implied(p) /\ ~ \E q \in Earlier(p) : Implied(q))
  BY DEF FrontierExact
<1>1. worklist = Zero /\ pushed = Zero
  BY DEF Propagated, Returned
<1>2. told[p] = Indicator(AtFrontier(p))
  <2>1. told[p] + pushed[p] = Indicator(AtFrontier(p)) /\ pushed[p] = 0 /\ told[p] \in Int
    BY <1>1 DEF TrackerInv, PushedExact, Zero, TypeOK
  <2>. QED  BY <2>1
<1>3. \A q \in Earlier(p) : q \in Points /\ NoLater(q, p) /\ q # p
  BY PointParts DEF Earlier, NoLater, Chain!less_than
<1>4. \A q \in Points : NoLater(q, p) /\ q # p => q \in Earlier(p)
  BY PointParts DEF Earlier, NoLater, Chain!less_than
<1>5. ASSUME AtFrontier(p)
      PROVE  Implied(p) /\ ~ \E q \in Earlier(p) : Implied(q)
  <2>1. Counted(p) /\ ~ \E q \in Earlier(p) : Counted(q)
    BY <1>1, <1>5, CountedMeans
  <2>2. ASSUME NEW q \in Earlier(p), Implied(q)
        PROVE  FALSE
    <3>1. PICK r \in Points : NoLater(r, q) /\ Counted(r)
      BY <1>1, <1>3, <2>2, ImpliedReached DEF Reached
    <3>2. NoLater(r, p) /\ r # p
      BY <1>3, <3>1, GraphFacts
    <3>. QED  BY <1>4, <2>1, <3>1, <3>2
  <2>. QED  BY <1>1, <2>1, <2>2, CountedImplied
<1>6. ASSUME Implied(p), ~ \E q \in Earlier(p) : Implied(q)
      PROVE  AtFrontier(p)
  <2>1. PICK q \in Points : NoLater(q, p) /\ Counted(q)
    BY <1>1, <1>6, ImpliedReached DEF Reached
  <2>2. q = p
    BY <1>1, <1>4, <1>6, <2>1, CountedImplied
  <2>3. \A r \in Earlier(p) : ~ Counted(r)
    BY <1>1, <1>3, <1>6, CountedImplied
  <2>. QED  BY <1>1, <2>1, <2>2, <2>3, CountedMeans
<1>. QED  BY <1>2, <1>5, <1>6 DEF Indicator

(* What propagate_pointstamps tells the children of a scope is exact, for   *)
(* every graph that satisfies TrackerAssumption and every history of        *)
(* updates: the frontiers are those of what could result in each port.      *)
THEOREM FrontiersAreExact == Spec => []FrontierExact
BY TrackerBalances, BalancedIsExact, PTL

-----------------------------------------------------------------------------
OutCounted(o, s) == output_capabilities[o].updates[s] > 0

(* With nothing left to project, an outer time is counted exactly where a   *)
(* location's own frontier leads to it along a minimal summary.             *)
LEMMA OutCountedMeans ==
    ASSUME TrackerInv, output_changes = NoOutput, NEW o \in ScopeOutputs, NEW s \in OuterTimes
    PROVE  OutCounted(o, s) <=> \E t \in Times, p \in Points :
               to_outer[t] = s /\ AtOwnFrontier(p) /\ <<o, t>> \in output_summaries[p]
<1> DEFINE S(t) == {p \in Points : AtOwnFrontier(p) /\ <<o, t>> \in output_summaries[p]}
<1>1. SumOver(output_changes[o], TimesAt(s)) = 0
  BY TimesAtFinite, SumZero DEF NoOutput
<1>2. /\ SumOver(Leaving(o), TimesAt(s)) \in Nat
      /\ SumOver(Leaving(o), TimesAt(s)) > 0 <=> \E t \in TimesAt(s) : Leaving(o)[t] > 0
  BY LeavingNat, TimesAtFinite, SumPositive
<1>3. output_capabilities[o].updates[s] \in Int
  BY DEF TrackerInv, TypeOK, Outer!Antichain
<1>4. output_capabilities[o].updates[s] = SumOver(Leaving(o), TimesAt(s))
  BY <1>1, <1>3 DEF TrackerInv, OutputsBalanced
<1>5. \A t \in Times : Leaving(o)[t] > 0 <=> S(t) # {}
  <2> SUFFICES ASSUME NEW t \in Times PROVE Leaving(o)[t] > 0 <=> S(t) # {}
    OBVIOUS
  <2>1. Leaving(o)[t] = Cardinality(S(t)) /\ S(t) \in SUBSET Points
    BY Zenon DEF Leaving
  <2> HIDE DEF S
  <2>2. Cardinality(S(t)) \in Nat /\ (Cardinality(S(t)) = 0 <=> S(t) = {})
    BY <2>1, PointsFinite, FS_EmptySet
  <2>. QED  BY <2>1, <2>2
<1>6. \A t : t \in TimesAt(s) <=> t \in Times /\ to_outer[t] = s
  BY DEF TimesAt
<1>7. OutCounted(o, s) <=> \E t \in Times : to_outer[t] = s /\ S(t) # {}
  <2> HIDE DEF S
  <2>. QED  BY <1>2, <1>4, <1>5, <1>6 DEF OutCounted
<1>. QED  BY <1>7

(* Counted outer times are times at which something can leave the scope,    *)
(* and under every such time there is a counted one.                        *)
LEMMA OutCountedLeaves ==
    ASSUME TrackerInv, output_changes = NoOutput, NEW o \in ScopeOutputs, NEW s \in OuterTimes
    PROVE  /\ OutCounted(o, s) => CanLeave(o, s)
           /\ CanLeave(o, s) => \E r \in OuterTimes : Outer!less_equal(r, s) /\ OutCounted(o, r)
<1>1. ASSUME OutCounted(o, s)
      PROVE  CanLeave(o, s)
  <2>1. PICK t \in Times, p \in Points :
           to_outer[t] = s /\ AtOwnFrontier(p) /\ <<o, t>> \in output_summaries[p]
    BY <1>1, OutCountedMeans
  <2>2. /\ p[1] \notin ScopeInputs \cup ScopeOutputs
        /\ p \in Below[<<o, t>>]
    BY <2>1 DEF output_summaries
  <2>3. pointstamps[p[1]].updates[p[2]] > 0
    BY <2>1, PointParts DEF TrackerInv, AntichainsExact, Chain!Exact, Chain!Positive, AtOwnFrontier
  <2>4. Outer!less_equal(to_outer[t], s)
    BY <2>1, TrackerAssumption DEF Outer!Ordered
  <2>. QED  BY <2>2, <2>3, <2>4 DEF CanLeave
<1>2. ASSUME CanLeave(o, s)
      PROVE  \E r \in OuterTimes : Outer!less_equal(r, s) /\ OutCounted(o, r)
  <2>1. PICK q \in Points, t \in Times :
            /\ q[1] \notin ScopeInputs \cup ScopeOutputs
            /\ pointstamps[q[1]].updates[q[2]] > 0
            /\ q \in Below[<<o, t>>] /\ Outer!less_equal(to_outer[t], s)
    BY <1>2 DEF CanLeave
  <2>2. <<o, t>> \in Points
    BY TrackerAssumption, PointParts
  <2>3. PICK v \in pointstamps[q[1]].frontier : v \in Times /\ Chain!less_equal(v, q[2])
    BY <2>1, PointParts, ChainFrontier DEF TrackerInv, TypeOK, AntichainsExact
  <2> DEFINE f == <<q[1], v>>
  <2>4. f \in Points /\ NoLater(f, q) /\ AtOwnFrontier(f) /\ f[1] = q[1]
    BY <2>3, PointParts DEF NoLater, AtOwnFrontier
  <2> HIDE DEF f
  <2>5. f \in Below[<<o, t>>]
    BY <2>1, <2>2, <2>4, GraphFacts
  <2> DEFINE S == {u \in Points : f \in Below[u] /\ NoLater(u, <<o, t>>)}
  <2>6. PICK u \in S : \A w \in S : <<w, u>> \in Leq => w = u
    <3>1. S \in SUBSET Points /\ <<o, t>> \in S
      BY <2>2, <2>5, GraphFacts
    <3> HIDE DEF S
    <3>. QED  BY <3>1, LeastPoint
  <2>7. /\ u \in Points /\ u[1] = o /\ u[2] \in Times /\ u = <<o, u[2]>>
        /\ f \in Below[u] /\ Chain!less_equal(u[2], t)
    BY PointParts DEF NoLater
  <2>8. ASSUME NEW w \in Points, f \in Below[w], w[1] = u[1], Chain!less_than(w[2], u[2])
        PROVE  FALSE
    <3>1. NoLater(w, u) /\ w # u
      BY <2>8 DEF NoLater, Chain!less_than
    <3>2. w \in S /\ <<w, u>> \in Leq
      BY <2>2, <2>6, <2>8, <3>1, GraphFacts
    <3>. QED  BY <2>6, <3>1, <3>2
  <2>9. u \in output_summaries[f]
    <3> DEFINE reached == {w \in Points : w[1] \in ScopeOutputs /\ f \in Below[w]}
    <3>1. output_summaries[f] =
             {w \in reached : ~ \E r \in reached : r[1] = w[1] /\ Chain!less_than(r[2], w[2])}
      BY <2>1, <2>4 DEF output_summaries
    <3>2. u \in reached /\ \A r \in reached : r \in Points /\ f \in Below[r]
      BY <2>7
    <3> HIDE DEF reached
    <3>. QED  BY <2>8, <3>1, <3>2
  <2>10. OutCounted(o, to_outer[u[2]]) /\ to_outer[u[2]] \in OuterTimes
    <3>1. to_outer[u[2]] \in OuterTimes
      BY <2>7, TrackerAssumption
    <3>. QED  BY <2>4, <2>7, <2>9, <3>1, OutCountedMeans
  <2>11. Outer!less_equal(to_outer[u[2]], s)
    <3>1. Outer!less_equal(to_outer[u[2]], to_outer[t]) /\ to_outer[t] \in OuterTimes
      BY <2>7, TrackerAssumption
    <3>. QED  BY <2>1, <2>10, <3>1, TrackerAssumption DEF Outer!Ordered
  <2>. QED  BY <2>10, <2>11
<1>. QED  BY <1>1, <1>2

(* OutputsExact: what a scope reports to its parent is the antichain of the *)
(* parent's times at which something inside it could leave by the output.   *)
LEMMA OutputsBalancedIsExact == TrackerInv => OutputsExact
<1> SUFFICES ASSUME TrackerInv, Propagated, NEW o \in ScopeOutputs, NEW s \in OuterTimes
             PROVE  s \in output_capabilities[o].frontier <=>
                       CanLeave(o, s) /\ ~ \E r \in OuterTimes : Outer!less_than(r, s) /\ CanLeave(o, r)
  BY DEF OutputsExact
<1>1. output_changes = NoOutput
  BY DEF Propagated, Returned
<1>2. s \in output_capabilities[o].frontier <=>
         OutCounted(o, s) /\ ~ \E r \in OuterTimes : Outer!less_than(r, s) /\ OutCounted(o, r)
  BY DEF TrackerInv, AntichainsExact, Outer!Exact, Outer!Positive, OutCounted
<1>3. \A r \in OuterTimes :
         /\ OutCounted(o, r) => CanLeave(o, r)
         /\ CanLeave(o, r) => \E u \in OuterTimes : Outer!less_equal(u, r) /\ OutCounted(o, u)
  BY <1>1, OutCountedLeaves
<1>4. \A r, u \in OuterTimes :
         Outer!less_equal(u, r) /\ Outer!less_than(r, s) => Outer!less_than(u, s)
  BY TrackerAssumption DEF Outer!Ordered, Outer!less_than
<1>5. \A u \in OuterTimes : Outer!less_equal(u, s) => u = s \/ Outer!less_than(u, s)
  BY DEF Outer!less_than
<1>. QED  BY <1>2, <1>3, <1>4, <1>5

(* A scope never reports more, or less, to its parent than what it may      *)
(* still emit: exact for every scope, refinement of times and history.      *)
THEOREM OutputsAreExact == Spec => []OutputsExact
BY TrackerBalances, OutputsBalancedIsExact, PTL
=============================================================================
