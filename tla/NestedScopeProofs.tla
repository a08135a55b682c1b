-------------------------- MODULE NestedScopeProofs --------------------------
(***************************************************************************)
(* Proofs about a scope in a scope: no frontier of either scope passes     *)
(* what is alive (NestedSafe), for any number of workers and messages.     *)
(*                                                                         *)
(* Batches come first, then points and frontiers, then what operators may  *)
(* record.  From the invariant follows NestedSafe.  The steps of operators *)
(* are alike (MovedInv); a step of a worker is taken apart into what it    *)
(* hears, what its nested scope does, and what it sends.                   *)
(***************************************************************************)
EXTENDS NestedInvariant, OrderProofs, SequenceTheorems

-----------------------------------------------------------------------------
(* Batches of changes.                                                      *)

\* The operators of ScopeTracker say the same in both scopes.
LEMMA SameCounts ==
    /\ \A b, p : Inner!Count(b, p) = At(b, p) /\ Outer!Count(b, p) = At(b, p)
    /\ \A b, c : Outer!Plus(b, c) = Inner!Plus(b, c)
    /\ \A p, n : Outer!Change(p, n) = Inner!Change(p, n)
    /\ Outer!Nothing = Inner!Nothing
    /\ \A f : Outer!Total(f) = Inner!Total(f) /\ Outer!Totals(f) = Inner!Totals(f)
<1>1. \A b, p : Inner!Count(b, p) = At(b, p) /\ Outer!Count(b, p) = At(b, p)
  BY DEF Inner!Count, Outer!Count, At
<1>2. \A b, c : Outer!Plus(b, c) = Inner!Plus(b, c)
  BY <1>1 DEF Inner!Plus, Outer!Plus
<1>3. Outer!Nothing = Inner!Nothing /\ \A p, n : Outer!Change(p, n) = Inner!Change(p, n)
  BY DEF Outer!Nothing, Inner!Nothing, Outer!Change, Inner!Change
<1>4. \A f : Outer!SumFunction(f) = Inner!SumFunction(f)
  BY DEF Outer!SumFunction, Inner!SumFunction, Outer!SumFunctionOnSet, Inner!SumFunctionOnSet,
         Outer!FoldFunctionOnSet, Inner!FoldFunctionOnSet, Outer!MapThenFoldSet, Inner!MapThenFoldSet
<1>5. \A f : Outer!Total(f) = Inner!Total(f)
  BY <1>1, <1>4 DEF Outer!Total, Inner!Total
<1>6. \A f : Outer!Totals(f) = Inner!Totals(f)
  BY <1>5 DEF Outer!Totals, Inner!Totals
<1>. QED  BY <1>1, <1>2, <1>3, <1>5, <1>6

\* SumFunction is the sum over the domain.
LEMMA SameSums == \A f : Inner!SumFunction(f) = SumFunctionOnSet(f, DOMAIN f)
  BY DEF Inner!SumFunction, Inner!SumFunctionOnSet, Inner!FoldFunctionOnSet, Inner!MapThenFoldSet,
         SumFunctionOnSet, FoldFunctionOnSet, MapThenFoldSet

\* A batch is what it counts.
LEMMA BatchFacts ==
    ASSUME NEW P, NEW b \in Batches(P)
    PROVE  /\ DOMAIN b \subseteq P
           /\ \A p : At(b, p) \in Int /\ (At(b, p) # 0 <=> p \in DOMAIN b)
           /\ \A p \in DOMAIN b : b[p] = At(b, p)
<1>1. PICK D \in SUBSET P : b \in [D -> Int \ {0}]
  BY DEF Batches
<1>. QED  BY <1>1 DEF At

\* Two batches with the same counts are one.
LEMMA BatchEqual ==
    ASSUME NEW P, NEW b \in Batches(P), NEW c \in Batches(P), \A p \in P : At(b, p) = At(c, p)
    PROVE  b = c
<1>1. PICK D \in SUBSET P : b \in [D -> Int \ {0}]
  BY DEF Batches
<1>2. PICK E \in SUBSET P : c \in [E -> Int \ {0}]
  BY DEF Batches
<1>3. D = E
  <2>1. \A p \in P : p \in D <=> At(b, p) # 0
    BY <1>1 DEF At
  <2>2. \A p \in P : p \in E <=> At(c, p) # 0
    BY <1>2 DEF At
  <2>. QED  BY <2>1, <2>2
<1>4. \A p \in D : b[p] = c[p]
  BY <1>1, <1>2, <1>3 DEF At
<1>. QED  BY <1>1, <1>2, <1>3, <1>4

\* A batch is made of what it counts.
LEMMA BatchMade ==
    ASSUME NEW P, NEW f, NEW D \in SUBSET P, \A p \in D : f[p] \in Int \ {0}
    PROVE  /\ [p \in D |-> f[p]] \in Batches(P)
           /\ \A p : At([q \in D |-> f[q]], p) = IF p \in D THEN f[p] ELSE 0
  BY DEF Batches, At

\* A batch over some points is one over more.
LEMMA BatchMore ==
    ASSUME NEW P, NEW Q, P \subseteq Q
    PROVE  Batches(P) \subseteq Batches(Q)
  BY DEF Batches

\* A batch without counts is empty, and no other is.
LEMMA NothingFacts ==
    /\ \A P : Inner!Nothing \in Batches(P)
    /\ \A p : At(Inner!Nothing, p) = 0
    /\ \A P : \A b \in Batches(P) : (\A p \in P : At(b, p) = 0) => b = Inner!Nothing
<1>1. \A P : Inner!Nothing \in Batches(P)
  BY DEF Batches, Inner!Nothing
<1>2. \A p : At(Inner!Nothing, p) = 0
  BY DEF At, Inner!Nothing
<1>. QED  BY <1>1, <1>2, BatchEqual

\* A single change counts at its point, and nowhere else.
LEMMA ChangeFacts ==
    \A P : \A p \in P : \A n \in Int :
        /\ Inner!Change(p, n) \in Batches(P)
        /\ \A q : At(Inner!Change(p, n), q) = IF q = p THEN n ELSE 0
<1> SUFFICES ASSUME NEW P, NEW p \in P, NEW n \in Int
             PROVE  /\ Inner!Change(p, n) \in Batches(P)
                    /\ \A q : At(Inner!Change(p, n), q) = IF q = p THEN n ELSE 0
  OBVIOUS
<1>1. CASE n = 0
  BY <1>1, NothingFacts DEF Inner!Change
<1>2. CASE n # 0
  <2> DEFINE h == [q \in {p} |-> n]
  <2>1. Inner!Change(p, n) = h
    BY <1>2 DEF Inner!Change
  <2>2. h \in [{p} -> Int \ {0}] /\ DOMAIN h = {p} /\ h[p] = n
    BY <1>2
  <2> HIDE DEF h
  <2>3. h \in Batches(P)
    BY <2>2 DEF Batches
  <2>4. \A q : At(h, q) = IF q = p THEN n ELSE 0
    BY <2>2 DEF At
  <2>. QED  BY <2>1, <2>3, <2>4
<1>. QED  BY <1>1, <1>2

\* Adding batches adds their counts.
LEMMA PlusFacts ==
    \A P : \A b, c \in Batches(P) :
        /\ Inner!Plus(b, c) \in Batches(P)
        /\ \A p : At(Inner!Plus(b, c), p) = At(b, p) + At(c, p)
<1> SUFFICES ASSUME NEW P, NEW b \in Batches(P), NEW c \in Batches(P)
             PROVE  /\ Inner!Plus(b, c) \in Batches(P)
                    /\ \A p : At(Inner!Plus(b, c), p) = At(b, p) + At(c, p)
  OBVIOUS
<1> DEFINE D == {q \in DOMAIN b \cup DOMAIN c : At(b, q) + At(c, q) # 0}
<1>1. /\ DOMAIN b \subseteq P /\ DOMAIN c \subseteq P
      /\ \A p : At(b, p) \in Int /\ At(c, p) \in Int
      /\ \A p : p \notin DOMAIN b => At(b, p) = 0
      /\ \A p : p \notin DOMAIN c => At(c, p) = 0
  BY BatchFacts
<1>2. Inner!Plus(b, c) = [p \in D |-> At(b, p) + At(c, p)]
  BY SameCounts DEF Inner!Plus
<1>3. D \subseteq P /\ \A p \in D : At(b, p) + At(c, p) \in Int \ {0}
  BY <1>1
<1>4. \A p : p \notin D => At(b, p) + At(c, p) = 0
  BY <1>1
<1> HIDE DEF D
<1>5. [p \in D |-> At(b, p) + At(c, p)] \in [D -> Int \ {0}]
  BY <1>3
<1>6. Inner!Plus(b, c) \in Batches(P)
  BY <1>2, <1>3, <1>5 DEF Batches
<1>7. \A p : At([q \in D |-> At(b, q) + At(c, q)], p) = IF p \in D THEN At(b, p) + At(c, p) ELSE 0
  <2> DEFINE h == [q \in D |-> At(b, q) + At(c, q)]
  <2>1. DOMAIN h = D /\ \A p \in D : h[p] = At(b, p) + At(c, p)
    OBVIOUS
  <2> HIDE DEF h
  <2>2. \A p : At(h, p) = IF p \in D THEN At(b, p) + At(c, p) ELSE 0
    BY <2>1 DEF At
  <2>. QED  BY <2>2 DEF h
<1>. QED  BY <1>2, <1>4, <1>6, <1>7

\* Sums of finitely many batches.
LEMMA TotalFacts ==
    ASSUME NEW P, NEW f, IsFiniteSet(DOMAIN f), \A i \in DOMAIN f : f[i] \in Batches(P)
    PROVE  /\ Inner!Total(f) \in Batches(P)
           /\ \A p : At(Inner!Total(f), p) = SumFunctionOnSet([i \in DOMAIN f |-> At(f[i], p)], DOMAIN f)
<1> DEFINE g(p) == [i \in DOMAIN f |-> At(f[i], p)]
           sum(p) == SumFunctionOnSet(g(p), DOMAIN f)
           E == UNION {DOMAIN f[i] : i \in DOMAIN f}
           D == {q \in E : sum(q) # 0}
<1>1. \A p : \A i \in DOMAIN f : g(p)[i] \in Int /\ g(p)[i] = At(f[i], p)
  BY BatchFacts
<1>2. \A p : sum(p) \in Int
  BY <1>1, SumInt
<1>3. \A p : p \notin E => sum(p) = 0
  <2> SUFFICES ASSUME NEW p, p \notin E PROVE sum(p) = 0
    OBVIOUS
  <2>1. \A i \in DOMAIN f : g(p)[i] = 0
    BY <1>1 DEF At
  <2> HIDE DEF g
  <2>. QED  BY <2>1, SumZero
<1>4. Inner!Total(f) = [p \in D |-> sum(p)]
  <2>1. \A p : DOMAIN g(p) = DOMAIN f
    OBVIOUS
  <2>2. \A p : Inner!SumFunction(g(p)) = sum(p)
    BY <2>1, SameSums
  <2>3. \A p : [i \in DOMAIN f |-> Inner!Count(f[i], p)] = g(p)
    BY SameCounts
  <2>4. Inner!Total(f) = [p \in {q \in E : Inner!SumFunction(g(q)) # 0} |-> Inner!SumFunction(g(p))]
    BY <2>3 DEF Inner!Total
  <2>. QED  BY <2>2, <2>4
<1>5. E \subseteq P
  BY BatchFacts
<1>6. D \subseteq P /\ \A p \in D : sum(p) \in Int \ {0}
  BY <1>2, <1>5
<1>7. \A p : p \notin D => sum(p) = 0
  BY <1>3
<1> HIDE DEF sum, D, E
<1> DEFINE h == [p \in D |-> sum(p)]
<1>8. h \in [D -> Int \ {0}] /\ DOMAIN h = D /\ \A p \in D : h[p] = sum(p)
  BY <1>6
<1> HIDE DEF h
<1>9. h \in Batches(P)
  BY <1>6, <1>8 DEF Batches
<1>10. \A p : At(h, p) = sum(p)
  BY <1>7, <1>8 DEF At
<1>. QED  BY <1>4, <1>9, <1>10 DEF h, sum

\* ... in both scopes.
LEMMA OuterFacts ==
    \A P :
        /\ Outer!Nothing \in Batches(P)
        /\ \A p : At(Outer!Nothing, p) = 0
        /\ \A b \in Batches(P) : (\A p \in P : At(b, p) = 0) => b = Outer!Nothing
        /\ \A p \in P : \A n \in Int :
              /\ Outer!Change(p, n) \in Batches(P)
              /\ \A q : At(Outer!Change(p, n), q) = IF q = p THEN n ELSE 0
        /\ \A b, c \in Batches(P) :
              /\ Outer!Plus(b, c) \in Batches(P)
              /\ \A p : At(Outer!Plus(b, c), p) = At(b, p) + At(c, p)
<1> TAKE P
<1>1. Outer!Nothing \in Batches(P) /\ \A p : At(Outer!Nothing, p) = 0
  BY SameCounts, NothingFacts
<1>2. \A b \in Batches(P) : (\A p \in P : At(b, p) = 0) => b = Outer!Nothing
  BY SameCounts, NothingFacts
<1>3. \A p \in P : \A n \in Int : /\ Outer!Change(p, n) \in Batches(P)
                                  /\ \A q : At(Outer!Change(p, n), q) = IF q = p THEN n ELSE 0
  <2>1. \A p, n : Outer!Change(p, n) = Inner!Change(p, n)
    BY SameCounts
  <2>. QED  BY <2>1, ChangeFacts
<1>4. \A b, c \in Batches(P) : /\ Outer!Plus(b, c) \in Batches(P)
                               /\ \A p : At(Outer!Plus(b, c), p) = At(b, p) + At(c, p)
  <2>1. \A b, c : Outer!Plus(b, c) = Inner!Plus(b, c)
    BY SameCounts
  <2>. QED  BY <2>1, PlusFacts
<1>. QED  BY <1>1, <1>2, <1>3, <1>4

-----------------------------------------------------------------------------
(* Sums of families.                                                        *)

\* What a sum counts.
LEMMA TotalIn ==
    ASSUME NEW P, NEW S, IsFiniteSet(S), NEW f \in [S -> Batches(P)]
    PROVE  Inner!Total(f) \in Batches(P)
<1>1. DOMAIN f = S /\ \A i \in S : f[i] \in Batches(P)
  OBVIOUS
<1>2. IsFiniteSet(DOMAIN f) /\ \A i \in DOMAIN f : f[i] \in Batches(P)
  BY <1>1
<1>. QED  BY <1>2, TotalFacts

\* The total counts at a point what its parts count there.
LEMMA TotalAt ==
    ASSUME NEW P, NEW S, IsFiniteSet(S), NEW f \in [S -> Batches(P)], NEW p
    PROVE  /\ At(Inner!Total(f), p) = SumFunctionOnSet([i \in S |-> At(f[i], p)], S)
           /\ At(Inner!Total(f), p) \in Int
           /\ \A i \in S : At(f[i], p) \in Int
<1>1. DOMAIN f = S /\ \A i \in S : f[i] \in Batches(P)
  OBVIOUS
<1>2. At(Inner!Total(f), p) = SumFunctionOnSet([i \in S |-> At(f[i], p)], S)
  <2>1. IsFiniteSet(DOMAIN f) /\ \A i \in DOMAIN f : f[i] \in Batches(P)
    BY <1>1
  <2>2. At(Inner!Total(f), p) = SumFunctionOnSet([i \in DOMAIN f |-> At(f[i], p)], DOMAIN f)
    BY <2>1, TotalFacts
  <2>. QED  BY <1>1, <2>2
<1>3. At(Inner!Total(f), p) \in Int
  BY TotalIn, BatchFacts
<1>4. \A i \in S : At(f[i], p) \in Int
  BY <1>1, BatchFacts
<1>. QED  BY <1>2, <1>3, <1>4

\* Sums of two families.
LEMMA TotalPlus ==
    ASSUME NEW P, NEW S, IsFiniteSet(S), NEW f \in [S -> Batches(P)], NEW g \in [S -> Batches(P)],
           NEW h \in [S -> Batches(P)], NEW p, \A i \in S : At(h[i], p) = At(f[i], p) + At(g[i], p)
    PROVE  At(Inner!Total(h), p) = At(Inner!Total(f), p) + At(Inner!Total(g), p)
<1> DEFINE af == [i \in S |-> At(f[i], p)]
           ag == [i \in S |-> At(g[i], p)]
           ah == [i \in S |-> At(h[i], p)]
<1>1. At(Inner!Total(f), p) = SumFunctionOnSet(af, S) /\ \A i \in S : af[i] = At(f[i], p) /\ af[i] \in Int
  <2>1. At(Inner!Total(f), p) = SumFunctionOnSet(af, S)
    BY TotalAt
  <2>2. \A i \in S : At(f[i], p) \in Int
    BY TotalAt
  <2>. QED  BY <2>1, <2>2
<1>2. At(Inner!Total(g), p) = SumFunctionOnSet(ag, S) /\ \A i \in S : ag[i] = At(g[i], p) /\ ag[i] \in Int
  <2>1. At(Inner!Total(g), p) = SumFunctionOnSet(ag, S)
    BY TotalAt
  <2>2. \A i \in S : At(g[i], p) \in Int
    BY TotalAt
  <2>. QED  BY <2>1, <2>2
<1>3. At(Inner!Total(h), p) = SumFunctionOnSet(ah, S) /\ \A i \in S : ah[i] = At(h[i], p)
  <2>1. At(Inner!Total(h), p) = SumFunctionOnSet(ah, S)
    BY TotalAt
  <2>2. \A i \in S : At(h[i], p) \in Int
    BY TotalAt
  <2>. QED  BY <2>1, <2>2
<1> HIDE DEF af, ag, ah
<1>4. \A i \in S : af[i] \in Int /\ ag[i] \in Int /\ ah[i] = af[i] + ag[i]
  BY <1>1, <1>2, <1>3
<1>5. SumFunctionOnSet(ah, S) = SumFunctionOnSet(af, S) + SumFunctionOnSet(ag, S)
  BY <1>4, SumPlus
<1>. QED  BY <1>1, <1>2, <1>3, <1>5

\* One member of a family changes.
LEMMA TotalUpdate ==
    ASSUME NEW P, NEW S, IsFiniteSet(S), NEW f \in [S -> Batches(P)], NEW g \in [S -> Batches(P)],
           NEW x \in S, NEW p, \A i \in S \ {x} : At(g[i], p) = At(f[i], p)
    PROVE  At(Inner!Total(g), p) = At(Inner!Total(f), p) + (At(g[x], p) - At(f[x], p))
<1> DEFINE af == [i \in S |-> At(f[i], p)]
           ag == [i \in S |-> At(g[i], p)]
<1>1. At(Inner!Total(f), p) = SumFunctionOnSet(af, S) /\ \A i \in S : af[i] = At(f[i], p) /\ af[i] \in Int
  <2>1. At(Inner!Total(f), p) = SumFunctionOnSet(af, S)
    BY TotalAt
  <2>2. \A i \in S : At(f[i], p) \in Int
    BY TotalAt
  <2>. QED  BY <2>1, <2>2
<1>2. At(Inner!Total(g), p) = SumFunctionOnSet(ag, S) /\ \A i \in S : ag[i] = At(g[i], p) /\ ag[i] \in Int
  <2>1. At(Inner!Total(g), p) = SumFunctionOnSet(ag, S)
    BY TotalAt
  <2>2. \A i \in S : At(g[i], p) \in Int
    BY TotalAt
  <2>. QED  BY <2>1, <2>2
<1> HIDE DEF af, ag
<1>3. \A i \in S : af[i] \in Int /\ ag[i] \in Int /\ (i # x => ag[i] = af[i])
  BY <1>1, <1>2
<1>4. SumFunctionOnSet(ag, S) = SumFunctionOnSet(af, S) + (ag[x] - af[x])
  BY <1>3, SumUpdate
<1>. QED  BY <1>1, <1>2, <1>4

\* Sums of counts of one sign, and where a sum is positive.
LEMMA TotalSigns ==
    ASSUME NEW P, NEW S, IsFiniteSet(S), NEW f \in [S -> Batches(P)], NEW p
    PROVE  /\ (\A i \in S : At(f[i], p) >= 0) =>
                 /\ At(Inner!Total(f), p) >= 0
                 /\ \A i \in S : At(f[i], p) <= At(Inner!Total(f), p)
           /\ (\A i \in S : At(f[i], p) <= 0) =>
                 /\ At(Inner!Total(f), p) <= 0
                 /\ \A i \in S : At(f[i], p) >= At(Inner!Total(f), p)
           /\ At(Inner!Total(f), p) > 0 => \E i \in S : At(f[i], p) > 0
           /\ (\A i \in S : At(f[i], p) = 0) => At(Inner!Total(f), p) = 0
<1> DEFINE af == [i \in S |-> At(f[i], p)]
           n == At(Inner!Total(f), p)
<1>1. n = SumFunctionOnSet(af, S) /\ \A i \in S : af[i] = At(f[i], p) /\ af[i] \in Int
  <2>1. n = SumFunctionOnSet(af, S)
    BY TotalAt
  <2>2. \A i \in S : At(f[i], p) \in Int
    BY TotalAt
  <2>. QED  BY <2>1, <2>2
<1>2. n \in Int
  BY TotalAt
<1> HIDE DEF af, n
<1>3. ASSUME \A i \in S : At(f[i], p) >= 0 PROVE n >= 0 /\ \A i \in S : At(f[i], p) <= n
  <2>1. \A i \in S : af[i] \in Nat
    BY <1>1, <1>3
  <2>2. SumFunctionOnSet(af, S) \in Nat
    BY <2>1, SumPositive
  <2>3. \A i \in S : af[i] <= SumFunctionOnSet(af, S)
    BY <2>1, SumPart
  <2>. QED  BY <1>1, <2>2, <2>3
<1>4. ASSUME \A i \in S : At(f[i], p) <= 0 PROVE n <= 0 /\ \A i \in S : At(f[i], p) >= n
  <2>1. \A i \in S : af[i] \in Int /\ af[i] <= 0
    BY <1>1, <1>4
  <2>2. SumFunctionOnSet(af, S) <= 0 /\ \A i \in S : SumFunctionOnSet(af, S) <= af[i]
    BY <2>1, SumNegative
  <2>. QED  BY <1>1, <1>2, <2>2
<1>5. ASSUME n > 0 PROVE \E i \in S : At(f[i], p) > 0
  <2>1. \A i \in S : af[i] \in Int
    BY <1>1
  <2>2. \E i \in S : af[i] > 0
    BY <1>1, <1>5, <2>1, SumSome
  <2>. QED  BY <1>1, <2>2
<1>6. ASSUME \A i \in S : At(f[i], p) = 0 PROVE n = 0
  <2>1. \A i \in S : af[i] = 0
    BY <1>1, <1>6
  <2>. QED  BY <1>1, <2>1, SumZero
<1>. QED  BY <1>3, <1>4, <1>5, <1>6 DEF n

-----------------------------------------------------------------------------
(* Batches in a channel.                                                    *)

\* The total of a sequence of batches is a batch.
LEMMA SequenceTotal ==
    ASSUME NEW P, NEW s \in Seq(Batches(P))
    PROVE  /\ IsFiniteSet(1 .. Len(s)) /\ s \in [1 .. Len(s) -> Batches(P)]
           /\ Inner!Total(s) \in Batches(P)
<1>1. s \in [1 .. Len(s) -> Batches(P)] /\ Len(s) \in Nat
  OBVIOUS
<1>2. IsFiniteSet(1 .. Len(s))
  BY <1>1, FS_Interval
<1>. QED  BY <1>1, <1>2, TotalIn

\* The total of nothing.
LEMMA EmptyTotal == Inner!Total(<<>>) = Inner!Nothing
<1>1. <<>> \in Seq(Batches({}))
  OBVIOUS
<1>2. Inner!Total(<<>>) \in Batches({})
  BY <1>1, SequenceTotal
<1>. QED  BY <1>2, NothingFacts

\* One more batch adds its counts to the total.
LEMMA AppendTotal ==
    ASSUME NEW P, NEW s \in Seq(Batches(P)), NEW b \in Batches(P), NEW p
    PROVE  At(Inner!Total(Append(s, b)), p) = At(Inner!Total(s), p) + At(b, p)
<1> DEFINE n == Len(s)
           t == Append(s, b)
           as == [i \in 1 .. n |-> At(s[i], p)]
           bs == [i \in 1 .. n + 1 |-> At(t[i], p)]
<1>1. n \in Nat /\ t \in Seq(Batches(P)) /\ Len(t) = n + 1 /\ t[n + 1] = b /\ \A i \in 1 .. n : t[i] = s[i]
  OBVIOUS
<1>2. /\ s \in [1 .. n -> Batches(P)] /\ IsFiniteSet(1 .. n)
      /\ t \in [1 .. n + 1 -> Batches(P)] /\ IsFiniteSet(1 .. n + 1)
  <2>1. t \in [1 .. Len(t) -> Batches(P)] /\ IsFiniteSet(1 .. Len(t))
    BY <1>1, SequenceTotal
  <2>2. s \in [1 .. Len(s) -> Batches(P)] /\ IsFiniteSet(1 .. Len(s))
    BY SequenceTotal
  <2> HIDE DEF t
  <2>. QED  BY <1>1, <2>1, <2>2
<1> HIDE DEF n, t
<1>3. At(Inner!Total(s), p) = SumFunctionOnSet(as, 1 .. n) /\ \A i \in 1 .. n : as[i] = At(s[i], p) /\ as[i] \in Int
  <2>1. At(Inner!Total(s), p) = SumFunctionOnSet(as, 1 .. n)
    <3> DEFINE D == 1 .. n
    <3>1. s \in [D -> Batches(P)] /\ IsFiniteSet(D)
      BY <1>2
    <3> HIDE DEF D
    <3>2. At(Inner!Total(s), p) = SumFunctionOnSet([i \in D |-> At(s[i], p)], D)
      BY <3>1, TotalAt
    <3>. QED  BY <3>2 DEF D
  <2>2. \A i \in 1 .. n : At(s[i], p) \in Int
    BY <1>2, TotalAt
  <2>. QED  BY <2>1, <2>2
<1>4. At(Inner!Total(t), p) = SumFunctionOnSet(bs, 1 .. n + 1) /\ \A i \in 1 .. n + 1 : bs[i] = At(t[i], p) /\ bs[i] \in Int
  <2>1. At(Inner!Total(t), p) = SumFunctionOnSet(bs, 1 .. n + 1)
    <3> DEFINE D == 1 .. n + 1
    <3>1. t \in [D -> Batches(P)] /\ IsFiniteSet(D)
      BY <1>2
    <3> HIDE DEF D
    <3>2. At(Inner!Total(t), p) = SumFunctionOnSet([i \in D |-> At(t[i], p)], D)
      BY <3>1, TotalAt
    <3>. QED  BY <3>2 DEF D
  <2>2. \A i \in 1 .. n + 1 : At(t[i], p) \in Int
    BY <1>2, TotalAt
  <2>. QED  BY <2>1, <2>2
<1> HIDE DEF as, bs
<1>5. SumFunctionOnSet(bs, 1 .. n + 1) = bs[n + 1] + SumFunctionOnSet(bs, (1 .. n + 1) \ {n + 1})
  <2>1. n + 1 \in 1 .. n + 1
    BY <1>1
  <2>. QED  BY <1>2, <1>4, <2>1, SumRemove
<1>6. (1 .. n + 1) \ {n + 1} = 1 .. n
  BY <1>1
<1>7. SumFunctionOnSet(bs, 1 .. n) = SumFunctionOnSet(as, 1 .. n)
  <2>1. \A i \in 1 .. n : as[i] \in Int /\ bs[i] = as[i]
    <3>1. \A i \in 1 .. n : i \in 1 .. n + 1
      BY <1>1
    <3>. QED  BY <1>1, <1>3, <1>4, <3>1
  <2>. QED  BY <1>2, <2>1, SumSame
<1>8. bs[n + 1] = At(b, p) /\ At(b, p) \in Int
  <2>1. n + 1 \in 1 .. n + 1
    BY <1>1
  <2>. QED  BY <1>1, <1>4, <2>1
<1>9. At(Inner!Total(s), p) \in Int
  BY SequenceTotal, BatchFacts
<1>10. At(Inner!Total(t), p) = SumFunctionOnSet(bs, 1 .. n + 1) /\ At(Inner!Total(s), p) = SumFunctionOnSet(as, 1 .. n)
  BY <1>3, <1>4
<1>11. SumFunctionOnSet(bs, 1 .. n + 1) = At(b, p) + SumFunctionOnSet(as, 1 .. n)
  BY <1>5, <1>6, <1>7, <1>8
<1>12. At(Inner!Total(t), p) = At(Inner!Total(s), p) + At(b, p)
  <2>1. At(Inner!Total(t), p) = At(b, p) + At(Inner!Total(s), p)
    BY <1>10, <1>11, Zenon
  <2>. QED  BY <1>8, <1>9, <2>1
<1>. QED  BY <1>12 DEF t

\* A channel up to some batch, and from there.
LEMMA SplitTotal ==
    ASSUME NEW P, NEW s \in Seq(Batches(P)), NEW k \in 0 .. Len(s), NEW p
    PROVE  /\ SubSeq(s, 1, k) \in Seq(Batches(P)) /\ SubSeq(s, k + 1, Len(s)) \in Seq(Batches(P))
           /\ At(Inner!Total(s), p) = At(Inner!Total(SubSeq(s, 1, k)), p)
                                        + At(Inner!Total(SubSeq(s, k + 1, Len(s))), p)
<1> DEFINE head(n) == At(Inner!Total(SubSeq(s, 1, n)), p)
           tail(n) == At(Inner!Total(SubSeq(s, k + 1, n)), p)
           Bad == {n \in k .. Len(s) : head(n) # head(k) + tail(n)}
<1>0. Len(s) \in Nat /\ k \in Nat /\ k <= Len(s)
  OBVIOUS
<1>1. \A n \in k .. Len(s) : SubSeq(s, 1, n) \in Seq(Batches(P)) /\ SubSeq(s, k + 1, n) \in Seq(Batches(P))
  <2> SUFFICES ASSUME NEW n \in k .. Len(s)
               PROVE  SubSeq(s, 1, n) \in Seq(Batches(P)) /\ SubSeq(s, k + 1, n) \in Seq(Batches(P))
    OBVIOUS
  <2>1. \A i \in 1 .. n : s[i] \in Batches(P)
    BY <1>0
  <2>2. \A i \in k + 1 .. n : s[i] \in Batches(P)
    BY <1>0
  <2>3. n \in Int /\ 1 \in Int /\ k + 1 \in Int
    BY <1>0
  <2>4. 1 .. n \subseteq DOMAIN s /\ k + 1 .. n \subseteq DOMAIN s
    BY <1>0
  <2>. QED  BY <2>3, <2>4, SubSeqProperties
<1>2. \A n \in k .. Len(s) : head(n) \in Int /\ tail(n) \in Int
  <2> SUFFICES ASSUME NEW n \in k .. Len(s) PROVE head(n) \in Int /\ tail(n) \in Int
    OBVIOUS
  <2>1. Inner!Total(SubSeq(s, 1, n)) \in Batches(P)
    BY <1>1, SequenceTotal
  <2>2. Inner!Total(SubSeq(s, k + 1, n)) \in Batches(P)
    BY <1>1, SequenceTotal
  <2>. QED  BY <2>1, <2>2, BatchFacts
<1>3. \A n \in k .. Len(s) : n + 1 \in k .. Len(s) =>
          head(n + 1) = head(n) + At(s[n + 1], p) /\ tail(n + 1) = tail(n) + At(s[n + 1], p)
  <2> SUFFICES ASSUME NEW n \in k .. Len(s), n + 1 \in k .. Len(s)
               PROVE  head(n + 1) = head(n) + At(s[n + 1], p) /\ tail(n + 1) = tail(n) + At(s[n + 1], p)
    OBVIOUS
  <2>1. SubSeq(s, 1, n + 1) = Append(SubSeq(s, 1, n), s[n + 1])
    BY <1>0
  <2>2. SubSeq(s, k + 1, n + 1) = Append(SubSeq(s, k + 1, n), s[n + 1])
    BY <1>0
  <2>3. s[n + 1] \in Batches(P)
    BY <1>0
  <2>4. SubSeq(s, 1, n) \in Seq(Batches(P)) /\ SubSeq(s, k + 1, n) \in Seq(Batches(P))
    BY <1>1
  <2>5. At(Inner!Total(Append(SubSeq(s, 1, n), s[n + 1])), p) = head(n) + At(s[n + 1], p)
    BY <2>3, <2>4, AppendTotal
  <2>6. At(Inner!Total(Append(SubSeq(s, k + 1, n), s[n + 1])), p) = tail(n) + At(s[n + 1], p)
    BY <2>3, <2>4, AppendTotal
  <2>. QED  BY <2>1, <2>2, <2>5, <2>6
<1>4. tail(k) = 0
  <2>1. SubSeq(s, k + 1, k) = <<>>
    BY <1>0
  <2>. QED  BY <2>1, EmptyTotal, NothingFacts
<1> HIDE DEF head, tail
<1>5. Bad = {}
  <2> SUFFICES ASSUME Bad # {} PROVE FALSE
    OBVIOUS
  <2>1. PICK n \in Bad : \A m \in Bad : n <= m
    <3>1. Bad \in SUBSET Int /\ IsFiniteSet(Bad)
      <4>1. Bad \subseteq k .. Len(s) /\ k .. Len(s) \subseteq Int
        BY <1>0
      <4>2. IsFiniteSet(k .. Len(s))
        BY <1>0, FS_Interval
      <4> HIDE DEF Bad
      <4>. QED  BY <4>1, <4>2, FS_Subset
    <3> HIDE DEF Bad
    <3>. QED  BY <3>1, SmallestExists
  <2>2. n # k
    BY <1>0, <1>2, <1>4, <2>1
  <2>3. n - 1 \in k .. Len(s) /\ n - 1 \notin Bad /\ n = (n - 1) + 1
    BY <1>0, <2>1, <2>2
  <2>4. head(n - 1) = head(k) + tail(n - 1)
    BY <2>3
  <2>5. head(n) = head(n - 1) + At(s[n], p) /\ tail(n) = tail(n - 1) + At(s[n], p)
    <3>1. (n - 1) + 1 \in k .. Len(s)
      BY <2>1, <2>3
    <3>2. /\ head((n - 1) + 1) = head(n - 1) + At(s[(n - 1) + 1], p)
          /\ tail((n - 1) + 1) = tail(n - 1) + At(s[(n - 1) + 1], p)
      BY <1>3, <2>3, <3>1
    <3>. QED  BY <2>3, <3>2
  <2>6. At(s[n], p) \in Int
    <3>1. s[n] \in Batches(P)
      BY <1>0, <2>1, <2>2
    <3>. QED  BY <3>1, BatchFacts
  <2>7. head(k) \in Int /\ tail(n - 1) \in Int
    BY <1>0, <1>2, <2>3
  <2>. QED  BY <2>1, <2>4, <2>5, <2>6, <2>7
<1>6. head(Len(s)) = head(k) + tail(Len(s))
  BY <1>0, <1>5
<1>7. SubSeq(s, 1, Len(s)) = s
  BY <1>0
<1>8. SubSeq(s, 1, k) \in Seq(Batches(P)) /\ SubSeq(s, k + 1, Len(s)) \in Seq(Batches(P))
  BY <1>0, <1>1
<1>. QED  BY <1>6, <1>7, <1>8 DEF head, tail

-----------------------------------------------------------------------------
(* Points and frontiers.                                                    *)

\* Outer times are numbers, and there are finitely many of each kind.
LEMMA ConstantFacts ==
    /\ IsFiniteSet(Workers) /\ MaxTime \in Nat /\ MaxRound \in Nat
    /\ 0 \in OuterTimes /\ OuterTimes \subseteq Nat /\ IsFiniteSet(OuterTimes)
    /\ \A t \in OuterTimes : to_inner(t) \in InnerTimes
    /\ \A t \in InnerTimes : t.outer \in OuterTimes /\ t.outer \in Nat /\ t.round \in Nat
<1>1. IsFiniteSet(Workers) /\ MaxTime \in Nat /\ MaxRound \in Nat
  BY NestedAssumption
<1>2. 0 \in OuterTimes /\ OuterTimes \subseteq Nat /\ IsFiniteSet(OuterTimes)
  BY <1>1, FS_Interval DEF OuterTimes
<1>3. \A t \in OuterTimes : to_inner(t) \in InnerTimes
  BY <1>1 DEF to_inner, InnerTimes
<1>4. \A t \in InnerTimes : t.outer \in OuterTimes /\ t.outer \in Nat /\ t.round \in Nat
  <2> TAKE t \in InnerTimes
  <2>1. t.outer \in OuterTimes /\ t.round \in 0 .. MaxRound
    BY DEF InnerTimes
  <2>2. t.round \in Nat
    BY <1>1, <2>1
  <2>3. t.outer \in Nat
    BY <1>2, <2>1
  <2>. QED  BY <2>1, <2>2, <2>3
<1>. QED  BY <1>1, <1>2, <1>3, <1>4

\* A point of the nested scope is a port and a time.
LEMMA InnerPointFacts ==
    /\ \A p \in InnerPoints : p[1] \in 1 .. 4 /\ p[2] \in InnerTimes /\ p = <<p[1], p[2]>>
    /\ \A l \in 1 .. 4 : \A t \in InnerTimes : <<l, t>> \in InnerPoints /\ <<l, t>>[1] = l /\ <<l, t>>[2] = t
<1>1. ASSUME NEW p \in InnerPoints PROVE p[1] \in 1 .. 4 /\ p[2] \in InnerTimes /\ p = <<p[1], p[2]>>
  <2>1. PICK e \in (1 .. 4) \X InnerTimes : p = <<e[1], e[2]>>
    BY DEF InnerPoints
  <2>. QED  BY <2>1
<1>2. ASSUME NEW l \in 1 .. 4, NEW t \in InnerTimes
      PROVE  <<l, t>> \in InnerPoints /\ <<l, t>>[1] = l /\ <<l, t>>[2] = t
  <2> DEFINE e == <<l, t>>
  <2>1. e \in (1 .. 4) \X InnerTimes /\ e = <<e[1], e[2]>> /\ e[1] = l /\ e[2] = t
    OBVIOUS
  <2> HIDE DEF e
  <2>2. e \in InnerPoints
    BY <2>1 DEF InnerPoints
  <2>. QED  BY <2>1, <2>2 DEF e
<1>. QED  BY <1>1, <1>2

\* A point of the outer scope is a port and a time.
LEMMA OuterPointFacts ==
    /\ \A p \in OuterPoints : p[1] \in 1 .. 4 /\ p[2] \in OuterTimes /\ p = <<p[1], p[2]>>
    /\ \A l \in 1 .. 4 : \A t \in OuterTimes : <<l, t>> \in OuterPoints /\ <<l, t>>[1] = l /\ <<l, t>>[2] = t
<1>1. ASSUME NEW p \in OuterPoints PROVE p[1] \in 1 .. 4 /\ p[2] \in OuterTimes /\ p = <<p[1], p[2]>>
  <2>1. PICK e \in (1 .. 4) \X OuterTimes : p = <<e[1], e[2]>>
    BY DEF OuterPoints
  <2>. QED  BY <2>1
<1>2. ASSUME NEW l \in 1 .. 4, NEW t \in OuterTimes
      PROVE  <<l, t>> \in OuterPoints /\ <<l, t>>[1] = l /\ <<l, t>>[2] = t
  <2> DEFINE e == <<l, t>>
  <2>1. e \in (1 .. 4) \X OuterTimes /\ e = <<e[1], e[2]>> /\ e[1] = l /\ e[2] = t
    OBVIOUS
  <2> HIDE DEF e
  <2>2. e \in OuterPoints
    BY <2>1 DEF OuterPoints
  <2>. QED  BY <2>1, <2>2 DEF e
<1>. QED  BY <1>1, <1>2

\* Leq is a partial order.
LEMMA LeqFacts ==
    /\ \A p \in InnerPoints : Leq(p, p)
    /\ \A p, q, r \in InnerPoints : Leq(p, q) /\ Leq(q, r) => Leq(p, r)
    /\ \A p, q \in InnerPoints : Leq(p, q) /\ Leq(q, p) => p = q
<1>1. \A p \in InnerPoints : p[1] \in Int /\ p[2].outer \in Int /\ p[2].round \in Int
  BY InnerPointFacts, ConstantFacts
<1>2. \A p \in InnerPoints : Leq(p, p)
  BY <1>1 DEF Leq
<1>3. \A p, q, r \in InnerPoints : Leq(p, q) /\ Leq(q, r) => Leq(p, r)
  BY <1>1 DEF Leq
<1>4. ASSUME NEW p \in InnerPoints, NEW q \in InnerPoints, Leq(p, q), Leq(q, p) PROVE p = q
  <2>1. p[1] = q[1] /\ p[2].outer = q[2].outer /\ p[2].round = q[2].round
    BY <1>1, <1>4 DEF Leq
  <2>2. p[2] = q[2]
    BY <2>1, InnerPointFacts DEF InnerTimes
  <2>. QED  BY <2>1, <2>2, InnerPointFacts
<1>. QED  BY <1>2, <1>3, <1>4

\* Some point of a set comes first.
LEMMA FirstPoint ==
    ASSUME NEW S \in SUBSET InnerPoints, S # {}
    PROVE  \E p \in S : \A q \in S : Leq(q, p) => q = p
<1> DEFINE size(p) == p[1] + p[2].outer + p[2].round
           sizes == {size(p) : p \in S}
<1>1. \A p \in S : /\ p \in InnerPoints
                   /\ p[1] \in 1 .. 4 /\ p[2].outer \in 0 .. MaxTime /\ p[2].round \in 0 .. MaxRound
  BY InnerPointFacts, ConstantFacts DEF OuterTimes, InnerTimes
<1>2. sizes \subseteq 0 .. 4 + MaxTime + MaxRound
  BY <1>1, ConstantFacts
<1>3. IsFiniteSet(sizes) /\ sizes \in SUBSET Int /\ sizes # {}
  <2>1. IsFiniteSet(0 .. 4 + MaxTime + MaxRound)
    BY ConstantFacts, FS_Interval
  <2>2. sizes # {}
    OBVIOUS
  <2> HIDE DEF sizes
  <2>3. IsFiniteSet(sizes)
    BY <1>2, <2>1, FS_Subset
  <2>4. sizes \in SUBSET Int
    BY <1>2, ConstantFacts
  <2>. QED  BY <2>2, <2>3, <2>4
<1>4. PICK m \in sizes : \A n \in sizes : m <= n
  <2> HIDE DEF sizes
  <2>. QED  BY <1>3, SmallestExists
<1>5. PICK p \in S : m = size(p)
  OBVIOUS
<1>6. ASSUME NEW q \in S, Leq(q, p) PROVE q = p
  <2>1. size(p) <= size(q)
    BY <1>4, <1>5
  <2>2. q[1] <= p[1] /\ q[2].outer <= p[2].outer /\ q[2].round <= p[2].round
    BY <1>6 DEF Leq
  <2>3. Leq(p, q)
    BY <1>1, <2>1, <2>2 DEF Leq
  <2>. QED  BY <1>1, <1>6, <2>3, LeqFacts
<1>. QED  BY <1>6

\* The order of the nested times.
LEMMA InnerOrder ==
    \A s, t \in InnerTimes : Inner!less_equal(s, t) <=> s.outer <= t.outer /\ s.round <= t.round
<1> SUFFICES ASSUME NEW s \in InnerTimes, NEW t \in InnerTimes
             PROVE  Inner!less_equal(s, t) <=> s.outer <= t.outer /\ s.round <= t.round
  OBVIOUS
<1>1. Inner!less_equal(s, t) <=> <<s, t>> \in InnerLeq
  BY DEF Inner!less_equal
<1>2. <<s, t>> \in InnerLeq <=> s.outer <= t.outer /\ s.round <= t.round
  <2> DEFINE D == {d \in InnerTimes \X InnerTimes : d[1].outer <= d[2].outer /\ d[1].round <= d[2].round}
             e == <<s, t>>
  <2>1. e \in InnerTimes \X InnerTimes /\ e[1] = s /\ e[2] = t /\ e = <<e[1], e[2]>>
    OBVIOUS
  <2>2. InnerLeq = {<<d[1], d[2]>> : d \in D}
    BY DEF InnerLeq
  <2>3. e \in D <=> s.outer <= t.outer /\ s.round <= t.round
    BY <2>1
  <2>4. \A d \in D : d \in InnerTimes \X InnerTimes /\ d = <<d[1], d[2]>>
    OBVIOUS
  <2> HIDE DEF D, e
  <2>5. e \in InnerLeq <=> e \in D
    BY <2>1, <2>2, <2>4
  <2>. QED  BY <2>3, <2>5 DEF e
<1>. QED  BY <1>1, <1>2

\* Outer times are ordered as numbers.
LEMMA OuterOrder ==
    \A s, t \in OuterTimes : /\ Outer!less_equal(s, t) <=> s <= t
                             /\ Outer!less_than(s, t) <=> s <= t /\ s # t
<1> SUFFICES ASSUME NEW s \in OuterTimes, NEW t \in OuterTimes
             PROVE  Outer!less_equal(s, t) <=> s <= t
  BY DEF Outer!less_than
<1>1. Outer!less_equal(s, t) <=> <<s, t>> \in OuterLeq
  BY DEF Outer!less_equal
<1>2. <<s, t>> \in OuterLeq <=> s <= t
  <2> DEFINE D == {d \in OuterTimes \X OuterTimes : d[1] <= d[2]}
             e == <<s, t>>
  <2>1. e \in OuterTimes \X OuterTimes /\ e[1] = s /\ e[2] = t /\ e = <<e[1], e[2]>>
    OBVIOUS
  <2>2. OuterLeq = {<<d[1], d[2]>> : d \in D}
    BY DEF OuterLeq
  <2>3. e \in D <=> s <= t
    BY <2>1
  <2>4. \A d \in D : d \in OuterTimes \X OuterTimes /\ d = <<d[1], d[2]>>
    OBVIOUS
  <2> HIDE DEF D, e
  <2>5. e \in OuterLeq <=> e \in D
    BY <2>1, <2>2, <2>4
  <2>. QED  BY <2>3, <2>5 DEF e
<1>. QED  BY <1>1, <1>2

\* What the counts of a tracker imply.
LEMMA InnerImplied ==
    ASSUME NEW T \in Batches(InnerPoints), NEW l \in 1 .. 4, NEW t \in InnerTimes
    PROVE  Inner!Implied(T, l, t) <=> \E q \in InnerPoints : Leq(q, <<l, t>>) /\ At(T, q) > 0
<1>1. <<l, t>> \in InnerPoints /\ <<l, t>>[1] = l /\ <<l, t>>[2] = t
  BY InnerPointFacts
<1>2. InnerBelow[<<l, t>>] = {q \in InnerPoints : q[1] <= l /\ <<q[2], t>> \in InnerLeq}
  BY <1>1, Zenon DEF InnerBelow, Reaches
<1>3. \A q \in InnerPoints : q \in InnerBelow[<<l, t>>] <=> Leq(q, <<l, t>>)
  <2> TAKE q \in InnerPoints
  <2>1. <<q[2], t>> \in InnerLeq <=> q[2].outer <= t.outer /\ q[2].round <= t.round
    BY InnerOrder, InnerPointFacts DEF Inner!less_equal
  <2>. QED  BY <1>1, <1>2, <2>1 DEF Leq
<1>4. \A q : q \in Inner!Counted(T) <=> q \in InnerPoints /\ At(T, q) > 0
  <2>1. DOMAIN T \subseteq InnerPoints /\ \A q : q \notin DOMAIN T => At(T, q) = 0
    BY BatchFacts
  <2>2. \A q \in DOMAIN T : At(T, q) = T[q]
    BY DEF At
  <2>. QED  BY <2>1, <2>2 DEF Inner!Counted
<1>5. InnerBelow[<<l, t>>] \subseteq InnerPoints
  BY <1>2
<1>6. Inner!Implied(T, l, t) <=> \E q : q \in Inner!Counted(T) /\ q \in InnerBelow[<<l, t>>]
  BY DEF Inner!Implied
<1>. QED  BY <1>3, <1>4, <1>5, <1>6

\* A time is implied in the outer scope by a count at an earlier port and time.
LEMMA OuterImplied ==
    ASSUME NEW T \in Batches(OuterPoints), NEW l \in 1 .. 4, NEW t \in OuterTimes
    PROVE  Outer!Implied(T, l, t) <=>
               \E m \in 1 .. 4 : \E s \in OuterTimes : m <= l /\ s <= t /\ At(T, <<m, s>>) > 0
<1>1. <<l, t>> \in OuterPoints /\ <<l, t>>[1] = l /\ <<l, t>>[2] = t
  BY OuterPointFacts
<1>2. OuterBelow[<<l, t>>] = {q \in OuterPoints : q[1] <= l /\ <<q[2], t>> \in OuterLeq}
  BY <1>1, Zenon DEF OuterBelow, Reaches
<1>3. \A q \in OuterPoints : q \in OuterBelow[<<l, t>>] <=> q[1] <= l /\ q[2] <= t
  <2> TAKE q \in OuterPoints
  <2>1. <<q[2], t>> \in OuterLeq <=> q[2] <= t
    BY OuterOrder, OuterPointFacts DEF Outer!less_equal
  <2>. QED  BY <1>2, <2>1
<1>4. \A q : q \in Outer!Counted(T) <=> q \in OuterPoints /\ At(T, q) > 0
  <2>1. DOMAIN T \subseteq OuterPoints /\ \A q : q \notin DOMAIN T => At(T, q) = 0
    BY BatchFacts
  <2>2. \A q \in DOMAIN T : At(T, q) = T[q]
    BY DEF At
  <2>. QED  BY <2>1, <2>2 DEF Outer!Counted
<1>5. Outer!Implied(T, l, t) <=> \E q : q \in Outer!Counted(T) /\ q \in OuterBelow[<<l, t>>]
  BY DEF Outer!Implied
<1>6. Outer!Implied(T, l, t) <=> \E q \in OuterPoints : q[1] <= l /\ q[2] <= t /\ At(T, q) > 0
  BY <1>3, <1>4, <1>5
<1>7. (\E q \in OuterPoints : q[1] <= l /\ q[2] <= t /\ At(T, q) > 0)
        <=> \E m \in 1 .. 4 : \E s \in OuterTimes : m <= l /\ s <= t /\ At(T, <<m, s>>) > 0
  <2>1. ASSUME NEW q \in OuterPoints, q[1] <= l /\ q[2] <= t /\ At(T, q) > 0
        PROVE  \E m \in 1 .. 4 : \E s \in OuterTimes : m <= l /\ s <= t /\ At(T, <<m, s>>) > 0
    <3>1. q[1] \in 1 .. 4 /\ q[2] \in OuterTimes /\ q = <<q[1], q[2]>>
      BY OuterPointFacts
    <3>2. At(T, <<q[1], q[2]>>) > 0
      BY <2>1, <3>1
    <3>. QED  BY <2>1, <3>1, <3>2
  <2>2. ASSUME NEW m \in 1 .. 4, NEW s \in OuterTimes, m <= l /\ s <= t /\ At(T, <<m, s>>) > 0
        PROVE  \E q \in OuterPoints : q[1] <= l /\ q[2] <= t /\ At(T, q) > 0
    <3>1. <<m, s>> \in OuterPoints /\ <<m, s>>[1] = m /\ <<m, s>>[2] = s
      BY OuterPointFacts
    <3>. QED  BY <2>2, <3>1
  <2>. QED  BY <2>1, <2>2
<1>. QED  BY <1>6, <1>7

\* Later times and later ports are implied as well.
LEMMA OuterLater ==
    ASSUME NEW T \in Batches(OuterPoints), NEW l \in 1 .. 4, NEW m \in 1 .. 4, l <= m,
           NEW s \in OuterTimes, NEW t \in OuterTimes, s <= t, Outer!Implied(T, l, s)
    PROVE  Outer!Implied(T, m, t)
<1>1. PICK k \in 1 .. 4, r \in OuterTimes : k <= l /\ r <= s /\ At(T, <<k, r>>) > 0
  BY OuterImplied
<1>2. k <= m /\ r <= t
  BY <1>1, ConstantFacts
<1>. QED  BY <1>1, <1>2, OuterImplied

\* Earliest times exist.
LEMMA OuterLeast ==
    ASSUME NEW S \in SUBSET OuterTimes
    PROVE  Outer!Least(S) \subseteq S /\ \A t \in S : \E s \in Outer!Least(S) : s <= t
<1>1. Outer!Least(S) \subseteq S
  BY DEF Outer!Least
<1>2. ASSUME NEW t \in S PROVE \E s \in Outer!Least(S) : s <= t
  <2>1. S \in SUBSET Int /\ IsFiniteSet(S) /\ S # {}
    <3>1. IsFiniteSet(S)
      BY ConstantFacts, FS_Subset
    <3>. QED  BY <1>2, <3>1, ConstantFacts
  <2>2. PICK m \in S : \A x \in S : m <= x
    BY <2>1, SmallestExists
  <2>3. \A x \in S : ~ Outer!less_than(x, m)
    <3> TAKE x \in S
    <3>1. x \in OuterTimes /\ m \in OuterTimes /\ x \in Nat /\ m \in Nat /\ m <= x
      BY <2>2, ConstantFacts
    <3>2. ~ (x <= m /\ x # m)
      BY <3>1
    <3>. QED  BY <3>1, <3>2, OuterOrder
  <2>4. m \in Outer!Least(S)
    BY <2>3 DEF Outer!Least
  <2>. QED  BY <2>2, <2>4
<1>. QED  BY <1>1, <1>2

\* Each time of a set has a least one of the set before it.
LEMMA InnerLeast ==
    ASSUME NEW S \in SUBSET InnerTimes
    PROVE  /\ Inner!Least(S) \subseteq S
           /\ \A t \in S : \E s \in Inner!Least(S) : s.outer <= t.outer /\ s.round <= t.round
<1>1. Inner!Least(S) \subseteq S
  BY DEF Inner!Least
<1>2. ASSUME NEW t \in S PROVE \E s \in Inner!Least(S) : s.outer <= t.outer /\ s.round <= t.round
  <2> DEFINE R == {q \in InnerPoints : q[1] = 1 /\ q[2] \in S /\ Leq(q, <<1, t>>)}
  <2>1. \A s \in S : <<1, s>> \in InnerPoints /\ <<1, s>>[1] = 1 /\ <<1, s>>[2] = s
    <3>1. \A s \in S : s \in InnerTimes
      OBVIOUS
    <3>2. 1 \in 1 .. 4
      OBVIOUS
    <3>. QED  BY <3>1, <3>2, InnerPointFacts
  <2>2. <<1, t>> \in R
    BY <2>1, LeqFacts
  <2>3. PICK p \in R : \A q \in R : Leq(q, p) => q = p
    <3>1. R \in SUBSET InnerPoints /\ R # {}
      BY <2>2
    <3> HIDE DEF R
    <3>. QED  BY <3>1, FirstPoint
  <2> DEFINE s == p[2]
  <2>4. s \in S /\ s \in InnerTimes /\ p = <<1, s>> /\ p \in InnerPoints
    BY <2>3, InnerPointFacts
  <2>5. s.outer <= t.outer /\ s.round <= t.round
    BY <2>1, <2>3, <2>4 DEF Leq
  <2>6. ASSUME NEW r \in S, Inner!less_than(r, s) PROVE FALSE
    <3>1. r \in InnerTimes /\ r.outer <= s.outer /\ r.round <= s.round /\ r # s
      BY <2>4, <2>6, InnerOrder DEF Inner!less_than
    <3>2. Leq(<<1, r>>, p)
      BY <2>1, <2>4, <3>1 DEF Leq
    <3>3. Leq(p, <<1, t>>)
      BY <2>3
    <3>4. Leq(<<1, r>>, <<1, t>>)
      BY <2>1, <2>4, <3>2, <3>3, LeqFacts
    <3>5. <<1, r>> \in R
      BY <2>1, <3>4
    <3>6. <<1, r>> = p
      BY <2>3, <3>2, <3>5
    <3>. QED  BY <2>1, <2>4, <3>1, <3>6
  <2>7. s \in Inner!Least(S)
    BY <2>4, <2>6 DEF Inner!Least
  <2>. QED  BY <2>5, <2>7
<1>. QED  BY <1>1, <1>2

\* A frontier says what is implied.
LEMMA OuterFrontier ==
    ASSUME NEW T \in Batches(OuterPoints), NEW l \in 1 .. 4
    PROVE  /\ Outer!Frontier(T, l) \subseteq OuterTimes
           /\ \A s \in Outer!Frontier(T, l) : Outer!Implied(T, l, s)
           /\ \A t \in OuterTimes : Outer!Implied(T, l, t) <=> \E s \in Outer!Frontier(T, l) : s <= t
           /\ Outer!Frontier(T, l) = {} <=> \A t \in OuterTimes : ~ Outer!Implied(T, l, t)
<1> DEFINE S == {t \in OuterTimes : Outer!Implied(T, l, t)}
<1>1. Outer!Frontier(T, l) = Outer!Least(S)
  BY DEF Outer!Frontier
<1>2. Outer!Least(S) \subseteq S /\ \A t \in S : \E s \in Outer!Least(S) : s <= t
  <2>1. S \in SUBSET OuterTimes
    OBVIOUS
  <2> HIDE DEF S
  <2>. QED  BY <2>1, OuterLeast
<1>3. \A s \in S : \A t \in OuterTimes : s <= t => t \in S
  <2> SUFFICES ASSUME NEW s \in S, NEW t \in OuterTimes, s <= t PROVE Outer!Implied(T, l, t)
    OBVIOUS
  <2>1. l <= l /\ s \in OuterTimes /\ Outer!Implied(T, l, s)
    OBVIOUS
  <2>. QED  BY <2>1, OuterLater
<1>. QED  BY <1>1, <1>2, <1>3

-----------------------------------------------------------------------------
(* What operators record.                                                   *)

\* The ports of both scopes, by their numbers.
LEMMA PortFacts ==
    /\ A \in 1 .. 4 /\ In \in 1 .. 4 /\ Out \in 1 .. 4 /\ B \in 1 .. 4
    /\ Source \in 1 .. 4 /\ PIn \in 1 .. 4 /\ POut \in 1 .. 4 /\ Target \in 1 .. 4
    /\ A = 1 /\ In = 2 /\ Out = 3 /\ B = 4 /\ Source = 1 /\ PIn = 2 /\ POut = 3 /\ Target = 4
  BY DEF A, In, Out, B, Source, PIn, POut, Target

\* A genuine batch is a batch.
LEMMA GenuineIn == \A b \in Genuine : b \in Batches(InnerPoints)
  BY DEF Genuine

\* An honest batch is a batch.
LEMMA HonestIn == \A b \in Honest : b \in Batches(OuterPoints)
  BY DEF Honest

(* Where a sum of such batches counts nothing negative, up to some points,  *)
(* none of them has changed anything there.                                 *)
LEMMA NothingBelow ==
    ASSUME NEW S, IsFiniteSet(S), NEW f \in [S -> Genuine], NEW D, Closed(D),
           \A p \in D : At(Inner!Total(f), p) >= 0
    PROVE  \A i \in S : \A p \in D : At(f[i], p) = 0
<1>1. f \in [S -> Batches(InnerPoints)]
  BY GenuineIn
<1> DEFINE Bad == {p \in D : \E i \in S : At(f[i], p) # 0}
<1>2. SUFFICES ASSUME Bad # {} PROVE FALSE
  OBVIOUS
<1>3. PICK p \in Bad : \A q \in Bad : Leq(q, p) => q = p
  <2>1. Bad \in SUBSET InnerPoints
    BY DEF Closed
  <2> HIDE DEF Bad
  <2>. QED  BY <1>2, <2>1, FirstPoint
<1>4. p \in D /\ p \in InnerPoints
  BY DEF Closed
<1>5. ASSUME NEW i \in S PROVE At(f[i], p) \in Int /\ At(f[i], p) <= 0
  <2>1. At(f[i], p) \in Int /\ f[i] \in Genuine
    BY <1>1, BatchFacts
  <2>2. ASSUME At(f[i], p) > 0 PROVE FALSE
    <3>1. PICK q \in InnerPoints : Leq(q, p) /\ At(f[i], q) < 0
      BY <1>4, <2>1, <2>2 DEF Genuine, Upright
    <3>2. q \in D /\ At(f[i], q) # 0
      BY <1>4, <3>1 DEF Closed
    <3>3. q = p
      BY <1>3, <3>1, <3>2
    <3>. QED  BY <2>1, <2>2, <3>1, <3>3
  <2>. QED  BY <2>1, <2>2
<1>6. At(Inner!Total(f), p) \in Int /\ At(Inner!Total(f), p) >= 0
  BY <1>1, <1>4, TotalAt
<1>7. At(Inner!Total(f), p) <= 0 /\ \A i \in S : At(f[i], p) >= At(Inner!Total(f), p)
  BY <1>1, <1>5, TotalSigns
<1>8. \A i \in S : At(f[i], p) = 0
  BY <1>5, <1>6, <1>7
<1>. QED  BY <1>3, <1>8

\* A sum of genuine batches is genuine.
LEMMA GenuineTotal ==
    ASSUME NEW S, IsFiniteSet(S), NEW f \in [S -> Genuine]
    PROVE  Inner!Total(f) \in Genuine
<1>1. f \in [S -> Batches(InnerPoints)]
  BY GenuineIn
<1>2. Inner!Total(f) \in Batches(InnerPoints)
  BY <1>1, TotalIn
<1>3. ASSUME NEW p \in InnerPoints, At(Inner!Total(f), p) > 0
      PROVE  \E q \in InnerPoints : Leq(q, p) /\ At(Inner!Total(f), q) < 0
  <2> SUFFICES ASSUME \A q \in InnerPoints : Leq(q, p) => ~ At(Inner!Total(f), q) < 0 PROVE FALSE
    OBVIOUS
  <2> DEFINE D == {q \in InnerPoints : Leq(q, p)}
  <2>1. Closed(D)
    BY LeqFacts DEF Closed
  <2>2. \A q \in D : At(Inner!Total(f), q) >= 0
    BY <1>2, BatchFacts
  <2>3. p \in D
    BY LeqFacts
  <2> HIDE DEF D
  <2>4. \A i \in S : At(f[i], p) = 0
    BY <2>1, <2>2, <2>3, NothingBelow
  <2>5. At(Inner!Total(f), p) = 0
    BY <1>1, <2>4, TotalSigns
  <2>. QED  BY <1>3, <2>5
<1>4. ASSUME NEW t \in InnerTimes PROVE At(Inner!Total(f), <<Source, t>>) <= 0
  <2>1. \A i \in S : At(f[i], <<Source, t>>) <= 0
    BY DEF Genuine
  <2>. QED  BY <1>1, <2>1, TotalSigns
<1>5. ASSUME NEW t \in InnerTimes PROVE At(Inner!Total(f), <<Target, t>>) >= 0
  <2>1. \A i \in S : At(f[i], <<Target, t>>) >= 0
    BY DEF Genuine
  <2>. QED  BY <1>1, <2>1, TotalSigns
<1>. QED  BY <1>2, <1>3, <1>4, <1>5 DEF Genuine, Upright

\* Two batches are a family.
LEMMA PlusTotal ==
    ASSUME NEW P, NEW b \in Batches(P), NEW c \in Batches(P)
    PROVE  Inner!Plus(b, c) = Inner!Total(<<b, c>>)
<1> DEFINE s == <<b>>
           t == <<b, c>>
<1>1. s \in Seq(Batches(P)) /\ t \in Seq(Batches(P)) /\ <<>> \in Seq(Batches(P))
      /\ s = Append(<<>>, b) /\ t = Append(s, c)
  OBVIOUS
<1> HIDE DEF s, t
<1>2. Inner!Plus(b, c) \in Batches(P) /\ Inner!Total(t) \in Batches(P)
  BY <1>1, SequenceTotal, PlusFacts
<1>3. ASSUME NEW p \in P PROVE At(Inner!Plus(b, c), p) = At(Inner!Total(t), p)
  <2>1. At(Inner!Total(s), p) = At(Inner!Total(<<>>), p) + At(b, p)
    BY <1>1, AppendTotal
  <2>2. At(Inner!Total(t), p) = At(Inner!Total(s), p) + At(c, p)
    BY <1>1, AppendTotal
  <2>3. At(Inner!Total(<<>>), p) = 0
    BY EmptyTotal, NothingFacts
  <2>4. At(Inner!Plus(b, c), p) = At(b, p) + At(c, p) /\ At(b, p) \in Int /\ At(c, p) \in Int
    BY PlusFacts, BatchFacts
  <2>. QED  BY <2>1, <2>2, <2>3, <2>4
<1>4. Inner!Plus(b, c) = Inner!Total(t)
  BY <1>2, <1>3, BatchEqual
<1>. QED  BY <1>4 DEF t

(* Two genuine batches make one.  Where the sum counts nothing negative in  *)
(* a closed set, neither counts anything there.                             *)
LEMMA GenuinePlus ==
    ASSUME NEW b \in Genuine, NEW c \in Genuine
    PROVE  /\ Inner!Plus(b, c) \in Genuine
           /\ \A p : At(Inner!Plus(b, c), p) = At(b, p) + At(c, p)
           /\ \A D : Closed(D) /\ (\A p \in D : At(Inner!Plus(b, c), p) >= 0)
                        => \A p \in D : At(b, p) = 0 /\ At(c, p) = 0
<1> DEFINE f == <<b, c>>
           S == 1 .. 2
<1>1. f \in [S -> Genuine] /\ f[1] = b /\ f[2] = c /\ 1 \in S /\ 2 \in S
  OBVIOUS
<1>2. IsFiniteSet(S)
  <2>1. 1 \in Int /\ 2 \in Int
    OBVIOUS
  <2>. QED  BY <2>1, FS_Interval
<1>3. b \in Batches(InnerPoints) /\ c \in Batches(InnerPoints)
  BY GenuineIn
<1>4. Inner!Plus(b, c) = Inner!Total(f)
  BY <1>3, PlusTotal
<1> HIDE DEF f, S
<1>5. Inner!Plus(b, c) \in Genuine
  BY <1>1, <1>2, <1>4, GenuineTotal
<1>6. ASSUME NEW D, Closed(D), \A p \in D : At(Inner!Plus(b, c), p) >= 0
      PROVE  \A p \in D : At(b, p) = 0 /\ At(c, p) = 0
  <2>1. \A p \in D : At(Inner!Total(f), p) >= 0
    BY <1>4, <1>6
  <2>2. \A i \in S : \A p \in D : At(f[i], p) = 0
    BY <1>1, <1>2, <1>6, <2>1, NothingBelow
  <2>. QED  BY <1>1, <2>2
<1>7. \A p : At(Inner!Plus(b, c), p) = At(b, p) + At(c, p)
  BY <1>3, PlusFacts
<1>. QED  BY <1>5, <1>6, <1>7

\* The only genuine batch that counts nothing anywhere is the empty one.
LEMMA GenuineNothing ==
    /\ Inner!Nothing \in Genuine /\ Closed(InnerPoints)
    /\ \A b \in Genuine : (\A p \in InnerPoints : At(b, p) = 0) => b = Inner!Nothing
<1>1. Inner!Nothing \in Genuine
  BY NothingFacts DEF Genuine, Upright
<1>2. Closed(InnerPoints)
  BY DEF Closed
<1>3. \A b \in Genuine : (\A p \in InnerPoints : At(b, p) = 0) => b = Inner!Nothing
  BY GenuineIn, NothingFacts
<1>. QED  BY <1>1, <1>2, <1>3

\* Sums of honest batches are honest.
LEMMA HonestTotal ==
    ASSUME NEW S, IsFiniteSet(S), NEW f \in [S -> Honest]
    PROVE  Inner!Total(f) \in Honest
<1>1. f \in [S -> Batches(OuterPoints)]
  BY HonestIn
<1>2. Inner!Total(f) \in Batches(OuterPoints)
  BY <1>1, TotalIn
<1>3. ASSUME NEW t \in OuterTimes
      PROVE  /\ At(Inner!Total(f), <<Out, t>>) = 0
             /\ At(Inner!Total(f), <<In, t>>) >= 0
             /\ At(Inner!Total(f), <<B, t>>) <= 0
  <2>1. \A i \in S : /\ At(f[i], <<Out, t>>) = 0
                     /\ At(f[i], <<In, t>>) >= 0
                     /\ At(f[i], <<B, t>>) <= 0
    BY DEF Honest
  <2>2. At(Inner!Total(f), <<Out, t>>) = 0
    BY <1>1, <2>1, TotalSigns
  <2>3. At(Inner!Total(f), <<In, t>>) >= 0
    BY <1>1, <2>1, TotalSigns
  <2>4. At(Inner!Total(f), <<B, t>>) <= 0
    BY <1>1, <2>1, TotalSigns
  <2>. QED  BY <2>2, <2>3, <2>4
<1>. QED  BY <1>2, <1>3 DEF Honest

\* Two honest batches make one.
LEMMA HonestPlus ==
    ASSUME NEW b \in Honest, NEW c \in Honest
    PROVE  /\ Outer!Plus(b, c) \in Honest
           /\ \A p : At(Outer!Plus(b, c), p) = At(b, p) + At(c, p)
<1>1. b \in Batches(OuterPoints) /\ c \in Batches(OuterPoints)
  BY HonestIn
<1>2. Outer!Plus(b, c) \in Batches(OuterPoints) /\ \A p : At(Outer!Plus(b, c), p) = At(b, p) + At(c, p)
  BY <1>1, OuterFacts
<1>3. \A p : At(b, p) \in Int /\ At(c, p) \in Int
  BY <1>1, BatchFacts
<1>4. \A t \in OuterTimes : At(Outer!Plus(b, c), <<Out, t>>) = 0 /\ At(Outer!Plus(b, c), <<In, t>>) >= 0
                            /\ At(Outer!Plus(b, c), <<B, t>>) <= 0
  <2> TAKE t \in OuterTimes
  <2>1. At(b, <<Out, t>>) = 0 /\ At(b, <<In, t>>) >= 0 /\ At(b, <<B, t>>) <= 0
    BY DEF Honest
  <2>2. At(c, <<Out, t>>) = 0 /\ At(c, <<In, t>>) >= 0 /\ At(c, <<B, t>>) <= 0
    BY DEF Honest
  <2>3. At(Outer!Plus(b, c), <<Out, t>>) = 0
    BY <1>2, <2>1, <2>2
  <2>4. At(Outer!Plus(b, c), <<In, t>>) >= 0
    BY <1>2, <1>3, <2>1, <2>2
  <2>5. At(Outer!Plus(b, c), <<B, t>>) <= 0
    BY <1>2, <1>3, <2>1, <2>2
  <2>. QED  BY <2>3, <2>4, <2>5
<1>. QED  BY <1>2, <1>4 DEF Honest

\* The empty batch is honest.
LEMMA HonestNothing == Outer!Nothing \in Honest
  BY OuterFacts DEF Honest

-----------------------------------------------------------------------------
(* From the nested scope to the outer one.                                  *)

\* A line is finite, and holds the time at which messages enter.
LEMMA LineFacts ==
    ASSUME NEW l \in 1 .. 4, NEW t \in OuterTimes
    PROVE  /\ IsFiniteSet(Line(l, t)) /\ Line(l, t) \subseteq InnerPoints
           /\ \A p \in Line(l, t) : p = <<l, p[2]>> /\ p[2] \in InnerTimes /\ p[2].outer = t
           /\ <<l, to_inner(t)>> \in Line(l, t)
<1> DEFINE h == [r \in 0 .. MaxRound |-> <<l, [outer |-> t, round |-> r]>>]
<1>1. \A p \in Line(l, t) : p = <<l, p[2]>> /\ p[2] \in InnerTimes /\ p[2].outer = t
  BY InnerPointFacts DEF Line
<1>2. \A r \in 0 .. MaxRound : h[r] \in Line(l, t)
  <2> TAKE r \in 0 .. MaxRound
  <2> DEFINE u == [outer |-> t, round |-> r]
  <2>1. u \in InnerTimes /\ u.outer = t
    BY DEF InnerTimes
  <2>2. h[r] = <<l, u>>
    OBVIOUS
  <2> HIDE DEF u, h
  <2>3. <<l, u>> \in InnerPoints /\ <<l, u>>[1] = l /\ <<l, u>>[2] = u
    BY <2>1, InnerPointFacts
  <2>. QED  BY <2>1, <2>2, <2>3 DEF Line
<1>3. \A p \in Line(l, t) : \E r \in 0 .. MaxRound : h[r] = p
  <2> TAKE p \in Line(l, t)
  <2>1. p[2].round \in 0 .. MaxRound /\ p[2] = [outer |-> t, round |-> p[2].round] /\ p = <<l, p[2]>>
    BY <1>1 DEF InnerTimes
  <2>2. h[p[2].round] = <<l, [outer |-> t, round |-> p[2].round]>>
    BY <2>1
  <2> HIDE DEF h
  <2>3. h[p[2].round] = p
    BY <2>1, <2>2
  <2>. QED  BY <2>1, <2>3
<1>4. h \in Surjection(0 .. MaxRound, Line(l, t))
  <2>1. h \in [0 .. MaxRound -> Line(l, t)]
    BY <1>2
  <2> HIDE DEF h
  <2>. QED  BY <2>1, <1>3, Zenon DEF Surjection
<1>5. IsFiniteSet(0 .. MaxRound)
  BY ConstantFacts, FS_Interval
<1>6. IsFiniteSet(Line(l, t))
  BY <1>4, <1>5, FS_Surjection
<1>7. <<l, to_inner(t)>> \in Line(l, t)
  <2>1. to_inner(t) \in InnerTimes /\ to_inner(t).outer = t
    BY ConstantFacts DEF to_inner
  <2>. QED  BY <2>1, InnerPointFacts DEF Line
<1>8. Line(l, t) \subseteq InnerPoints
  BY DEF Line
<1>. QED  BY <1>1, <1>6, <1>7, <1>8

\* The sign of a count across a line is that of some point of it.
LEMMA AcrossFacts ==
    ASSUME NEW b \in Batches(InnerPoints), NEW l \in 1 .. 4, NEW t \in OuterTimes
    PROVE  /\ Across(b, l, t) \in Int
           /\ Across(b, l, t) > 0 => \E p \in Line(l, t) : At(b, p) > 0
           /\ Across(b, l, t) < 0 => \E p \in Line(l, t) : At(b, p) < 0
           /\ (\A p \in Line(l, t) : At(b, p) <= 0) =>
                 /\ Across(b, l, t) <= 0
                 /\ \A p \in Line(l, t) : Across(b, l, t) <= At(b, p)
           /\ (\A p \in Line(l, t) : At(b, p) >= 0) => Across(b, l, t) >= 0
           /\ (\A p \in Line(l, t) : At(b, p) = 0) => Across(b, l, t) = 0
<1> DEFINE f == [p \in InnerPoints |-> At(b, p)]
           S == Line(l, t)
           n == SumFunctionOnSet(f, S)
<1>1. IsFiniteSet(S)
  BY LineFacts
<1>2. \A p \in S : f[p] \in Int /\ f[p] = At(b, p)
  BY LineFacts, BatchFacts
<1>3. Across(b, l, t) = n
  BY DEF Across
<1> HIDE DEF f, S
<1>4. n \in Int
  BY <1>1, <1>2, SumInt
<1>5. n > 0 => \E p \in S : f[p] > 0
  BY <1>1, <1>2, SumSome
<1>6. (\A p \in S : f[p] <= 0) => n <= 0 /\ \A p \in S : n <= f[p]
  BY <1>1, <1>2, SumNegative
<1>7. (\A p \in S : f[p] >= 0) => n >= 0
  <2> SUFFICES ASSUME \A p \in S : f[p] >= 0 PROVE n >= 0
    OBVIOUS
  <2>1. \A p \in S : f[p] \in Nat
    BY <1>2
  <2>. QED  BY <1>1, <2>1, SumPositive
<1>8. (\A p \in S : f[p] = 0) => n = 0
  BY <1>1, SumZero
<1>9. n < 0 => \E p \in S : f[p] < 0
  <2> SUFFICES ASSUME n < 0, ~ \E p \in S : f[p] < 0 PROVE FALSE
    OBVIOUS
  <2>1. \A p \in S : f[p] >= 0
    BY <1>2
  <2>. QED  BY <1>4, <1>7, <2>1
<1> HIDE DEF n
<1>10. \A p \in S : f[p] = At(b, p)
  BY <1>2
<1>11. /\ n \in Int
       /\ n > 0 => \E p \in S : At(b, p) > 0
       /\ n < 0 => \E p \in S : At(b, p) < 0
  BY <1>4, <1>5, <1>9, <1>10
<1>12. /\ (\A p \in S : At(b, p) <= 0) => n <= 0 /\ \A p \in S : n <= At(b, p)
       /\ (\A p \in S : At(b, p) >= 0) => n >= 0
       /\ (\A p \in S : At(b, p) = 0) => n = 0
  BY <1>6, <1>7, <1>8, <1>10
<1>. QED  BY <1>3, <1>11, <1>12 DEF S

\* Counts across a line add up.
LEMMA AcrossPlus ==
    ASSUME NEW b \in Batches(InnerPoints), NEW c \in Batches(InnerPoints), NEW d \in Batches(InnerPoints),
           NEW l \in 1 .. 4, NEW t \in OuterTimes, \A p \in Line(l, t) : At(d, p) = At(b, p) + At(c, p)
    PROVE  Across(d, l, t) = Across(b, l, t) + Across(c, l, t)
<1> DEFINE f == [p \in InnerPoints |-> At(b, p)]
           g == [p \in InnerPoints |-> At(c, p)]
           h == [p \in InnerPoints |-> At(d, p)]
           S == Line(l, t)
<1>1. IsFiniteSet(S)
  BY LineFacts
<1>2. \A p \in S : At(b, p) \in Int /\ At(c, p) \in Int
  BY BatchFacts
<1>3. \A p \in S : f[p] = At(b, p) /\ g[p] = At(c, p) /\ h[p] = At(d, p)
  BY LineFacts
<1>4. \A p \in S : At(d, p) = At(b, p) + At(c, p)
  OBVIOUS
<1>5. /\ Across(b, l, t) = SumFunctionOnSet(f, S) /\ Across(c, l, t) = SumFunctionOnSet(g, S)
      /\ Across(d, l, t) = SumFunctionOnSet(h, S)
  BY DEF Across
<1> HIDE DEF f, g, h, S
<1>6. \A p \in S : f[p] \in Int /\ g[p] \in Int /\ h[p] = f[p] + g[p]
  BY <1>2, <1>3, <1>4
<1>. QED  BY <1>1, <1>5, <1>6, SumPlus

\* A change at one point.
LEMMA AcrossOne ==
    ASSUME NEW b \in Batches(InnerPoints), NEW l \in 1 .. 4, NEW t \in OuterTimes, NEW p \in InnerPoints,
           \A q \in Line(l, t) : q # p => At(b, q) = 0
    PROVE  Across(b, l, t) = IF p \in Line(l, t) THEN At(b, p) ELSE 0
<1>1. CASE p \notin Line(l, t)
  <2>1. \A q \in Line(l, t) : At(b, q) = 0
    BY <1>1
  <2>2. Across(b, l, t) = 0
    BY <2>1, AcrossFacts
  <2>. QED  BY <1>1, <2>2
<1>2. CASE p \in Line(l, t)
  <2> DEFINE f == [q \in InnerPoints |-> At(b, q)]
             S == Line(l, t)
  <2>1. IsFiniteSet(S) /\ p \in S
    BY <1>2, LineFacts
  <2>2. \A q \in S : f[q] \in Int /\ f[q] = At(b, q)
    BY LineFacts, BatchFacts
  <2>3. Across(b, l, t) = SumFunctionOnSet(f, S)
    BY DEF Across
  <2>4. \A q \in S : q # p => f[q] = 0
    BY <2>2
  <2> HIDE DEF f, S
  <2>5. SumFunctionOnSet(f, S) = f[p] + SumFunctionOnSet(f, S \ {p})
    BY <2>1, <2>2, SumRemove
  <2>6. SumFunctionOnSet(f, S \ {p}) = 0
    <3>1. IsFiniteSet(S \ {p}) /\ \A q \in S \ {p} : f[q] = 0
      BY <2>1, <2>4, FS_Subset
    <3>. QED  BY <3>1, SumZero
  <2>7. f[p] = At(b, p) /\ At(b, p) \in Int
    BY <2>1, <2>2
  <2>8. Across(b, l, t) = At(b, p)
    BY <2>3, <2>5, <2>6, <2>7
  <2>. QED  BY <1>2, <2>8
<1>. QED  BY <1>1, <1>2

\* Projected counts at an outer time what the batch counts across the line.
LEMMA ProjectedFacts ==
    ASSUME NEW b \in Batches(InnerPoints), NEW l \in 1 .. 4, NEW m \in 1 .. 4
    PROVE  /\ Projected(b, l, m) \in Batches(OuterPoints)
           /\ \A k \in 1 .. 4 : \A t \in OuterTimes :
                 At(Projected(b, l, m), <<k, t>>) = IF k = m THEN Across(b, l, t) ELSE 0
<1> DEFINE part(t) == {p \in DOMAIN b : p[1] = l /\ to_outer(p[2]) = t}
           sum(t) == SumFunctionOnSet(b, part(t))
           D == {<<m, t>> : t \in {u \in OuterTimes : sum(u) # 0}}
<1>1. ASSUME NEW t \in OuterTimes PROVE sum(t) = Across(b, l, t)
  <2> DEFINE f == [p \in InnerPoints |-> At(b, p)]
             S == Line(l, t)
             T == part(t)
  <2>1. IsFiniteSet(S)
    BY LineFacts
  <2>2. \A p \in S : f[p] \in Int /\ f[p] = At(b, p)
    BY LineFacts, BatchFacts
  <2>3. T \in SUBSET S /\ (\A p \in T : b[p] = At(b, p)) /\ \A p \in S \ T : At(b, p) = 0
    BY BatchFacts DEF Line, to_outer, At
  <2>4. Across(b, l, t) = SumFunctionOnSet(f, S) /\ sum(t) = SumFunctionOnSet(b, T)
    BY DEF Across
  <2> HIDE DEF f, S, T, sum
  <2>5. IsFiniteSet(T)
    BY <2>1, <2>3, FS_Subset
  <2>6. \A p \in T : f[p] \in Int /\ b[p] = f[p]
    BY <2>2, <2>3
  <2>7. SumFunctionOnSet(b, T) = SumFunctionOnSet(f, T)
    BY <2>5, <2>6, SumSame
  <2>8. SumFunctionOnSet(f, T) = SumFunctionOnSet(f, S)
    <3>1. (\A p \in S : f[p] \in Int) /\ \A p \in S \ T : f[p] = 0
      BY <2>2, <2>3
    <3>. QED  BY <2>1, <2>3, <3>1, SumAmong
  <2>. QED  BY <2>4, <2>7, <2>8
<1>2. Projected(b, l, m) = [p \in D |-> sum(p[2])]
  BY DEF Projected
<1> HIDE DEF sum
<1>3. \A t \in OuterTimes : Across(b, l, t) \in Int
  BY AcrossFacts
<1> DEFINE h == [p \in D |-> sum(p[2])]
<1>4. \A p \in D : p \in OuterPoints /\ p[1] = m /\ p[2] \in OuterTimes /\ h[p] = sum(p[2]) /\ sum(p[2]) # 0
  BY OuterPointFacts
<1>5. DOMAIN h = D
  OBVIOUS
<1>6. \A t \in OuterTimes : <<m, t>> \in D <=> sum(t) # 0
  <2> TAKE t \in OuterTimes
  <2>1. ASSUME <<m, t>> \in D PROVE sum(t) # 0
    <3>1. <<m, t>>[2] = t
      OBVIOUS
    <3> HIDE DEF D, h
    <3>. QED  BY <1>4, <2>1, <3>1
  <2>. QED  BY <2>1
<1> HIDE DEF D
<1>7. \A p \in D : h[p] \in Int \ {0}
  BY <1>1, <1>3, <1>4
<1>8. h \in [D -> Int \ {0}] /\ D \subseteq OuterPoints
  BY <1>4, <1>7
<1> HIDE DEF h
<1>9. h \in Batches(OuterPoints)
  BY <1>8 DEF Batches
<1>10. ASSUME NEW k \in 1 .. 4, NEW t \in OuterTimes PROVE At(h, <<k, t>>) = IF k = m THEN Across(b, l, t) ELSE 0
  <2>1. <<k, t>>[1] = k /\ <<k, t>>[2] = t
    OBVIOUS
  <2>2. CASE k # m
    <3>1. <<k, t>> \notin D
      BY <1>4, <2>1, <2>2
    <3>. QED  BY <1>5, <2>2, <3>1 DEF At
  <2>3. CASE k = m
    <3>1. CASE sum(t) = 0
      <4>1. <<m, t>> \notin D
        BY <1>6, <3>1
      <4>. QED  BY <1>1, <1>5, <2>3, <3>1, <4>1 DEF At
    <3>2. CASE sum(t) # 0
      <4>1. <<m, t>> \in D
        BY <1>6, <3>2
      <4>2. h[<<m, t>>] = sum(t)
        BY <1>4, <2>1, <2>3, <4>1
      <4>. QED  BY <1>1, <1>5, <2>3, <4>1, <4>2 DEF At
    <3>. QED  BY <3>1, <3>2
  <2>. QED  BY <2>2, <2>3
<1>. QED  BY <1>2, <1>9, <1>10 DEF h

-----------------------------------------------------------------------------
(* What a state amounts to.                                                 *)

\* What counts nothing negative is a batch.
LEMMA CountsIn == \A P : \A b \in Counts(P) : b \in Batches(P) /\ \A p : At(b, p) \in Nat /\ (At(b, p) > 0 => p \in P)
<1> SUFFICES ASSUME NEW P, NEW b \in Counts(P), NEW p PROVE At(b, p) \in Nat /\ (At(b, p) > 0 => p \in P)
  BY DEF Counts
<1>1. b \in Batches(P) /\ \A q \in P : At(b, q) >= 0
  BY DEF Counts
<1>2. DOMAIN b \subseteq P /\ At(b, p) \in Int /\ (At(b, p) # 0 <=> p \in DOMAIN b)
  BY <1>1, BatchFacts
<1>. QED  BY <1>1, <1>2

\* A batch at some ports is a batch of the scope.
LEMMA PortsMore ==
    /\ \A ls : Batches(Ports(InnerPoints, ls)) \subseteq Batches(InnerPoints)
    /\ \A ls : Batches(Ports(OuterPoints, ls)) \subseteq Batches(OuterPoints)
<1>1. \A ls : Ports(InnerPoints, ls) \subseteq InnerPoints /\ Ports(OuterPoints, ls) \subseteq OuterPoints
  BY DEF Ports
<1>. QED  BY <1>1, BatchMore

\* Messages that enter are consumed, and expected at P.
LEMMA HarvestFacts ==
    ASSUME NEW w, entering[w] \in Counts(Ports(InnerPoints, {Source}))
    PROVE  /\ harvest_inputs(w) \in Genuine
           /\ \A t \in InnerTimes :
                 /\ At(harvest_inputs(w), <<Source, t>>) = - At(entering[w], <<Source, t>>)
                 /\ At(harvest_inputs(w), <<PIn, t>>) = At(entering[w], <<Source, t>>)
                 /\ At(harvest_inputs(w), <<POut, t>>) = 0 /\ At(harvest_inputs(w), <<Target, t>>) = 0
<1> DEFINE e == entering[w]
           neg == [p \in DOMAIN e |-> - e[p]]
           C == {<<PIn, q[2]>> : q \in DOMAIN e}
           pos == [p \in C |-> e[<<Source, p[2]>>]]
           h == harvest_inputs(w)
<1>1. e \in Batches(InnerPoints) /\ DOMAIN e \subseteq Ports(InnerPoints, {Source})
      /\ \A p : At(e, p) \in Nat /\ (At(e, p) # 0 <=> p \in DOMAIN e)
  <2>1. e \in Batches(Ports(InnerPoints, {Source})) /\ \A p : At(e, p) \in Nat
    BY CountsIn
  <2>2. e \in Batches(InnerPoints)
    BY <2>1, PortsMore
  <2>3. DOMAIN e \subseteq Ports(InnerPoints, {Source}) /\ \A p : At(e, p) # 0 <=> p \in DOMAIN e
    BY <2>1, BatchFacts
  <2>. QED  BY <2>1, <2>2, <2>3
<1>2. h = Inner!Plus(neg, pos)
  BY DEF harvest_inputs
<1>3. \A p \in DOMAIN e : e[p] = At(e, p)
  BY DEF At
<1>4. \A p \in DOMAIN e : p = <<Source, p[2]>> /\ p[2] \in InnerTimes /\ p \in InnerPoints
  <2> TAKE p \in DOMAIN e
  <2>1. p \in InnerPoints /\ p[1] = Source
    BY <1>1 DEF Ports
  <2>. QED  BY <2>1, InnerPointFacts
<1> HIDE DEF e, h
<1>5. neg \in Batches(InnerPoints) /\ \A p : At(neg, p) = - At(e, p)
  <2>1. DOMAIN neg = DOMAIN e /\ \A p \in DOMAIN e : neg[p] = - e[p]
    OBVIOUS
  <2>2. neg \in [DOMAIN e -> Int \ {0}]
    <3>1. \A p \in DOMAIN e : - e[p] \in Int \ {0}
      <4> TAKE p \in DOMAIN e
      <4>1. e[p] \in Nat /\ e[p] # 0
        BY <1>1, <1>3
      <4>. QED  BY <4>1
    <3>. QED  BY <3>1
  <2>3. DOMAIN e \in SUBSET InnerPoints
    BY <1>4
  <2> HIDE DEF neg
  <2>4. neg \in Batches(InnerPoints)
    BY <2>2, <2>3 DEF Batches
  <2>5. \A p : At(neg, p) = - At(e, p)
    BY <2>1 DEF At
  <2>. QED  BY <2>4, <2>5
<1>6. \A q \in C : \E p \in DOMAIN e : q = <<PIn, p[2]>> /\ q[1] = PIn /\ q[2] = p[2]
  OBVIOUS
<1>7. \A q \in C : q \in InnerPoints /\ q[1] = PIn /\ q[2] \in InnerTimes /\ <<Source, q[2]>> \in DOMAIN e
  BY <1>4, <1>6, InnerPointFacts, PortFacts
<1>8. \A p \in DOMAIN e : <<PIn, p[2]>> \in C
  OBVIOUS
<1>9. pos \in Batches(InnerPoints) /\ DOMAIN pos = C /\ \A q \in C : pos[q] = e[<<Source, q[2]>>]
  <2>1. DOMAIN pos = C /\ \A q \in C : pos[q] = e[<<Source, q[2]>>]
    OBVIOUS
  <2>2. \A q \in C : e[<<Source, q[2]>>] \in Int \ {0}
    <3> TAKE q \in C
    <3>1. <<Source, q[2]>> \in DOMAIN e
      BY <1>7
    <3>. QED  BY <1>1, <1>3, <3>1
  <2>3. pos \in [C -> Int \ {0}]
    BY <2>2
  <2> HIDE DEF pos, C
  <2>4. pos \in Batches(InnerPoints)
    BY <1>7, <2>3 DEF Batches
  <2>. QED  BY <2>1, <2>4
<1> HIDE DEF neg, pos, C
<1>10. \A t \in InnerTimes : At(pos, <<PIn, t>>) = At(e, <<Source, t>>)
  <2> TAKE t \in InnerTimes
  <2>1. <<PIn, t>>[2] = t /\ <<Source, t>>[2] = t
    OBVIOUS
  <2>2. CASE <<Source, t>> \in DOMAIN e
    <3>1. <<PIn, t>> \in C
      BY <1>8, <2>1, <2>2
    <3>2. pos[<<PIn, t>>] = e[<<Source, t>>]
      BY <1>9, <2>1, <3>1
    <3>. QED  BY <1>9, <2>2, <3>1, <3>2 DEF At
  <2>3. CASE <<Source, t>> \notin DOMAIN e
    <3>1. <<PIn, t>> \notin C
      BY <1>7, <2>1, <2>3
    <3>. QED  BY <1>9, <2>3, <3>1 DEF At
  <2>. QED  BY <2>2, <2>3
<1>11. \A l \in 1 .. 4 : l # PIn => \A t : At(pos, <<l, t>>) = 0
  <2> SUFFICES ASSUME NEW l \in 1 .. 4, l # PIn, NEW t PROVE At(pos, <<l, t>>) = 0
    OBVIOUS
  <2>1. <<l, t>>[1] = l
    OBVIOUS
  <2>2. <<l, t>> \notin C
    BY <1>7, <2>1
  <2>. QED  BY <1>9, <2>2 DEF At
<1>12. \A l \in 1 .. 4 : l # Source => \A t : At(e, <<l, t>>) = 0
  <2> SUFFICES ASSUME NEW l \in 1 .. 4, l # Source, NEW t PROVE At(e, <<l, t>>) = 0
    OBVIOUS
  <2>1. <<l, t>>[1] = l
    OBVIOUS
  <2>2. <<l, t>> \notin Ports(InnerPoints, {Source})
    BY <2>1 DEF Ports
  <2>. QED  BY <1>1, <2>2 DEF At
<1>13. h \in Batches(InnerPoints) /\ \A p : At(h, p) = At(neg, p) + At(pos, p)
  BY <1>2, <1>5, <1>9, PlusFacts
<1>14. ASSUME NEW t \in InnerTimes
       PROVE  /\ At(h, <<Source, t>>) = - At(e, <<Source, t>>)
              /\ At(h, <<PIn, t>>) = At(e, <<Source, t>>)
              /\ At(h, <<POut, t>>) = 0 /\ At(h, <<Target, t>>) = 0
  <2>1. /\ At(e, <<PIn, t>>) = 0 /\ At(e, <<POut, t>>) = 0 /\ At(e, <<Target, t>>) = 0
        /\ At(pos, <<Source, t>>) = 0 /\ At(pos, <<POut, t>>) = 0 /\ At(pos, <<Target, t>>) = 0
    <3>1. PIn # Source /\ POut # Source /\ Target # Source /\ POut # PIn /\ Target # PIn
      BY PortFacts
    <3>. QED  BY <1>11, <1>12, <3>1, PortFacts
  <2>2. /\ At(h, <<Source, t>>) = - At(e, <<Source, t>>) + At(pos, <<Source, t>>)
        /\ At(h, <<PIn, t>>) = - At(e, <<PIn, t>>) + At(pos, <<PIn, t>>)
        /\ At(h, <<POut, t>>) = - At(e, <<POut, t>>) + At(pos, <<POut, t>>)
        /\ At(h, <<Target, t>>) = - At(e, <<Target, t>>) + At(pos, <<Target, t>>)
    BY <1>5, <1>13
  <2>3. At(pos, <<PIn, t>>) = At(e, <<Source, t>>) /\ At(e, <<Source, t>>) \in Nat
    BY <1>1, <1>10
  <2>. QED  BY <2>1, <2>2, <2>3
<1>15. Upright(h)
  <2> SUFFICES ASSUME NEW p \in InnerPoints, At(h, p) > 0
               PROVE  \E q \in InnerPoints : Leq(q, p) /\ At(h, q) < 0
    BY DEF Upright
  <2> DEFINE t == p[2]
             q == <<Source, t>>
  <2>1. t \in InnerTimes /\ p = <<p[1], t>> /\ p[1] \in 1 .. 4
    BY InnerPointFacts
  <2>2. p[1] = PIn
    <3>1. p[1] = Source \/ p[1] = PIn \/ p[1] = POut \/ p[1] = Target
      BY <2>1, PortFacts
    <3>2. At(e, <<Source, t>>) \in Nat
      BY <1>1
    <3>3. /\ At(h, <<Source, t>>) = - At(e, <<Source, t>>)
          /\ At(h, <<POut, t>>) = 0 /\ At(h, <<Target, t>>) = 0
      BY <1>14, <2>1
    <3>4. ~ At(h, <<Source, t>>) > 0 /\ ~ At(h, <<POut, t>>) > 0 /\ ~ At(h, <<Target, t>>) > 0
      BY <3>2, <3>3
    <3> HIDE DEF t
    <3>5. At(h, <<p[1], t>>) > 0
      BY <2>1
    <3>. QED  BY <3>1, <3>4, <3>5
  <2>3. At(h, q) < 0
    <3>1. At(e, q) > 0
      BY <1>14, <2>1, <2>2
    <3>2. At(h, q) = - At(e, q) /\ At(e, q) \in Nat
      BY <1>1, <1>14, <2>1
    <3>. QED  BY <3>1, <3>2
  <2>4. q \in InnerPoints /\ q[1] = 1 /\ q[2] = t
    BY <2>1, PortFacts, InnerPointFacts
  <2>5. Leq(q, p)
    <3>1. t.outer \in Nat /\ t.round \in Nat
      BY <2>1, ConstantFacts
    <3>. QED  BY <2>1, <2>4, <3>1 DEF Leq
  <2>. QED  BY <2>3, <2>4, <2>5
<1>16. \A t \in InnerTimes : At(h, <<Source, t>>) <= 0 /\ At(h, <<Target, t>>) >= 0
  <2> TAKE t \in InnerTimes
  <2>1. At(e, <<Source, t>>) \in Nat
    BY <1>1
  <2>2. At(h, <<Source, t>>) = - At(e, <<Source, t>>) /\ At(h, <<Target, t>>) = 0
    BY <1>14
  <2>. QED  BY <2>1, <2>2
<1>17. h \in Genuine
  BY <1>13, <1>15, <1>16 DEF Genuine
<1>. QED  BY <1>14, <1>17 DEF e, h

\* What a worker has recorded is honest, outside, and genuine, inside.
LEMMA MadeHolds == Typed => Made
<1> SUFFICES ASSUME Typed, NEW v \in Workers
             PROVE  /\ harvest_inputs(v) \in Genuine
                    /\ \A t \in InnerTimes :
                          /\ At(harvest_inputs(v), <<Source, t>>) = - At(entering[v], <<Source, t>>)
                          /\ At(harvest_inputs(v), <<PIn, t>>) = At(entering[v], <<Source, t>>)
                          /\ At(harvest_inputs(v), <<POut, t>>) = 0 /\ At(harvest_inputs(v), <<Target, t>>) = 0
                    /\ Mine(v) \in Genuine
                    /\ \A p : At(Mine(v), p) = At(inner[v], p) + (At(harvest_inputs(v), p) + At(shared[v]["P"], p))
                    /\ MineO(v) \in Honest
                    /\ \A p : At(MineO(v), p) = At(local[v], p) + (At(shared[v]["A"], p) + At(shared[v]["B"], p))
  BY DEF Made
<1>1. entering[v] \in Counts(Ports(InnerPoints, {Source}))
  BY DEF Typed
<1>2. shared[v]["A"] \in Honest /\ shared[v]["B"] \in Honest /\ shared[v]["P"] \in Genuine
  BY DEF Typed
<1>3. local[v] \in Honest /\ inner[v] \in Genuine
  BY DEF Typed
<1>4. harvest_inputs(v) \in Genuine
  BY <1>1, HarvestFacts
<1>5. \A t \in InnerTimes :
          /\ At(harvest_inputs(v), <<Source, t>>) = - At(entering[v], <<Source, t>>)
          /\ At(harvest_inputs(v), <<PIn, t>>) = At(entering[v], <<Source, t>>)
          /\ At(harvest_inputs(v), <<POut, t>>) = 0 /\ At(harvest_inputs(v), <<Target, t>>) = 0
  BY <1>1, HarvestFacts
<1>6. Mine(v) \in Genuine
      /\ \A p : At(Mine(v), p) = At(inner[v], p) + (At(harvest_inputs(v), p) + At(shared[v]["P"], p))
  <2> DEFINE c == Inner!Plus(harvest_inputs(v), shared[v]["P"])
  <2>1. c \in Genuine /\ \A p : At(c, p) = At(harvest_inputs(v), p) + At(shared[v]["P"], p)
    BY <1>2, <1>4, GenuinePlus
  <2>2. Mine(v) = Inner!Plus(inner[v], c)
    BY DEF Mine
  <2> HIDE DEF c
  <2>3. Inner!Plus(inner[v], c) \in Genuine /\ \A p : At(Inner!Plus(inner[v], c), p) = At(inner[v], p) + At(c, p)
    BY <1>3, <2>1, GenuinePlus
  <2>. QED  BY <2>1, <2>2, <2>3
<1>7. MineO(v) \in Honest
      /\ \A p : At(MineO(v), p) = At(local[v], p) + (At(shared[v]["A"], p) + At(shared[v]["B"], p))
  <2> DEFINE c == Outer!Plus(shared[v]["A"], shared[v]["B"])
  <2>1. c \in Honest /\ \A p : At(c, p) = At(shared[v]["A"], p) + At(shared[v]["B"], p)
    BY <1>2, HonestPlus
  <2>2. MineO(v) = Outer!Plus(local[v], c)
    BY DEF MineO
  <2> HIDE DEF c
  <2>3. Outer!Plus(local[v], c) \in Honest /\ \A p : At(Outer!Plus(local[v], c), p) = At(local[v], p) + At(c, p)
    BY <1>3, <2>1, HonestPlus
  <2>. QED  BY <2>1, <2>2, <2>3
<1>. QED  BY <1>4, <1>5, <1>6, <1>7

\* The total of a sequence of genuine batches is genuine.
LEMMA SequenceGenuine ==
    ASSUME NEW s \in Seq(Genuine)
    PROVE  Inner!Total(s) \in Genuine /\ s \in Seq(Batches(InnerPoints))
<1>1. s \in [1 .. Len(s) -> Genuine] /\ Len(s) \in Nat
  OBVIOUS
<1>2. IsFiniteSet(1 .. Len(s))
  BY <1>1, FS_Interval
<1>3. Inner!Total(s) \in Genuine
  BY <1>1, <1>2, GenuineTotal
<1>4. s \in Seq(Batches(InnerPoints))
  <2>1. \A i \in 1 .. Len(s) : s[i] \in Batches(InnerPoints)
    BY <1>1, GenuineIn
  <2>. QED  BY <2>1
<1>. QED  BY <1>3, <1>4

\* The total of a sequence of honest batches is honest, and so is each part of it.
LEMMA SequenceHonest ==
    ASSUME NEW s \in Seq(Honest)
    PROVE  /\ Inner!Total(s) \in Honest /\ Outer!Total(s) = Inner!Total(s) /\ s \in Seq(Batches(OuterPoints))
           /\ \A k \in 0 .. Len(s) : SubSeq(s, k + 1, Len(s)) \in Seq(Honest) /\ SubSeq(s, 1, k) \in Seq(Honest)
<1>1. s \in [1 .. Len(s) -> Honest] /\ Len(s) \in Nat
  OBVIOUS
<1>2. IsFiniteSet(1 .. Len(s))
  BY <1>1, FS_Interval
<1>3. Inner!Total(s) \in Honest
  BY <1>1, <1>2, HonestTotal
<1>4. s \in Seq(Batches(OuterPoints))
  <2>1. \A i \in 1 .. Len(s) : s[i] \in Batches(OuterPoints)
    BY <1>1, HonestIn
  <2>. QED  BY <2>1
<1>5. ASSUME NEW k \in 0 .. Len(s) PROVE SubSeq(s, k + 1, Len(s)) \in Seq(Honest) /\ SubSeq(s, 1, k) \in Seq(Honest)
  <2>1. \A i \in k + 1 .. Len(s) : s[i] \in Honest
    BY <1>1
  <2>2. \A i \in 1 .. k : s[i] \in Honest
    BY <1>1
  <2>3. k + 1 \in Int /\ Len(s) \in Int /\ 1 \in Int /\ k \in Int
    BY <1>1
  <2>. QED  BY <2>1, <2>2, <2>3, SubSeqProperties
<1>6. Outer!Total(s) = Inner!Total(s)
  BY SameCounts
<1>. QED  BY <1>3, <1>4, <1>5, <1>6

\* What a worker has yet to hear of is honest, outside, and genuine, inside.
LEMMA SentHolds == Typed => Sent
<1> SUFFICES ASSUME Typed, NEW v \in Workers, NEW w \in Workers
             PROVE  /\ Inner!Total(post[v][w]) \in Genuine /\ Coming(v, w) \in Genuine
                    /\ \A p : At(Coming(v, w), p) = At(Inner!Total(post[v][w]), p) + At(Mine(v), p)
                    /\ \A k \in 0 .. Len(mail[v][w]) :
                          /\ Outer!Total(SubSeq(mail[v][w], k + 1, Len(mail[v][w]))) \in Honest
                          /\ ComingO(v, w, k) \in Honest
                          /\ \A p : At(ComingO(v, w, k), p)
                               = At(Outer!Total(SubSeq(mail[v][w], k + 1, Len(mail[v][w]))), p) + At(MineO(v), p)
  BY DEF Sent
<1>1. post[v][w] \in Seq(Genuine) /\ mail[v][w] \in Seq(Honest)
  BY DEF Typed
<1>2. Mine(v) \in Genuine /\ MineO(v) \in Honest
  BY MadeHolds DEF Made
<1>3. Inner!Total(post[v][w]) \in Genuine
  BY <1>1, SequenceGenuine
<1>4. Coming(v, w) \in Genuine /\ \A p : At(Coming(v, w), p) = At(Inner!Total(post[v][w]), p) + At(Mine(v), p)
  BY <1>2, <1>3, GenuinePlus DEF Coming
<1>5. ASSUME NEW k \in 0 .. Len(mail[v][w])
      PROVE  /\ Outer!Total(SubSeq(mail[v][w], k + 1, Len(mail[v][w]))) \in Honest
             /\ ComingO(v, w, k) \in Honest
             /\ \A p : At(ComingO(v, w, k), p)
                         = At(Outer!Total(SubSeq(mail[v][w], k + 1, Len(mail[v][w]))), p) + At(MineO(v), p)
  <2> DEFINE s == SubSeq(mail[v][w], k + 1, Len(mail[v][w]))
  <2>1. s \in Seq(Honest)
    BY <1>1, SequenceHonest
  <2>2. ComingO(v, w, k) = Outer!Plus(Outer!Total(s), MineO(v))
    BY DEF ComingO
  <2> HIDE DEF s
  <2>3. Outer!Total(s) \in Honest
    <3>1. Inner!Total(s) \in Honest /\ Outer!Total(s) = Inner!Total(s)
      BY <2>1, SequenceHonest
    <3>. QED  BY <3>1
  <2>4. ComingO(v, w, k) \in Honest /\ \A p : At(ComingO(v, w, k), p) = At(Outer!Total(s), p) + At(MineO(v), p)
    BY <1>2, <2>2, <2>3, HonestPlus
  <2>. QED  BY <2>3, <2>4 DEF s
<1>. QED  BY <1>3, <1>4, <1>5

\* The sums over all workers are batches of the same kinds.
LEMMA SummedHolds == Typed => Summed
<1> SUFFICES ASSUME Typed PROVE Summed
  OBVIOUS
<1>1. IsFiniteSet(Workers)
  BY ConstantFacts
<1>2. ASSUME NEW w \in Workers
      PROVE  [v \in Workers |-> Coming(v, w)] \in [Workers -> Genuine] /\ AllComing(w) \in Genuine
  <2> DEFINE f == [v \in Workers |-> Coming(v, w)]
  <2>1. f \in [Workers -> Genuine]
    BY SentHolds DEF Sent
  <2>2. AllComing(w) = Inner!Total(f)
    BY DEF AllComing
  <2> HIDE DEF f
  <2>3. AllComing(w) \in Genuine
    BY <1>1, <2>1, <2>2, GenuineTotal
  <2>. QED  BY <2>1, <2>3 DEF f
<1>3. ASSUME NEW w \in Workers, NEW k \in Prefixes(w)
      PROVE  [v \in Workers |-> ComingO(v, w, k[v])] \in [Workers -> Honest] /\ AllComingO(w, k) \in Honest
  <2> DEFINE f == [v \in Workers |-> ComingO(v, w, k[v])]
  <2>1. \A v \in Workers : k[v] \in 0 .. Len(mail[v][w])
    <3> TAKE v \in Workers
    <3>1. k[v] \in Nat /\ k[v] <= Len(mail[v][w])
      BY DEF Prefixes
    <3>2. Len(mail[v][w]) \in Nat
      <4>1. mail[v][w] \in Seq(Honest)
        BY DEF Typed
      <4>. QED  BY <4>1
    <3>. QED  BY <3>1, <3>2
  <2>2. \A v \in Workers : ComingO(v, w, k[v]) \in Honest
    BY <2>1, SentHolds DEF Sent
  <2>3. f \in [Workers -> Honest]
    BY <2>2
  <2>4. AllComingO(w, k) = Inner!Total(f)
    BY SameCounts DEF AllComingO
  <2> HIDE DEF f
  <2>5. AllComingO(w, k) \in Honest
    BY <1>1, <2>3, <2>4, HonestTotal
  <2>. QED  BY <2>3, <2>5 DEF f
<1>4. within \in [Workers -> Batches(InnerPoints)] /\ alive \in [Workers -> Batches(OuterPoints)]
  <2>1. \A v \in Workers : within[v] \in Batches(InnerPoints)
    <3> TAKE v \in Workers
    <3>1. within[v] \in Batches(Ports(InnerPoints, {PIn, POut}))
      BY CountsIn DEF Typed
    <3>. QED  BY <3>1, PortsMore
  <2>2. \A v \in Workers : alive[v] \in Batches(OuterPoints)
    <3> TAKE v \in Workers
    <3>1. alive[v] \in Batches(Ports(OuterPoints, {A, B}))
      BY CountsIn DEF Typed
    <3>. QED  BY <3>1, PortsMore
  <2>. QED  BY <2>1, <2>2 DEF Typed
<1>5. Truth \in Batches(InnerPoints) /\ TruthO \in Batches(OuterPoints)
  <2>1. Outer!Total(alive) = Inner!Total(alive)
    BY SameCounts
  <2>2. Inner!Total(alive) \in Batches(OuterPoints)
    BY <1>1, <1>4, TotalIn
  <2>3. Inner!Total(within) \in Batches(InnerPoints)
    BY <1>1, <1>4, TotalIn
  <2>. QED  BY <2>1, <2>2, <2>3 DEF Truth, TruthO
<1>. QED  BY <1>2, <1>3, <1>4, <1>5 DEF Summed

\* Families of which one counts at least as much as the other, member by member.
LEMMA TotalMore ==
    ASSUME NEW P, NEW S, IsFiniteSet(S), NEW f \in [S -> Batches(P)], NEW g \in [S -> Batches(P)], NEW p,
           \A i \in S : At(f[i], p) - At(g[i], p) >= 0
    PROVE  /\ At(Inner!Total(f), p) - At(Inner!Total(g), p) >= 0
           /\ \A i \in S : At(f[i], p) - At(g[i], p) <= At(Inner!Total(f), p) - At(Inner!Total(g), p)
           /\ At(Inner!Total(f), p) - At(Inner!Total(g), p) > 0 => \E i \in S : At(f[i], p) - At(g[i], p) > 0
<1> DEFINE af == [i \in S |-> At(f[i], p)]
           ag == [i \in S |-> At(g[i], p)]
           d == [i \in S |-> At(f[i], p) - At(g[i], p)]
           m == At(Inner!Total(f), p)
           n == At(Inner!Total(g), p)
<1>1. m = SumFunctionOnSet(af, S) /\ n = SumFunctionOnSet(ag, S) /\ m \in Int /\ n \in Int
  <2>1. m = SumFunctionOnSet(af, S) /\ m \in Int
    BY TotalAt
  <2>2. n = SumFunctionOnSet(ag, S) /\ n \in Int
    BY TotalAt
  <2>. QED  BY <2>1, <2>2
<1>2. \A i \in S : At(f[i], p) \in Int /\ At(g[i], p) \in Int
  <2>1. \A i \in S : At(f[i], p) \in Int
    BY TotalAt
  <2>2. \A i \in S : At(g[i], p) \in Int
    BY TotalAt
  <2>. QED  BY <2>1, <2>2
<1>3. \A i \in S : /\ ag[i] \in Int /\ d[i] \in Nat /\ af[i] = ag[i] + d[i]
                   /\ d[i] = At(f[i], p) - At(g[i], p)
  BY <1>2
<1> HIDE DEF af, ag, d, m, n
<1>4. SumFunctionOnSet(af, S) = SumFunctionOnSet(ag, S) + SumFunctionOnSet(d, S)
  <2>1. \A i \in S : ag[i] \in Int /\ d[i] \in Int /\ af[i] = ag[i] + d[i]
    BY <1>3
  <2>. QED  BY <2>1, SumPlus
<1>5. SumFunctionOnSet(d, S) \in Nat /\ (SumFunctionOnSet(d, S) > 0 <=> \E i \in S : d[i] > 0)
  BY <1>3, SumPositive
<1>6. \A i \in S : d[i] <= SumFunctionOnSet(d, S)
  BY <1>3, SumPart
<1>7. m - n = SumFunctionOnSet(d, S)
  BY <1>1, <1>4, <1>5
<1>8. m - n >= 0 /\ (m - n > 0 => \E i \in S : d[i] > 0) /\ \A i \in S : d[i] <= m - n
  BY <1>5, <1>6, <1>7
<1>9. \A i \in S : d[i] = At(f[i], p) - At(g[i], p)
  BY <1>3
<1>. QED  BY <1>8, <1>9 DEF m, n

-----------------------------------------------------------------------------
(* What the counts of a worker imply.                                       *)

\* The counts at A are what is known of its capabilities.
LEMMA Known ==
    ASSUME Typed, Caps, NEW w \in Workers, NEW k \in Prefixes(w), NEW K \in Batches(OuterPoints), Balance(w, K, k),
           NEW t \in OuterTimes
    PROVE  /\ At(K, <<A, t>>) >= 0
           /\ \A v \in Workers : 0 <= Know(v, w, k[v], t) /\ Know(v, w, k[v], t) <= At(K, <<A, t>>)
           /\ At(K, <<A, t>>) > 0 => \E v \in Workers : Know(v, w, k[v], t) > 0
<1> DEFINE f == [v \in Workers |-> ComingO(v, w, k[v])]
           p == <<A, t>>
<1>1. f \in [Workers -> Batches(OuterPoints)] /\ alive \in [Workers -> Batches(OuterPoints)]
  <2>1. f \in [Workers -> Honest]
    BY SummedHolds DEF Summed
  <2>2. alive \in [Workers -> Batches(OuterPoints)]
    BY SummedHolds DEF Summed
  <2> HIDE DEF f
  <2>3. \A v \in Workers : f[v] \in Batches(OuterPoints)
    BY <2>1, HonestIn
  <2>. QED  BY <2>1, <2>2, <2>3
<1>2. \A v \in Workers : Know(v, w, k[v], t) = At(alive[v], p) - At(f[v], p)
  BY DEF Know, cap
<1>3. AllComingO(w, k) = Inner!Total(f) /\ TruthO = Inner!Total(alive)
  BY SameCounts DEF AllComingO, TruthO
<1>4. \A v \in Workers : k[v] \in 0 .. Len(mail[v][w])
  <2> TAKE v \in Workers
  <2>1. k[v] \in Nat /\ k[v] <= Len(mail[v][w]) /\ mail[v][w] \in Seq(Honest)
    BY DEF Prefixes, Typed
  <2>. QED  BY <2>1
<1>5. \A v \in Workers : Know(v, w, k[v], t) >= 0
  BY <1>4 DEF Caps, CapsAt
<1>6. At(K, p) + At(AllComingO(w, k), p) = At(TruthO, p)
  BY DEF Balance
<1>7. At(K, p) \in Int /\ At(AllComingO(w, k), p) \in Int /\ At(TruthO, p) \in Int
  <2>1. AllComingO(w, k) \in Batches(OuterPoints) /\ TruthO \in Batches(OuterPoints)
    BY SummedHolds, HonestIn DEF Summed
  <2>. QED  BY <2>1, BatchFacts
<1>8. At(K, p) = At(Inner!Total(alive), p) - At(Inner!Total(f), p)
  BY <1>3, <1>6, <1>7
<1> HIDE DEF f, p
<1>9. \A v \in Workers : At(alive[v], p) - At(f[v], p) >= 0
  BY <1>2, <1>5
<1>10. IsFiniteSet(Workers)
  BY ConstantFacts
<1>11. At(Inner!Total(alive), p) - At(Inner!Total(f), p) >= 0
  BY <1>1, <1>9, <1>10, TotalMore
<1>12. \A v \in Workers : At(alive[v], p) - At(f[v], p) <= At(Inner!Total(alive), p) - At(Inner!Total(f), p)
  BY <1>1, <1>9, <1>10, TotalMore
<1>13. At(Inner!Total(alive), p) - At(Inner!Total(f), p) > 0 => \E v \in Workers : At(alive[v], p) - At(f[v], p) > 0
  BY <1>1, <1>9, <1>10, TotalMore
<1>14. At(K, p) >= 0
  BY <1>8, <1>11
<1>15. \A v \in Workers : Know(v, w, k[v], t) <= At(K, p)
  BY <1>2, <1>8, <1>12
<1>16. At(K, p) > 0 => \E v \in Workers : Know(v, w, k[v], t) > 0
  BY <1>2, <1>8, <1>13
<1>. QED  BY <1>5, <1>14, <1>15, <1>16 DEF p

\* What is known of a capability, the scope's input is told.
LEMMA KnownImplied ==
    ASSUME Typed, Caps, NEW w \in Workers, NEW k \in Prefixes(w), NEW K \in Batches(OuterPoints), Balance(w, K, k),
           NEW v \in Workers, NEW s \in OuterTimes, Know(v, w, k[v], s) > 0,
           NEW t \in OuterTimes, s <= t, NEW l \in 1 .. 4
    PROVE  Outer!Implied(K, l, t)
<1>1. Know(v, w, k[v], s) <= At(K, <<A, s>>) /\ 0 <= Know(v, w, k[v], s)
  BY Known
<1>2. At(K, <<A, s>>) \in Int
  BY BatchFacts
<1>3. At(K, <<A, s>>) > 0
  <2>1. Know(v, w, k[v], s) \in Int
    <3>1. v \in Workers /\ k[v] \in 0 .. Len(mail[v][w])
      <4>1. k[v] \in Nat /\ k[v] <= Len(mail[v][w]) /\ mail[v][w] \in Seq(Honest)
        BY DEF Prefixes, Typed
      <4>. QED  BY <4>1
    <3>2. ComingO(v, w, k[v]) \in Batches(OuterPoints) /\ alive[v] \in Batches(OuterPoints)
      BY <3>1, SentHolds, SummedHolds, HonestIn DEF Sent, Summed
    <3>. QED  BY <3>2, BatchFacts DEF Know, cap
  <2>. QED  BY <1>1, <1>2, <2>1
<1>4. A \in 1 .. 4 /\ A <= l
  BY PortFacts
<1>. QED  BY <1>3, <1>4, OuterImplied

\* A capability of A is among what is known of.
LEMMA CapImplied ==
    ASSUME Typed, Caps, NEW w \in Workers, NEW k \in Prefixes(w), NEW K \in Batches(OuterPoints), Balance(w, K, k),
           NEW v \in Workers, NEW t \in OuterTimes, cap(v, t) > 0, NEW l \in 1 .. 4
    PROVE  Outer!Implied(K, l, t)
<1>1. k[v] \in 0 .. Len(mail[v][w])
  <2>1. k[v] \in Nat /\ k[v] <= Len(mail[v][w]) /\ mail[v][w] \in Seq(Honest)
    BY DEF Prefixes, Typed
  <2>. QED  BY <2>1
<1>2. PICK s \in OuterTimes : s <= t /\ Know(v, w, k[v], s) > 0
  BY <1>1 DEF Caps, CapsAt
<1>. QED  BY <1>2, KnownImplied

\* A message whose end is still to come is still expected at the scope's input.
LEMMA EntryImplied ==
    ASSUME Typed, Caps, NEW w \in Workers, NEW k \in Prefixes(w), NEW K \in Batches(OuterPoints), Balance(w, K, k),
           NEW t \in OuterTimes, NEW p \in Line(Source, t), At(AllComing(w), p) < 0
    PROVE  Outer!Implied(K, In, t)
<1>1. AllComing(w) \in Genuine /\ AllComing(w) \in Batches(InnerPoints)
  BY SummedHolds, GenuineIn DEF Summed
<1>2. Source \in 1 .. 4 /\ In \in 1 .. 4
  BY PortFacts
<1>3. \A q \in Line(Source, t) : At(AllComing(w), q) <= 0
  <2> TAKE q \in Line(Source, t)
  <2>1. q = <<Source, q[2]>> /\ q[2] \in InnerTimes
    BY <1>2, LineFacts
  <2>2. At(AllComing(w), <<Source, q[2]>>) <= 0
    BY <1>1, <2>1 DEF Genuine
  <2>. QED  BY <2>1, <2>2
<1>4. Across(AllComing(w), Source, t) <= At(AllComing(w), p) /\ Across(AllComing(w), Source, t) \in Int
  BY <1>1, <1>2, <1>3, AcrossFacts
<1>5. At(AllComing(w), p) \in Int
  BY <1>1, BatchFacts
<1>6. Across(AllComing(w), Source, t) < 0
  BY <1>4, <1>5
<1>7. At(K, <<In, t>>) + At(AllComingO(w, k), <<In, t>>) + Across(AllComing(w), Source, t) = 0
  BY DEF Balance
<1>8. AllComingO(w, k) \in Batches(OuterPoints)
  BY SummedHolds, HonestIn DEF Summed
<1>9. At(K, <<In, t>>) \in Int /\ At(AllComingO(w, k), <<In, t>>) \in Int
  BY <1>8, BatchFacts
<1>10. CASE At(K, <<In, t>>) > 0
  <2>1. In <= In /\ t <= t
    BY PortFacts, ConstantFacts
  <2>. QED  BY <1>2, <1>10, <2>1, OuterImplied
<1>11. CASE At(AllComingO(w, k), <<In, t>>) > 0
  <2> DEFINE f == [v \in Workers |-> ComingO(v, w, k[v])]
  <2>1. f \in [Workers -> Honest]
    BY SummedHolds DEF Summed
  <2>2. AllComingO(w, k) = Inner!Total(f)
    BY SameCounts DEF AllComingO
  <2>3. \A v \in Workers : f[v] = ComingO(v, w, k[v])
    OBVIOUS
  <2> HIDE DEF f
  <2>4. f \in [Workers -> Batches(OuterPoints)]
    BY <2>1, HonestIn
  <2>5. IsFiniteSet(Workers)
    BY ConstantFacts
  <2>6. PICK v \in Workers : At(f[v], <<In, t>>) > 0
    <3>1. At(Inner!Total(f), <<In, t>>) > 0
      BY <1>11, <2>2
    <3>. QED  BY <2>4, <2>5, <3>1, TotalSigns
  <2>7. k[v] \in 0 .. Len(mail[v][w])
    <3>1. k[v] \in Nat /\ k[v] <= Len(mail[v][w]) /\ mail[v][w] \in Seq(Honest)
      BY DEF Prefixes, Typed
    <3>. QED  BY <3>1
  <2>8. PICK s \in OuterTimes : s <= t /\ Know(v, w, k[v], s) > 0
    BY <2>3, <2>6, <2>7 DEF Caps, CapsAt
  <2>. QED  BY <1>2, <2>8, KnownImplied
<1>. QED  BY <1>6, <1>7, <1>9, <1>4, <1>10, <1>11

\* Nor does the end of anything inside come before it is accounted for outside.
LEMMA EndImplied ==
    ASSUME Typed, Caps, InnerBalance, Inside,
           NEW w \in Workers, NEW k \in Prefixes(w), NEW K \in Batches(OuterPoints), Balance(w, K, k),
           NEW p \in InnerPoints, At(AllComing(w), p) < 0
    PROVE  Outer!Implied(K, Out, p[2].outer)
<1> DEFINE t == p[2].outer
<1>1. p[1] \in 1 .. 4 /\ p[2] \in InnerTimes /\ p = <<p[1], p[2]>> /\ t \in OuterTimes
  BY InnerPointFacts, ConstantFacts
<1>2. AllComing(w) \in Genuine /\ AllComing(w) \in Batches(InnerPoints)
  BY SummedHolds, GenuineIn DEF Summed
<1>3. At(AllComing(w), p) \in Int
  BY <1>2, BatchFacts
<1>4. CASE p[1] = Source
  <2>1. p \in Line(Source, t)
    BY <1>4 DEF Line
  <2>2. Outer!Implied(K, In, t)
    BY <1>1, <2>1, EntryImplied
  <2>3. In \in 1 .. 4 /\ Out \in 1 .. 4 /\ In <= Out /\ t <= t
    BY <1>1, PortFacts, ConstantFacts
  <2>. QED  BY <1>1, <2>2, <2>3, OuterLater
<1>5. CASE p[1] = Target
  <2>1. At(AllComing(w), <<Target, p[2]>>) >= 0
    BY <1>1, <1>2 DEF Genuine
  <2>. QED  BY <1>1, <1>3, <1>5, <2>1
<1>6. CASE p[1] \in {PIn, POut}
  <2>1. At(nested[w], p) + At(AllComing(w), p) = At(Truth, p)
    BY <1>6 DEF InnerBalance, Ports
  <2>2. At(Truth, p) \in Int /\ At(Truth, p) >= 0
    <3>1. within \in [Workers -> Batches(InnerPoints)] /\ IsFiniteSet(Workers)
      BY SummedHolds, ConstantFacts DEF Summed
    <3>2. \A v \in Workers : At(within[v], p) >= 0
      <4> TAKE v \in Workers
      <4>1. within[v] \in Counts(Ports(InnerPoints, {PIn, POut}))
        BY DEF Typed
      <4>2. At(within[v], p) \in Nat
        BY <4>1, CountsIn
      <4>. QED  BY <4>2
    <3>3. At(Inner!Total(within), p) >= 0
      BY <3>1, <3>2, TotalSigns
    <3>4. Truth \in Batches(InnerPoints)
      BY SummedHolds DEF Summed
    <3>. QED  BY <3>3, <3>4, BatchFacts DEF Truth
  <2>3. At(nested[w], p) \in Int
    <3>1. nested[w] \in Batches(InnerPoints)
      BY DEF Typed
    <3>. QED  BY <3>1, BatchFacts
  <2>4. At(nested[w], p) > 0
    BY <1>3, <2>1, <2>2, <2>3
  <2>5. PICK s \in internals[w] : s <= t
    BY <1>6, <2>4 DEF Inside, Ports
  <2>6. s \in OuterTimes
    BY DEF Typed
  <2>7. At(K, <<Out, s>>) = 1
    BY <2>6 DEF Balance
  <2>8. Out \in 1 .. 4 /\ Out <= Out
    BY PortFacts
  <2>9. At(K, <<Out, s>>) > 0
    BY <2>7
  <2>. QED  BY <1>1, <2>5, <2>6, <2>8, <2>9, OuterImplied
<1>7. p[1] = Source \/ p[1] = Target \/ p[1] \in {PIn, POut}
  BY <1>1, PortFacts
<1>. QED  BY <1>4, <1>5, <1>6, <1>7

(* An increment that is yet to come, inside, is not earlier than what the   *)
(* outer scope knows of its internals.                                      *)
LEMMA NewsImplied ==
    ASSUME Typed, Caps, InnerBalance, Inside,
           NEW w \in Workers, NEW k \in Prefixes(w), NEW K \in Batches(OuterPoints), Balance(w, K, k),
           NEW p \in InnerPoints, At(AllComing(w), p) > 0
    PROVE  Outer!Implied(K, Out, p[2].outer)
<1>1. PICK q \in InnerPoints : Leq(q, p) /\ At(AllComing(w), q) < 0
  BY SummedHolds DEF Summed, Genuine, Upright
<1>2. Outer!Implied(K, Out, q[2].outer)
  BY <1>1, EndImplied
<1>3. q[2].outer <= p[2].outer
  BY <1>1 DEF Leq
<1>4. q[2].outer \in OuterTimes /\ p[2].outer \in OuterTimes
  BY InnerPointFacts, ConstantFacts
<1>5. Out \in 1 .. 4 /\ Out <= Out
  BY PortFacts
<1>. QED  BY <1>2, <1>3, <1>4, <1>5, OuterLater

\* What is counted inside is implied at Out.
LEMMA InsideImplied ==
    ASSUME Typed, Inside, NEW w \in Workers, NEW k, NEW K \in Batches(OuterPoints), Balance(w, K, k),
           NEW p \in Ports(InnerPoints, {PIn, POut}), At(nested[w], p) > 0
    PROVE  Outer!Implied(K, Out, p[2].outer)
<1>1. PICK s \in internals[w] : s <= p[2].outer
  BY DEF Inside
<1>2. s \in OuterTimes /\ p[2].outer \in OuterTimes
  BY InnerPointFacts, ConstantFacts DEF Typed, Ports
<1>3. At(K, <<Out, s>>) = 1
  BY <1>2 DEF Balance
<1>4. Out \in 1 .. 4 /\ Out <= Out /\ At(K, <<Out, s>>) > 0
  BY <1>3, PortFacts
<1>. QED  BY <1>1, <1>2, <1>4, OuterImplied

\* What is alive at a worker is part of what is alive, and is at its ports.
LEMMA TruthFacts ==
    ASSUME Typed
    PROVE  /\ \A v \in Workers : \A p :
                 /\ At(within[v], p) \in Nat /\ At(within[v], p) <= At(Truth, p)
                 /\ At(alive[v], p) \in Nat /\ At(alive[v], p) <= At(TruthO, p)
           /\ \A p : At(Truth, p) \in Nat /\ At(TruthO, p) \in Nat
           /\ \A v \in Workers : \A p : At(within[v], p) > 0 => p \in Ports(InnerPoints, {PIn, POut})
           /\ \A v \in Workers : \A p : At(alive[v], p) > 0 => p \in Ports(OuterPoints, {A, B})
<1>1. \A v \in Workers : \A p : At(within[v], p) \in Nat /\ (At(within[v], p) > 0 => p \in Ports(InnerPoints, {PIn, POut}))
  <2> TAKE v \in Workers
  <2>1. within[v] \in Counts(Ports(InnerPoints, {PIn, POut}))
    BY DEF Typed
  <2>. QED  BY <2>1, CountsIn
<1>2. \A v \in Workers : \A p : At(alive[v], p) \in Nat /\ (At(alive[v], p) > 0 => p \in Ports(OuterPoints, {A, B}))
  <2> TAKE v \in Workers
  <2>1. alive[v] \in Counts(Ports(OuterPoints, {A, B}))
    BY DEF Typed
  <2>. QED  BY <2>1, CountsIn
<1>3. /\ within \in [Workers -> Batches(InnerPoints)] /\ alive \in [Workers -> Batches(OuterPoints)]
      /\ IsFiniteSet(Workers)
  BY SummedHolds, ConstantFacts DEF Summed
<1>4. ASSUME NEW p
      PROVE  At(Truth, p) \in Nat /\ \A v \in Workers : At(within[v], p) <= At(Truth, p)
  <2>1. \A v \in Workers : At(within[v], p) >= 0
    BY <1>1
  <2>2. At(Inner!Total(within), p) >= 0 /\ \A v \in Workers : At(within[v], p) <= At(Inner!Total(within), p)
    BY <1>3, <2>1, TotalSigns
  <2>3. At(Inner!Total(within), p) \in Int
    BY <1>3, TotalAt
  <2>. QED  BY <2>2, <2>3 DEF Truth
<1>5. ASSUME NEW p
      PROVE  At(TruthO, p) \in Nat /\ \A v \in Workers : At(alive[v], p) <= At(TruthO, p)
  <2>1. \A v \in Workers : At(alive[v], p) >= 0
    BY <1>2
  <2>2. At(Inner!Total(alive), p) >= 0 /\ \A v \in Workers : At(alive[v], p) <= At(Inner!Total(alive), p)
    BY <1>3, <2>1, TotalSigns
  <2>3. At(Inner!Total(alive), p) \in Int
    BY <1>3, TotalAt
  <2>4. TruthO = Inner!Total(alive)
    BY SameCounts DEF TruthO
  <2>. QED  BY <2>2, <2>3, <2>4
<1>. QED  BY <1>1, <1>2, <1>4, <1>5

\* Everything that is alive is implied by counts that balance.
LEMMA OuterClaim ==
    ASSUME Typed, Caps, InnerBalance, Inside,
           NEW w \in Workers, NEW k \in Prefixes(w), NEW K \in Batches(OuterPoints), Balance(w, K, k), NEW v \in Workers
    PROVE  /\ \A p \in OuterPoints : At(alive[v], p) > 0 => Outer!Implied(K, p[1], p[2])
           /\ \A p \in InnerPoints : At(within[v], p) > 0 => Outer!Implied(K, B, p[2].outer)
<1>1. ASSUME NEW p \in InnerPoints, At(within[v], p) > 0
      PROVE  Outer!Implied(K, B, p[2].outer)
  <2>1. p \in Ports(InnerPoints, {PIn, POut}) /\ At(Truth, p) \in Nat
    BY <1>1, TruthFacts
  <2>2. At(within[v], p) <= At(Truth, p) /\ At(within[v], p) \in Nat
    BY TruthFacts
  <2>3. At(nested[w], p) + At(AllComing(w), p) = At(Truth, p)
    BY <2>1 DEF InnerBalance
  <2>4. At(nested[w], p) \in Int /\ At(AllComing(w), p) \in Int
    <3>1. nested[w] \in Batches(InnerPoints) /\ AllComing(w) \in Batches(InnerPoints)
      BY SummedHolds, GenuineIn DEF Summed, Typed
    <3>. QED  BY <3>1, BatchFacts
  <2>5. At(nested[w], p) > 0 \/ At(AllComing(w), p) > 0
    BY <1>1, <2>1, <2>2, <2>3, <2>4
  <2>6. Outer!Implied(K, Out, p[2].outer)
    <3>1. CASE At(nested[w], p) > 0
      BY <2>1, <3>1, InsideImplied
    <3>2. CASE At(AllComing(w), p) > 0
      BY <3>2, NewsImplied
    <3>. QED  BY <2>5, <3>1, <3>2
  <2>7. p[2].outer \in OuterTimes /\ p[2].outer <= p[2].outer
    BY InnerPointFacts, ConstantFacts
  <2>8. Out \in 1 .. 4 /\ B \in 1 .. 4 /\ Out <= B
    BY PortFacts
  <2>. QED  BY <2>6, <2>7, <2>8, OuterLater
<1>2. ASSUME NEW t \in OuterTimes, At(alive[v], <<B, t>>) > 0
      PROVE  Outer!Implied(K, B, t)
  <2>1. At(alive[v], <<B, t>>) <= At(TruthO, <<B, t>>) /\ At(alive[v], <<B, t>>) \in Nat /\ At(TruthO, <<B, t>>) \in Nat
    BY TruthFacts
  <2>2. At(K, <<B, t>>) + At(AllComingO(w, k), <<B, t>>) + Across(AllComing(w), Target, t) = At(TruthO, <<B, t>>)
    BY DEF Balance
  <2>3. AllComingO(w, k) \in Honest /\ AllComingO(w, k) \in Batches(OuterPoints)
    BY SummedHolds, HonestIn DEF Summed
  <2>4. At(AllComingO(w, k), <<B, t>>) \in Int /\ At(AllComingO(w, k), <<B, t>>) <= 0 /\ At(K, <<B, t>>) \in Int
    BY <2>3, BatchFacts DEF Honest
  <2>5. AllComing(w) \in Batches(InnerPoints)
    BY SummedHolds, GenuineIn DEF Summed
  <2>6. Target \in 1 .. 4 /\ B \in 1 .. 4 /\ Out \in 1 .. 4 /\ Out <= B /\ B <= B /\ t <= t
    BY PortFacts, ConstantFacts
  <2>7. Across(AllComing(w), Target, t) \in Int
    BY <2>5, <2>6, AcrossFacts
  <2>8. At(K, <<B, t>>) > 0 \/ Across(AllComing(w), Target, t) > 0
    BY <1>2, <2>1, <2>2, <2>4, <2>7
  <2>9. CASE At(K, <<B, t>>) > 0
    BY <2>6, <2>9, OuterImplied
  <2>10. CASE Across(AllComing(w), Target, t) > 0
    <3>1. PICK p \in Line(Target, t) : At(AllComing(w), p) > 0
      BY <2>5, <2>6, <2>10, AcrossFacts
    <3>2. p \in InnerPoints /\ p[2].outer = t
      BY DEF Line
    <3>3. Outer!Implied(K, Out, p[2].outer)
      BY <3>1, <3>2, NewsImplied
    <3>. QED  BY <2>6, <3>2, <3>3, OuterLater
  <2>. QED  BY <2>8, <2>9, <2>10
<1>3. ASSUME NEW p \in OuterPoints, At(alive[v], p) > 0
      PROVE  Outer!Implied(K, p[1], p[2])
  <2>1. p[1] \in {A, B} /\ p[1] \in 1 .. 4 /\ p[2] \in OuterTimes /\ p = <<p[1], p[2]>>
    BY <1>3, TruthFacts, OuterPointFacts DEF Ports
  <2>2. CASE p[1] = A
    <3>1. cap(v, p[2]) > 0
      <4>1. p = <<A, p[2]>>
        BY <2>1, <2>2
      <4>. QED  BY <1>3, <4>1 DEF cap
    <3>. QED  BY <2>1, <3>1, CapImplied
  <2>3. CASE p[1] = B
    <3>1. p = <<B, p[2]>>
      BY <2>1, <2>3
    <3>2. At(alive[v], <<B, p[2]>>) > 0
      BY <1>3, <3>1
    <3>. QED  BY <1>2, <2>1, <2>3, <3>2
  <2>. QED  BY <2>1, <2>2, <2>3
<1>. QED  BY <1>1, <1>3

\* Everything that is alive inside is implied by the counts inside.
LEMMA InnerClaim ==
    ASSUME Typed, InnerBalance, Accepts, NEW w \in Workers, NEW v \in Workers,
           NEW p \in InnerPoints, At(within[v], p) > 0
    PROVE  Inner!Implied(nested[w], p[1], p[2])
<1> SUFFICES ASSUME ~ Inner!Implied(nested[w], p[1], p[2]) PROVE FALSE
  OBVIOUS
<1>1. p[1] \in 1 .. 4 /\ p[2] \in InnerTimes /\ p = <<p[1], p[2]>>
  BY InnerPointFacts
<1>2. nested[w] \in Batches(InnerPoints) /\ AllComing(w) \in Genuine /\ AllComing(w) \in Batches(InnerPoints)
  BY SummedHolds, GenuineIn DEF Summed, Typed
<1>3. \A q \in InnerPoints : At(nested[w], q) \in Int /\ At(AllComing(w), q) \in Int
  BY <1>2, BatchFacts
<1>4. \A q \in InnerPoints : Leq(q, p) => ~ At(nested[w], q) > 0
  <2>1. \A q \in InnerPoints : Leq(q, <<p[1], p[2]>>) => ~ At(nested[w], q) > 0
    BY <1>1, <1>2, InnerImplied
  <2>. QED  BY <1>1, <2>1
<1>5. At(AllComing(w), p) > 0
  <2>1. p \in Ports(InnerPoints, {PIn, POut}) /\ At(Truth, p) \in Nat
    BY TruthFacts
  <2>2. At(within[v], p) <= At(Truth, p) /\ At(within[v], p) \in Nat
    BY TruthFacts
  <2>3. At(nested[w], p) + At(AllComing(w), p) = At(Truth, p)
    BY <2>1 DEF InnerBalance
  <2>4. ~ At(nested[w], p) > 0
    BY <1>4, LeqFacts
  <2>. QED  BY <1>3, <2>1, <2>2, <2>3, <2>4
<1>6. PICK q \in InnerPoints : Leq(q, p) /\ At(AllComing(w), q) < 0
  BY <1>2, <1>5 DEF Genuine, Upright
<1>7. q[1] \in 1 .. 4 /\ q[2] \in InnerTimes /\ q = <<q[1], q[2]>> /\ q[2].outer \in OuterTimes
  BY InnerPointFacts, ConstantFacts
<1>8. CASE q[1] = Target
  <2>1. At(AllComing(w), <<Target, q[2]>>) >= 0
    BY <1>2, <1>7 DEF Genuine
  <2>. QED  BY <1>3, <1>6, <1>7, <1>8, <2>1
<1>9. CASE q[1] \in {PIn, POut}
  <2>1. At(nested[w], q) + At(AllComing(w), q) = At(Truth, q)
    BY <1>9 DEF InnerBalance, Ports
  <2>2. ~ At(nested[w], q) > 0
    BY <1>4, <1>6
  <2>3. At(Truth, q) \in Nat
    BY TruthFacts
  <2>. QED  BY <1>3, <1>6, <2>1, <2>2, <2>3
<1>10. CASE q[1] = Source
  <2>1. q \in Line(Source, q[2].outer)
    BY <1>10 DEF Line
  <2>2. PICK s \in OuterTimes : s <= q[2].outer /\ At(nested[w], <<Source, to_inner(s)>>) > 0
    BY <1>6, <1>7, <2>1 DEF Accepts, Acc
  <2> DEFINE r == <<Source, to_inner(s)>>
  <2>3. r \in InnerPoints /\ r[1] = Source /\ r[2] = to_inner(s)
    BY ConstantFacts, InnerPointFacts, PortFacts
  <2>4. Leq(r, q)
    <3>1. to_inner(s).outer = s /\ to_inner(s).round = 0
      BY DEF to_inner
    <3>2. q[2].round \in Nat /\ q[1] = Source /\ Source \in Int
      BY <1>7, <1>10, ConstantFacts, PortFacts
    <3> HIDE DEF r
    <3>. QED  BY <2>2, <2>3, <3>1, <3>2 DEF Leq
  <2>5. Leq(r, p)
    <3> HIDE DEF r
    <3>. QED  BY <1>6, <2>3, <2>4, LeqFacts
  <2>. QED  BY <1>4, <2>2, <2>3, <2>5
<1>11. q[1] = Source \/ q[1] = Target \/ q[1] \in {PIn, POut}
  BY <1>7, PortFacts
<1>. QED  BY <1>8, <1>9, <1>10, <1>11

\* What is counted at a point is what is counted more often than not.
LEMMA DomainCounts ==
    ASSUME Typed, NEW v \in Workers
    PROVE  /\ \A p \in DOMAIN alive[v] : p \in OuterPoints /\ At(alive[v], p) > 0
           /\ \A p \in DOMAIN within[v] : p \in InnerPoints /\ At(within[v], p) > 0
<1>1. alive[v] \in Batches(OuterPoints) /\ within[v] \in Batches(InnerPoints)
  BY SummedHolds DEF Summed
<1>2. /\ DOMAIN alive[v] \subseteq OuterPoints /\ \A p \in DOMAIN alive[v] : At(alive[v], p) # 0
      /\ DOMAIN within[v] \subseteq InnerPoints /\ \A p \in DOMAIN within[v] : At(within[v], p) # 0
  BY <1>1, BatchFacts
<1>3. \A p : At(alive[v], p) \in Nat /\ At(within[v], p) \in Nat
  BY TruthFacts
<1>. QED  BY <1>2, <1>3

\* The invariant implies the property.
LEMMA InvImpliesSafe == NestedInv => NestedSafe
<1> SUFFICES ASSUME NestedInv PROVE NestedSafe
  OBVIOUS
<1> USE DEF NestedInv
<1>1. NothingBehind
  <2> SUFFICES ASSUME NEW w \in Workers, NEW v \in Workers
               PROVE  /\ \A p \in DOMAIN alive[v] :
                            /\ Outer!Implied(tracker[w], p[1], p[2])
                            /\ p[1] = A => Inner!Implied(nested[w], PIn, to_inner(p[2]))
                      /\ \A p \in DOMAIN within[v] :
                            /\ Inner!Implied(nested[w], p[1], p[2])
                            /\ Outer!Implied(tracker[w], B, to_outer(p[2]))
    BY DEF NothingBehind
  <2>1. ASSUME NEW p \in DOMAIN alive[v] PROVE Outer!Implied(tracker[w], p[1], p[2])
    BY DomainCounts DEF OuterCovered
  <2>2. ASSUME NEW p \in DOMAIN alive[v], p[1] = A PROVE Inner!Implied(nested[w], PIn, to_inner(p[2]))
    <3>1. p \in OuterPoints /\ At(alive[v], p) > 0
      BY DomainCounts
    <3>2. p[2] \in OuterTimes /\ p = <<A, p[2]>>
      BY <2>2, <3>1, OuterPointFacts
    <3>3. cap(v, p[2]) > 0
      BY <3>1, <3>2 DEF cap
    <3>4. PICK s \in OuterTimes : s <= p[2] /\ At(nested[w], <<Source, to_inner(s)>>) > 0
      BY <3>2, <3>3 DEF Accepts, Acc
    <3> DEFINE r == <<Source, to_inner(s)>>
               q == <<PIn, to_inner(p[2])>>
    <3>5. r \in InnerPoints /\ r[1] = Source /\ r[2] = to_inner(s) /\ q[1] = PIn /\ q[2] = to_inner(p[2])
      BY ConstantFacts, InnerPointFacts, PortFacts
    <3>6. to_inner(s).outer = s /\ to_inner(s).round = 0 /\ to_inner(p[2]).outer = p[2] /\ to_inner(p[2]).round = 0
      BY DEF to_inner
    <3>7. Leq(r, q)
      <4>1. Source <= PIn
        BY PortFacts
      <4> HIDE DEF r, q
      <4>. QED  BY <3>4, <3>5, <3>6, <4>1 DEF Leq
    <3>8. nested[w] \in Batches(InnerPoints) /\ PIn \in 1 .. 4 /\ to_inner(p[2]) \in InnerTimes
      BY <3>2, PortFacts, ConstantFacts DEF Typed
    <3>. QED  BY <3>4, <3>5, <3>7, <3>8, InnerImplied
  <2>3. ASSUME NEW p \in DOMAIN within[v] PROVE Inner!Implied(nested[w], p[1], p[2])
    BY DomainCounts, InnerClaim
  <2>4. ASSUME NEW p \in DOMAIN within[v] PROVE Outer!Implied(tracker[w], B, to_outer(p[2]))
    BY DomainCounts DEF OuterCovered, to_outer
  <2>. QED  BY <2>1, <2>2, <2>3, <2>4
<1>2. NothingToCome
  <2> SUFFICES ASSUME NEW w \in Workers \ open
               PROVE  /\ Outer!Frontier(tracker[w], In) = {}
                      /\ entering[w] = Inner!Nothing /\ inner[w] = Inner!Nothing /\ shared[w]["P"] = Inner!Nothing
                      /\ \A v \in Workers : within[v] = Inner!Nothing /\ Inner!Total(post[v][w]) = Inner!Nothing
    BY DEF NothingToCome
  <2>1. GoneAt(w)
    BY DEF Gone
  <2>2. Outer!Frontier(tracker[w], In) = {}
    <3>1. tracker[w] \in Batches(OuterPoints) /\ In \in 1 .. 4
      BY PortFacts DEF Typed
    <3>. QED  BY <2>1, <3>1, OuterFrontier DEF GoneAt
  <2>3. ASSUME NEW v \in Workers PROVE Inner!Total(post[v][w]) = Inner!Nothing
    <3>1. post[v][w] \in Seq(Batches(InnerPoints))
      BY SequenceGenuine DEF Typed
    <3> DEFINE n == Len(post[v][w])
    <3>2. post[v][w] \in [1 .. n -> Batches(InnerPoints)] /\ IsFiniteSet(1 .. n)
      BY <3>1, SequenceTotal
    <3>3. \A i \in 1 .. n : post[v][w][i] = Inner!Nothing
      BY <2>1, <3>2 DEF GoneAt
    <3>4. \A p : \A i \in 1 .. n : At(post[v][w][i], p) = 0
      BY <3>3, NothingFacts
    <3> HIDE DEF n
    <3>5. \A p : At(Inner!Total(post[v][w]), p) = 0
      BY <3>2, <3>4, TotalSigns
    <3>6. Inner!Total(post[v][w]) \in Batches(InnerPoints)
      BY <3>1, SequenceTotal
    <3>. QED  BY <3>5, <3>6, NothingFacts
  <2>. QED  BY <2>1, <2>2, <2>3 DEF GoneAt
<1>. QED  BY <1>1, <1>2 DEF NestedSafe

-----------------------------------------------------------------------------
(* What the steps of operators have in common.                              *)

\* A total in which one worker's part has changed.
LEMMA MoreTotal ==
    ASSUME NEW P, NEW f \in [Workers -> Batches(P)], NEW g \in [Workers -> Batches(P)],
           NEW x \in Workers, NEW d \in Batches(P), NEW p,
           \A v \in Workers : At(g[v], p) = At(f[v], p) + More(d, p, v, x)
    PROVE  At(Inner!Total(g), p) = At(Inner!Total(f), p) + At(d, p)
<1>1. IsFiniteSet(Workers)
  BY ConstantFacts
<1>2. \A v \in Workers : At(f[v], p) \in Int
  BY BatchFacts
<1>3. \A v \in Workers \ {x} : At(g[v], p) = At(f[v], p)
  BY <1>2 DEF More
<1>4. At(Inner!Total(g), p) = At(Inner!Total(f), p) + (At(g[x], p) - At(f[x], p))
  BY <1>1, <1>3, TotalUpdate
<1>5. At(d, p) \in Int
  BY BatchFacts
<1>6. At(g[x], p) - At(f[x], p) = At(d, p)
  BY <1>2, <1>5 DEF More
<1>. QED  BY <1>4, <1>6

\* What each worker has yet to hear of, after the step of an operator.
LEMMA MovedSums ==
    ASSUME Typed, Typed', NEW w \in Workers, NEW x \in Workers, NEW y \in Workers,
           NEW dI \in Batches(InnerPoints), NEW eI \in Batches(InnerPoints),
           NEW dO \in Batches(OuterPoints), NEW eO \in Batches(OuterPoints),
           Moved(w, x, y, dI, dO, eI, eO)
    PROVE  /\ \A u \in Workers : \A p : At(AllComing(u)', p) = At(AllComing(u), p) + At(dI, p)
           /\ \A v, u \in Workers : \A k \in 0 .. Len(mail[v][u]) : \A p :
                 At(ComingO(v, u, k)', p) = At(ComingO(v, u, k), p) + More(dO, p, v, w)
           /\ \A u \in Workers : \A k \in Prefixes(u) : \A p :
                 At(AllComingO(u, k)', p) = At(AllComingO(u, k), p) + At(dO, p)
           /\ \A p : At(Truth', p) = At(Truth, p) + At(eI, p) /\ At(TruthO', p) = At(TruthO, p) + At(eO, p)
           /\ \A u \in Workers : Prefixes(u)' = Prefixes(u)
<1>1. Made /\ Sent /\ Summed
  BY MadeHolds, SentHolds, SummedHolds
<1>2. Made' /\ Sent' /\ Summed'
  <2>1. Typed' => Made'
    BY MadeHolds, PTL
  <2>2. Typed' => Sent'
    BY SentHolds, PTL
  <2>3. Typed' => Summed'
    BY SummedHolds, PTL
  <2>. QED  BY <2>1, <2>2, <2>3
<1>3. mail' = mail /\ post' = post
  BY DEF Moved, work_vars
<1>4. \A u \in Workers : Prefixes(u)' = Prefixes(u)
  BY <1>3 DEF Prefixes
<1>5. ASSUME NEW v \in Workers, NEW u \in Workers, NEW p
      PROVE  At(Coming(v, u)', p) = At(Coming(v, u), p) + More(dI, p, v, w)
  <2>1. At(Coming(v, u)', p) = At(Inner!Total(post[v][u]), p) + At(Mine(v)', p)
    BY <1>2, <1>3 DEF Sent
  <2>2. At(Coming(v, u), p) = At(Inner!Total(post[v][u]), p) + At(Mine(v), p)
    BY <1>1 DEF Sent
  <2>3. At(Mine(v)', p) = At(Mine(v), p) + More(dI, p, v, w)
    BY DEF Moved
  <2>4. At(Inner!Total(post[v][u]), p) \in Int /\ At(Mine(v), p) \in Int /\ More(dI, p, v, w) \in Int
    <3>1. Inner!Total(post[v][u]) \in Batches(InnerPoints) /\ Mine(v) \in Batches(InnerPoints)
      BY <1>1, GenuineIn DEF Sent, Made
    <3>. QED  BY <3>1, BatchFacts DEF More
  <2>. QED  BY <2>1, <2>2, <2>3, <2>4
<1>6. ASSUME NEW u \in Workers, NEW p
      PROVE  At(AllComing(u)', p) = At(AllComing(u), p) + At(dI, p)
  <2> DEFINE f == [v \in Workers |-> Coming(v, u)]
             g == [v \in Workers |-> Coming(v, u)']
  <2>1. f \in [Workers -> Genuine] /\ g \in [Workers -> Genuine]
    BY <1>1, <1>2 DEF Sent
  <2>2. \A v \in Workers : At(g[v], p) = At(f[v], p) + More(dI, p, v, w)
    BY <1>5
  <2>3. AllComing(u) = Inner!Total(f) /\ AllComing(u)' = Inner!Total(g)
    BY DEF AllComing
  <2> HIDE DEF f, g
  <2>4. f \in [Workers -> Batches(InnerPoints)] /\ g \in [Workers -> Batches(InnerPoints)]
    BY <2>1, GenuineIn
  <2>5. At(Inner!Total(g), p) = At(Inner!Total(f), p) + At(dI, p)
    BY <2>2, <2>4, MoreTotal
  <2>. QED  BY <2>3, <2>5
<1>7. ASSUME NEW v \in Workers, NEW u \in Workers, NEW k \in 0 .. Len(mail[v][u]), NEW p
      PROVE  At(ComingO(v, u, k)', p) = At(ComingO(v, u, k), p) + More(dO, p, v, w)
  <2> DEFINE s == Outer!Total(SubSeq(mail[v][u], k + 1, Len(mail[v][u])))
  <2>1. At(ComingO(v, u, k)', p) = At(s, p) + At(MineO(v)', p)
    BY <1>2, <1>3 DEF Sent
  <2>2. At(ComingO(v, u, k), p) = At(s, p) + At(MineO(v), p)
    BY <1>1 DEF Sent
  <2>3. At(MineO(v)', p) = At(MineO(v), p) + More(dO, p, v, w)
    BY DEF Moved
  <2>4. At(s, p) \in Int /\ At(MineO(v), p) \in Int /\ More(dO, p, v, w) \in Int
    <3>1. s \in Batches(OuterPoints) /\ MineO(v) \in Batches(OuterPoints)
      BY <1>1, HonestIn DEF Sent, Made
    <3> HIDE DEF s
    <3>. QED  BY <3>1, BatchFacts DEF More
  <2> HIDE DEF s
  <2>. QED  BY <2>1, <2>2, <2>3, <2>4
<1>8. ASSUME NEW u \in Workers, NEW k \in Prefixes(u), NEW p
      PROVE  At(AllComingO(u, k)', p) = At(AllComingO(u, k), p) + At(dO, p)
  <2> DEFINE f == [v \in Workers |-> ComingO(v, u, k[v])]
             g == [v \in Workers |-> ComingO(v, u, k[v])']
  <2>1. f \in [Workers -> Honest] /\ g \in [Workers -> Honest]
    <3>1. f \in [Workers -> Honest]
      BY <1>1 DEF Summed
    <3>2. k \in Prefixes(u)'
      BY <1>4
    <3>3. [v \in Workers |-> ComingO(v, u, k[v])'] \in [Workers -> Honest]
      BY <1>2, <3>2 DEF Summed
    <3>. QED  BY <3>1, <3>3
  <2>2. \A v \in Workers : At(g[v], p) = At(f[v], p) + More(dO, p, v, w)
    <3> TAKE v \in Workers
    <3>1. k[v] \in 0 .. Len(mail[v][u])
      <4>1. k[v] \in Nat /\ k[v] <= Len(mail[v][u]) /\ mail[v][u] \in Seq(Honest)
        BY DEF Prefixes, Typed
      <4>. QED  BY <4>1
    <3>. QED  BY <1>7, <3>1
  <2>3. AllComingO(u, k) = Inner!Total(f) /\ AllComingO(u, k)' = Inner!Total(g)
    BY SameCounts DEF AllComingO
  <2> HIDE DEF f, g
  <2>4. f \in [Workers -> Batches(OuterPoints)] /\ g \in [Workers -> Batches(OuterPoints)]
    BY <2>1, HonestIn
  <2>5. At(Inner!Total(g), p) = At(Inner!Total(f), p) + At(dO, p)
    BY <2>2, <2>4, MoreTotal
  <2>. QED  BY <2>3, <2>5
<1>9. ASSUME NEW p PROVE At(Truth', p) = At(Truth, p) + At(eI, p)
  <2>1. within \in [Workers -> Batches(InnerPoints)] /\ within' \in [Workers -> Batches(InnerPoints)]
    BY <1>1, <1>2 DEF Summed
  <2>2. \A v \in Workers : At(within'[v], p) = At(within[v], p) + More(eI, p, v, y)
    BY DEF Moved
  <2>3. At(Inner!Total(within'), p) = At(Inner!Total(within), p) + At(eI, p)
    BY <2>1, <2>2, MoreTotal
  <2>. QED  BY <2>3 DEF Truth
<1>10. ASSUME NEW p PROVE At(TruthO', p) = At(TruthO, p) + At(eO, p)
  <2>1. alive \in [Workers -> Batches(OuterPoints)] /\ alive' \in [Workers -> Batches(OuterPoints)]
    BY <1>1, <1>2 DEF Summed
  <2>2. \A v \in Workers : At(alive'[v], p) = At(alive[v], p) + More(eO, p, v, x)
    BY DEF Moved
  <2>3. At(Inner!Total(alive'), p) = At(Inner!Total(alive), p) + At(eO, p)
    BY <2>1, <2>2, MoreTotal
  <2>4. TruthO = Inner!Total(alive) /\ TruthO' = Inner!Total(alive')
    BY SameCounts DEF TruthO
  <2>. QED  BY <2>3, <2>4
<1>. QED  BY <1>4, <1>6, <1>7, <1>8, <1>9, <1>10

\* What is recorded inside is what happened there, so the counts still balance.
LEMMA MovedInner ==
    ASSUME Typed, Typed', InnerBalance, NEW w \in Workers, NEW x \in Workers, NEW y \in Workers,
           NEW dI \in Batches(InnerPoints), NEW eI \in Batches(InnerPoints),
           NEW dO \in Batches(OuterPoints), NEW eO \in Batches(OuterPoints),
           Moved(w, x, y, dI, dO, eI, eO), \A p \in Ports(InnerPoints, {PIn, POut}) : At(dI, p) = At(eI, p)
    PROVE  InnerBalance'
<1> SUFFICES ASSUME NEW u \in Workers, NEW p \in Ports(InnerPoints, {PIn, POut})
             PROVE  At(nested'[u], p) + At(AllComing(u)', p) = At(Truth', p)
  BY DEF InnerBalance
<1>1. nested' = nested
  BY DEF Moved, work_vars
<1>2. At(AllComing(u)', p) = At(AllComing(u), p) + At(dI, p)
  BY MovedSums
<1>3. At(Truth', p) = At(Truth, p) + At(eI, p)
  BY MovedSums
<1>4. At(nested[u], p) + At(AllComing(u), p) = At(Truth, p)
  BY DEF InnerBalance
<1>5. At(nested[u], p) \in Int /\ At(AllComing(u), p) \in Int /\ At(dI, p) \in Int
  <2>1. nested[u] \in Batches(InnerPoints) /\ AllComing(u) \in Batches(InnerPoints)
    BY SummedHolds, GenuineIn DEF Typed, Summed
  <2>. QED  BY <2>1, BatchFacts
<1>6. At(dI, p) = At(eI, p)
  OBVIOUS
<1>. QED  BY <1>1, <1>2, <1>3, <1>4, <1>5, <1>6

\* The balances of the outer scope, after the step of an operator.
LEMMA MovedOuter ==
    ASSUME Typed, Typed', OuterBalance, NEW w \in Workers, NEW x \in Workers, NEW y \in Workers,
           NEW dI \in Batches(InnerPoints), NEW eI \in Batches(InnerPoints),
           NEW dO \in Batches(OuterPoints), NEW eO \in Batches(OuterPoints),
           Moved(w, x, y, dI, dO, eI, eO),
           Level(dI, dO, eO)
    PROVE  OuterBalance'
<1> DEFINE z == [v \in Workers |-> 0]
<1> SUFFICES ASSUME NEW u \in Workers, NEW t \in OuterTimes
             PROVE  LET K == Outer!Plus(tracker'[u], final'[u])
                    IN  /\ At(K, <<A, t>>) + At(AllComingO(u, z)', <<A, t>>) = At(TruthO', <<A, t>>)
                        /\ At(K, <<In, t>>) + At(AllComingO(u, z)', <<In, t>>) + Across(AllComing(u)', Source, t) = 0
                        /\ At(K, <<B, t>>) + At(AllComingO(u, z)', <<B, t>>) + Across(AllComing(u)', Target, t)
                             = At(TruthO', <<B, t>>)
                        /\ At(K, <<Out, t>>) = IF t \in internals'[u] THEN 1 ELSE 0
  BY DEF OuterBalance, Balance
<1> DEFINE K == Outer!Plus(tracker[u], final[u])
<1>1. tracker' = tracker /\ final' = final /\ internals' = internals /\ mail' = mail
  BY DEF Moved, work_vars
<1>2. z \in Prefixes(u)
  <2>1. \A v \in Workers : Len(mail[v][u]) \in Nat
    <3> TAKE v \in Workers
    <3>1. mail[v][u] \in Seq(Honest)
      BY DEF Typed
    <3>. QED  BY <3>1
  <2>. QED  BY <2>1 DEF Prefixes
<1>3. Balance(u, K, z)
  BY DEF OuterBalance
<1> HIDE DEF z
<1>4. \A p : At(AllComingO(u, z)', p) = At(AllComingO(u, z), p) + At(dO, p)
  BY <1>2, MovedSums
<1>5. \A p : At(AllComing(u)', p) = At(AllComing(u), p) + At(dI, p)
  BY MovedSums
<1>6. \A p : At(TruthO', p) = At(TruthO, p) + At(eO, p)
  BY MovedSums
<1>7. Summed'
  <2>1. Typed' => Summed'
    BY SummedHolds, PTL
  <2>. QED  BY <2>1
<1>8. AllComing(u) \in Batches(InnerPoints) /\ AllComing(u)' \in Batches(InnerPoints)
  BY <1>7, SummedHolds, GenuineIn DEF Summed
<1>9. /\ Across(AllComing(u)', Source, t) = Across(AllComing(u), Source, t) + Across(dI, Source, t)
      /\ Across(AllComing(u)', Target, t) = Across(AllComing(u), Target, t) + Across(dI, Target, t)
  <2>1. Source \in 1 .. 4 /\ Target \in 1 .. 4
    BY PortFacts
  <2>. QED  BY <1>5, <1>8, <2>1, AcrossPlus
<1>10. /\ Across(AllComing(u), Source, t) \in Int /\ Across(dI, Source, t) \in Int
       /\ Across(AllComing(u), Target, t) \in Int /\ Across(dI, Target, t) \in Int
  <2>1. Source \in 1 .. 4 /\ Target \in 1 .. 4
    BY PortFacts
  <2>. QED  BY <1>8, <2>1, AcrossFacts
<1>11. K \in Batches(OuterPoints) /\ AllComingO(u, z) \in Batches(OuterPoints)
  <2>1. tracker[u] \in Batches(OuterPoints) /\ final[u] \in Batches(OuterPoints)
    BY DEF Typed
  <2>2. AllComingO(u, z) \in Honest
    BY <1>2, SummedHolds DEF Summed
  <2>. QED  BY <2>1, <2>2, OuterFacts, HonestIn
<1>12. \A p : At(K, p) \in Int /\ At(AllComingO(u, z), p) \in Int /\ At(dO, p) \in Int
  BY <1>11, BatchFacts
<1>13. K = Outer!Plus(tracker'[u], final'[u])
  BY <1>1
<1> HIDE DEF K
<1>14. /\ At(K, <<A, t>>) + At(AllComingO(u, z), <<A, t>>) = At(TruthO, <<A, t>>)
       /\ At(K, <<In, t>>) + At(AllComingO(u, z), <<In, t>>) + Across(AllComing(u), Source, t) = 0
       /\ At(K, <<B, t>>) + At(AllComingO(u, z), <<B, t>>) + Across(AllComing(u), Target, t) = At(TruthO, <<B, t>>)
       /\ At(K, <<Out, t>>) = IF t \in internals[u] THEN 1 ELSE 0
  BY <1>3 DEF Balance
<1>15. At(K, <<A, t>>) + At(AllComingO(u, z)', <<A, t>>) = At(TruthO', <<A, t>>)
  <2>1. At(AllComingO(u, z)', <<A, t>>) = At(AllComingO(u, z), <<A, t>>) + At(dO, <<A, t>>)
    BY <1>4
  <2>2. At(dO, <<A, t>>) = At(eO, <<A, t>>)
    BY DEF Level
  <2>3. At(TruthO', <<A, t>>) = At(TruthO, <<A, t>>) + At(eO, <<A, t>>)
    BY <1>6
  <2>. QED  BY <1>12, <1>14, <2>1, <2>2, <2>3
<1>16. At(K, <<In, t>>) + At(AllComingO(u, z)', <<In, t>>) + Across(AllComing(u)', Source, t) = 0
  <2>1. At(AllComingO(u, z)', <<In, t>>) = At(AllComingO(u, z), <<In, t>>) + At(dO, <<In, t>>)
    BY <1>4
  <2>2. At(dO, <<In, t>>) + Across(dI, Source, t) = 0
    BY DEF Level
  <2>. QED  BY <1>9, <1>10, <1>12, <1>14, <2>1, <2>2
<1>17. At(K, <<B, t>>) + At(AllComingO(u, z)', <<B, t>>) + Across(AllComing(u)', Target, t) = At(TruthO', <<B, t>>)
  <2>1. At(AllComingO(u, z)', <<B, t>>) = At(AllComingO(u, z), <<B, t>>) + At(dO, <<B, t>>)
    BY <1>4
  <2>2. At(dO, <<B, t>>) + Across(dI, Target, t) = At(eO, <<B, t>>)
    BY DEF Level
  <2>3. At(TruthO', <<B, t>>) = At(TruthO, <<B, t>>) + At(eO, <<B, t>>)
    BY <1>6
  <2>. QED  BY <1>9, <1>10, <1>12, <1>14, <2>1, <2>2, <2>3
<1>. QED  BY <1>1, <1>13, <1>14, <1>15, <1>16, <1>17

\* What is accepted at a time is accepted at the later ones.
LEMMA AccLater ==
    ASSUME NEW w, NEW s \in OuterTimes, NEW t \in OuterTimes, s <= t, Acc(w, s)
    PROVE  Acc(w, t)
<1>1. PICK r \in OuterTimes : r <= s /\ At(nested[w], <<Source, to_inner(r)>>) > 0
  BY DEF Acc
<1>2. r <= t
  BY <1>1, ConstantFacts
<1>. QED  BY <1>1, <1>2 DEF Acc

\* New capabilities, and messages, are not earlier than a capability of the same A.
LEMMA MovedCaps ==
    ASSUME Typed, Typed', Caps, NEW w \in Workers, NEW x \in Workers, NEW y \in Workers,
           NEW dI \in Batches(InnerPoints), NEW eI \in Batches(InnerPoints),
           NEW dO \in Batches(OuterPoints), NEW eO \in Batches(OuterPoints),
           Moved(w, x, y, dI, dO, eI, eO),
           \A v \in Workers : \A t \in OuterTimes :
              /\ More(dO, <<A, t>>, v, w) = More(eO, <<A, t>>, v, x)
              /\ More(dO, <<In, t>>, v, w) > 0 \/ More(eO, <<A, t>>, v, x) > 0
                    => \E s \in OuterTimes : s <= t /\ cap(v, s) > 0
    PROVE  /\ Caps'
           /\ \A v, u \in Workers : \A k \in 0 .. Len(mail[v][u]) : \A t \in OuterTimes :
                 Know(v, u, k, t)' = Know(v, u, k, t)
           /\ \A v \in Workers : \A t \in OuterTimes :
                 cap(v, t)' > 0 => \E s \in OuterTimes : s <= t /\ cap(v, s) > 0
<1>1. ASSUME NEW v \in Workers, NEW t \in OuterTimes
      PROVE  /\ cap(v, t)' = cap(v, t) + More(eO, <<A, t>>, v, x)
             /\ cap(v, t) \in Int /\ More(eO, <<A, t>>, v, x) \in Int
             /\ cap(v, t)' > 0 => \E s \in OuterTimes : s <= t /\ cap(v, s) > 0
  <2>1. cap(v, t)' = cap(v, t) + More(eO, <<A, t>>, v, x)
    BY DEF Moved, cap
  <2>2. cap(v, t) \in Int /\ More(eO, <<A, t>>, v, x) \in Int
    <3>1. alive[v] \in Batches(OuterPoints)
      BY SummedHolds DEF Summed
    <3>. QED  BY <3>1, BatchFacts DEF cap, More
  <2>3. cap(v, t)' > 0 => \E s \in OuterTimes : s <= t /\ cap(v, s) > 0
    <3>1. CASE cap(v, t) > 0
      <4>1. t <= t
        BY ConstantFacts
      <4>. QED  BY <3>1, <4>1
    <3>2. CASE More(eO, <<A, t>>, v, x) > 0
      BY <3>2
    <3>. QED  BY <2>1, <2>2, <3>1, <3>2
  <2>. QED  BY <2>1, <2>2, <2>3
<1>2. ASSUME NEW v \in Workers, NEW u \in Workers, NEW k \in 0 .. Len(mail[v][u]), NEW t \in OuterTimes
      PROVE  Know(v, u, k, t)' = Know(v, u, k, t)
  <2>1. At(ComingO(v, u, k)', <<A, t>>) = At(ComingO(v, u, k), <<A, t>>) + More(dO, <<A, t>>, v, w)
    BY MovedSums
  <2>2. At(ComingO(v, u, k), <<A, t>>) \in Int
    <3>1. ComingO(v, u, k) \in Batches(OuterPoints)
      BY SentHolds, HonestIn DEF Sent
    <3>. QED  BY <3>1, BatchFacts
  <2>3. More(dO, <<A, t>>, v, w) = More(eO, <<A, t>>, v, x)
    OBVIOUS
  <2>. QED  BY <1>1, <2>1, <2>2, <2>3 DEF Know
<1>3. ASSUME NEW v \in Workers, NEW u \in Workers, NEW k \in 0 .. Len(mail[v][u]), NEW t \in OuterTimes,
             cap(v, t)' > 0 \/ At(ComingO(v, u, k)', <<In, t>>) > 0
      PROVE  \E s \in OuterTimes : s <= t /\ Know(v, u, k, s)' > 0
  <2>1. CapsAt(v, u, k)
    BY DEF Caps
  <2>2. At(ComingO(v, u, k)', <<In, t>>) = At(ComingO(v, u, k), <<In, t>>) + More(dO, <<In, t>>, v, w)
    BY MovedSums
  <2>3. At(ComingO(v, u, k), <<In, t>>) \in Int /\ More(dO, <<In, t>>, v, w) \in Int
    <3>1. ComingO(v, u, k) \in Batches(OuterPoints)
      BY SentHolds, HonestIn DEF Sent
    <3>. QED  BY <3>1, BatchFacts DEF More
  <2>4. (\E s \in OuterTimes : s <= t /\ cap(v, s) > 0) \/ At(ComingO(v, u, k), <<In, t>>) > 0
    <3>1. CASE cap(v, t)' > 0
      BY <1>1, <3>1
    <3>2. CASE At(ComingO(v, u, k)', <<In, t>>) > 0
      <4>1. At(ComingO(v, u, k), <<In, t>>) > 0 \/ More(dO, <<In, t>>, v, w) > 0
        BY <2>2, <2>3, <3>2
      <4>. QED  BY <4>1
    <3>. QED  BY <1>3, <3>1, <3>2
  <2>5. \E s \in OuterTimes : s <= t /\ Know(v, u, k, s) > 0
    <3>1. CASE At(ComingO(v, u, k), <<In, t>>) > 0
      BY <2>1, <3>1 DEF CapsAt
    <3>2. ASSUME NEW s \in OuterTimes, s <= t, cap(v, s) > 0
          PROVE  \E r \in OuterTimes : r <= t /\ Know(v, u, k, r) > 0
      <4>1. PICK r \in OuterTimes : r <= s /\ Know(v, u, k, r) > 0
        BY <2>1, <3>2 DEF CapsAt
      <4>2. r <= t
        BY <3>2, <4>1, ConstantFacts
      <4>. QED  BY <4>1, <4>2
    <3>. QED  BY <2>4, <3>1, <3>2
  <2>. QED  BY <1>2, <2>5
<1>4. mail' = mail
  BY DEF Moved, work_vars
<1>5. ASSUME NEW v \in Workers, NEW u \in Workers, NEW k \in 0 .. Len(mail[v][u])
      PROVE  CapsAt(v, u, k)'
  <2>1. CapsAt(v, u, k)
    BY DEF Caps
  <2>2. ASSUME NEW t \in OuterTimes PROVE Know(v, u, k, t)' >= 0
    <3>1. Know(v, u, k, t)' = Know(v, u, k, t)
      BY <1>2
    <3>2. Know(v, u, k, t) >= 0
      BY <2>1 DEF CapsAt
    <3>. QED  BY <3>1, <3>2
  <2>3. \A t \in OuterTimes : \A j \in 0 .. k : Know(v, u, k, t)' > 0 =>
            \E s \in OuterTimes : s <= t /\ Know(v, u, j, s)' > 0
    <3> SUFFICES ASSUME NEW t \in OuterTimes, NEW j \in 0 .. k, Know(v, u, k, t)' > 0
                 PROVE  \E s \in OuterTimes : s <= t /\ Know(v, u, j, s)' > 0
      OBVIOUS
    <3>1. j \in 0 .. Len(mail[v][u])
      <4>1. mail[v][u] \in Seq(Honest)
        BY DEF Typed
      <4>. QED  BY <4>1
    <3>2. Know(v, u, k, t)' = Know(v, u, k, t)
      BY <1>2
    <3>3. PICK s \in OuterTimes : s <= t /\ Know(v, u, j, s) > 0
      BY <2>1, <3>2 DEF CapsAt
    <3>4. Know(v, u, j, s)' = Know(v, u, j, s)
      BY <1>2, <3>1
    <3>. QED  BY <3>3, <3>4
  <2>. QED  BY <1>3, <2>2, <2>3 DEF CapsAt
<1>6. Caps'
  BY <1>4, <1>5 DEF Caps
<1>. QED  BY <1>1, <1>2, <1>6

\* They are not earlier than what the nested scope was told to accept, either.
LEMMA MovedAccepts ==
    ASSUME Typed, Typed', Accepts, NEW w \in Workers, NEW x \in Workers, NEW y \in Workers,
           NEW dI \in Batches(InnerPoints), NEW eI \in Batches(InnerPoints),
           NEW dO \in Batches(OuterPoints), NEW eO \in Batches(OuterPoints),
           Moved(w, x, y, dI, dO, eI, eO),
           \A v \in Workers : \A t \in OuterTimes :
              cap(v, t)' > 0 => \E s \in OuterTimes : s <= t /\ cap(v, s) > 0,
           \A t \in OuterTimes : \A p \in Line(Source, t) :
              At(dI, p) < 0 => \E v \in Workers : \E s \in OuterTimes : s <= t /\ cap(v, s) > 0
    PROVE  Accepts'
<1>1. nested' = nested /\ open' = open /\ tracker' = tracker
  BY DEF Moved, work_vars
<1>2. \A u, t : Acc(u, t)' <=> Acc(u, t)
  BY <1>1 DEF Acc
<1>3. ASSUME NEW u \in Workers, NEW v \in Workers, NEW t \in OuterTimes, NEW s \in OuterTimes, s <= t, cap(v, s) > 0
      PROVE  Acc(u, t)
  <2>1. Acc(u, s)
    BY <1>3 DEF Accepts
  <2>. QED  BY <1>3, <2>1, AccLater
<1>4. ASSUME NEW u \in Workers, NEW t \in OuterTimes
      PROVE  /\ \A p \in Line(Source, t) : At(AllComing(u)', p) < 0 => Acc(u, t)
             /\ \A v \in Workers : cap(v, t)' > 0 => Acc(u, t)
             /\ u \in open => (Acc(u, t) <=> Outer!Implied(tracker[u], In, t))
             /\ \A p \in Line(Source, t) : At(nested[u], p) # 0 => p = <<Source, to_inner(t)>>
  <2>1. ASSUME NEW p \in Line(Source, t), At(AllComing(u)', p) < 0 PROVE Acc(u, t)
    <3>1. At(AllComing(u)', p) = At(AllComing(u), p) + At(dI, p)
      BY MovedSums
    <3>2. At(AllComing(u), p) \in Int /\ At(dI, p) \in Int
      <4>1. AllComing(u) \in Batches(InnerPoints)
        BY SummedHolds, GenuineIn DEF Summed
      <4>. QED  BY <4>1, BatchFacts
    <3>3. At(AllComing(u), p) < 0 \/ At(dI, p) < 0
      BY <2>1, <3>1, <3>2
    <3>4. CASE At(AllComing(u), p) < 0
      BY <3>4 DEF Accepts
    <3>5. CASE At(dI, p) < 0
      <4>1. PICK v \in Workers, s \in OuterTimes : s <= t /\ cap(v, s) > 0
        BY <3>5
      <4>. QED  BY <1>3, <4>1
    <3>. QED  BY <3>3, <3>4, <3>5
  <2>2. ASSUME NEW v \in Workers, cap(v, t)' > 0 PROVE Acc(u, t)
    <3>1. PICK s \in OuterTimes : s <= t /\ cap(v, s) > 0
      BY <2>2
    <3>. QED  BY <1>3, <3>1
  <2>3. /\ u \in open => (Acc(u, t) <=> Outer!Implied(tracker[u], In, t))
        /\ \A p \in Line(Source, t) : At(nested[u], p) # 0 => p = <<Source, to_inner(t)>>
    BY DEF Accepts
  <2>. QED  BY <2>1, <2>2, <2>3
<1>. QED  BY <1>1, <1>2, <1>4 DEF Accepts

\* What the step of an operator makes alive is not behind a frontier.
LEMMA MovedCovered ==
    ASSUME Typed, Typed', OuterCovered, NEW w \in Workers, NEW x \in Workers, NEW y \in Workers,
           NEW dI \in Batches(InnerPoints), NEW eI \in Batches(InnerPoints),
           NEW dO \in Batches(OuterPoints), NEW eO \in Batches(OuterPoints),
           Moved(w, x, y, dI, dO, eI, eO),
           \A u \in Workers : \A p \in OuterPoints : At(eO, p) > 0 => Outer!Implied(tracker[u], p[1], p[2]),
           \A u \in Workers : \A p \in InnerPoints : At(eI, p) > 0 => Outer!Implied(tracker[u], B, p[2].outer)
    PROVE  OuterCovered'
<1>1. tracker' = tracker
  BY DEF Moved, work_vars
<1>2. ASSUME NEW u \in Workers, NEW v \in Workers, NEW p \in OuterPoints, At(alive'[v], p) > 0
      PROVE  Outer!Implied(tracker[u], p[1], p[2])
  <2>1. At(alive'[v], p) = At(alive[v], p) + More(eO, p, v, x)
    BY DEF Moved
  <2>2. At(alive[v], p) \in Int /\ At(eO, p) \in Int
    <3>1. alive[v] \in Batches(OuterPoints)
      BY SummedHolds DEF Summed
    <3>. QED  BY <3>1, BatchFacts
  <2>3. At(alive[v], p) > 0 \/ At(eO, p) > 0
    BY <1>2, <2>1, <2>2 DEF More
  <2>. QED  BY <2>3 DEF OuterCovered
<1>3. ASSUME NEW u \in Workers, NEW v \in Workers, NEW p \in InnerPoints, At(within'[v], p) > 0
      PROVE  Outer!Implied(tracker[u], B, p[2].outer)
  <2>1. At(within'[v], p) = At(within[v], p) + More(eI, p, v, y)
    BY DEF Moved
  <2>2. At(within[v], p) \in Int /\ At(eI, p) \in Int
    <3>1. within[v] \in Batches(InnerPoints)
      BY SummedHolds DEF Summed
    <3>. QED  BY <3>1, BatchFacts
  <2>3. At(within[v], p) > 0 \/ At(eI, p) > 0
    BY <1>3, <2>1, <2>2 DEF More
  <2>. QED  BY <2>3 DEF OuterCovered
<1>. QED  BY <1>1, <1>2, <1>3 DEF OuterCovered

\* All of the invariant, for a step of operators.
LEMMA MovedInv ==
    ASSUME NestedInv, Typed', NEW w \in Workers, NEW x \in Workers, NEW y \in Workers,
           NEW dI \in Batches(InnerPoints), NEW eI \in Batches(InnerPoints),
           NEW dO \in Batches(OuterPoints), NEW eO \in Batches(OuterPoints),
           Moved(w, x, y, dI, dO, eI, eO),
           \A p \in Ports(InnerPoints, {PIn, POut}) : At(dI, p) = At(eI, p),
           Level(dI, dO, eO),
           \A v \in Workers : \A t \in OuterTimes :
              /\ More(dO, <<A, t>>, v, w) = More(eO, <<A, t>>, v, x)
              /\ More(dO, <<In, t>>, v, w) > 0 \/ More(eO, <<A, t>>, v, x) > 0
                    => \E s \in OuterTimes : s <= t /\ cap(v, s) > 0,
           \A t \in OuterTimes : \A p \in Line(Source, t) :
              At(dI, p) < 0 => \E v \in Workers : \E s \in OuterTimes : s <= t /\ cap(v, s) > 0,
           \A u \in Workers : \A p \in OuterPoints : At(eO, p) > 0 => Outer!Implied(tracker[u], p[1], p[2]),
           \A u \in Workers : \A p \in InnerPoints : At(eI, p) > 0 => Outer!Implied(tracker[u], B, p[2].outer),
           Gone'
    PROVE  NestedInv'
<1>1. Typed /\ InnerBalance /\ OuterBalance /\ Caps /\ Accepts /\ Inside /\ OuterCovered /\ News
  BY DEF NestedInv
<1>2. InnerBalance'
  BY <1>1, MovedInner
<1>3. OuterBalance'
  BY <1>1, MovedOuter
<1>4. Caps'
  BY <1>1, MovedCaps
<1>5. \A v \in Workers : \A t \in OuterTimes : cap(v, t)' > 0 => \E s \in OuterTimes : s <= t /\ cap(v, s) > 0
  BY <1>1, MovedCaps
<1>6. Accepts'
  BY <1>1, <1>5, MovedAccepts
<1>7. OuterCovered'
  BY <1>1, MovedCovered
<1>8. Inside' /\ News'
  BY <1>1 DEF Inside, News, Moved, work_vars
<1>. QED  BY <1>2, <1>3, <1>4, <1>6, <1>7, <1>8 DEF NestedInv

-----------------------------------------------------------------------------
(* What the operators do.                                                   *)

\* Adding to a batch of counts, and taking what it has.
LEMMA CountsPlus ==
    ASSUME NEW P, NEW b \in Counts(P), NEW c \in Batches(P), \A p \in P : At(b, p) + At(c, p) >= 0
    PROVE  Inner!Plus(b, c) \in Counts(P) /\ Outer!Plus(b, c) \in Counts(P)
<1>1. b \in Batches(P)
  BY CountsIn
<1>2. Inner!Plus(b, c) \in Batches(P) /\ \A p \in P : At(Inner!Plus(b, c), p) >= 0
  BY <1>1, PlusFacts
<1>3. Outer!Plus(b, c) = Inner!Plus(b, c)
  BY SameCounts
<1>. QED  BY <1>2, <1>3 DEF Counts

\* What is there can be taken.
LEMMA CountsTake == \A P : \A b \in Counts(P) : \A p \in DOMAIN b : p \in P /\ At(b, p) >= 1
<1> SUFFICES ASSUME NEW P, NEW b \in Counts(P), NEW p \in DOMAIN b
             PROVE  p \in P /\ At(b, p) >= 1
  OBVIOUS
<1>1. b \in Batches(P) /\ At(b, p) \in Nat
  BY CountsIn
<1>2. DOMAIN b \subseteq P /\ At(b, p) # 0
  BY <1>1, BatchFacts
<1>. QED  BY <1>1, <1>2

\* One change to counts that leaves no negative one.
LEMMA PlusChange ==
    ASSUME NEW P, NEW b \in Counts(P), NEW p \in P, NEW n \in Int, At(b, p) + n >= 0
    PROVE  /\ Inner!Plus(b, Inner!Change(p, n)) \in Counts(P) /\ Outer!Plus(b, Outer!Change(p, n)) \in Counts(P)
           /\ \A q : /\ At(Inner!Plus(b, Inner!Change(p, n)), q) = At(b, q) + At(Inner!Change(p, n), q)
                     /\ At(Outer!Plus(b, Outer!Change(p, n)), q) = At(b, q) + At(Outer!Change(p, n), q)
<1> DEFINE c == Inner!Change(p, n)
<1>1. c \in Batches(P) /\ \A q : At(c, q) = IF q = p THEN n ELSE 0
  BY ChangeFacts
<1>2. c = Outer!Change(p, n)
  BY SameCounts
<1> HIDE DEF c
<1>3. b \in Batches(P)
  BY CountsIn
<1>4. \A q \in P : At(b, q) + At(c, q) >= 0
  <2> TAKE q \in P
  <2>1. At(b, q) \in Nat
    BY CountsIn
  <2>2. At(c, q) = IF q = p THEN n ELSE 0
    BY <1>1
  <2>. QED  BY <2>1, <2>2
<1>5. Inner!Plus(b, c) \in Counts(P) /\ Outer!Plus(b, c) \in Counts(P)
  BY <1>1, <1>4, CountsPlus
<1>6. \A q : At(Inner!Plus(b, c), q) = At(b, q) + At(c, q)
  BY <1>1, <1>3, PlusFacts
<1>7. Outer!Plus(b, c) = Inner!Plus(b, c)
  BY SameCounts
<1>. QED  BY <1>2, <1>5, <1>6, <1>7 DEF c

\* A change of the outer scope that A or B records.
LEMMA RecordedOuter ==
    ASSUME Typed, NEW w \in Workers, NEW o \in {"A", "B"}, NEW c \in Honest, Record(w, o, c)
    PROVE  /\ shared' \in [Workers -> [Children -> Genuine \cup Honest]]
           /\ \A v \in Workers : /\ shared'[v]["A"] \in Honest /\ shared'[v]["B"] \in Honest
                                 /\ shared'[v]["P"] \in Genuine /\ shared'[v]["P"] = shared[v]["P"]
           /\ \A v \in Workers : \A p :
                 At(shared'[v]["A"], p) + At(shared'[v]["B"], p)
                   = (At(shared[v]["A"], p) + At(shared[v]["B"], p)) + More(c, p, v, w)
<1> DEFINE n == Outer!Plus(shared[w][o], c)
<1>1. o \in Children /\ o # "P" /\ "A" \in Children /\ "B" \in Children /\ "P" \in Children
  BY DEF Children
<1>2. /\ shared \in [Workers -> [Children -> Genuine \cup Honest]]
      /\ \A v \in Workers : shared[v]["A"] \in Honest /\ shared[v]["B"] \in Honest /\ shared[v]["P"] \in Genuine
  BY DEF Typed
<1>3. shared[w][o] \in Honest
  BY <1>2
<1>4. n \in Honest /\ \A p : At(n, p) = At(shared[w][o], p) + At(c, p)
  BY <1>3, HonestPlus
<1>5. shared' = [shared EXCEPT ![w][o] = n]
  BY <1>1, <1>2 DEF Record
<1> HIDE DEF n
<1>6. shared' \in [Workers -> [Children -> Genuine \cup Honest]]
  BY <1>1, <1>2, <1>4, <1>5
<1>7. \A v \in Workers : \A a \in Children : shared'[v][a] = IF v = w /\ a = o THEN n ELSE shared[v][a]
  BY <1>1, <1>2, <1>5
<1>8. ASSUME NEW v \in Workers
      PROVE  /\ shared'[v]["A"] \in Honest /\ shared'[v]["B"] \in Honest
             /\ shared'[v]["P"] \in Genuine /\ shared'[v]["P"] = shared[v]["P"]
  BY <1>1, <1>2, <1>4, <1>7
<1>9. ASSUME NEW v \in Workers, NEW p
      PROVE  At(shared'[v]["A"], p) + At(shared'[v]["B"], p)
               = (At(shared[v]["A"], p) + At(shared[v]["B"], p)) + More(c, p, v, w)
  <2>1. At(shared[v]["A"], p) \in Int /\ At(shared[v]["B"], p) \in Int /\ At(c, p) \in Int
    <3>1. shared[v]["A"] \in Batches(OuterPoints) /\ shared[v]["B"] \in Batches(OuterPoints) /\ c \in Batches(OuterPoints)
      BY <1>2, HonestIn
    <3>. QED  BY <3>1, BatchFacts
  <2>2. CASE v # w
    <3>1. shared'[v]["A"] = shared[v]["A"] /\ shared'[v]["B"] = shared[v]["B"]
      BY <1>1, <1>7, <2>2
    <3>. QED  BY <2>1, <2>2, <3>1 DEF More
  <2>3. CASE v = w /\ o = "A"
    <3>1. shared'[v]["A"] = n /\ shared'[v]["B"] = shared[v]["B"]
      BY <1>1, <1>7, <2>3
    <3>2. At(n, p) = At(shared[v]["A"], p) + At(c, p)
      BY <1>4, <2>3
    <3>. QED  BY <2>1, <2>3, <3>1, <3>2 DEF More
  <2>4. CASE v = w /\ o = "B"
    <3>1. shared'[v]["B"] = n /\ shared'[v]["A"] = shared[v]["A"]
      BY <1>1, <1>7, <2>4
    <3>2. At(n, p) = At(shared[v]["B"], p) + At(c, p)
      BY <1>4, <2>4
    <3>. QED  BY <2>1, <2>4, <3>1, <3>2 DEF More
  <2>. QED  BY <2>2, <2>3, <2>4
<1>. QED  BY <1>6, <1>8, <1>9

\* A change of the nested scope that P records.
LEMMA RecordedInner ==
    ASSUME Typed, NEW w \in Workers, NEW c \in Genuine, Record(w, "P", c)
    PROVE  /\ shared' \in [Workers -> [Children -> Genuine \cup Honest]]
           /\ \A v \in Workers : /\ shared'[v]["A"] \in Honest /\ shared'[v]["A"] = shared[v]["A"]
                                 /\ shared'[v]["B"] \in Honest /\ shared'[v]["B"] = shared[v]["B"]
                                 /\ shared'[v]["P"] \in Genuine
           /\ \A v \in Workers : \A p : At(shared'[v]["P"], p) = At(shared[v]["P"], p) + More(c, p, v, w)
<1> DEFINE n == Inner!Plus(shared[w]["P"], c)
<1>1. "A" \in Children /\ "B" \in Children /\ "P" \in Children
  BY DEF Children
<1>2. /\ shared \in [Workers -> [Children -> Genuine \cup Honest]]
      /\ \A v \in Workers : shared[v]["A"] \in Honest /\ shared[v]["B"] \in Honest /\ shared[v]["P"] \in Genuine
  BY DEF Typed
<1>3. n \in Genuine /\ \A p : At(n, p) = At(shared[w]["P"], p) + At(c, p)
  BY <1>2, GenuinePlus
<1>4. shared' = [shared EXCEPT ![w]["P"] = n]
  BY <1>1, <1>2 DEF Record
<1> HIDE DEF n
<1>5. shared' \in [Workers -> [Children -> Genuine \cup Honest]]
  BY <1>1, <1>2, <1>3, <1>4
<1>6. \A v \in Workers : \A a \in Children : shared'[v][a] = IF v = w /\ a = "P" THEN n ELSE shared[v][a]
  BY <1>1, <1>2, <1>4
<1>7. ASSUME NEW v \in Workers
      PROVE  /\ shared'[v]["A"] \in Honest /\ shared'[v]["A"] = shared[v]["A"]
             /\ shared'[v]["B"] \in Honest /\ shared'[v]["B"] = shared[v]["B"]
             /\ shared'[v]["P"] \in Genuine
  BY <1>1, <1>2, <1>3, <1>6
<1>8. ASSUME NEW v \in Workers, NEW p
      PROVE  At(shared'[v]["P"], p) = At(shared[v]["P"], p) + More(c, p, v, w)
  <2>1. At(shared[v]["P"], p) \in Int
    <3>1. shared[v]["P"] \in Batches(InnerPoints)
      BY <1>2, GenuineIn
    <3>. QED  BY <3>1, BatchFacts
  <2>2. shared'[v]["P"] = IF v = w THEN n ELSE shared[v]["P"]
    BY <1>1, <1>6
  <2>. QED  BY <1>3, <2>1, <2>2 DEF More
<1>. QED  BY <1>5, <1>7, <1>8

\* Nothing is shut down while there is a capability of some A, or something in some P.
LEMMA AllOpen ==
    ASSUME Typed, Gone, NEW v \in Workers,
           (\E t \in OuterTimes : cap(v, t) > 0) \/ within[v] # Inner!Nothing
    PROVE  open = Workers
<1>1. ASSUME NEW w \in Workers \ open PROVE FALSE
  <2>1. GoneAt(w)
    BY DEF Gone
  <2>2. (\A t \in OuterTimes : cap(v, t) = 0) /\ within[v] = Inner!Nothing
    BY <2>1 DEF GoneAt
  <2>. QED  BY <2>2
<1>. QED  BY <1>1 DEF Typed

\* The points of the ports.
LEMMA PortMembers ==
    /\ \A t \in OuterTimes : /\ <<A, t>> \in Ports(OuterPoints, {A, B}) /\ <<B, t>> \in Ports(OuterPoints, {A, B})
                             /\ <<A, t>> \in OuterPoints /\ <<B, t>> \in OuterPoints /\ <<In, t>> \in OuterPoints
    /\ \A t \in InnerTimes : /\ <<PIn, t>> \in Ports(InnerPoints, {PIn, POut})
                             /\ <<POut, t>> \in Ports(InnerPoints, {PIn, POut})
                             /\ <<Source, t>> \in Ports(InnerPoints, {Source})
                             /\ <<Source, t>> \in InnerPoints /\ <<PIn, t>> \in InnerPoints
                             /\ <<POut, t>> \in InnerPoints /\ <<Target, t>> \in InnerPoints
<1>1. ASSUME NEW t \in OuterTimes
      PROVE  /\ <<A, t>> \in Ports(OuterPoints, {A, B}) /\ <<B, t>> \in Ports(OuterPoints, {A, B})
             /\ <<A, t>> \in OuterPoints /\ <<B, t>> \in OuterPoints /\ <<In, t>> \in OuterPoints
  BY OuterPointFacts, PortFacts DEF Ports
<1>2. ASSUME NEW t \in InnerTimes
      PROVE  /\ <<PIn, t>> \in Ports(InnerPoints, {PIn, POut})
             /\ <<POut, t>> \in Ports(InnerPoints, {PIn, POut})
             /\ <<Source, t>> \in Ports(InnerPoints, {Source})
             /\ <<Source, t>> \in InnerPoints /\ <<PIn, t>> \in InnerPoints
             /\ <<POut, t>> \in InnerPoints /\ <<Target, t>> \in InnerPoints
  BY InnerPointFacts, PortFacts DEF Ports
<1>. QED  BY <1>1, <1>2

\* A or B has recorded what has become of its capabilities and messages.
LEMMA OuterMoved ==
    ASSUME Typed, NEW w \in Workers, NEW o \in {"A", "B"}, NEW c \in Honest, Record(w, o, c),
           alive' = [alive EXCEPT ![w] = Outer!Plus(@, c)],
           Outer!Plus(alive[w], c) \in Counts(Ports(OuterPoints, {A, B})),
           UNCHANGED <<within, entering, work_vars>>
    PROVE  Typed' /\ Moved(w, w, w, Inner!Nothing, c, Inner!Nothing, c)
<1>1. /\ shared' \in [Workers -> [Children -> Genuine \cup Honest]]
      /\ \A v \in Workers : /\ shared'[v]["A"] \in Honest /\ shared'[v]["B"] \in Honest
                            /\ shared'[v]["P"] \in Genuine /\ shared'[v]["P"] = shared[v]["P"]
  BY RecordedOuter
<1>2. \A v \in Workers : \A p :
         At(shared'[v]["A"], p) + At(shared'[v]["B"], p)
           = (At(shared[v]["A"], p) + At(shared[v]["B"], p)) + More(c, p, v, w)
  BY RecordedOuter
<1>3. alive \in [Workers -> Counts(Ports(OuterPoints, {A, B}))]
  BY DEF Typed
<1>4. alive' \in [Workers -> Counts(Ports(OuterPoints, {A, B}))]
  <2> DEFINE n == Outer!Plus(alive[w], c)
             S == Counts(Ports(OuterPoints, {A, B}))
  <2>1. n \in S /\ alive \in [Workers -> S] /\ alive' = [alive EXCEPT ![w] = n]
    BY <1>3
  <2> HIDE DEF n, S
  <2>2. alive' \in [Workers -> S]
    BY <2>1
  <2>. QED  BY <2>2 DEF S
<1>5. Typed'
  BY <1>1, <1>4 DEF Typed, work_vars
<1>6. Made /\ Made'
  <2>1. Typed' => Made'
    BY MadeHolds, PTL
  <2>. QED  BY <1>5, <2>1, MadeHolds
<1>7. c \in Batches(OuterPoints)
  BY HonestIn
<1>8. ASSUME NEW v \in Workers, NEW p
      PROVE  /\ At(Mine(v)', p) = At(Mine(v), p) + More(Inner!Nothing, p, v, w)
             /\ At(MineO(v)', p) = At(MineO(v), p) + More(c, p, v, w)
             /\ At(within'[v], p) = At(within[v], p) + More(Inner!Nothing, p, v, w)
             /\ At(alive'[v], p) = At(alive[v], p) + More(c, p, v, w)
  <2>1. At(Mine(v)', p) = At(Mine(v), p) + More(Inner!Nothing, p, v, w)
    <3>1. Mine(v)' = Mine(v)
      <4>1. shared'[v]["P"] = shared[v]["P"]
        BY <1>1
      <4>2. inner' = inner /\ entering' = entering
        BY DEF work_vars
      <4>3. harvest_inputs(v)' = harvest_inputs(v)
        BY <4>2 DEF harvest_inputs
      <4>. QED  BY <4>1, <4>2, <4>3 DEF Mine
    <3>2. At(Mine(v), p) \in Int
      BY <1>6, GenuineIn, BatchFacts DEF Made
    <3>3. At(Inner!Nothing, p) = 0
      BY NothingFacts
    <3>. QED  BY <3>1, <3>2, <3>3 DEF More
  <2>2. At(MineO(v)', p) = At(MineO(v), p) + More(c, p, v, w)
    <3>1. At(MineO(v), p) = At(local[v], p) + (At(shared[v]["A"], p) + At(shared[v]["B"], p))
      BY <1>6 DEF Made
    <3>2. At(MineO(v)', p) = At(local'[v], p) + (At(shared'[v]["A"], p) + At(shared'[v]["B"], p))
      BY <1>6 DEF Made
    <3>3. local' = local
      BY DEF work_vars
    <3>4. /\ At(local[v], p) \in Int /\ At(shared[v]["A"], p) \in Int /\ At(shared[v]["B"], p) \in Int
          /\ At(shared'[v]["A"], p) \in Int /\ At(shared'[v]["B"], p) \in Int
      <4>1. /\ local[v] \in Batches(OuterPoints) /\ shared[v]["A"] \in Batches(OuterPoints)
            /\ shared[v]["B"] \in Batches(OuterPoints)
        BY HonestIn DEF Typed
      <4>2. shared'[v]["A"] \in Batches(OuterPoints) /\ shared'[v]["B"] \in Batches(OuterPoints)
        BY <1>1, HonestIn
      <4>. QED  BY <4>1, <4>2, BatchFacts
    <3>5. At(c, p) \in Int
      BY <1>7, BatchFacts
    <3>6. At(shared'[v]["A"], p) + At(shared'[v]["B"], p)
            = (At(shared[v]["A"], p) + At(shared[v]["B"], p)) + More(c, p, v, w)
      BY <1>2
    <3>. QED  BY <3>1, <3>2, <3>3, <3>4, <3>5, <3>6 DEF More
  <2>3. At(within'[v], p) = At(within[v], p) + More(Inner!Nothing, p, v, w)
    <3>1. At(within[v], p) \in Nat
      BY CountsIn DEF Typed
    <3>2. At(Inner!Nothing, p) = 0
      BY NothingFacts
    <3>. QED  BY <3>1, <3>2 DEF More
  <2>4. At(alive'[v], p) = At(alive[v], p) + More(c, p, v, w)
    <3>1. alive[v] \in Batches(OuterPoints) /\ At(alive[v], p) \in Int
      <4>1. alive[v] \in Batches(OuterPoints)
        BY SummedHolds DEF Summed
      <4>. QED  BY <4>1, BatchFacts
    <3>2. CASE v = w
      <4>1. alive'[v] = Outer!Plus(alive[v], c)
        BY <1>3, <3>2
      <4>2. At(Outer!Plus(alive[v], c), p) = At(alive[v], p) + At(c, p)
        BY <1>7, <3>1, OuterFacts
      <4>. QED  BY <3>2, <4>1, <4>2 DEF More
    <3>3. CASE v # w
      <4>1. alive'[v] = alive[v]
        BY <1>3, <3>3
      <4>. QED  BY <3>1, <3>3, <4>1 DEF More
    <3>. QED  BY <3>2, <3>3
  <2>. QED  BY <2>1, <2>2, <2>3, <2>4
<1>9. UNCHANGED work_vars
  OBVIOUS
<1>. QED  BY <1>5, <1>8, <1>9 DEF Moved

\* B records that it has read a message.
LEMMA ConsumeInv ==
    ASSUME NestedInv, NEW w \in Workers, NEW t \in OuterTimes, consume(w, t)
    PROVE  NestedInv'
<1> DEFINE c == Outer!Change(<<B, t>>, -1)
           z == Inner!Nothing
<1>1. Typed /\ Gone
  BY DEF NestedInv
<1>2. <<B, t>> \in Ports(OuterPoints, {A, B}) /\ <<B, t>> \in OuterPoints
  BY PortMembers
<1>3. c \in Batches(OuterPoints) /\ \A q : At(c, q) = IF q = <<B, t>> THEN -1 ELSE 0
  BY <1>2, OuterFacts
<1>4. c \in Honest
  <2>1. ASSUME NEW s \in OuterTimes
        PROVE  At(c, <<Out, s>>) = 0 /\ At(c, <<In, s>>) >= 0 /\ At(c, <<B, s>>) <= 0
    <3>1. <<Out, s>> # <<B, t>> /\ <<In, s>> # <<B, t>>
      BY PortFacts
    <3>. QED  BY <1>3, <3>1
  <2>. QED  BY <1>3, <2>1 DEF Honest
<1>5. Outer!Plus(alive[w], c) \in Counts(Ports(OuterPoints, {A, B}))
  <2>1. alive[w] \in Counts(Ports(OuterPoints, {A, B})) /\ <<B, t>> \in DOMAIN alive[w]
    BY <1>1 DEF consume, Typed
  <2>2. At(alive[w], <<B, t>>) >= 1 /\ At(alive[w], <<B, t>>) \in Nat
    BY <2>1, CountsTake, CountsIn
  <2>3. At(alive[w], <<B, t>>) + (-1) >= 0
    BY <2>2
  <2>. QED  BY <1>2, <2>1, <2>3, PlusChange
<1>6. Record(w, "B", c) /\ alive' = [alive EXCEPT ![w] = Outer!Plus(@, c)] /\ UNCHANGED <<within, entering, work_vars>>
  BY DEF consume
<1> HIDE DEF c
<1>7. Typed' /\ Moved(w, w, w, z, c, z, c)
  BY <1>1, <1>4, <1>5, <1>6, OuterMoved
<1>8. z \in Batches(InnerPoints) /\ \A p : At(z, p) = 0
  BY NothingFacts
<1> HIDE DEF z
<1>9. \A p \in Ports(InnerPoints, {PIn, POut}) : At(z, p) = At(z, p)
  OBVIOUS
<1>10. ASSUME NEW s \in OuterTimes
       PROVE  At(c, <<A, s>>) = 0 /\ At(c, <<In, s>>) = 0
  <2>1. <<A, s>> # <<B, t>> /\ <<In, s>> # <<B, t>>
    BY PortFacts
  <2>. QED  BY <1>3, <2>1
<1>11. Level(z, c, c)
  <2> SUFFICES ASSUME NEW s \in OuterTimes
               PROVE  /\ At(c, <<A, s>>) = At(c, <<A, s>>)
                      /\ At(c, <<In, s>>) + Across(z, Source, s) = 0
                      /\ At(c, <<B, s>>) + Across(z, Target, s) = At(c, <<B, s>>)
    BY DEF Level
  <2>1. Source \in 1 .. 4 /\ Target \in 1 .. 4
    BY PortFacts
  <2>2. Across(z, Source, s) = 0 /\ Across(z, Target, s) = 0
    BY <1>8, <2>1, AcrossFacts
  <2>3. At(c, <<B, s>>) \in Int
    BY <1>3, BatchFacts
  <2>4. At(c, <<In, s>>) = 0
    BY <1>10
  <2> HIDE DEF c
  <2>. QED  BY <2>2, <2>3, <2>4
<1>12. \A v \in Workers : \A s \in OuterTimes :
          /\ More(c, <<A, s>>, v, w) = More(c, <<A, s>>, v, w)
          /\ More(c, <<In, s>>, v, w) > 0 \/ More(c, <<A, s>>, v, w) > 0
                => \E r \in OuterTimes : r <= s /\ cap(v, r) > 0
  <2> TAKE v \in Workers
  <2> TAKE s \in OuterTimes
  <2>1. At(c, <<A, s>>) = 0 /\ At(c, <<In, s>>) = 0
    BY <1>10
  <2>2. More(c, <<A, s>>, v, w) = 0 /\ More(c, <<In, s>>, v, w) = 0
    BY <2>1 DEF More
  <2>. QED  BY <2>2
<1>13. \A s \in OuterTimes : \A p \in Line(Source, s) :
          At(z, p) < 0 => \E v \in Workers : \E r \in OuterTimes : r <= s /\ cap(v, r) > 0
  BY <1>8
<1>14. /\ \A u \in Workers : \A p \in OuterPoints : At(c, p) > 0 => Outer!Implied(tracker[u], p[1], p[2])
       /\ \A u \in Workers : \A p \in InnerPoints : At(z, p) > 0 => Outer!Implied(tracker[u], B, p[2].outer)
  BY <1>3, <1>8
<1>15. Gone'
  <2>1. open' = open /\ tracker' = tracker /\ inner' = inner /\ post' = post /\ mail' = mail
    BY <1>6 DEF work_vars
  <2>2. within' = within /\ entering' = entering
    BY <1>6
  <2>3. ASSUME NEW v \in Workers PROVE shared'[v]["P"] = shared[v]["P"]
    BY <1>1, <1>4, <1>6, RecordedOuter
  <2>4. ASSUME NEW v \in Workers, NEW u \in Workers, NEW s \in OuterTimes
        PROVE  cap(v, s)' = cap(v, s) /\ Know(v, u, 0, s)' = Know(v, u, 0, s)
    <3>1. At(alive'[v], <<A, s>>) = At(alive[v], <<A, s>>) + More(c, <<A, s>>, v, w)
      BY <1>7 DEF Moved
    <3>2. More(c, <<A, s>>, v, w) = 0
      BY <1>10 DEF More
    <3>3. 0 \in 0 .. Len(mail[v][u])
      <4>1. mail[v][u] \in Seq(Honest)
        BY <1>1 DEF Typed
      <4>. QED  BY <4>1
    <3>4. At(ComingO(v, u, 0)', <<A, s>>) = At(ComingO(v, u, 0), <<A, s>>) + More(c, <<A, s>>, v, w)
      BY <1>1, <1>3, <1>7, <1>8, <3>3, MovedSums
    <3>5. At(alive[v], <<A, s>>) \in Int
      <4>1. alive[v] \in Batches(OuterPoints)
        BY <1>1, SummedHolds DEF Summed
      <4>. QED  BY <4>1, BatchFacts
    <3>6. At(ComingO(v, u, 0), <<A, s>>) \in Int
      <4>1. ComingO(v, u, 0) \in Batches(OuterPoints)
        BY <1>1, <3>3, SentHolds, HonestIn DEF Sent
      <4>. QED  BY <4>1, BatchFacts
    <3>7. cap(v, s)' = cap(v, s)
      BY <3>1, <3>2, <3>5 DEF cap
    <3>8. At(ComingO(v, u, 0)', <<A, s>>) = At(ComingO(v, u, 0), <<A, s>>)
      BY <3>2, <3>4, <3>6
    <3>. QED  BY <3>7, <3>8 DEF Know
  <2>5. ASSUME NEW u \in Workers, GoneAt(u) PROVE GoneAt(u)'
    <3>1. \A s \in OuterTimes : ~ Outer!Implied(tracker'[u], In, s)
      BY <2>1, <2>5 DEF GoneAt
    <3>2. ASSUME NEW v \in Workers
          PROVE  /\ \A s \in OuterTimes : cap(v, s)' = 0 /\ Know(v, u, 0, s)' = 0
                 /\ within'[v] = Inner!Nothing /\ entering'[v] = Inner!Nothing /\ inner'[v] = Inner!Nothing
                 /\ shared'[v]["P"] = Inner!Nothing
                 /\ \A i \in DOMAIN post'[v][u] : post'[v][u][i] = Inner!Nothing
      <4>1. \A s \in OuterTimes : cap(v, s)' = 0 /\ Know(v, u, 0, s)' = 0
        BY <2>4, <2>5 DEF GoneAt
      <4>2. shared'[v]["P"] = Inner!Nothing
        BY <2>3, <2>5 DEF GoneAt
      <4>. QED  BY <2>1, <2>2, <2>5, <4>1, <4>2 DEF GoneAt
    <3>. QED  BY <3>1, <3>2 DEF GoneAt
  <2>. QED  BY <1>1, <2>1, <2>5 DEF Gone
<1>. QED  BY <1>3, <1>7, <1>8, <1>9, <1>11, <1>12, <1>13, <1>14, <1>15, MovedInv

\* A has downgraded its capability, or dropped it: N are the times of the new ones, one or none.
LEMMA DowngradeInv ==
    ASSUME NestedInv, NEW w \in Workers, NEW t \in OuterTimes, NEW N \in SUBSET OuterTimes, \A u \in N : t <= u /\ t # u,
           downgrade(w, t, N), N = {} \/ \E u : N = {u}
    PROVE  NestedInv'
<1> DEFINE d == Outer!Change(<<A, t>>, -1)
           e == IF N = {} THEN Outer!Nothing ELSE Outer!Change(<<A, CHOOSE u \in N : TRUE>>, 1)
           c == Outer!Plus(d, e)
           z == Inner!Nothing
<1>1. Typed /\ Gone /\ OuterCovered
  BY DEF NestedInv
<1>2. <<A, t>> \in Ports(OuterPoints, {A, B}) /\ <<A, t>> \in OuterPoints
  BY PortMembers
<1>3. d \in Batches(Ports(OuterPoints, {A, B})) /\ \A q : At(d, q) = IF q = <<A, t>> THEN -1 ELSE 0
  BY <1>2, OuterFacts
<1>4. e \in Batches(Ports(OuterPoints, {A, B})) /\ \A q : At(e, q) = IF \E u \in N : q = <<A, u>> THEN 1 ELSE 0
  <2>1. CASE N = {}
    BY <2>1, OuterFacts
  <2>2. CASE N # {}
    <3>1. PICK u \in N : N = {u}
      BY <2>2
    <3>2. u = CHOOSE x \in N : TRUE
      BY <3>1
    <3>3. e = Outer!Change(<<A, u>>, 1)
      BY <2>2, <3>2
    <3>4. <<A, u>> \in Ports(OuterPoints, {A, B})
      BY PortMembers
    <3> HIDE DEF e
    <3>5. e \in Batches(Ports(OuterPoints, {A, B})) /\ \A q : At(e, q) = IF q = <<A, u>> THEN 1 ELSE 0
      BY <3>3, <3>4, OuterFacts
    <3>. QED  BY <3>1, <3>5
  <2>. QED  BY <2>1, <2>2
<1> HIDE DEF d, e
<1>5. c \in Batches(Ports(OuterPoints, {A, B})) /\ \A q : At(c, q) = At(d, q) + At(e, q)
  BY <1>3, <1>4, OuterFacts
<1>6. Record(w, "A", c) /\ alive' = [alive EXCEPT ![w] = Outer!Plus(@, c)] /\ UNCHANGED <<within, entering, work_vars>>
  BY DEF downgrade, d, e
<1> HIDE DEF c
<1>7. c \in Batches(OuterPoints)
  BY <1>5, PortsMore
<1>8. ASSUME NEW q, At(c, q) # 0
      PROVE  \E u \in OuterTimes : q = <<A, u>>
  <2>1. At(d, q) \in Int /\ At(e, q) \in Int
    BY <1>3, <1>4
  <2>2. At(d, q) # 0 \/ At(e, q) # 0
    BY <1>5, <1>8, <2>1
  <2>. QED  BY <1>3, <1>4, <2>2
<1>9. ASSUME NEW q, At(c, q) > 0
      PROVE  \E u \in N : q = <<A, u>>
  BY <1>3, <1>4, <1>5, <1>9
<1>10. ASSUME NEW l \in {In, Out, B}, NEW s \in OuterTimes
       PROVE  At(c, <<l, s>>) = 0
  <2>1. \A u : <<l, s>> # <<A, u>>
    BY PortFacts
  <2>. QED  BY <1>8, <2>1
<1>11. c \in Honest
  BY <1>7, <1>10 DEF Honest
<1>12. At(alive[w], <<A, t>>) >= 1 /\ alive[w] \in Counts(Ports(OuterPoints, {A, B}))
  <2>1. alive[w] \in Counts(Ports(OuterPoints, {A, B})) /\ <<A, t>> \in DOMAIN alive[w]
    BY <1>1 DEF downgrade, Typed
  <2>. QED  BY <2>1, CountsTake
<1>13. cap(w, t) > 0
  <2>1. At(alive[w], <<A, t>>) \in Nat
    BY <1>12, CountsIn
  <2>. QED  BY <1>12, <2>1 DEF cap
<1>14. Outer!Plus(alive[w], c) \in Counts(Ports(OuterPoints, {A, B}))
  <2>1. ASSUME NEW q \in Ports(OuterPoints, {A, B}) PROVE At(alive[w], q) + At(c, q) >= 0
    <3>1. At(alive[w], q) \in Nat
      BY <1>12, CountsIn
    <3>2. At(e, q) \in Nat /\ At(d, q) \in Int /\ At(c, q) = At(d, q) + At(e, q)
      BY <1>3, <1>4, <1>5
    <3>3. CASE q = <<A, t>>
      <4>1. At(d, q) = -1
        BY <1>3, <3>3
      <4>. QED  BY <1>12, <3>1, <3>2, <3>3, <4>1
    <3>4. CASE q # <<A, t>>
      <4>1. At(d, q) = 0
        BY <1>3, <3>4
      <4>. QED  BY <3>1, <3>2, <4>1
    <3>. QED  BY <3>3, <3>4
  <2>. QED  BY <1>5, <1>12, <2>1, CountsPlus
<1>15. Typed' /\ Moved(w, w, w, z, c, z, c)
  BY <1>1, <1>6, <1>11, <1>14, OuterMoved
<1>16. z \in Batches(InnerPoints) /\ \A p : At(z, p) = 0
  BY NothingFacts
<1> HIDE DEF z
<1>17. \A p \in Ports(InnerPoints, {PIn, POut}) : At(z, p) = At(z, p)
  OBVIOUS
<1>18. Level(z, c, c)
  <2> SUFFICES ASSUME NEW s \in OuterTimes
               PROVE  /\ At(c, <<A, s>>) = At(c, <<A, s>>)
                      /\ At(c, <<In, s>>) + Across(z, Source, s) = 0
                      /\ At(c, <<B, s>>) + Across(z, Target, s) = At(c, <<B, s>>)
    BY DEF Level
  <2>1. Source \in 1 .. 4 /\ Target \in 1 .. 4
    BY PortFacts
  <2>2. Across(z, Source, s) = 0 /\ Across(z, Target, s) = 0
    BY <1>16, <2>1, AcrossFacts
  <2>3. At(c, <<B, s>>) = 0
    BY <1>10
  <2>4. At(c, <<In, s>>) = 0
    BY <1>10
  <2>. QED  BY <2>2, <2>3, <2>4
<1>19. \A v \in Workers : \A s \in OuterTimes :
          /\ More(c, <<A, s>>, v, w) = More(c, <<A, s>>, v, w)
          /\ More(c, <<In, s>>, v, w) > 0 \/ More(c, <<A, s>>, v, w) > 0
                => \E r \in OuterTimes : r <= s /\ cap(v, r) > 0
  <2> TAKE v \in Workers
  <2> TAKE s \in OuterTimes
  <2>1. At(c, <<In, s>>) = 0
    BY <1>10
  <2>2. More(c, <<In, s>>, v, w) = 0
    BY <2>1 DEF More
  <2>3. ASSUME More(c, <<A, s>>, v, w) > 0 PROVE \E r \in OuterTimes : r <= s /\ cap(v, r) > 0
    <3>1. v = w /\ At(c, <<A, s>>) > 0
      BY <2>3 DEF More
    <3>2. PICK u \in N : <<A, s>> = <<A, u>>
      BY <1>9, <3>1
    <3>3. t <= s
      BY <3>2
    <3>. QED  BY <1>13, <3>1, <3>3
  <2>. QED  BY <2>2, <2>3
<1>20. \A s \in OuterTimes : \A p \in Line(Source, s) :
          At(z, p) < 0 => \E v \in Workers : \E r \in OuterTimes : r <= s /\ cap(v, r) > 0
  BY <1>16
<1>21. \A v \in Workers : \A p \in OuterPoints : At(c, p) > 0 => Outer!Implied(tracker[v], p[1], p[2])
  <2> SUFFICES ASSUME NEW v \in Workers, NEW p \in OuterPoints, At(c, p) > 0
               PROVE  Outer!Implied(tracker[v], p[1], p[2])
    OBVIOUS
  <2>1. PICK u \in N : p = <<A, u>>
    BY <1>9
  <2>2. At(alive[w], <<A, t>>) > 0
    BY <1>13 DEF cap
  <2>3. Outer!Implied(tracker[v], <<A, t>>[1], <<A, t>>[2])
    BY <1>1, <1>2, <2>2 DEF OuterCovered
  <2>4. A \in 1 .. 4 /\ A <= A
    BY PortFacts
  <2>5. Outer!Implied(tracker[v], A, t)
    BY <2>3
  <2>6. tracker[v] \in Batches(OuterPoints)
    BY <1>1 DEF Typed
  <2>7. t <= u /\ u \in OuterTimes
    OBVIOUS
  <2>8. Outer!Implied(tracker[v], A, u)
    BY <2>4, <2>5, <2>6, <2>7, OuterLater
  <2>. QED  BY <2>1, <2>8
<1>22. \A v \in Workers : \A p \in InnerPoints : At(z, p) > 0 => Outer!Implied(tracker[v], B, p[2].outer)
  BY <1>16
<1>23. Gone'
  <2>1. open = Workers
    BY <1>1, <1>13, AllOpen
  <2>2. open' = open
    BY <1>6 DEF work_vars
  <2>. QED  BY <2>1, <2>2 DEF Gone
<1>. QED  BY <1>7, <1>15, <1>16, <1>17, <1>18, <1>19, <1>20, <1>21, <1>22, <1>23, MovedInv

\* One element of a function of workers is changed.
LEMMA OneChanged ==
    ASSUME NEW f, NEW S, f \in [Workers -> S], NEW w \in Workers, NEW n \in S, NEW g, g = [f EXCEPT ![w] = n]
    PROVE  g \in [Workers -> S] /\ \A v \in Workers : g[v] = IF v = w THEN n ELSE f[v]
OBVIOUS

\* The messages that A sends are counted by the outer scope and by the nested one.
LEMMA SendInv ==
    ASSUME NestedInv, NEW w \in Workers, NEW t \in OuterTimes, NEW x \in Workers, send(w, t, x)
    PROVE  NestedInv'
<1> DEFINE i == to_inner(t)
           s == Inner!Change(<<Source, i>>, 1)
           e == Inner!Change(<<PIn, i>>, 1)
           d == Inner!Plus(Inner!Change(<<Source, i>>, -1), e)
           c == Outer!Change(<<In, t>>, 1)
           z == Outer!Nothing
           SE == Counts(Ports(InnerPoints, {Source}))
           SW == Counts(Ports(InnerPoints, {PIn, POut}))
           ne == Inner!Plus(entering[w], s)
           nw == Inner!Plus(within[x], e)
<1>1. Typed /\ Gone /\ OuterCovered
  BY DEF NestedInv
<1>2. i \in InnerTimes /\ i.outer = t
  BY ConstantFacts DEF to_inner
<1> HIDE DEF i
<1>3. /\ <<In, t>> \in OuterPoints /\ <<A, t>> \in OuterPoints
      /\ <<Source, i>> \in Ports(InnerPoints, {Source}) /\ <<PIn, i>> \in Ports(InnerPoints, {PIn, POut})
      /\ <<Source, i>> \in InnerPoints /\ <<PIn, i>> \in InnerPoints
  BY <1>2, PortMembers
<1>4. c \in Batches(OuterPoints) /\ \A q : At(c, q) = IF q = <<In, t>> THEN 1 ELSE 0
  BY <1>3, OuterFacts
<1>5. \A q : At(s, q) = IF q = <<Source, i>> THEN 1 ELSE 0
  BY <1>3, ChangeFacts
<1>6. e \in Batches(InnerPoints) /\ \A q : At(e, q) = IF q = <<PIn, i>> THEN 1 ELSE 0
  BY <1>3, ChangeFacts
<1>7. d \in Batches(InnerPoints) /\ \A q : At(d, q) = (IF q = <<Source, i>> THEN -1 ELSE 0) + At(e, q)
  <2> DEFINE m == Inner!Change(<<Source, i>>, -1)
  <2>1. m \in Batches(InnerPoints) /\ \A q : At(m, q) = IF q = <<Source, i>> THEN -1 ELSE 0
    BY <1>3, ChangeFacts
  <2> HIDE DEF m, e
  <2>2. Inner!Plus(m, e) \in Batches(InnerPoints) /\ \A q : At(Inner!Plus(m, e), q) = At(m, q) + At(e, q)
    BY <1>6, <2>1, PlusFacts
  <2>. QED  BY <2>1, <2>2 DEF m
<1>8. z \in Batches(OuterPoints) /\ \A q : At(z, q) = 0
  BY OuterFacts
<1>9. entering \in [Workers -> SE] /\ within \in [Workers -> SW]
  BY <1>1 DEF Typed
<1>10. ne \in SE /\ \A q : At(ne, q) = At(entering[w], q) + At(s, q)
  <2>1. entering[w] \in SE /\ At(entering[w], <<Source, i>>) \in Nat
    BY <1>9, CountsIn
  <2>2. At(entering[w], <<Source, i>>) + 1 >= 0
    BY <2>1
  <2>. QED  BY <1>3, <2>1, <2>2, PlusChange
<1>11. nw \in SW /\ \A q : At(nw, q) = At(within[x], q) + At(e, q)
  <2>1. within[x] \in SW /\ At(within[x], <<PIn, i>>) \in Nat
    BY <1>9, CountsIn
  <2>2. At(within[x], <<PIn, i>>) + 1 >= 0
    BY <2>1
  <2>. QED  BY <1>3, <2>1, <2>2, PlusChange
<1>12. /\ Record(w, "A", c)
       /\ entering' = [entering EXCEPT ![w] = ne] /\ within' = [within EXCEPT ![x] = nw]
       /\ alive' = alive /\ UNCHANGED work_vars
  BY DEF send, IngressNub, i
<1>13. cap(w, t) > 0
  <2>1. alive[w] \in Counts(Ports(OuterPoints, {A, B})) /\ <<A, t>> \in DOMAIN alive[w]
    BY <1>1 DEF send, Typed
  <2>2. At(alive[w], <<A, t>>) >= 1 /\ At(alive[w], <<A, t>>) \in Nat
    BY <2>1, CountsTake, CountsIn
  <2>. QED  BY <2>2 DEF cap
<1> HIDE DEF s, e, d, c, z, SE, SW, ne, nw
<1>14. entering' \in [Workers -> SE] /\ \A v \in Workers : entering'[v] = IF v = w THEN ne ELSE entering[v]
  BY <1>9, <1>10, <1>12, OneChanged
<1>15. within' \in [Workers -> SW] /\ \A v \in Workers : within'[v] = IF v = x THEN nw ELSE within[v]
  BY <1>9, <1>11, <1>12, OneChanged
<1>16. c \in Honest
  <2>1. ASSUME NEW r \in OuterTimes
        PROVE  At(c, <<Out, r>>) = 0 /\ At(c, <<In, r>>) >= 0 /\ At(c, <<B, r>>) <= 0
    <3>1. <<Out, r>> # <<In, t>> /\ <<B, r>> # <<In, t>>
      BY PortFacts
    <3>. QED  BY <1>4, <3>1
  <2>. QED  BY <1>4, <2>1 DEF Honest
<1>17. /\ shared' \in [Workers -> [Children -> Genuine \cup Honest]]
       /\ \A v \in Workers : /\ shared'[v]["A"] \in Honest /\ shared'[v]["B"] \in Honest
                             /\ shared'[v]["P"] \in Genuine /\ shared'[v]["P"] = shared[v]["P"]
  BY <1>1, <1>12, <1>16, RecordedOuter
<1>18. \A v \in Workers : \A p :
         At(shared'[v]["A"], p) + At(shared'[v]["B"], p)
           = (At(shared[v]["A"], p) + At(shared[v]["B"], p)) + More(c, p, v, w)
  BY <1>1, <1>12, <1>16, RecordedOuter
<1>19. Typed'
  BY <1>1, <1>12, <1>14, <1>15, <1>17 DEF Typed, work_vars, SE, SW
<1>20. Made /\ Made'
  <2>1. Typed' => Made'
    BY MadeHolds, PTL
  <2>. QED  BY <1>1, <1>19, <2>1, MadeHolds
<1>21. ASSUME NEW v \in Workers, NEW p
       PROVE  At(Mine(v)', p) = At(Mine(v), p) + More(d, p, v, w)
  <2>1. Mine(v) \in Batches(InnerPoints) /\ Mine(v)' \in Batches(InnerPoints)
    BY <1>20, GenuineIn DEF Made
  <2>2. CASE p \notin InnerPoints
    <3>1. At(Mine(v), p) = 0 /\ At(Mine(v)', p) = 0 /\ At(d, p) = 0
      BY <1>7, <2>1, <2>2, BatchFacts
    <3>. QED  BY <3>1 DEF More
  <2>3. CASE p \in InnerPoints
    <3>1. At(Mine(v), p) = At(inner[v], p) + (At(harvest_inputs(v), p) + At(shared[v]["P"], p))
      BY <1>20 DEF Made
    <3>2. At(Mine(v)', p) = At(inner'[v], p) + (At(harvest_inputs(v)', p) + At(shared'[v]["P"], p))
      BY <1>20 DEF Made
    <3>3. inner' = inner /\ shared'[v]["P"] = shared[v]["P"]
      BY <1>12, <1>17 DEF work_vars
    <3>4. At(inner[v], p) \in Int /\ At(shared[v]["P"], p) \in Int
      <4>1. inner[v] \in Batches(InnerPoints) /\ shared[v]["P"] \in Batches(InnerPoints)
        BY <1>1, GenuineIn DEF Typed
      <4>. QED  BY <4>1, BatchFacts
    <3>5. At(harvest_inputs(v), p) \in Int /\ At(harvest_inputs(v)', p) \in Int
      <4>1. harvest_inputs(v) \in Batches(InnerPoints) /\ harvest_inputs(v)' \in Batches(InnerPoints)
        BY <1>20, GenuineIn DEF Made
      <4>. QED  BY <4>1, BatchFacts
    <3>6. At(harvest_inputs(v)', p) = At(harvest_inputs(v), p) + More(d, p, v, w)
      <4> DEFINE r == p[2]
      <4>1. r \in InnerTimes /\ p[1] \in 1 .. 4 /\ p = <<p[1], r>>
        BY <2>3, InnerPointFacts
      <4> HIDE DEF r
      <4>2. /\ At(harvest_inputs(v), <<Source, r>>) = - At(entering[v], <<Source, r>>)
            /\ At(harvest_inputs(v), <<PIn, r>>) = At(entering[v], <<Source, r>>)
            /\ At(harvest_inputs(v), <<POut, r>>) = 0 /\ At(harvest_inputs(v), <<Target, r>>) = 0
        BY <1>20, <4>1 DEF Made
      <4>3. /\ At(harvest_inputs(v)', <<Source, r>>) = - At(entering'[v], <<Source, r>>)
            /\ At(harvest_inputs(v)', <<PIn, r>>) = At(entering'[v], <<Source, r>>)
            /\ At(harvest_inputs(v)', <<POut, r>>) = 0 /\ At(harvest_inputs(v)', <<Target, r>>) = 0
        BY <1>20, <4>1 DEF Made
      <4>4. At(entering'[v], <<Source, r>>) = At(entering[v], <<Source, r>>) + (IF v = w /\ r = i THEN 1 ELSE 0)
        <5>1. At(entering[v], <<Source, r>>) \in Nat
          BY <1>9, CountsIn DEF SE
        <5>2. At(s, <<Source, r>>) = IF r = i THEN 1 ELSE 0
          BY <1>5
        <5>3. CASE v = w
          <6>1. At(ne, <<Source, r>>) = At(entering[w], <<Source, r>>) + At(s, <<Source, r>>)
            BY <1>10
          <6>2. entering'[v] = ne
            BY <1>14, <5>3
          <6>. QED  BY <5>1, <5>2, <5>3, <6>1, <6>2
        <5>4. CASE v # w
          <6>1. entering'[v] = entering[v]
            BY <1>14, <5>4
          <6>. QED  BY <5>1, <5>4, <6>1
        <5>. QED  BY <5>3, <5>4
      <4>5. At(entering[v], <<Source, r>>) \in Nat
        BY <1>9, CountsIn DEF SE
      <4>6. /\ At(d, <<Source, r>>) = (IF r = i THEN -1 ELSE 0) /\ At(d, <<PIn, r>>) = (IF r = i THEN 1 ELSE 0)
            /\ At(d, <<POut, r>>) = 0 /\ At(d, <<Target, r>>) = 0
        BY <1>6, <1>7, PortFacts
      <4>7. p[1] = Source \/ p[1] = PIn \/ p[1] = POut \/ p[1] = Target
        BY <4>1, PortFacts
      <4>8. CASE p[1] = Source
        <5>1. p = <<Source, r>>
          BY <4>1, <4>8
        <5>. QED  BY <4>2, <4>3, <4>4, <4>5, <4>6, <5>1 DEF More
      <4>9. CASE p[1] = PIn
        <5>1. p = <<PIn, r>>
          BY <4>1, <4>9
        <5>. QED  BY <4>2, <4>3, <4>4, <4>5, <4>6, <5>1 DEF More
      <4>10. CASE p[1] = POut \/ p[1] = Target
        <5>1. p = <<POut, r>> \/ p = <<Target, r>>
          BY <4>1, <4>10
        <5>. QED  BY <4>2, <4>3, <4>6, <5>1 DEF More
      <4>. QED  BY <4>7, <4>8, <4>9, <4>10
    <3>7. More(d, p, v, w) \in Int
      BY <1>7, BatchFacts DEF More
    <3>. QED  BY <3>1, <3>2, <3>3, <3>4, <3>5, <3>6, <3>7
  <2>. QED  BY <2>2, <2>3
<1>22. ASSUME NEW v \in Workers, NEW p
       PROVE  At(MineO(v)', p) = At(MineO(v), p) + More(c, p, v, w)
  <2>1. At(MineO(v), p) = At(local[v], p) + (At(shared[v]["A"], p) + At(shared[v]["B"], p))
    BY <1>20 DEF Made
  <2>2. At(MineO(v)', p) = At(local'[v], p) + (At(shared'[v]["A"], p) + At(shared'[v]["B"], p))
    BY <1>20 DEF Made
  <2>3. local' = local
    BY <1>12 DEF work_vars
  <2>4. At(shared'[v]["A"], p) + At(shared'[v]["B"], p)
            = (At(shared[v]["A"], p) + At(shared[v]["B"], p)) + More(c, p, v, w)
    BY <1>18
  <2>5. At(local[v], p) \in Int /\ At(shared[v]["A"], p) \in Int /\ At(shared[v]["B"], p) \in Int
    <3>1. /\ local[v] \in Batches(OuterPoints) /\ shared[v]["A"] \in Batches(OuterPoints)
          /\ shared[v]["B"] \in Batches(OuterPoints)
      BY <1>1, HonestIn DEF Typed
    <3>. QED  BY <3>1, BatchFacts
  <2>6. More(c, p, v, w) \in Int
    BY <1>4, BatchFacts DEF More
  <2>. QED  BY <2>1, <2>2, <2>3, <2>4, <2>5, <2>6
<1>23. ASSUME NEW v \in Workers, NEW p
       PROVE  /\ At(within'[v], p) = At(within[v], p) + More(e, p, v, x)
              /\ At(alive'[v], p) = At(alive[v], p) + More(z, p, v, w)
  <2>1. At(within[v], p) \in Nat /\ At(alive[v], p) \in Nat
    BY <1>1, CountsIn DEF Typed
  <2>2. At(within'[v], p) = At(within[v], p) + More(e, p, v, x)
    BY <1>11, <1>15, <2>1 DEF More
  <2>. QED  BY <1>8, <1>12, <2>1, <2>2 DEF More
<1>24. Moved(w, w, x, d, c, e, z)
  BY <1>12, <1>21, <1>22, <1>23 DEF Moved
<1>25. \A p \in Ports(InnerPoints, {PIn, POut}) : At(d, p) = At(e, p)
  <2> TAKE p \in Ports(InnerPoints, {PIn, POut})
  <2>1. p # <<Source, i>>
    BY PortFacts DEF Ports
  <2>2. At(e, p) \in Int
    BY <1>6, BatchFacts
  <2>. QED  BY <1>7, <2>1, <2>2
<1>26. Level(d, c, z)
  <2> SUFFICES ASSUME NEW r \in OuterTimes
               PROVE  /\ At(c, <<A, r>>) = At(z, <<A, r>>)
                      /\ At(c, <<In, r>>) + Across(d, Source, r) = 0
                      /\ At(c, <<B, r>>) + Across(d, Target, r) = At(z, <<B, r>>)
    BY DEF Level
  <2>1. Source \in 1 .. 4 /\ Target \in 1 .. 4
    BY PortFacts
  <2>2. At(c, <<A, r>>) = 0 /\ At(c, <<B, r>>) = 0 /\ At(c, <<In, r>>) = IF r = t THEN 1 ELSE 0
    BY <1>4, PortFacts
  <2>3. Across(d, Target, r) = 0
    <3>1. ASSUME NEW p \in Line(Target, r) PROVE At(d, p) = 0
      <4>1. p # <<Source, i>> /\ p # <<PIn, i>>
        BY PortFacts DEF Line
      <4>. QED  BY <1>6, <1>7, <4>1
    <3>. QED  BY <1>7, <2>1, <3>1, AcrossFacts
  <2>4. Across(d, Source, r) = IF <<Source, i>> \in Line(Source, r) THEN At(d, <<Source, i>>) ELSE 0
    <3>1. ASSUME NEW p \in Line(Source, r), p # <<Source, i>> PROVE At(d, p) = 0
      <4>1. p # <<PIn, i>>
        BY PortFacts DEF Line
      <4>. QED  BY <1>6, <1>7, <3>1, <4>1
    <3>. QED  BY <1>3, <1>7, <2>1, <3>1, AcrossOne
  <2>5. <<Source, i>> \in Line(Source, r) <=> r = t
    BY <1>2, <1>3 DEF Line
  <2>6. At(d, <<Source, i>>) = -1
    <3>1. <<Source, i>> # <<PIn, i>>
      BY PortFacts
    <3>. QED  BY <1>6, <1>7, <3>1
  <2>7. At(z, <<A, r>>) = 0 /\ At(z, <<B, r>>) = 0
    BY <1>8
  <2>. QED  BY <2>2, <2>3, <2>4, <2>5, <2>6, <2>7
<1>27. \A v \in Workers : \A r \in OuterTimes :
          /\ More(c, <<A, r>>, v, w) = More(z, <<A, r>>, v, w)
          /\ More(c, <<In, r>>, v, w) > 0 \/ More(z, <<A, r>>, v, w) > 0
                => \E q \in OuterTimes : q <= r /\ cap(v, q) > 0
  <2> TAKE v \in Workers
  <2> TAKE r \in OuterTimes
  <2>1. At(c, <<A, r>>) = 0 /\ At(z, <<A, r>>) = 0 /\ At(c, <<In, r>>) = IF r = t THEN 1 ELSE 0
    BY <1>4, <1>8, PortFacts
  <2>2. More(c, <<A, r>>, v, w) = 0 /\ More(z, <<A, r>>, v, w) = 0
    BY <2>1 DEF More
  <2>3. ASSUME More(c, <<In, r>>, v, w) > 0 PROVE \E q \in OuterTimes : q <= r /\ cap(v, q) > 0
    <3>1. v = w /\ r = t
      BY <2>1, <2>3 DEF More
    <3>2. t <= t
      BY ConstantFacts
    <3>. QED  BY <1>13, <3>1, <3>2
  <2>. QED  BY <2>2, <2>3
<1>28. \A r \in OuterTimes : \A p \in Line(Source, r) :
          At(d, p) < 0 => \E v \in Workers : \E q \in OuterTimes : q <= r /\ cap(v, q) > 0
  <2> SUFFICES ASSUME NEW r \in OuterTimes, NEW p \in Line(Source, r), At(d, p) < 0
               PROVE  \E v \in Workers : \E q \in OuterTimes : q <= r /\ cap(v, q) > 0
    OBVIOUS
  <2>1. p = <<Source, i>>
    BY <1>6, <1>7
  <2>2. t = r
    BY <1>2, <2>1 DEF Line
  <2>3. t <= r
    BY <2>2, ConstantFacts
  <2>. QED  BY <1>13, <2>3
<1>29. \A v \in Workers : \A p \in OuterPoints : At(z, p) > 0 => Outer!Implied(tracker[v], p[1], p[2])
  BY <1>8
<1>30. \A v \in Workers : \A p \in InnerPoints : At(e, p) > 0 => Outer!Implied(tracker[v], B, p[2].outer)
  <2> SUFFICES ASSUME NEW v \in Workers, NEW p \in InnerPoints, At(e, p) > 0
               PROVE  Outer!Implied(tracker[v], B, p[2].outer)
    OBVIOUS
  <2>1. p = <<PIn, i>>
    BY <1>6
  <2>2. At(alive[w], <<A, t>>) > 0
    BY <1>13 DEF cap
  <2>3. Outer!Implied(tracker[v], <<A, t>>[1], <<A, t>>[2])
    BY <1>1, <1>3, <2>2 DEF OuterCovered
  <2>4. A \in 1 .. 4 /\ B \in 1 .. 4 /\ A <= B /\ t <= t
    BY PortFacts, ConstantFacts
  <2>5. Outer!Implied(tracker[v], A, t)
    BY <2>3
  <2>6. tracker[v] \in Batches(OuterPoints)
    BY <1>1 DEF Typed
  <2>7. Outer!Implied(tracker[v], B, t)
    BY <2>4, <2>5, <2>6, OuterLater
  <2>. QED  BY <1>2, <2>1, <2>7
<1>31. Gone'
  <2>1. open = Workers
    BY <1>1, <1>13, AllOpen
  <2>2. open' = open
    BY <1>12 DEF work_vars
  <2>. QED  BY <2>1, <2>2 DEF Gone
<1>. QED  BY <1>4, <1>6, <1>7, <1>8, <1>19, <1>24, <1>25, <1>26, <1>27, <1>28, <1>29, <1>30, <1>31, MovedInv

\* P has recorded c when its own counts change by e, and those of x's B by o.
LEMMA InnerMoved ==
    ASSUME Typed, NEW w \in Workers, NEW x \in Workers, NEW c \in Genuine, NEW e \in Batches(InnerPoints),
           NEW o \in Batches(OuterPoints), Record(w, "P", c),
           within' = [within EXCEPT ![w] = Inner!Plus(@, e)],
           Inner!Plus(within[w], e) \in Counts(Ports(InnerPoints, {PIn, POut})),
           alive' \in [Workers -> Counts(Ports(OuterPoints, {A, B}))],
           \A v \in Workers : \A p : At(alive'[v], p) = At(alive[v], p) + More(o, p, v, x),
           UNCHANGED <<entering, work_vars>>
    PROVE  Typed' /\ Moved(w, x, w, c, Outer!Nothing, e, o)
<1> DEFINE SW == Counts(Ports(InnerPoints, {PIn, POut}))
           n == Inner!Plus(within[w], e)
<1>1. /\ shared' \in [Workers -> [Children -> Genuine \cup Honest]]
      /\ \A v \in Workers : /\ shared'[v]["A"] \in Honest /\ shared'[v]["A"] = shared[v]["A"]
                            /\ shared'[v]["B"] \in Honest /\ shared'[v]["B"] = shared[v]["B"]
                            /\ shared'[v]["P"] \in Genuine
  BY RecordedInner
<1>2. \A v \in Workers : \A p : At(shared'[v]["P"], p) = At(shared[v]["P"], p) + More(c, p, v, w)
  BY RecordedInner
<1>3. within \in [Workers -> SW] /\ n \in SW /\ within' = [within EXCEPT ![w] = n]
  BY DEF Typed
<1>4. \A q : At(n, q) = At(within[w], q) + At(e, q)
  <2>1. within[w] \in Batches(InnerPoints)
    BY SummedHolds DEF Summed
  <2>. QED  BY <2>1, PlusFacts
<1> HIDE DEF SW, n
<1>5. within' \in [Workers -> SW] /\ \A v \in Workers : within'[v] = IF v = w THEN n ELSE within[v]
  BY <1>3, OneChanged
<1>6. Typed'
  BY <1>1, <1>5 DEF Typed, work_vars, SW
<1>7. Made /\ Made'
  <2>1. Typed' => Made'
    BY MadeHolds, PTL
  <2>. QED  BY <1>6, <2>1, MadeHolds
<1>8. ASSUME NEW v \in Workers, NEW p
      PROVE  At(Mine(v)', p) = At(Mine(v), p) + More(c, p, v, w)
  <2>1. At(Mine(v), p) = At(inner[v], p) + (At(harvest_inputs(v), p) + At(shared[v]["P"], p))
    BY <1>7 DEF Made
  <2>2. At(Mine(v)', p) = At(inner'[v], p) + (At(harvest_inputs(v)', p) + At(shared'[v]["P"], p))
    BY <1>7 DEF Made
  <2>3. inner' = inner /\ entering' = entering
    BY DEF work_vars
  <2>4. harvest_inputs(v)' = harvest_inputs(v)
    BY <2>3 DEF harvest_inputs
  <2>5. At(inner[v], p) \in Int /\ At(shared[v]["P"], p) \in Int /\ At(harvest_inputs(v), p) \in Int
    <3>1. inner[v] \in Batches(InnerPoints) /\ shared[v]["P"] \in Batches(InnerPoints)
      BY GenuineIn DEF Typed
    <3>2. harvest_inputs(v) \in Batches(InnerPoints)
      BY <1>7, GenuineIn DEF Made
    <3>. QED  BY <3>1, <3>2, BatchFacts
  <2>6. More(c, p, v, w) \in Int
    <3>1. c \in Batches(InnerPoints)
      BY GenuineIn
    <3>. QED  BY <3>1, BatchFacts DEF More
  <2>7. At(shared'[v]["P"], p) = At(shared[v]["P"], p) + More(c, p, v, w)
    BY <1>2
  <2>. QED  BY <2>1, <2>2, <2>3, <2>4, <2>5, <2>6, <2>7
<1>9. ASSUME NEW v \in Workers, NEW p
      PROVE  At(MineO(v)', p) = At(MineO(v), p) + More(Outer!Nothing, p, v, w)
  <2>1. MineO(v)' = MineO(v)
    BY <1>1 DEF MineO, work_vars
  <2>2. At(MineO(v), p) \in Int
    <3>1. MineO(v) \in Batches(OuterPoints)
      BY <1>7, HonestIn DEF Made
    <3>. QED  BY <3>1, BatchFacts
  <2>3. At(Outer!Nothing, p) = 0
    BY OuterFacts
  <2>. QED  BY <2>1, <2>2, <2>3 DEF More
<1>10. ASSUME NEW v \in Workers, NEW p
       PROVE  At(within'[v], p) = At(within[v], p) + More(e, p, v, w)
  <2>1. At(within[v], p) \in Nat
    BY CountsIn DEF Typed
  <2>. QED  BY <1>4, <1>5, <2>1 DEF More
<1>11. UNCHANGED work_vars
  OBVIOUS
<1>. QED  BY <1>6, <1>8, <1>9, <1>10, <1>11 DEF Moved

\* ... for what P does with a message or a capability.
LEMMA InnerInv ==
    ASSUME NestedInv, NEW w \in Workers, NEW x \in Workers, NEW c \in Genuine, NEW e \in Batches(InnerPoints),
           NEW z \in Batches(OuterPoints), \A q : At(z, q) = 0,
           NEW o \in Batches(OuterPoints), NEW p \in InnerPoints, At(within[w], p) > 0, Typed',
           Moved(w, x, w, c, z, e, o), AtExit(c, e, o, p)
    PROVE  NestedInv'
<1>1. Typed /\ Gone /\ OuterCovered
  BY DEF NestedInv
<1>2. z \in Batches(OuterPoints) /\ \A q : At(z, q) = 0
  OBVIOUS
<1>3. /\ \A q \in Ports(InnerPoints, {PIn, POut}) : At(c, q) = At(e, q)
      /\ \A t \in InnerTimes : At(c, <<Source, t>>) = 0
      /\ Passes(c, o)
      /\ \A q \in InnerPoints : At(e, q) > 0 => p[2].outer <= q[2].outer
      /\ \A q \in OuterPoints : At(o, q) > 0 => q = <<B, p[2].outer>>
  BY DEF AtExit
<1>4. c \in Batches(InnerPoints)
  BY GenuineIn
<1>5. \A q \in Ports(InnerPoints, {PIn, POut}) : At(c, q) = At(e, q)
  BY <1>3
<1>6. \A t \in OuterTimes : \A q \in Line(Source, t) : At(c, q) = 0
  <2> SUFFICES ASSUME NEW t \in OuterTimes, NEW q \in Line(Source, t) PROVE At(c, q) = 0
    OBVIOUS
  <2>1. q = <<Source, q[2]>> /\ q[2] \in InnerTimes
    <3>1. Source \in 1 .. 4
      BY PortFacts
    <3>. QED  BY <3>1, LineFacts
  <2>2. At(c, <<Source, q[2]>>) = 0
    BY <1>3, <2>1
  <2>. QED  BY <2>1, <2>2
<1>7. Level(c, z, o)
  <2> SUFFICES ASSUME NEW t \in OuterTimes
               PROVE  /\ At(z, <<A, t>>) = At(o, <<A, t>>)
                      /\ At(z, <<In, t>>) + Across(c, Source, t) = 0
                      /\ At(z, <<B, t>>) + Across(c, Target, t) = At(o, <<B, t>>)
    BY DEF Level
  <2>1. At(z, <<A, t>>) = 0 /\ At(z, <<In, t>>) = 0 /\ At(z, <<B, t>>) = 0
    BY <1>2
  <2>2. Across(c, Source, t) = 0
    BY <1>4, <1>6, PortFacts, AcrossFacts
  <2>3. Across(c, Target, t) \in Int /\ Across(c, Target, t) = At(o, <<B, t>>)
    BY <1>3, <1>4, PortFacts, AcrossFacts DEF Passes
  <2>4. At(o, <<A, t>>) = 0
    BY <1>3 DEF Passes
  <2>. QED  BY <2>1, <2>2, <2>3, <2>4
<1>8. \A v \in Workers : \A t \in OuterTimes :
          /\ More(z, <<A, t>>, v, w) = More(o, <<A, t>>, v, x)
          /\ More(z, <<In, t>>, v, w) > 0 \/ More(o, <<A, t>>, v, x) > 0
                => \E r \in OuterTimes : r <= t /\ cap(v, r) > 0
  <2> TAKE v \in Workers
  <2> TAKE t \in OuterTimes
  <2>1. More(z, <<A, t>>, v, w) = 0 /\ More(o, <<A, t>>, v, x) = 0 /\ More(z, <<In, t>>, v, w) = 0
    BY <1>2, <1>3 DEF More, Passes
  <2>. QED  BY <2>1
<1>9. \A t \in OuterTimes : \A q \in Line(Source, t) :
          At(c, q) < 0 => \E v \in Workers : \E r \in OuterTimes : r <= t /\ cap(v, r) > 0
  BY <1>6
<1>10. p[2].outer \in OuterTimes
  BY InnerPointFacts, ConstantFacts
<1>11. \A u \in Workers : Outer!Implied(tracker[u], B, p[2].outer)
  BY <1>1 DEF OuterCovered
<1>12. \A u \in Workers : \A q \in OuterPoints : At(o, q) > 0 => Outer!Implied(tracker[u], q[1], q[2])
  BY <1>3, <1>11
<1>13. \A u \in Workers : \A q \in InnerPoints : At(e, q) > 0 => Outer!Implied(tracker[u], B, q[2].outer)
  <2> SUFFICES ASSUME NEW u \in Workers, NEW q \in InnerPoints, At(e, q) > 0
               PROVE  Outer!Implied(tracker[u], B, q[2].outer)
    OBVIOUS
  <2>1. p[2].outer <= q[2].outer
    BY <1>3
  <2>2. q[2].outer \in OuterTimes
    BY InnerPointFacts, ConstantFacts
  <2>3. tracker[u] \in Batches(OuterPoints)
    BY <1>1 DEF Typed
  <2>4. B \in 1 .. 4 /\ B <= B
    BY PortFacts
  <2>5. Outer!Implied(tracker[u], B, p[2].outer)
    BY <1>11
  <2>. QED  BY <1>10, <2>1, <2>2, <2>3, <2>4, <2>5, OuterLater
<1>14. Gone'
  <2>1. within[w] # Inner!Nothing
    BY NothingFacts
  <2>2. open = Workers
    BY <1>1, <2>1, AllOpen
  <2>3. open' = open
    BY DEF Moved, work_vars
  <2>. QED  BY <2>2, <2>3 DEF Gone
<1>. QED  BY <1>2, <1>4, <1>5, <1>7, <1>8, <1>9, <1>12, <1>13, <1>14, MovedInv

\* P has kept something, has sent a message to B, or has given something up.
LEMMA HandleInv ==
    ASSUME NestedInv, NEW w \in Workers, NEW l \in {PIn, POut}, NEW t \in InnerTimes, handle(w, <<l, t>>)
    PROVE  NestedInv'
<1> DEFINE p == <<l, t>>
           S == Ports(InnerPoints, {PIn, POut})
           g == Inner!Change(p, -1)
           z == Outer!Nothing
<1>1. Typed
  BY DEF NestedInv
<1>2. p \in S /\ p \in InnerPoints /\ p[1] = l /\ p[2] = t
  BY PortMembers
<1>3. t.outer \in OuterTimes
  BY ConstantFacts
<1>4. within[w] \in Counts(S) /\ p \in DOMAIN within[w] /\ UNCHANGED <<entering, work_vars>>
  BY <1>1 DEF Typed, handle
<1>5. At(within[w], p) >= 1 /\ At(within[w], p) \in Nat
  BY <1>4, CountsTake, CountsIn
<1>6. At(within[w], p) > 0
  BY <1>5
<1> HIDE DEF p, S
<1>7. g \in Batches(S) /\ g \in Batches(InnerPoints) /\ \A q : At(g, q) = IF q = p THEN -1 ELSE 0
  BY <1>2, ChangeFacts
<1>8. z \in Batches(OuterPoints) /\ \A q : At(z, q) = 0
  BY OuterFacts
<1> HIDE DEF g, z
<1>9. Inner!Plus(within[w], g) \in Counts(S)
  <2>1. \A q \in S : At(within[w], q) + At(g, q) >= 0
    <3> TAKE q \in S
    <3>1. At(within[w], q) \in Nat
      BY <1>4, CountsIn
    <3>. QED  BY <1>5, <1>7, <3>1
  <2>. QED  BY <1>4, <1>7, <2>1, CountsPlus
<1>10. \A q : q[1] = Source \/ q[1] = Target => q # p
  BY <1>2, PortFacts
<1>11. alive \in [Workers -> Counts(Ports(OuterPoints, {A, B}))]
  BY <1>1 DEF Typed
<1>12. \A v \in Workers : \A q : At(alive[v], q) = At(alive[v], q) + More(z, q, v, w)
  <2> TAKE v \in Workers
  <2> TAKE q
  <2>1. At(alive[v], q) \in Nat
    BY <1>11, CountsIn
  <2>2. More(z, q, v, w) = 0
    BY <1>8 DEF More
  <2>. QED  BY <2>1, <2>2
<1>13. \A r \in InnerTimes : At(g, <<Source, r>>) = 0 /\ At(g, <<Target, r>>) = 0
  <2> TAKE r \in InnerTimes
  <2>1. <<Source, r>> # p /\ <<Target, r>> # p
    BY <1>10
  <2>. QED  BY <1>7, <2>1
<1>14. ASSUME NEW c \in Batches(InnerPoints), \A r \in InnerTimes : At(c, <<Target, r>>) = 0
       PROVE  Passes(c, z)
  <2> SUFFICES ASSUME NEW s \in OuterTimes PROVE At(z, <<A, s>>) = 0 /\ Across(c, Target, s) = At(z, <<B, s>>)
    BY DEF Passes
  <2>1. \A q \in Line(Target, s) : At(c, q) = 0
    <3> TAKE q \in Line(Target, s)
    <3>1. q = <<Target, q[2]>> /\ q[2] \in InnerTimes
      <4>1. Target \in 1 .. 4
        BY PortFacts
      <4>. QED  BY <4>1, LineFacts
    <3>2. At(c, <<Target, q[2]>>) = 0
      BY <1>14, <3>1
    <3>. QED  BY <3>1, <3>2
  <2>2. Across(c, Target, s) = 0
    BY <2>1, PortFacts, AcrossFacts
  <2>. QED  BY <1>8, <2>2
<1>15. ASSUME NEW u \in InnerTimes, Keeps(w, p, u) PROVE NestedInv'
  <2> DEFINE k == Inner!Change(<<POut, u>>, 1)
             c == Inner!Plus(g, k)
  <2>1. <<POut, u>> \in S /\ <<POut, u>> \in InnerPoints
    BY PortMembers DEF S
  <2>2. k \in Batches(S) /\ k \in Batches(InnerPoints) /\ \A q : At(k, q) = IF q = <<POut, u>> THEN 1 ELSE 0
    BY <2>1, ChangeFacts
  <2> HIDE DEF k
  <2>3. c \in Batches(S) /\ c \in Batches(InnerPoints) /\ \A q : At(c, q) = At(g, q) + At(k, q)
    BY <1>7, <2>2, PlusFacts
  <2>4. /\ within' = [within EXCEPT ![w] = Inner!Plus(@, c)] /\ Record(w, "P", c)
        /\ alive' = alive /\ Inner!less_equal(t, u)
    BY <1>2, <1>15 DEF Keeps, g, k
  <2>5. t.outer <= u.outer /\ t.round <= u.round
    BY <2>4, InnerOrder
  <2> HIDE DEF c
  <2>6. \A q : At(c, q) > 0 => q = <<POut, u>> /\ q # p
    BY <1>7, <2>2, <2>3
  <2>7. c \in Genuine
    <3>1. ASSUME NEW q \in InnerPoints, At(c, q) > 0
          PROVE  \E r \in InnerPoints : Leq(r, q) /\ At(c, r) < 0
      <4>1. q = <<POut, u>> /\ q # p
        BY <2>6, <3>1
      <4>2. At(c, p) < 0
        <5>1. At(g, p) = -1 /\ At(k, p) = 0
          BY <1>7, <2>2, <4>1
        <5>. QED  BY <2>3, <5>1
      <4>3. Leq(p, q)
        <5>1. p[1] <= POut
          BY <1>2, PortFacts
        <5>. QED  BY <1>2, <2>5, <4>1, <5>1 DEF Leq
      <4>. QED  BY <1>2, <4>2, <4>3
    <3>2. ASSUME NEW r \in InnerTimes PROVE At(c, <<Source, r>>) <= 0 /\ At(c, <<Target, r>>) >= 0
      <4>1. At(g, <<Source, r>>) = 0 /\ At(g, <<Target, r>>) = 0
        BY <1>13
      <4>2. At(k, <<Source, r>>) = 0 /\ At(k, <<Target, r>>) = 0
        BY <2>2, PortFacts
      <4>. QED  BY <2>3, <4>1, <4>2
    <3>. QED  BY <2>3, <3>1, <3>2 DEF Genuine, Upright
  <2>8. Inner!Plus(within[w], c) \in Counts(S)
    <3>1. \A q \in S : At(within[w], q) + At(c, q) >= 0
      <4> TAKE q \in S
      <4>1. At(within[w], q) \in Nat
        BY <1>4, CountsIn
      <4>2. At(c, q) = At(g, q) + At(k, q)
        BY <2>3
      <4>3. At(k, q) = IF q = <<POut, u>> THEN 1 ELSE 0
        BY <2>2
      <4>. QED  BY <1>5, <1>7, <4>1, <4>2, <4>3
    <3>. QED  BY <1>4, <2>3, <3>1, CountsPlus
  <2>9. \A v \in Workers : \A q : At(alive'[v], q) = At(alive[v], q) + More(z, q, v, w)
    BY <1>12, <2>4
  <2>10. alive' \in [Workers -> Counts(Ports(OuterPoints, {A, B}))]
    BY <1>11, <2>4
  <2>11. Typed' /\ Moved(w, w, w, c, z, c, z)
    BY <1>1, <1>4, <1>8, <2>3, <2>4, <2>7, <2>8, <2>9, <2>10, InnerMoved DEF S, z
  <2>12. \A q \in Ports(InnerPoints, {PIn, POut}) : At(c, q) = At(c, q)
    OBVIOUS
  <2>13. \A r \in InnerTimes : At(c, <<Source, r>>) = 0 /\ At(c, <<Target, r>>) = 0
    <3> TAKE r \in InnerTimes
    <3>1. At(g, <<Source, r>>) = 0 /\ At(g, <<Target, r>>) = 0
      BY <1>13
    <3>2. At(k, <<Source, r>>) = 0 /\ At(k, <<Target, r>>) = 0
      BY <2>2, PortFacts
    <3>. QED  BY <2>3, <3>1, <3>2
  <2>14. Passes(c, z)
    BY <1>14, <2>3, <2>13
  <2>15. \A q \in InnerPoints : At(c, q) > 0 => p[2].outer <= q[2].outer
    BY <1>2, <2>5, <2>6
  <2>16. \A q \in OuterPoints : At(z, q) > 0 => q = <<B, p[2].outer>>
    BY <1>8
  <2>17. \A r \in InnerTimes : At(c, <<Source, r>>) = 0
    BY <2>13
  <2>18. AtExit(c, c, z, p)
    BY <2>12, <2>14, <2>15, <2>16, <2>17 DEF AtExit
  <2>. QED  BY <1>2, <1>6, <1>8, <2>3, <2>7, <2>11, <2>18, InnerInv
<1>16. ASSUME Drops(w, p) PROVE NestedInv'
  <2>1. /\ within' = [within EXCEPT ![w] = Inner!Plus(@, g)] /\ Record(w, "P", g) /\ alive' = alive
    BY <1>16 DEF Drops, g
  <2>2. g \in Genuine
    <3>1. \A q : ~ At(g, q) > 0
      BY <1>7
    <3>. QED  BY <1>7, <1>13, <3>1 DEF Genuine, Upright
  <2>3. \A v \in Workers : \A q : At(alive'[v], q) = At(alive[v], q) + More(z, q, v, w)
    BY <1>12, <2>1
  <2>4. alive' \in [Workers -> Counts(Ports(OuterPoints, {A, B}))]
    BY <1>11, <2>1
  <2>5. Typed' /\ Moved(w, w, w, g, z, g, z)
    BY <1>1, <1>4, <1>7, <1>8, <1>9, <2>1, <2>2, <2>3, <2>4, InnerMoved DEF S, z
  <2>6. \A q \in Ports(InnerPoints, {PIn, POut}) : At(g, q) = At(g, q)
    OBVIOUS
  <2>7. Passes(g, z)
    BY <1>7, <1>13, <1>14
  <2>8. \A q \in InnerPoints : At(g, q) > 0 => p[2].outer <= q[2].outer
    BY <1>7
  <2>9. \A q \in OuterPoints : At(z, q) > 0 => q = <<B, p[2].outer>>
    BY <1>8
  <2>10. \A r \in InnerTimes : At(g, <<Source, r>>) = 0
    BY <1>13
  <2>11. AtExit(g, g, z, p)
    BY <2>6, <2>7, <2>8, <2>9, <2>10 DEF AtExit
  <2>. QED  BY <1>2, <1>6, <1>7, <1>8, <2>2, <2>5, <2>11, InnerInv
<1>17. ASSUME NEW v \in Workers, Leaves(w, p, v) PROVE NestedInv'
  <2> DEFINE k == Inner!Change(<<Target, t>>, 1)
             c == Inner!Plus(g, k)
             o == Outer!Change(<<B, t.outer>>, 1)
             SO == Counts(Ports(OuterPoints, {A, B}))
             n == Outer!Plus(alive[v], o)
  <2>1. <<Target, t>> \in InnerPoints /\ <<B, t.outer>> \in Ports(OuterPoints, {A, B}) /\ <<B, t.outer>> \in OuterPoints
    BY <1>3, PortMembers
  <2>2. k \in Batches(InnerPoints) /\ \A q : At(k, q) = IF q = <<Target, t>> THEN 1 ELSE 0
    BY <2>1, ChangeFacts
  <2>3. o \in Batches(OuterPoints) /\ \A q : At(o, q) = IF q = <<B, t.outer>> THEN 1 ELSE 0
    BY <2>1, OuterFacts
  <2>4. n \in SO /\ \A q : At(n, q) = At(alive[v], q) + At(o, q)
    <3>1. alive[v] \in SO /\ At(alive[v], <<B, t.outer>>) \in Nat
      BY <1>11, CountsIn
    <3>2. At(alive[v], <<B, t.outer>>) + 1 >= 0
      BY <3>1
    <3>. QED  BY <2>1, <3>1, <3>2, PlusChange
  <2>5. /\ within' = [within EXCEPT ![w] = Inner!Plus(@, g)] /\ Record(w, "P", c)
        /\ alive' = [alive EXCEPT ![v] = n]
    BY <1>2, <1>17 DEF Leaves, EgressNub, to_outer, g
  <2> HIDE DEF k
  <2>6. c \in Batches(InnerPoints) /\ \A q : At(c, q) = At(g, q) + At(k, q)
    BY <1>7, <2>2, PlusFacts
  <2> HIDE DEF c, o, n, SO
  <2>7. alive' \in [Workers -> SO] /\ \A u \in Workers : alive'[u] = IF u = v THEN n ELSE alive[u]
    BY <1>11, <2>4, <2>5, OneChanged DEF SO
  <2>8. \A u \in Workers : \A q : At(alive'[u], q) = At(alive[u], q) + More(o, q, u, v)
    <3> TAKE u \in Workers
    <3> TAKE q
    <3>1. At(alive[u], q) \in Nat
      BY <1>11, CountsIn
    <3>. QED  BY <2>4, <2>7, <3>1 DEF More
  <2>9. p # <<Target, t>>
    BY <1>2, PortFacts
  <2>10. At(c, p) = -1
    <3>1. At(g, p) = -1 /\ At(k, p) = 0
      BY <1>7, <2>2, <2>9
    <3>. QED  BY <2>6, <3>1
  <2>11. c \in Genuine
    <3>1. ASSUME NEW q \in InnerPoints, At(c, q) > 0
          PROVE  \E r \in InnerPoints : Leq(r, q) /\ At(c, r) < 0
      <4>1. q = <<Target, t>>
        BY <1>7, <2>2, <2>6, <3>1
      <4>2. Leq(p, q)
        <5>1. p[1] <= Target
          BY <1>2, PortFacts
        <5>2. t.outer <= t.outer /\ t.round <= t.round
          BY ConstantFacts
        <5>. QED  BY <1>2, <4>1, <5>1, <5>2 DEF Leq
      <4>3. At(c, p) < 0
        BY <2>10
      <4>. QED  BY <1>2, <4>2, <4>3
    <3>2. ASSUME NEW r \in InnerTimes PROVE At(c, <<Source, r>>) <= 0 /\ At(c, <<Target, r>>) >= 0
      <4>1. At(g, <<Source, r>>) = 0 /\ At(g, <<Target, r>>) = 0
        BY <1>13
      <4>2. At(k, <<Source, r>>) = 0 /\ At(k, <<Target, r>>) >= 0
        BY <2>2, PortFacts
      <4>3. At(k, <<Target, r>>) \in Int
        BY <2>2
      <4>. QED  BY <2>6, <4>1, <4>2, <4>3
    <3>. QED  BY <2>6, <3>1, <3>2 DEF Genuine, Upright
  <2>12. Typed' /\ Moved(w, v, w, c, z, g, o)
    BY <1>1, <1>4, <1>7, <1>9, <2>3, <2>5, <2>7, <2>8, <2>11, InnerMoved DEF S, SO, z
  <2>13. \A q \in Ports(InnerPoints, {PIn, POut}) : At(c, q) = At(g, q)
    <3> TAKE q \in Ports(InnerPoints, {PIn, POut})
    <3>1. At(k, q) = 0
      BY <2>2, PortFacts DEF Ports
    <3>2. At(g, q) \in Int
      BY <1>7, BatchFacts
    <3>. QED  BY <2>6, <3>1, <3>2
  <2>14. \A r \in InnerTimes : At(c, <<Source, r>>) = 0
    <3> TAKE r \in InnerTimes
    <3>1. At(g, <<Source, r>>) = 0
      BY <1>13
    <3>2. At(k, <<Source, r>>) = 0
      BY <2>2, PortFacts
    <3>. QED  BY <2>6, <3>1, <3>2
  <2>15. Passes(c, o)
    <3> SUFFICES ASSUME NEW s \in OuterTimes PROVE At(o, <<A, s>>) = 0 /\ Across(c, Target, s) = At(o, <<B, s>>)
      BY DEF Passes
    <3>1. At(o, <<A, s>>) = 0
      BY <2>3, PortFacts
    <3>2. Target \in 1 .. 4
      BY PortFacts
    <3>3. ASSUME NEW q \in Line(Target, s), q # <<Target, t>> PROVE At(c, q) = 0
      <4>1. q # p
        BY <1>10 DEF Line
      <4>2. At(g, q) = 0 /\ At(k, q) = 0
        BY <1>7, <2>2, <3>3, <4>1
      <4>. QED  BY <2>6, <4>2
    <3>4. Across(c, Target, s) = IF <<Target, t>> \in Line(Target, s) THEN At(c, <<Target, t>>) ELSE 0
      BY <2>1, <2>6, <3>2, <3>3, AcrossOne
    <3>5. At(c, <<Target, t>>) = 1
      <4>1. At(g, <<Target, t>>) = 0 /\ At(k, <<Target, t>>) = 1
        BY <1>7, <2>2, <2>9
      <4>. QED  BY <2>6, <4>1
    <3>6. <<Target, t>> \in Line(Target, s) <=> t.outer = s
      BY <2>1 DEF Line
    <3>7. At(o, <<B, s>>) = IF s = t.outer THEN 1 ELSE 0
      BY <2>3
    <3>. QED  BY <3>1, <3>4, <3>5, <3>6, <3>7
  <2>16. \A q \in InnerPoints : At(g, q) > 0 => p[2].outer <= q[2].outer
    BY <1>7
  <2>17. \A q \in OuterPoints : At(o, q) > 0 => q = <<B, p[2].outer>>
    BY <1>2, <2>3
  <2>18. p \in InnerPoints
    BY <1>2
  <2>19. g \in Batches(InnerPoints)
    BY <1>7
  <2>20. o \in Batches(OuterPoints)
    BY <2>3
  <2>21. AtExit(c, g, o, p)
    BY <2>13, <2>14, <2>15, <2>16, <2>17 DEF AtExit
  <2>. QED  BY <1>6, <1>8, <2>11, <2>12, <2>18, <2>19, <2>20, <2>21, InnerInv
<1>. QED  BY <1>15, <1>16, <1>17 DEF handle, p

-----------------------------------------------------------------------------
(* What is taken from a channel, and sent in it.                            *)

\* The rest of a sequence.
LEMMA RestFacts ==
    ASSUME NEW S, NEW s \in Seq(S), NEW d \in 0 .. Len(s)
    PROVE  /\ SubSeq(s, d + 1, Len(s)) \in Seq(S) /\ Len(SubSeq(s, d + 1, Len(s))) = Len(s) - d
           /\ \A i \in 1 .. Len(s) - d : SubSeq(s, d + 1, Len(s))[i] = s[d + i]
<1>1. Len(s) \in Nat /\ d \in Nat /\ d <= Len(s)
  BY LenProperties
<1>2. \A i \in d + 1 .. Len(s) : s[i] \in S
  BY <1>1, ElementOfSeq
<1>3. d + 1 \in Int /\ Len(s) \in Int
  BY <1>1
<1>4. /\ SubSeq(s, d + 1, Len(s)) \in Seq(S)
      /\ Len(SubSeq(s, d + 1, Len(s))) = IF d + 1 <= Len(s) THEN Len(s) - (d + 1) + 1 ELSE 0
      /\ \A i \in 1 .. Len(s) - (d + 1) + 1 : SubSeq(s, d + 1, Len(s))[i] = s[d + 1 + i - 1]
  BY <1>2, <1>3, SubSeqProperties
<1>5. ASSUME NEW i \in 1 .. Len(s) - d PROVE SubSeq(s, d + 1, Len(s))[i] = s[d + i]
  <2>1. i \in 1 .. Len(s) - (d + 1) + 1
    BY <1>1
  <2>2. d + 1 + i - 1 = d + i
    BY <1>1
  <2>. QED  BY <1>4, <2>1, <2>2
<1>. QED  BY <1>1, <1>4, <1>5

\* A sequence with one more element.
LEMMA AppendFacts ==
    ASSUME NEW S, NEW t \in Seq(S), NEW b \in S
    PROVE  /\ Append(t, b) \in Seq(S) /\ Len(Append(t, b)) = Len(t) + 1 /\ Append(t, b)[Len(t) + 1] = b
           /\ \A i \in 1 .. Len(t) : Append(t, b)[i] = t[i]
BY AppendProperties

\* A finite set of integers has its maximum.
LEMMA MaxIn ==
    ASSUME NEW S \in SUBSET Int, IsFiniteSet(S), S # {}
    PROVE  Max(S) \in S
<1> DEFINE N == {- x : x \in S}
           f == [x \in S |-> - x]
<1>1. f \in Surjection(S, N)
  BY Zenon DEF Surjection
<1>2. IsFiniteSet(N)
  BY <1>1, FS_Surjection
<1>3. N \in SUBSET Int /\ N # {}
  OBVIOUS
<1> HIDE DEF N
<1>4. PICK m \in N : \A x \in N : m <= x
  BY <1>2, <1>3, SmallestExists
<1>5. PICK n \in S : m = - n
  BY DEF N
<1>6. ASSUME NEW x \in S PROVE n >= x
  <2>1. - x \in N /\ x \in Int /\ n \in Int
    BY DEF N
  <2>2. m <= - x
    BY <1>4, <2>1
  <2>. QED  BY <1>5, <2>1, <2>2
<1>. QED  BY <1>6 DEF Max

\* The rest of the rest, and of the rest with one more element.
LEMMA DropFacts ==
    ASSUME NEW S, NEW s \in Seq(S), NEW d \in 0 .. Len(s), NEW b \in S, NEW t, t = SubSeq(s, d + 1, Len(s))
    PROVE  Dropped(S, s, d, b, t)
<1>1. Len(s) \in Nat /\ d \in Nat /\ d <= Len(s)
  BY LenProperties
<1>2. t \in Seq(S) /\ Len(t) = Len(s) - d /\ \A i \in 1 .. Len(t) : t[i] = s[d + i]
  BY RestFacts
<1> DEFINE a == Append(t, b)
<1>3. a \in Seq(S) /\ Len(a) = Len(t) + 1 /\ a[Len(t) + 1] = b /\ \A i \in 1 .. Len(t) : a[i] = t[i]
  <2>1. t \in Seq(S)
    BY <1>2
  <2>2. \A x \in Seq(S) : /\ Append(x, b) \in Seq(S) /\ Len(Append(x, b)) = Len(x) + 1 /\ Append(x, b)[Len(x) + 1] = b
                          /\ \A i \in 1 .. Len(x) : Append(x, b)[i] = x[i]
    BY AppendFacts
  <2>. QED  BY <2>1, <2>2, Zenon
<1> HIDE DEF a
<1>4. ASSUME NEW k \in 0 .. Len(t)
      PROVE  /\ SubSeq(t, k + 1, Len(t)) = SubSeq(s, k + d + 1, Len(s))
             /\ SubSeq(a, k + 1, Len(t) + 1) = Append(SubSeq(s, k + d + 1, Len(s)), b)
  <2> DEFINE x == SubSeq(t, k + 1, Len(t))
             y == SubSeq(s, k + d + 1, Len(s))
             z == SubSeq(a, k + 1, Len(a))
             c == Append(y, b)
  <2>1. k \in Nat /\ k <= Len(t) /\ k + d \in 0 .. Len(s) /\ k \in 0 .. Len(a)
    BY <1>1, <1>2, <1>3
  <2>2. x \in Seq(S) /\ Len(x) = Len(t) - k /\ \A i \in 1 .. Len(t) - k : x[i] = t[k + i]
    BY <1>2, <2>1, RestFacts
  <2>3. y \in Seq(S) /\ Len(y) = Len(s) - (k + d) /\ \A i \in 1 .. Len(s) - (k + d) : y[i] = s[k + d + i]
    BY <1>2, <2>1, RestFacts
  <2>4. z \in Seq(S) /\ Len(z) = Len(a) - k /\ \A i \in 1 .. Len(a) - k : z[i] = a[k + i]
    BY <1>3, <2>1, RestFacts
  <2>5. c \in Seq(S) /\ Len(c) = Len(y) + 1 /\ c[Len(y) + 1] = b /\ \A i \in 1 .. Len(y) : c[i] = y[i]
    <3>1. y \in Seq(S)
      BY <2>3
    <3> HIDE DEF y
    <3>. QED  BY <3>1, AppendFacts
  <2> HIDE DEF x, y, z, c
  <2>6. Len(x) = Len(y) /\ Len(z) = Len(c)
    BY <1>1, <1>2, <1>3, <2>1, <2>2, <2>3, <2>4, <2>5
  <2>7. ASSUME NEW i \in 1 .. Len(x) PROVE x[i] = y[i]
    <3>1. i \in 1 .. Len(t) - k /\ i \in 1 .. Len(s) - (k + d) /\ k + i \in 1 .. Len(t) /\ d + (k + i) = k + d + i
      BY <1>1, <1>2, <2>1, <2>2, <2>3, <2>6
    <3>2. x[i] = t[k + i] /\ y[i] = s[k + d + i]
      BY <2>2, <2>3, <3>1
    <3>3. t[k + i] = s[d + (k + i)]
      BY <1>2, <3>1
    <3>. QED  BY <3>1, <3>2, <3>3
  <2>8. ASSUME NEW i \in 1 .. Len(z) PROVE z[i] = c[i]
    <3>1. i \in 1 .. Len(a) - k /\ Len(y) = Len(t) - k /\ Len(t) \in Nat /\ Len(a) = Len(t) + 1 /\ i \in Int
      BY <1>1, <1>2, <1>3, <2>1, <2>3, <2>4
    <3>2. z[i] = a[k + i]
      BY <2>4, <3>1
    <3>3. CASE i = Len(y) + 1
      <4>1. k + i = Len(t) + 1
        BY <2>1, <3>1, <3>3
      <4>. QED  BY <1>3, <2>5, <3>2, <3>3, <4>1
    <3>4. CASE i # Len(y) + 1
      <4>1. i \in 1 .. Len(y) /\ k + i \in 1 .. Len(t) /\ i \in 1 .. Len(x)
        <5>1. k \in Nat /\ i \in Int /\ Len(t) \in Nat /\ Len(a) - k \in Int
          BY <2>1, <3>1
        <5>2. 1 <= i /\ i <= Len(a) - k
          BY <3>1, <5>1
        <5>3. i # Len(t) - k + 1
          BY <3>1, <3>4
        <5>4. 1 <= i /\ i <= Len(t) - k
          <6>1. Len(a) - k = Len(t) - k + 1
            BY <3>1, <5>1
          <6>2. \A j, m \in Int : j <= m + 1 /\ j # m + 1 => j <= m
            OBVIOUS
          <6>3. Len(t) - k \in Int
            BY <5>1
          <6>4. i <= Len(t) - k + 1
            BY <5>2, <6>1
          <6>. QED  BY <5>1, <5>2, <5>3, <6>2, <6>3, <6>4, Zenon
        <5>5. i \in 1 .. Len(t) - k /\ k + i \in 1 .. Len(t)
          BY <5>1, <5>4
        <5>6. Len(x) = Len(t) - k /\ Len(y) = Len(t) - k
          BY <2>2, <3>1
        <5>. QED  BY <5>5, <5>6
      <4>2. c[i] = y[i] /\ a[k + i] = t[k + i] /\ x[i] = y[i]
        BY <1>3, <2>5, <2>7, <4>1
      <4>3. x[i] = t[k + i]
        BY <2>2, <4>1
      <4>. QED  BY <3>2, <4>2, <4>3
    <3>. QED  BY <3>3, <3>4
  <2>9. x = y
    BY <2>2, <2>3, <2>6, <2>7, SeqEqual
  <2>10. z = c
    BY <2>4, <2>5, <2>6, <2>8, SeqEqual
  <2>. QED  BY <1>3, <2>9, <2>10 DEF x, y, z, c
<1>5. SubSeq(a, Len(t) + 2, Len(t) + 1) = <<>>
  <2>1. Len(t) + 2 \in Int /\ Len(t) + 1 \in Int /\ Len(t) + 1 < Len(t) + 2
    BY <1>1, <1>2
  <2>. QED  BY <2>1, SubSeqEmpty
<1>6. Append(t, b) \in Seq(S) /\ Len(Append(t, b)) = Len(t) + 1
  BY <1>3 DEF a
<1>7. \A k \in 0 .. Len(t) :
          /\ SubSeq(t, k + 1, Len(t)) = SubSeq(s, k + d + 1, Len(s))
          /\ SubSeq(Append(t, b), k + 1, Len(t) + 1) = Append(SubSeq(s, k + d + 1, Len(s)), b)
  BY <1>4 DEF a
<1>8. SubSeq(Append(t, b), Len(t) + 2, Len(t) + 1) = <<>>
  BY <1>5 DEF a
<1>. QED  BY <1>2, <1>6, <1>7, <1>8 DEF Dropped

\* What a worker has taken from its channels, and sent, leaves the rest in them.
LEMMA ChannelFacts ==
    ASSUME NEW S, NEW c, NEW w \in Workers, NEW upto, NEW b, NEW sending, NEW n, Passed(S, c, w, upto, b, sending, n)
    PROVE  /\ n \in [Workers -> [Workers -> Seq(S)]]
           /\ \A v, u \in Workers : Left(S, c, w, upto, b, sending, n, v, u)
<1>0. /\ c \in [Workers -> [Workers -> Seq(S)]] /\ upto \in [Workers -> Nat] /\ b \in S /\ sending \in BOOLEAN
      /\ \A v \in Workers : upto[v] <= Len(c[v][w])
      /\ n = IF sending THEN Sends(Takes(c, w, upto), w, b) ELSE Takes(c, w, upto)
  BY DEF Passed
<1> DEFINE t(v, u) == Rest(c, w, upto, v, u)
           k == Takes(c, w, upto)
<1>1. \A v, u \in Workers : c[v][u] \in Seq(S) /\ Len(c[v][u]) \in Nat
  BY <1>0, LenProperties
<1>2. ASSUME NEW v \in Workers, NEW u \in Workers PROVE Ahead(w, upto, v, u) \in 0 .. Len(c[v][u])
  BY <1>0, <1>1 DEF Ahead
<1>3. ASSUME NEW v \in Workers, NEW u \in Workers
      PROVE  t(v, u) \in Seq(S)
  BY <1>1, <1>2, RestFacts DEF Rest
<1>4. ASSUME NEW v \in Workers
      PROVE  /\ k[v] \in [Workers -> Seq(S)]
             /\ \A u \in Workers : k[v][u] = t(v, u)
  <2> DEFINE r == SubSeq(c[v][w], upto[v] + 1, Len(c[v][w]))
  <2>1. k[v] = [c[v] EXCEPT ![w] = r]
    BY DEF Takes
  <2>2. r = t(v, w)
    BY DEF Ahead, Rest
  <2>3. r \in Seq(S)
    BY <1>3, <2>2
  <2>4. c[v] \in [Workers -> Seq(S)]
    BY <1>0
  <2>5. ASSUME NEW u \in Workers, u # w PROVE c[v][u] = t(v, u)
    <3>1. t(v, u) = SubSeq(c[v][u], 0 + 1, Len(c[v][u]))
      BY <2>5 DEF Ahead, Rest
    <3>2. SubSeq(c[v][u], 1, Len(c[v][u])) = c[v][u]
      <4>1. c[v][u] \in Seq(S)
        BY <1>1
      <4>. QED  BY <4>1, SubSeqFull
    <3>3. 0 + 1 = 1
      OBVIOUS
    <3>. QED  BY <3>1, <3>2, <3>3
  <2> DEFINE kv == k[v]
             Q == Seq(S)
  <2> HIDE DEF r, t, k, Q
  <2>6. kv \in [Workers -> Q] /\ \A u \in Workers : kv[u] = IF u = w THEN r ELSE c[v][u]
    <3>1. r \in Q /\ c[v] \in [Workers -> Q]
      BY <2>3, <2>4 DEF Q
    <3>. QED  BY <2>1, <3>1, OneChanged
  <2>7. \A u \in Workers : k[v][u] = t(v, u)
    BY <2>2, <2>5, <2>6
  <2>. QED  BY <2>6, <2>7 DEF Q
<1>5. k \in [Workers -> [Workers -> Seq(S)]]
  <2>1. k = [v \in Workers |-> k[v]]
    BY DEF Takes
  <2> HIDE DEF k
  <2>. QED  BY <1>4, <2>1
<1> HIDE DEF k, t
<1>6. CASE ~ sending
  <2>1. n = k
    BY <1>0, <1>6 DEF k
  <2>. QED  BY <1>2, <1>4, <1>5, <1>6, <2>1 DEF t, Left
<1>7. CASE sending
  <2> DEFINE m == [v \in Workers |-> Append(k[w][v], b)]
             Q == [Workers -> Seq(S)]
  <2>1. n = [k EXCEPT ![w] = m]
    BY <1>0, <1>7 DEF k, Sends
  <2>2. \A u \in Workers : Append(k[w][u], b) \in Seq(S)
    <3> TAKE u \in Workers
    <3>1. k[w][u] \in Seq(S)
      BY <1>5
    <3>. QED  BY <1>0, <3>1, AppendProperties
  <2>3. m \in Q
    BY <2>2
  <2>4. \A u \in Workers : m[u] = Append(k[w][u], b)
    OBVIOUS
  <2>5. k \in [Workers -> Q]
    BY <1>5
  <2> HIDE DEF m, Q
  <2>6. n \in [Workers -> Q] /\ \A v \in Workers : n[v] = IF v = w THEN m ELSE k[v]
    BY <2>1, <2>3, <2>5, OneChanged
  <2>7. ASSUME NEW v \in Workers, NEW u \in Workers
        PROVE  n[v][u] = IF sending /\ v = w THEN Append(t(v, u), b) ELSE t(v, u)
    BY <1>4, <1>7, <2>4, <2>6
  <2>. QED  BY <1>2, <2>6, <2>7 DEF t, Q, Left
<1>. QED  BY <1>6, <1>7

\* Any part of what has been sent to w.
LEMMA UptoFacts ==
    ASSUME NEW S, NEW c \in [Workers -> [Workers -> Seq(S)]], NEW w \in Workers, NEW upto \in Upto(c, w)
    PROVE  upto \in [Workers -> Nat] /\ \A v \in Workers : upto[v] <= Len(c[v][w])
<1>1. upto \in [Workers -> 0 .. Max({Len(c[v][w]) : v \in Workers})] /\ \A v \in Workers : upto[v] <= Len(c[v][w])
  BY DEF Upto
<1> DEFINE f == [v \in Workers |-> Len(c[v][w])]
           L == {Len(c[v][w]) : v \in Workers}
<1>2. ASSUME NEW v \in Workers PROVE upto[v] \in Nat
  <2>1. L \in SUBSET Int
    <3>1. \A x \in Workers : Len(c[x][w]) \in Int
      BY LenProperties
    <3>. QED  BY <3>1
  <2>2. IsFiniteSet(L)
    <3>1. f \in Surjection(Workers, L)
      BY Zenon DEF Surjection
    <3>. QED  BY <3>1, ConstantFacts, FS_Surjection
  <2>3. L # {}
    OBVIOUS
  <2>4. upto[v] \in 0 .. Max(L)
    BY <1>1
  <2> HIDE DEF L
  <2>5. Max(L) \in Int
    BY <2>1, <2>2, <2>3, MaxIn
  <2>. QED  BY <2>4, <2>5
<1>. QED  BY <1>1, <1>2

\* The step, and the types of what it changes.
LEMMA ScheduleFacts ==
    ASSUME Typed, NEW w \in Workers, NEW upto \in Upto(mail, w), NEW runs \in BOOLEAN, schedule(w, upto, runs)
    PROVE  /\ upto \in Prefixes(w)
           /\ Propagated(w, upto) \in Batches(OuterPoints)
           /\ tracker' \in [Workers -> Batches(OuterPoints)]
           /\ \A u \in Workers : tracker'[u] = IF u = w THEN Propagated(w, upto) ELSE tracker[u]
           /\ \E sending \in BOOLEAN : Kept(w, upto, sending)
           /\ local' \in [Workers -> Honest] /\ mail' \in [Workers -> [Workers -> Seq(Honest)]]
           /\ shared' \in [Workers -> [Children -> Genuine \cup Honest]]
           /\ \A u \in Workers :
                 /\ shared'[u]["A"] = IF u = w THEN Outer!Nothing ELSE shared[u]["A"]
                 /\ shared'[u]["B"] = IF u = w THEN Outer!Nothing ELSE shared[u]["B"]
                 /\ shared'[u]["P"] = IF u = w /\ runs THEN Inner!Nothing ELSE shared[u]["P"]
                 /\ shared'[u]["A"] \in Honest /\ shared'[u]["B"] \in Honest /\ shared'[u]["P"] \in Genuine
           /\ UNCHANGED <<alive, within, start>>
<1>1. mail \in [Workers -> [Workers -> Seq(Honest)]]
  BY DEF Typed
<1>2. upto \in [Workers -> Nat] /\ \A v \in Workers : upto[v] <= Len(mail[v][w])
  BY <1>1, UptoFacts
<1>3. upto \in Prefixes(w)
  BY <1>2 DEF Prefixes
<1>4. Propagated(w, upto) \in Batches(OuterPoints)
  <2> DEFINE r == Received(mail, w, upto)
             q == [v \in DOMAIN r |-> Inner!Total(r[v])]
  <2>1. DOMAIN r = Workers /\ \A v \in Workers : r[v] = SubSeq(mail[v][w], 1, upto[v])
    BY DEF Received
  <2>2. ASSUME NEW v \in Workers PROVE Inner!Total(r[v]) \in Batches(OuterPoints)
    <3>1. mail[v][w] \in Seq(Honest) /\ upto[v] \in 0 .. Len(mail[v][w])
      BY <1>1, <1>2
    <3>2. r[v] \in Seq(Honest)
      BY <2>1, <3>1, SequenceHonest
    <3> HIDE DEF r
    <3>3. Inner!Total(r[v]) \in Honest
      BY <3>2, SequenceHonest
    <3>. QED  BY <3>3, HonestIn
  <2>3. Outer!Totals(r) = Inner!Totals(r)
    BY SameCounts
  <2>4. Inner!Totals(r) = Inner!Total(q)
    BY DEF Inner!Totals
  <2> HIDE DEF r
  <2>5. q \in [Workers -> Batches(OuterPoints)]
    BY <2>1, <2>2
  <2> HIDE DEF q
  <2>6. Inner!Total(q) \in Batches(OuterPoints)
    BY <2>5, ConstantFacts, TotalIn
  <2>7. tracker[w] \in Batches(OuterPoints) /\ final[w] \in Batches(OuterPoints)
    BY DEF Typed
  <2> DEFINE b == Outer!Totals(r)
             c == Outer!Plus(final[w], b)
  <2>8. Propagated(w, upto) = Outer!Plus(tracker[w], c)
    BY DEF Propagated, r
  <2>9. b \in Batches(OuterPoints)
    BY <2>3, <2>4, <2>6
  <2> HIDE DEF b
  <2>10. c \in Batches(OuterPoints)
    BY <2>7, <2>9, OuterFacts
  <2> HIDE DEF c
  <2>. QED  BY <2>7, <2>8, <2>10, OuterFacts
<1>5. /\ tracker' = [tracker EXCEPT ![w] = Propagated(w, upto)]
      /\ shared' = [shared EXCEPT ![w] = [o \in Children |-> IF o = "P" /\ ~ runs THEN @[o] ELSE NoChange[o]]]
      /\ UNCHANGED <<alive, within, start>>
  BY DEF schedule
<1>6. \E sending \in BOOLEAN : Kept(w, upto, sending)
  <2> DEFINE T == Propagated(w, upto)
             sending == MineO(w) # Outer!Nothing /\ (Eager \/ Outer!must_send(T, MineO(w)))
  <2>1. /\ local' = [local EXCEPT ![w] = IF sending THEN Outer!Nothing ELSE MineO(w)]
        /\ mail' = IF sending THEN Sends(Takes(mail, w, upto), w, MineO(w)) ELSE Takes(mail, w, upto)
    BY DEF schedule, MineO
  <2> HIDE DEF sending
  <2>2. CASE sending
    <3>1. Kept(w, upto, TRUE)
      BY <2>1, <2>2 DEF Kept
    <3>. QED  BY <3>1
  <2>3. CASE ~ sending
    <3>1. Kept(w, upto, FALSE)
      BY <2>1, <2>3 DEF Kept
    <3>. QED  BY <3>1
  <2>. QED  BY <2>2, <2>3
<1>7. MineO(w) \in Honest
  BY MadeHolds DEF Made
<1>8. local' \in [Workers -> Honest] /\ mail' \in [Workers -> [Workers -> Seq(Honest)]]
  <2>1. PICK sending \in BOOLEAN : Kept(w, upto, sending)
    BY <1>6
  <2>2. local' \in [Workers -> Honest]
    <3> DEFINE n == IF sending THEN Outer!Nothing ELSE MineO(w)
    <3>1. n \in Honest
      BY <1>7, HonestNothing
    <3>2. local' = [local EXCEPT ![w] = n] /\ local \in [Workers -> Honest]
      BY <2>1 DEF Kept, Typed
    <3> HIDE DEF n
    <3>. QED  BY <3>1, <3>2, OneChanged
  <2>3. mail' = IF sending THEN Sends(Takes(mail, w, upto), w, MineO(w)) ELSE Takes(mail, w, upto)
    BY <2>1 DEF Kept
  <2>4. Passed(Honest, mail, w, upto, MineO(w), sending, mail')
    BY <1>1, <1>2, <1>7, <2>3 DEF Passed
  <2>. QED  BY <2>2, <2>4, ChannelFacts
<1>9. tracker' \in [Workers -> Batches(OuterPoints)]
      /\ \A u \in Workers : tracker'[u] = IF u = w THEN Propagated(w, upto) ELSE tracker[u]
  <2>1. tracker \in [Workers -> Batches(OuterPoints)]
    BY DEF Typed
  <2>. QED  BY <1>4, <1>5, <2>1, OneChanged
<1>10. shared \in [Workers -> [Children -> Genuine \cup Honest]]
  BY DEF Typed
<1> DEFINE n == [o \in Children |-> IF o = "P" /\ ~ runs THEN shared[w][o] ELSE NoChange[o]]
           Q == [Children -> Genuine \cup Honest]
<1>11. shared' = [shared EXCEPT ![w] = n]
  BY <1>5, <1>10
<1>12. /\ NoChange["A"] = Outer!Nothing /\ NoChange["B"] = Outer!Nothing /\ NoChange["P"] = Inner!Nothing
       /\ "A" \in Children /\ "B" \in Children /\ "P" \in Children /\ Children = {"A", "B", "P"}
  BY DEF NoChange, Children
<1>13. \A u \in Workers : shared[u]["A"] \in Honest /\ shared[u]["B"] \in Honest /\ shared[u]["P"] \in Genuine
  BY DEF Typed
<1>14. /\ n["A"] = Outer!Nothing /\ n["B"] = Outer!Nothing
       /\ n["P"] = IF runs THEN Inner!Nothing ELSE shared[w]["P"]
  BY <1>12
<1>15. n \in Q
  <2>1. \A o \in Children : n[o] \in Genuine \cup Honest
    BY <1>12, <1>13, <1>14, HonestNothing, GenuineNothing
  <2>. QED  BY <2>1
<1> HIDE DEF n
<1>16. shared' \in [Workers -> Q] /\ \A u \in Workers : shared'[u] = IF u = w THEN n ELSE shared[u]
  <2>1. shared \in [Workers -> Q]
    BY <1>10
  <2> HIDE DEF Q
  <2>. QED  BY <1>11, <1>15, <2>1, OneChanged
<1>17. ASSUME NEW u \in Workers
       PROVE  /\ shared'[u]["A"] = IF u = w THEN Outer!Nothing ELSE shared[u]["A"]
              /\ shared'[u]["B"] = IF u = w THEN Outer!Nothing ELSE shared[u]["B"]
              /\ shared'[u]["P"] = IF u = w /\ runs THEN Inner!Nothing ELSE shared[u]["P"]
              /\ shared'[u]["A"] \in Honest /\ shared'[u]["B"] \in Honest /\ shared'[u]["P"] \in Genuine
  BY <1>13, <1>14, <1>16, HonestNothing, GenuineNothing
<1>. QED  BY <1>3, <1>4, <1>5, <1>6, <1>8, <1>9, <1>16, <1>17 DEF Q

\* Total(s) and one more batch, for the rest of a sequence of honest batches.
LEMMA HonestAppend ==
    ASSUME NEW s \in Seq(Honest), NEW b \in Honest, NEW p
    PROVE  /\ At(Outer!Total(Append(s, b)), p) = At(Outer!Total(s), p) + At(b, p)
           /\ At(Outer!Total(s), p) \in Int /\ At(b, p) \in Int
<1>1. s \in Seq(Batches(OuterPoints)) /\ Outer!Total(s) = Inner!Total(s) /\ Inner!Total(s) \in Honest
  BY SequenceHonest
<1>2. b \in Batches(OuterPoints) /\ Inner!Total(s) \in Batches(OuterPoints)
  BY <1>1, HonestIn
<1>3. At(Inner!Total(Append(s, b)), p) = At(Inner!Total(s), p) + At(b, p)
  BY <1>1, <1>2, AppendTotal
<1>4. Outer!Total(Append(s, b)) = Inner!Total(Append(s, b))
  BY SameCounts
<1>5. At(Inner!Total(s), p) \in Int /\ At(b, p) \in Int
  BY <1>2, BatchFacts
<1>. QED  BY <1>1, <1>3, <1>4, <1>5

\* After its step, others have the same to hear of from w, and w has heard some of theirs.
LEMMA StepComing ==
    ASSUME Typed, Typed', NEW w \in Workers, NEW upto \in Upto(mail, w), NEW runs \in BOOLEAN, schedule(w, upto, runs),
           NEW v \in Workers, NEW u \in Workers
    PROVE  LET d == Ahead(w, upto, v, u)
           IN  /\ d \in 0 .. Len(mail[v][u])
               /\ Len(mail'[v][u]) \in Nat /\ Len(mail[v][u]) \in Nat
               /\ \A k \in 0 .. Len(mail'[v][u]) : \A p :
                     /\ k + d <= Len(mail[v][u]) => At(ComingO(v, u, k)', p) = At(ComingO(v, u, k + d), p)
                     /\ k + d > Len(mail[v][u]) => At(ComingO(v, u, k)', p) = 0
               /\ 0 + d <= Len(mail[v][u])
<1>1. PICK sending \in BOOLEAN : Kept(w, upto, sending)
  BY ScheduleFacts
<1>2. mail \in [Workers -> [Workers -> Seq(Honest)]] /\ mail[v][u] \in Seq(Honest)
  BY DEF Typed
<1>3. upto \in [Workers -> Nat] /\ \A x \in Workers : upto[x] <= Len(mail[x][w])
  BY <1>2, UptoFacts
<1>4. Made /\ Made' /\ Sent /\ Sent'
  <2>1. (Typed' => Made') /\ (Typed' => Sent')
    BY MadeHolds, SentHolds, PTL
  <2>. QED  BY <2>1, MadeHolds, SentHolds
<1> DEFINE b == MineO(w)
           d == Ahead(w, upto, v, u)
           s == mail[v][u]
           t == SubSeq(s, d + 1, Len(s))
           n == mail'[v][u]
<1>5. b \in Honest
  BY <1>4 DEF Made
<1>6. /\ d \in 0 .. Len(s)
      /\ n = IF sending /\ v = w THEN Append(t, b) ELSE t
  <2>1. mail' = IF sending THEN Sends(Takes(mail, w, upto), w, b) ELSE Takes(mail, w, upto)
    BY <1>1 DEF Kept
  <2>2. Passed(Honest, mail, w, upto, b, sending, mail')
    BY <1>2, <1>3, <1>5, <2>1 DEF Passed
  <2> HIDE DEF b, d
  <2>3. Left(Honest, mail, w, upto, b, sending, mail', v, u)
    BY <2>2, ChannelFacts
  <2>. QED  BY <2>3 DEF d, Rest, Left
<1>7. ASSUME NEW p
      PROVE  /\ At(MineO(v)', p) = IF sending /\ v = w THEN 0 ELSE At(MineO(v), p)
             /\ At(MineO(v), p) \in Int
  <2>1. At(MineO(v), p) = At(local[v], p) + (At(shared[v]["A"], p) + At(shared[v]["B"], p))
    BY <1>4 DEF Made
  <2>2. At(MineO(v)', p) = At(local'[v], p) + (At(shared'[v]["A"], p) + At(shared'[v]["B"], p))
    BY <1>4 DEF Made
  <2>3. At(MineO(v), p) \in Int
    <3>1. MineO(v) \in Batches(OuterPoints)
      BY <1>4, HonestIn DEF Made
    <3>. QED  BY <3>1, BatchFacts
  <2>4. /\ shared'[v]["A"] = IF v = w THEN Outer!Nothing ELSE shared[v]["A"]
        /\ shared'[v]["B"] = IF v = w THEN Outer!Nothing ELSE shared[v]["B"]
    BY ScheduleFacts
  <2>5. local'[v] = IF v # w THEN local[v] ELSE IF sending THEN Outer!Nothing ELSE MineO(w)
    BY <1>1 DEF Kept, Typed
  <2>6. At(Outer!Nothing, p) = 0
    BY OuterFacts
  <2>7. CASE v # w
    BY <2>1, <2>2, <2>3, <2>4, <2>5, <2>7
  <2>8. CASE v = w
    <3>1. At(MineO(v)', p) = At(local'[v], p) + (0 + 0)
      BY <2>2, <2>4, <2>6, <2>8
    <3>2. At(local'[v], p) = IF sending THEN 0 ELSE At(MineO(v), p)
      BY <2>5, <2>6, <2>8
    <3>. QED  BY <2>3, <2>8, <3>1, <3>2
  <2>. QED  BY <2>3, <2>7, <2>8
<1> HIDE DEF b, d
<1>8. /\ t \in Seq(Honest) /\ Len(t) = Len(s) - d /\ Len(s) \in Nat /\ Len(t) \in Nat
      /\ \A k \in 0 .. Len(t) :
            /\ SubSeq(t, k + 1, Len(t)) = SubSeq(s, k + d + 1, Len(s))
            /\ SubSeq(Append(t, b), k + 1, Len(t) + 1) = Append(SubSeq(s, k + d + 1, Len(s)), b)
      /\ SubSeq(Append(t, b), Len(t) + 2, Len(t) + 1) = <<>> /\ Len(Append(t, b)) = Len(t) + 1
  <2>1. s \in Seq(Honest)
    BY <1>2
  <2>2. t = SubSeq(s, d + 1, Len(s)) /\ d \in 0 .. Len(s)
    BY <1>6
  <2> HIDE DEF s
  <2>3. /\ t \in Seq(Honest) /\ Len(t) = Len(s) - d /\ Append(t, b) \in Seq(Honest) /\ Len(Append(t, b)) = Len(t) + 1
        /\ \A k \in 0 .. Len(t) :
            /\ SubSeq(t, k + 1, Len(t)) = SubSeq(s, k + d + 1, Len(s))
            /\ SubSeq(Append(t, b), k + 1, Len(t) + 1) = Append(SubSeq(s, k + d + 1, Len(s)), b)
        /\ SubSeq(Append(t, b), Len(t) + 2, Len(t) + 1) = <<>>
    <3>1. Dropped(Honest, s, d, b, t)
      BY <1>5, <2>1, <2>2, DropFacts
    <3>. QED  BY <3>1 DEF Dropped
  <2>4. Len(s) \in Nat /\ Len(t) \in Nat
    BY <2>1, <2>3, LenProperties
  <2>. QED  BY <2>3, <2>4
<1>9. ASSUME NEW k \in 0 .. Len(n), NEW p
      PROVE  At(ComingO(v, u, k)', p) = At(Outer!Total(SubSeq(n, k + 1, Len(n))), p) + At(MineO(v)', p)
  BY <1>4 DEF Sent
<1>10. ASSUME NEW k \in 0 .. Len(s), NEW p
       PROVE  At(ComingO(v, u, k), p) = At(Outer!Total(SubSeq(s, k + 1, Len(s))), p) + At(MineO(v), p)
  BY <1>4 DEF Sent
<1>11. d \in Nat /\ d <= Len(s) /\ Len(s) \in Nat /\ Len(t) \in Nat /\ Len(t) = Len(s) - d
  <2>1. d \in 0 .. Len(s)
    BY <1>6
  <2>2. Len(s) \in Nat /\ Len(t) \in Nat /\ Len(t) = Len(s) - d
    BY <1>8
  <2>. QED  BY <2>1, <2>2
<1> HIDE DEF s, t, n
<1>12. CASE ~ (sending /\ v = w)
  <2>1. n = t
    BY <1>6, <1>12
  <2>2. ASSUME NEW k \in 0 .. Len(n), NEW p
        PROVE  At(ComingO(v, u, k)', p) = At(ComingO(v, u, k + d), p)
    <3>1. k \in Nat /\ k <= Len(s) - d /\ k + d \in 0 .. Len(s) /\ k \in 0 .. Len(t)
      BY <1>11, <2>1
    <3>2. At(ComingO(v, u, k)', p) = At(Outer!Total(SubSeq(t, k + 1, Len(t))), p) + At(MineO(v), p)
      BY <1>7, <1>9, <1>12, <2>1
    <3>3. SubSeq(t, k + 1, Len(t)) = SubSeq(s, k + d + 1, Len(s))
      BY <1>8, <3>1
    <3>4. At(ComingO(v, u, k + d), p) = At(Outer!Total(SubSeq(s, k + d + 1, Len(s))), p) + At(MineO(v), p)
      BY <1>10, <3>1
    <3>. QED  BY <3>2, <3>3, <3>4
  <2>3. ASSUME NEW k \in 0 .. Len(n) PROVE ~ k + d > Len(s)
    BY <1>11, <2>1
  <2>. QED  BY <1>6, <1>11, <2>1, <2>2, <2>3 DEF s, n, d
<1>13. CASE sending /\ v = w
  <2>1. n = Append(t, b) /\ Len(n) = Len(t) + 1
    BY <1>6, <1>8, <1>13
  <2>2. ASSUME NEW k \in 0 .. Len(n), NEW p, k + d <= Len(s)
        PROVE  At(ComingO(v, u, k)', p) = At(ComingO(v, u, k + d), p)
    <3>1. k \in Nat /\ k + d \in 0 .. Len(s) /\ k \in 0 .. Len(t)
      BY <1>11, <2>1, <2>2
    <3> DEFINE r == SubSeq(s, k + d + 1, Len(s))
    <3>2. At(ComingO(v, u, k)', p) = At(Outer!Total(Append(r, b)), p) + 0
      <4>1. At(ComingO(v, u, k)', p) = At(Outer!Total(SubSeq(n, k + 1, Len(n))), p) + At(MineO(v)', p)
        BY <1>9
      <4>2. At(MineO(v)', p) = 0
        BY <1>7, <1>13
      <4>3. SubSeq(n, k + 1, Len(n)) = Append(r, b)
        BY <1>8, <2>1, <3>1
      <4>. QED  BY <4>1, <4>2, <4>3
    <3>3. r \in Seq(Honest)
      <4>1. s \in Seq(Honest)
        BY <1>2 DEF s
      <4>. QED  BY <3>1, <4>1, SequenceHonest
    <3>4. At(ComingO(v, u, k + d), p) = At(Outer!Total(r), p) + At(MineO(v), p)
      BY <1>10, <3>1
    <3> HIDE DEF r
    <3>5. /\ At(Outer!Total(Append(r, b)), p) = At(Outer!Total(r), p) + At(b, p)
          /\ At(Outer!Total(r), p) \in Int /\ At(b, p) \in Int
      BY <1>5, <3>3, HonestAppend
    <3>6. b = MineO(v)
      BY <1>13 DEF b
    <3>. QED  BY <3>2, <3>4, <3>5, <3>6
  <2>3. ASSUME NEW k \in 0 .. Len(n), NEW p, k + d > Len(s)
        PROVE  At(ComingO(v, u, k)', p) = 0
    <3>1. k = Len(t) + 1
      BY <1>11, <2>1, <2>3
    <3>2. k + 1 = Len(t) + 2
      BY <1>8, <3>1
    <3>3. SubSeq(n, k + 1, Len(n)) = <<>>
      BY <1>8, <2>1, <3>2
    <3>4. Outer!Total(<<>>) = Inner!Nothing
      BY SameCounts, EmptyTotal
    <3>5. At(Inner!Nothing, p) = 0 /\ At(MineO(v)', p) = 0
      BY <1>7, <1>13, NothingFacts
    <3>6. At(ComingO(v, u, k)', p) = At(Outer!Total(SubSeq(n, k + 1, Len(n))), p) + At(MineO(v)', p)
      BY <1>9
    <3>7. At(ComingO(v, u, k)', p) = 0 + 0
      BY <3>3, <3>4, <3>5, <3>6
    <3>. QED  BY <3>7
  <2>. QED  BY <1>6, <1>11, <2>1, <2>2, <2>3 DEF s, n, d
<1>. QED  BY <1>12, <1>13

\* Taking nothing is taking a prefix.
LEMMA NoneIn == ASSUME Typed, NEW w \in Workers
                PROVE  None \in Prefixes(w)
<1>1. \A v \in Workers : Len(mail[v][w]) \in Nat
  <2> TAKE v \in Workers
  <2>1. mail[v][w] \in Seq(Honest)
    BY DEF Typed
  <2>. QED  BY <2>1, LenProperties
<1>2. None \in [Workers -> Nat] /\ \A v \in Workers : None[v] = 0
  BY DEF None
<1>. QED  BY <1>1, <1>2 DEF Prefixes

\* The capabilities that others know of do not change by the step of a worker, but by what it has heard.
LEMMA StepKnow ==
    ASSUME Typed, Typed', NEW w \in Workers, NEW upto \in Upto(mail, w), NEW runs \in BOOLEAN, schedule(w, upto, runs),
           NEW v \in Workers, NEW u \in Workers, NEW k \in 0 .. Len(mail'[v][u]), NEW t \in OuterTimes
    PROVE  LET d == Ahead(w, upto, v, u)
           IN  /\ d \in Nat /\ k + d \in Nat /\ k \in Nat
               /\ cap(v, t)' = cap(v, t) /\ cap(v, t) \in Nat
               /\ k + d <= Len(mail[v][u]) =>
                     /\ k + d \in 0 .. Len(mail[v][u])
                     /\ Know(v, u, k, t)' = Know(v, u, k + d, t)
                     /\ At(ComingO(v, u, k)', <<In, t>>) = At(ComingO(v, u, k + d), <<In, t>>)
               /\ k + d > Len(mail[v][u]) =>
                     Know(v, u, k, t)' = cap(v, t) /\ At(ComingO(v, u, k)', <<In, t>>) = 0
<1> DEFINE d == Ahead(w, upto, v, u)
<1>1. /\ d \in 0 .. Len(mail[v][u])
      /\ Len(mail'[v][u]) \in Nat /\ Len(mail[v][u]) \in Nat
      /\ \A p :
            /\ k + d <= Len(mail[v][u]) => At(ComingO(v, u, k)', p) = At(ComingO(v, u, k + d), p)
            /\ k + d > Len(mail[v][u]) => At(ComingO(v, u, k)', p) = 0
  BY StepComing
<1>2. cap(v, t)' = cap(v, t) /\ cap(v, t) \in Nat
  <2>1. alive' = alive
    BY ScheduleFacts
  <2>2. cap(v, t) \in Nat
    BY TruthFacts DEF cap
  <2>. QED  BY <2>1, <2>2 DEF cap
<1> HIDE DEF d
<1>3. d \in Nat /\ k + d \in Nat /\ k \in Nat
  BY <1>1
<1>4. ASSUME k + d <= Len(mail[v][u])
      PROVE  /\ k + d \in 0 .. Len(mail[v][u])
             /\ Know(v, u, k, t)' = Know(v, u, k + d, t)
             /\ At(ComingO(v, u, k)', <<In, t>>) = At(ComingO(v, u, k + d), <<In, t>>)
  <2>1. k + d \in 0 .. Len(mail[v][u])
    BY <1>1, <1>3, <1>4
  <2>2. At(ComingO(v, u, k)', <<A, t>>) = At(ComingO(v, u, k + d), <<A, t>>)
    BY <1>1, <1>4
  <2>3. At(ComingO(v, u, k)', <<In, t>>) = At(ComingO(v, u, k + d), <<In, t>>)
    BY <1>1, <1>4
  <2>4. Know(v, u, k, t)' = Know(v, u, k + d, t)
    BY <1>2, <2>2 DEF Know
  <2>. QED  BY <2>1, <2>3, <2>4
<1>5. ASSUME k + d > Len(mail[v][u])
      PROVE  Know(v, u, k, t)' = cap(v, t) /\ At(ComingO(v, u, k)', <<In, t>>) = 0
  <2>1. At(ComingO(v, u, k)', <<A, t>>) = 0 /\ At(ComingO(v, u, k)', <<In, t>>) = 0
    BY <1>1, <1>5
  <2>2. Know(v, u, k, t)' = cap(v, t) - 0
    BY <1>2, <2>1 DEF Know
  <2>. QED  BY <1>2, <2>1, <2>2
<1>. QED  BY <1>2, <1>3, <1>4, <1>5 DEF d

\* After the step, others know of a capability as early as what there is, whatever they hear next.
LEMMA StepCaps ==
    ASSUME Typed, Typed', Caps, NEW w \in Workers, NEW upto \in Upto(mail, w), NEW runs \in BOOLEAN,
           schedule(w, upto, runs)
    PROVE  Caps'
<1>1. ASSUME NEW v \in Workers, NEW u \in Workers, NEW k \in 0 .. Len(mail'[v][u])
      PROVE  CapsAt(v, u, k)'
  <2> DEFINE d == Ahead(w, upto, v, u)
             l == Len(mail[v][u])
  <2>1. ASSUME NEW j \in 0 .. k, NEW t \in OuterTimes
        PROVE  /\ d \in Nat /\ j + d \in Nat /\ j \in Nat /\ j <= k /\ k \in Nat /\ l \in Nat
               /\ cap(v, t)' = cap(v, t) /\ cap(v, t) \in Nat
               /\ j + d <= l =>
                     /\ j + d \in 0 .. l
                     /\ Know(v, u, j, t)' = Know(v, u, j + d, t)
                     /\ At(ComingO(v, u, j)', <<In, t>>) = At(ComingO(v, u, j + d), <<In, t>>)
               /\ ~ j + d <= l => Know(v, u, j, t)' = cap(v, t) /\ At(ComingO(v, u, j)', <<In, t>>) = 0
    <3>1. Len(mail'[v][u]) \in Nat /\ l \in Nat
      <4>1. mail'[v][u] \in Seq(Honest) /\ mail[v][u] \in Seq(Honest)
        BY DEF Typed
      <4>. QED  BY <4>1, LenProperties
    <3>2. j \in 0 .. Len(mail'[v][u]) /\ j \in Nat /\ j <= k /\ k \in Nat
      BY <3>1
    <3>3. /\ d \in Nat /\ j + d \in Nat
          /\ cap(v, t)' = cap(v, t) /\ cap(v, t) \in Nat
          /\ j + d <= l =>
                /\ j + d \in 0 .. l
                /\ Know(v, u, j, t)' = Know(v, u, j + d, t)
                /\ At(ComingO(v, u, j)', <<In, t>>) = At(ComingO(v, u, j + d), <<In, t>>)
          /\ j + d > l => Know(v, u, j, t)' = cap(v, t) /\ At(ComingO(v, u, j)', <<In, t>>) = 0
      BY <3>2, StepKnow
    <3> HIDE DEF d, l
    <3>4. ~ j + d <= l => j + d > l
      BY <3>1, <3>3
    <3>. QED  BY <3>1, <3>2, <3>3, <3>4
  <2>2. \A i \in 0 .. l : CapsAt(v, u, i)
    BY DEF Caps
  <2>3. k \in 0 .. k /\ \A t \in OuterTimes : t <= t
    <3>1. k \in Nat
      <4>1. mail'[v][u] \in Seq(Honest)
        BY DEF Typed
      <4>. QED  BY <4>1, LenProperties
    <3>. QED  BY <3>1, ConstantFacts
  <2> HIDE DEF d, l
  <2>4. ASSUME NEW t \in OuterTimes PROVE Know(v, u, k, t)' >= 0
    <3>1. CASE k + d <= l
      <4>1. k + d \in 0 .. l /\ Know(v, u, k, t)' = Know(v, u, k + d, t)
        BY <2>1, <2>3, <3>1
      <4>2. CapsAt(v, u, k + d)
        BY <2>2, <4>1
      <4>3. Know(v, u, k + d, t) >= 0
        BY <4>2 DEF CapsAt
      <4>. QED  BY <4>1, <4>3
    <3>2. CASE ~ k + d <= l
      <4>1. Know(v, u, k, t)' = cap(v, t) /\ cap(v, t) \in Nat
        BY <2>1, <2>3, <3>2
      <4>. QED  BY <4>1
    <3>. QED  BY <3>1, <3>2
  <2>5. ASSUME NEW t \in OuterTimes, cap(v, t)' > 0 \/ At(ComingO(v, u, k)', <<In, t>>) > 0
        PROVE  \E s \in OuterTimes : s <= t /\ Know(v, u, k, s)' > 0
    <3>1. CASE k + d <= l
      <4>1. /\ k + d \in 0 .. l /\ cap(v, t)' = cap(v, t)
            /\ At(ComingO(v, u, k)', <<In, t>>) = At(ComingO(v, u, k + d), <<In, t>>)
        BY <2>1, <2>3, <3>1
      <4>2. CapsAt(v, u, k + d)
        BY <2>2, <4>1
      <4>3. cap(v, t) > 0 \/ At(ComingO(v, u, k + d), <<In, t>>) > 0
        BY <2>5, <4>1
      <4>4. PICK s \in OuterTimes : s <= t /\ Know(v, u, k + d, s) > 0
        BY <4>2, <4>3 DEF CapsAt
      <4>5. Know(v, u, k, s)' = Know(v, u, k + d, s)
        BY <2>1, <2>3, <3>1
      <4>. QED  BY <4>4, <4>5
    <3>2. CASE ~ k + d <= l
      <4>1. Know(v, u, k, t)' = cap(v, t) /\ At(ComingO(v, u, k)', <<In, t>>) = 0 /\ cap(v, t)' = cap(v, t)
        BY <2>1, <2>3, <3>2
      <4>2. Know(v, u, k, t)' > 0
        BY <2>5, <4>1
      <4>. QED  BY <2>3, <4>2
    <3>. QED  BY <3>1, <3>2
  <2>6. ASSUME NEW t \in OuterTimes, NEW j \in 0 .. k, Know(v, u, k, t)' > 0
        PROVE  \E s \in OuterTimes : s <= t /\ Know(v, u, j, s)' > 0
    <3>1. CASE k + d <= l
      <4>1. k + d \in 0 .. l /\ Know(v, u, k, t)' = Know(v, u, k + d, t)
        BY <2>1, <2>3, <3>1
      <4>2. CapsAt(v, u, k + d)
        BY <2>2, <4>1
      <4>3. j + d \in 0 .. k + d /\ j + d <= l
        <5>1. d \in Nat /\ j \in Nat /\ j <= k /\ k \in Nat /\ l \in Nat
          BY <2>1
        <5>. QED  BY <3>1, <5>1
      <4>4. Know(v, u, k + d, t) > 0
        BY <2>6, <4>1
      <4>5. PICK s \in OuterTimes : s <= t /\ Know(v, u, j + d, s) > 0
        BY <4>2, <4>3, <4>4 DEF CapsAt
      <4>6. Know(v, u, j, s)' = Know(v, u, j + d, s)
        BY <2>1, <4>3
      <4>. QED  BY <4>5, <4>6
    <3>2. CASE ~ k + d <= l
      <4>1. Know(v, u, k, t)' = cap(v, t)
        BY <2>1, <2>3, <3>2
      <4>2. CASE j + d <= l
        <5>1. j + d \in 0 .. l
          BY <2>1, <4>2
        <5>2. CapsAt(v, u, j + d)
          BY <2>2, <5>1
        <5>3. cap(v, t) > 0
          BY <2>6, <4>1
        <5>4. PICK s \in OuterTimes : s <= t /\ Know(v, u, j + d, s) > 0
          BY <5>2, <5>3 DEF CapsAt
        <5>5. Know(v, u, j, s)' = Know(v, u, j + d, s)
          BY <2>1, <4>2
        <5>. QED  BY <5>4, <5>5
      <4>3. CASE ~ j + d <= l
        <5>1. Know(v, u, j, t)' = cap(v, t)
          BY <2>1, <4>3
        <5>. QED  BY <2>3, <2>6, <4>1, <5>1
      <4>. QED  BY <4>2, <4>3
    <3>. QED  BY <3>1, <3>2
  <2>. QED  BY <2>4, <2>5, <2>6 DEF CapsAt
<1>. QED  BY <1>1 DEF Caps

\* What w hears of, and what it has then yet to hear of, are what it had.
LEMMA ReceivedFacts ==
    ASSUME Typed, NEW w \in Workers, NEW upto \in Prefixes(w)
    PROVE  /\ Outer!Totals(Received(mail, w, upto)) \in Honest
           /\ \A p : At(AllComingO(w, None), p)
                        = At(Outer!Totals(Received(mail, w, upto)), p) + At(AllComingO(w, upto), p)
<1> DEFINE r == Received(mail, w, upto)
           f == [v \in Workers |-> Inner!Total(SubSeq(mail[v][w], 1, upto[v]))]
           g == [v \in Workers |-> ComingO(v, w, upto[v])]
           h == [v \in Workers |-> ComingO(v, w, None[v])]
<1>0. None \in Prefixes(w) /\ \A v \in Workers : None[v] = 0
  BY NoneIn DEF None
<1>1. ASSUME NEW v \in Workers
      PROVE  /\ mail[v][w] \in Seq(Honest) /\ upto[v] \in 0 .. Len(mail[v][w]) /\ 0 \in 0 .. Len(mail[v][w])
  <2>1. mail[v][w] \in Seq(Honest)
    BY DEF Typed
  <2>2. Len(mail[v][w]) \in Nat
    BY <2>1, LenProperties
  <2>3. upto[v] \in Nat /\ upto[v] <= Len(mail[v][w])
    BY DEF Prefixes
  <2>. QED  BY <2>1, <2>2, <2>3
<1>2. Outer!Totals(r) = Inner!Total(f)
  <2>1. r = [v \in Workers |-> SubSeq(mail[v][w], 1, upto[v])]
    BY DEF Received
  <2>2. DOMAIN r = Workers /\ [v \in DOMAIN r |-> Inner!Total(r[v])] = f
    BY <2>1
  <2> HIDE DEF r, f
  <2>3. Outer!Totals(r) = Inner!Totals(r)
    BY SameCounts
  <2>. QED  BY <2>2, <2>3 DEF Inner!Totals
<1>3. f \in [Workers -> Honest]
  <2>1. ASSUME NEW v \in Workers PROVE Inner!Total(SubSeq(mail[v][w], 1, upto[v])) \in Honest
    BY <1>1, SequenceHonest
  <2>. QED  BY <2>1
<1>4. g \in [Workers -> Honest] /\ h \in [Workers -> Honest]
  BY <1>0, SummedHolds DEF Summed
<1>5. AllComingO(w, upto) = Inner!Total(g) /\ AllComingO(w, None) = Inner!Total(h)
  BY SameCounts DEF AllComingO
<1>6. ASSUME NEW v \in Workers, NEW p
      PROVE  At(h[v], p) = At(f[v], p) + At(g[v], p)
  <2> DEFINE s == mail[v][w]
  <2>1. h[v] = ComingO(v, w, 0) /\ g[v] = ComingO(v, w, upto[v]) /\ f[v] = Inner!Total(SubSeq(s, 1, upto[v]))
    BY <1>0
  <2>2. /\ At(ComingO(v, w, 0), p) = At(Outer!Total(SubSeq(s, 0 + 1, Len(s))), p) + At(MineO(v), p)
        /\ At(ComingO(v, w, upto[v]), p) = At(Outer!Total(SubSeq(s, upto[v] + 1, Len(s))), p) + At(MineO(v), p)
    BY <1>1, SentHolds DEF Sent
  <2>3. s \in Seq(Honest) /\ s \in Seq(Batches(OuterPoints)) /\ upto[v] \in 0 .. Len(s)
    BY <1>1, SequenceHonest
  <2>4. MineO(v) \in Batches(OuterPoints)
    BY MadeHolds, HonestIn DEF Made
  <2> HIDE DEF s
  <2>5. SubSeq(s, 0 + 1, Len(s)) = s
    <3>1. 0 + 1 = 1
      OBVIOUS
    <3>2. SubSeq(s, 1, Len(s)) = s
      BY <2>3, SubSeqFull
    <3>. QED  BY <3>1, <3>2
  <2>6. At(Inner!Total(s), p) = At(Inner!Total(SubSeq(s, 1, upto[v])), p)
                                  + At(Inner!Total(SubSeq(s, upto[v] + 1, Len(s))), p)
    BY <2>3, SplitTotal
  <2>7. /\ At(Inner!Total(SubSeq(s, 1, upto[v])), p) \in Int
        /\ At(Inner!Total(SubSeq(s, upto[v] + 1, Len(s))), p) \in Int /\ At(MineO(v), p) \in Int
    <3>1. SubSeq(s, 1, upto[v]) \in Seq(Honest) /\ SubSeq(s, upto[v] + 1, Len(s)) \in Seq(Honest)
      BY <2>3, SequenceHonest
    <3>2. /\ Inner!Total(SubSeq(s, 1, upto[v])) \in Honest
          /\ Inner!Total(SubSeq(s, upto[v] + 1, Len(s))) \in Honest
      BY <3>1, SequenceHonest
    <3>. QED  BY <2>4, <3>2, HonestIn, BatchFacts
  <2>8. \A x : Outer!Total(x) = Inner!Total(x)
    BY SameCounts
  <2>9. /\ At(h[v], p) = At(Inner!Total(s), p) + At(MineO(v), p)
        /\ At(g[v], p) = At(Inner!Total(SubSeq(s, upto[v] + 1, Len(s))), p) + At(MineO(v), p)
        /\ At(f[v], p) = At(Inner!Total(SubSeq(s, 1, upto[v])), p)
    BY <2>1, <2>2, <2>5, <2>8
  <2> HIDE DEF f, g, h
  <2>. QED  BY <2>6, <2>7, <2>9
<1>7. Outer!Totals(r) \in Honest
  <2> HIDE DEF r, f
  <2>1. Inner!Total(f) \in Honest
    BY <1>3, ConstantFacts, HonestTotal
  <2>. QED  BY <1>2, <2>1
<1> HIDE DEF r, f, g, h
<1>8. ASSUME NEW p PROVE At(AllComingO(w, None), p) = At(Outer!Totals(r), p) + At(AllComingO(w, upto), p)
  <2>1. f \in [Workers -> Batches(OuterPoints)] /\ g \in [Workers -> Batches(OuterPoints)]
        /\ h \in [Workers -> Batches(OuterPoints)]
    BY <1>3, <1>4, HonestIn
  <2>2. At(Inner!Total(h), p) = At(Inner!Total(f), p) + At(Inner!Total(g), p)
    BY <1>6, <2>1, ConstantFacts, TotalPlus
  <2>. QED  BY <1>2, <1>5, <2>2
<1>. QED  BY <1>7, <1>8 DEF r

\* So what is known after that is balanced with it.
LEMMA StepBalance ==
    ASSUME Typed, OuterBalance, NEW w \in Workers, NEW upto \in Prefixes(w)
    PROVE  Balance(w, Propagated(w, upto), upto)
<1> DEFINE r == Outer!Totals(Received(mail, w, upto))
           c == Outer!Plus(final[w], r)
           K == Outer!Plus(tracker[w], final[w])
<1>1. r \in Honest /\ \A p : At(AllComingO(w, None), p) = At(r, p) + At(AllComingO(w, upto), p)
  BY ReceivedFacts
<1>2. tracker[w] \in Batches(OuterPoints) /\ final[w] \in Batches(OuterPoints)
  BY DEF Typed
<1>3. Propagated(w, upto) = Outer!Plus(tracker[w], c)
  BY DEF Propagated
<1>4. Balance(w, K, None)
  BY DEF OuterBalance, None
<1>5. AllComingO(w, upto) \in Batches(OuterPoints) /\ AllComing(w) \in Batches(InnerPoints)
      /\ AllComingO(w, None) \in Batches(OuterPoints)
  <2>1. None \in Prefixes(w)
    BY NoneIn
  <2>2. AllComingO(w, None) \in Honest /\ AllComingO(w, upto) \in Honest /\ AllComing(w) \in Genuine
    BY <2>1, SummedHolds DEF Summed
  <2>. QED  BY <2>2, HonestIn, GenuineIn
<1> HIDE DEF r
<1>6. r \in Batches(OuterPoints)
  BY <1>1, HonestIn
<1>7. c \in Batches(OuterPoints) /\ \A p : At(c, p) = At(final[w], p) + At(r, p)
  BY <1>2, <1>6, OuterFacts
<1>8. \A p : At(K, p) = At(tracker[w], p) + At(final[w], p)
  BY <1>2, OuterFacts
<1> HIDE DEF c, K
<1>9. \A p : At(Propagated(w, upto), p) = At(tracker[w], p) + At(c, p)
  BY <1>2, <1>3, <1>7, OuterFacts
<1>10. ASSUME NEW p
       PROVE  At(Propagated(w, upto), p) + At(AllComingO(w, upto), p) = At(K, p) + At(AllComingO(w, None), p)
              /\ At(Propagated(w, upto), p) = At(K, p) + At(r, p)
              /\ At(K, p) \in Int
  <2>1. /\ At(tracker[w], p) \in Int /\ At(final[w], p) \in Int /\ At(r, p) \in Int
        /\ At(AllComingO(w, upto), p) \in Int
    BY <1>2, <1>5, <1>6, BatchFacts
  <2>2. At(c, p) = At(final[w], p) + At(r, p)
    BY <1>7
  <2>3. At(K, p) = At(tracker[w], p) + At(final[w], p)
    BY <1>8
  <2>4. At(Propagated(w, upto), p) = At(tracker[w], p) + At(c, p)
    BY <1>9
  <2>5. At(AllComingO(w, None), p) = At(r, p) + At(AllComingO(w, upto), p)
    BY <1>1
  <2>. QED  BY <2>1, <2>2, <2>3, <2>4, <2>5
<1> DEFINE T == Propagated(w, upto)
<1> HIDE DEF T
<1>11. ASSUME NEW t \in OuterTimes
       PROVE  /\ At(T, <<A, t>>) + At(AllComingO(w, upto), <<A, t>>) = At(TruthO, <<A, t>>)
              /\ At(T, <<In, t>>) + At(AllComingO(w, upto), <<In, t>>) + Across(AllComing(w), Source, t) = 0
              /\ At(T, <<B, t>>) + At(AllComingO(w, upto), <<B, t>>) + Across(AllComing(w), Target, t)
                   = At(TruthO, <<B, t>>)
              /\ At(T, <<Out, t>>) = IF t \in internals[w] THEN 1 ELSE 0
  <2>1. /\ At(K, <<A, t>>) + At(AllComingO(w, None), <<A, t>>) = At(TruthO, <<A, t>>)
        /\ At(K, <<In, t>>) + At(AllComingO(w, None), <<In, t>>) + Across(AllComing(w), Source, t) = 0
        /\ At(K, <<B, t>>) + At(AllComingO(w, None), <<B, t>>) + Across(AllComing(w), Target, t)
             = At(TruthO, <<B, t>>)
        /\ At(K, <<Out, t>>) = IF t \in internals[w] THEN 1 ELSE 0
    BY <1>4 DEF Balance
  <2>2. At(T, <<A, t>>) + At(AllComingO(w, upto), <<A, t>>) = At(TruthO, <<A, t>>)
    BY <1>10, <2>1 DEF T
  <2>3. At(T, <<In, t>>) + At(AllComingO(w, upto), <<In, t>>) + Across(AllComing(w), Source, t) = 0
    BY <1>10, <2>1 DEF T
  <2>4. At(T, <<B, t>>) + At(AllComingO(w, upto), <<B, t>>) + Across(AllComing(w), Target, t)
                   = At(TruthO, <<B, t>>)
    BY <1>10, <2>1 DEF T
  <2>5. At(T, <<Out, t>>) = At(K, <<Out, t>>) + At(r, <<Out, t>>) /\ At(K, <<Out, t>>) \in Int
    BY <1>10 DEF T
  <2>6. At(r, <<Out, t>>) = 0
    BY <1>1 DEF Honest
  <2>. QED  BY <2>1, <2>2, <2>3, <2>4, <2>5, <2>6
<1>. QED  BY <1>11 DEF Balance, T

\* What the step leaves for each worker to hear of.
LEMMA StepSums ==
    ASSUME Typed, Typed', NEW w \in Workers, NEW upto \in Upto(mail, w), NEW runs \in BOOLEAN, schedule(w, upto, runs),
           NEW u \in Workers
    PROVE  AllComingO(u, None)' = IF u = w THEN AllComingO(w, upto) ELSE AllComingO(u, None)
<1> DEFINE k == [v \in Workers |-> Ahead(w, upto, v, u)]
           f == [v \in Workers |-> ComingO(v, u, k[v])]
           g == [v \in Workers |-> ComingO(v, u, None[v])']
<1>1. \A v \in Workers : None[v] = 0
  BY DEF None
<1>2. ASSUME NEW v \in Workers
      PROVE  ComingO(v, u, 0)' = ComingO(v, u, Ahead(w, upto, v, u))
  <2> DEFINE d == Ahead(w, upto, v, u)
  <2>1. /\ d \in 0 .. Len(mail[v][u])
        /\ Len(mail'[v][u]) \in Nat /\ Len(mail[v][u]) \in Nat
        /\ \A i \in 0 .. Len(mail'[v][u]) : \A p :
              i + d <= Len(mail[v][u]) => At(ComingO(v, u, i)', p) = At(ComingO(v, u, i + d), p)
    BY StepComing
  <2>2. ComingO(v, u, d) \in Honest
    BY <2>1, SentHolds DEF Sent
  <2>3. ComingO(v, u, 0)' \in Honest
    <3>1. Typed' => Sent'
      BY SentHolds, PTL
    <3>2. 0 \in 0 .. Len(mail'[v][u])
      BY <2>1
    <3>. QED  BY <3>1, <3>2 DEF Sent
  <2> HIDE DEF d
  <2>4. \A p : At(ComingO(v, u, 0)', p) = At(ComingO(v, u, d), p)
    <3>1. 0 \in 0 .. Len(mail'[v][u]) /\ 0 + d = d /\ d <= Len(mail[v][u])
      BY <2>1
    <3>. QED  BY <2>1, <3>1
  <2>5. ComingO(v, u, 0)' = ComingO(v, u, d)
    BY <2>2, <2>3, <2>4, HonestIn, BatchEqual
  <2>. QED  BY <2>5 DEF d
<1>3. f = g
  <2>1. \A v \in Workers : k[v] = Ahead(w, upto, v, u)
    OBVIOUS
  <2> HIDE DEF k
  <2>2. \A v \in Workers : ComingO(v, u, k[v]) = ComingO(v, u, None[v])'
    BY <1>1, <1>2, <2>1
  <2>. QED  BY <2>2
<1>4. AllComingO(u, None)' = Outer!Total(g)
  BY DEF AllComingO
<1>5. CASE u = w
  <2>1. \A v \in Workers : k[v] = upto[v]
    BY <1>5 DEF Ahead
  <2> HIDE DEF k
  <2>2. f = [v \in Workers |-> ComingO(v, w, upto[v])]
    BY <1>5, <2>1
  <2> HIDE DEF f, g
  <2>. QED  BY <1>3, <1>4, <1>5, <2>2 DEF AllComingO
<1>6. CASE u # w
  <2>1. \A v \in Workers : k[v] = None[v]
    BY <1>1, <1>6 DEF Ahead
  <2> HIDE DEF k
  <2>2. f = [v \in Workers |-> ComingO(v, u, None[v])]
    BY <2>1
  <2> HIDE DEF f, g
  <2>. QED  BY <1>3, <1>4, <1>6, <2>2 DEF AllComingO
<1>. QED  BY <1>5, <1>6

\* The worker's new frontiers are not past anything alive.
LEMMA StepCovered ==
    ASSUME NestedInv, NEW w \in Workers, NEW upto \in Upto(mail, w), NEW runs \in BOOLEAN, schedule(w, upto, runs)
    PROVE  OuterCovered'
<1>1. /\ upto \in Prefixes(w) /\ Propagated(w, upto) \in Batches(OuterPoints)
      /\ \A u \in Workers : tracker'[u] = IF u = w THEN Propagated(w, upto) ELSE tracker[u]
      /\ alive' = alive /\ within' = within
  BY ScheduleFacts DEF NestedInv
<1>2. Balance(w, Propagated(w, upto), upto)
  BY <1>1, StepBalance DEF NestedInv
<1>3. ASSUME NEW u \in Workers, NEW v \in Workers
      PROVE  /\ \A p \in OuterPoints : At(alive[v], p) > 0 => Outer!Implied(tracker'[u], p[1], p[2])
             /\ \A p \in InnerPoints : At(within[v], p) > 0 => Outer!Implied(tracker'[u], B, p[2].outer)
  <2>1. CASE u = w
    BY <1>1, <1>2, <2>1, OuterClaim DEF NestedInv
  <2>2. CASE u # w
    BY <1>1, <2>2 DEF NestedInv, OuterCovered
  <2>. QED  BY <2>1, <2>2
<1>. QED  BY <1>1, <1>3 DEF OuterCovered

-----------------------------------------------------------------------------
(* A step in which the nested scope does not run.                           *)

\* With a nested scope that is shut down, nobody has recorded anything, and nothing is to come.
LEMMA GoneZero ==
    ASSUME Typed, NEW w \in Workers, GoneAt(w)
    PROVE  /\ \A v \in Workers : Mine(v) = Inner!Nothing
           /\ \A v \in Workers : \A p : At(Coming(v, w), p) = 0
           /\ \A p : At(AllComing(w), p) = 0
<1>1. ASSUME NEW v \in Workers
      PROVE  Mine(v) = Inner!Nothing
  <2>1. /\ entering[v] = Inner!Nothing /\ inner[v] = Inner!Nothing /\ shared[v]["P"] = Inner!Nothing
    BY DEF GoneAt
  <2>2. \A p : At(Inner!Nothing, p) = 0
    BY NothingFacts
  <2>3. /\ Mine(v) \in Genuine
        /\ \A p : At(Mine(v), p) = At(inner[v], p) + (At(harvest_inputs(v), p) + At(shared[v]["P"], p))
    BY MadeHolds DEF Made
  <2>4. ASSUME NEW p \in InnerPoints PROVE At(harvest_inputs(v), p) = 0
    <3>1. p[1] \in 1 .. 4 /\ p[2] \in InnerTimes /\ p = <<p[1], p[2]>>
      BY InnerPointFacts
    <3> DEFINE t == p[2]
    <3>2. /\ At(harvest_inputs(v), <<Source, t>>) = - At(entering[v], <<Source, t>>)
          /\ At(harvest_inputs(v), <<PIn, t>>) = At(entering[v], <<Source, t>>)
          /\ At(harvest_inputs(v), <<POut, t>>) = 0 /\ At(harvest_inputs(v), <<Target, t>>) = 0
      BY <3>1, MadeHolds DEF Made
    <3>3. At(entering[v], <<Source, t>>) = 0
      BY <2>1, <2>2
    <3> HIDE DEF t
    <3>4. p[1] = Source \/ p[1] = PIn \/ p[1] = POut \/ p[1] = Target
      BY <3>1, PortFacts
    <3>5. p = <<Source, t>> \/ p = <<PIn, t>> \/ p = <<POut, t>> \/ p = <<Target, t>>
      BY <3>1, <3>4 DEF t
    <3>6. /\ At(harvest_inputs(v), <<Source, t>>) = 0 /\ At(harvest_inputs(v), <<PIn, t>>) = 0
          /\ At(harvest_inputs(v), <<POut, t>>) = 0 /\ At(harvest_inputs(v), <<Target, t>>) = 0
      BY <3>2, <3>3
    <3>. QED  BY <3>5, <3>6
  <2>5. \A p \in InnerPoints : At(Mine(v), p) = 0
    <3> TAKE p \in InnerPoints
    <3>1. At(inner[v], p) = 0 /\ At(shared[v]["P"], p) = 0
      BY <2>1, <2>2
    <3>2. At(Mine(v), p) = At(inner[v], p) + (At(harvest_inputs(v), p) + At(shared[v]["P"], p))
      BY <2>3
    <3>. QED  BY <2>4, <3>1, <3>2
  <2>. QED  BY <2>3, <2>5, GenuineNothing
<1>2. ASSUME NEW v \in Workers, NEW p
      PROVE  At(Coming(v, w), p) = 0
  <2> DEFINE s == post[v][w]
  <2>1. s \in Seq(Genuine)
    BY DEF Typed
  <2>2. s \in Seq(Batches(InnerPoints))
    BY <2>1, SequenceGenuine
  <2>3. \A i \in DOMAIN s : s[i] = Inner!Nothing
    BY DEF GoneAt
  <2>4. At(Coming(v, w), p) = At(Inner!Total(s), p) + At(Mine(v), p)
    BY SentHolds DEF Sent
  <2> HIDE DEF s
  <2> DEFINE I == 1 .. Len(s)
  <2>5. IsFiniteSet(I) /\ s \in [I -> Batches(InnerPoints)]
    BY <2>2, SequenceTotal
  <2> HIDE DEF I
  <2>6. \A i \in I : At(s[i], p) = 0
    BY <2>3, <2>5, NothingFacts
  <2>7. At(Inner!Total(s), p) = 0
    BY <2>5, <2>6, TotalSigns
  <2>8. At(Mine(v), p) = 0
    BY <1>1, NothingFacts
  <2>. QED  BY <2>4, <2>7, <2>8
<1>3. ASSUME NEW p PROVE At(AllComing(w), p) = 0
  <2> DEFINE f == [v \in Workers |-> Coming(v, w)]
  <2>1. f \in [Workers -> Genuine]
    BY SummedHolds DEF Summed
  <2>2. AllComing(w) = Inner!Total(f)
    BY DEF AllComing
  <2>3. \A v \in Workers : At(f[v], p) = 0
    BY <1>2
  <2> HIDE DEF f
  <2>4. f \in [Workers -> Batches(InnerPoints)]
    BY <2>1, GenuineIn
  <2>5. At(Inner!Total(f), p) = 0
    BY <2>3, <2>4, ConstantFacts, TotalSigns
  <2>. QED  BY <2>2, <2>5
<1>. QED  BY <1>1, <1>2, <1>3

\* The frontier that the nested scope has accepted.
LEMMA AcceptedFacts ==
    ASSUME Typed, Accepts, NEW w \in Workers, NEW t \in OuterTimes
    PROVE  Acc(w, t) <=> \E s \in Accepted(w) : s <= t
<1> DEFINE S == {p[2] : p \in {q \in Inner!Counted(nested[w]) : q[1] = Source}}
<1>1. nested[w] \in Batches(InnerPoints)
  BY DEF Typed
<1>2. \A p : p \in Inner!Counted(nested[w]) <=> At(nested[w], p) > 0
  BY <1>1, BatchFacts DEF Inner!Counted, At
<1>3. ASSUME NEW x
      PROVE  x \in S <=> x \in InnerTimes /\ At(nested[w], <<Source, x>>) > 0
  <2>1. ASSUME x \in S PROVE x \in InnerTimes /\ At(nested[w], <<Source, x>>) > 0
    <3>1. PICK p \in Inner!Counted(nested[w]) : p[1] = Source /\ p[2] = x
      BY <2>1
    <3>2. p \in InnerPoints /\ At(nested[w], p) > 0
      BY <1>1, <1>2, BatchFacts
    <3>. QED  BY <3>1, <3>2, InnerPointFacts
  <2>2. ASSUME x \in InnerTimes, At(nested[w], <<Source, x>>) > 0 PROVE x \in S
    <3>1. <<Source, x>> \in Inner!Counted(nested[w])
      BY <1>2, <2>2
    <3>. QED  BY <3>1
  <2>. QED  BY <2>1, <2>2
<1>4. Accepted(w) = {x.outer : x \in Inner!Least(S)}
  BY DEF Accepted, to_outer, Inner!Pointstamps
<1> HIDE DEF S
<1>5. S \in SUBSET InnerTimes
  BY <1>3
<1>6. /\ Inner!Least(S) \subseteq S
      /\ \A x \in S : \E y \in Inner!Least(S) : y.outer <= x.outer /\ y.round <= x.round
  BY <1>5, InnerLeast
<1>7. ASSUME Acc(w, t) PROVE \E s \in Accepted(w) : s <= t
  <2>1. PICK s \in OuterTimes : s <= t /\ At(nested[w], <<Source, to_inner(s)>>) > 0
    BY <1>7 DEF Acc
  <2>2. to_inner(s) \in S
    BY <1>3, <2>1, ConstantFacts
  <2>3. PICK y \in Inner!Least(S) : y.outer <= to_inner(s).outer
    BY <1>6, <2>2
  <2>4. y.outer \in Accepted(w) /\ y \in InnerTimes
    BY <1>4, <1>5, <1>6
  <2>5. y.outer <= s
    BY <2>3 DEF to_inner
  <2>6. y.outer <= t
    <3>1. y.outer \in Nat /\ s \in Nat /\ t \in Nat
      BY <2>4, ConstantFacts
    <3>. QED  BY <2>1, <2>5, <3>1
  <2>. QED  BY <2>4, <2>6
<1>8. ASSUME NEW s \in Accepted(w), s <= t PROVE Acc(w, t)
  <2>1. PICK x \in Inner!Least(S) : s = x.outer
    BY <1>4
  <2>2. x \in S /\ x \in InnerTimes /\ At(nested[w], <<Source, x>>) > 0
    BY <1>3, <1>6
  <2>3. s \in OuterTimes
    BY <2>1, <2>2, ConstantFacts
  <2> DEFINE p == <<Source, x>>
  <2>4. p \in Line(Source, s)
    <3>1. p \in InnerPoints /\ p[1] = Source /\ p[2] = x
      BY <2>2, PortFacts, InnerPointFacts
    <3>. QED  BY <2>1, <3>1 DEF Line
  <2>5. \A q \in Line(Source, s) : At(nested[w], q) # 0 => q = <<Source, to_inner(s)>>
    BY <2>3 DEF Accepts
  <2>6. At(nested[w], p) # 0
    BY <2>2
  <2>7. p = <<Source, to_inner(s)>>
    BY <2>4, <2>5, <2>6
  <2>. QED  BY <1>8, <2>2, <2>3, <2>7 DEF Acc
<1>. QED  BY <1>7, <1>8

\* What w knows of after its step, when nothing can come to its nested scope.
LEMMA GoneKnow ==
    ASSUME Typed, Typed', Caps, NEW w \in Workers, NEW upto \in Upto(mail, w), NEW runs \in BOOLEAN,
           schedule(w, upto, runs), NEW u \in Workers, GoneAt(u), NEW v \in Workers, NEW t \in OuterTimes
    PROVE  cap(v, t)' = 0 /\ Know(v, u, 0, t)' = 0 /\ Know(v, u, Ahead(w, upto, v, u), t) = 0
<1> DEFINE d == Ahead(w, upto, v, u)
<1>1. d \in 0 .. Len(mail[v][u]) /\ 0 \in 0 .. Len(mail'[v][u]) /\ 0 + d <= Len(mail[v][u]) /\ Len(mail[v][u]) \in Nat
  <2>1. /\ d \in 0 .. Len(mail[v][u])
        /\ Len(mail'[v][u]) \in Nat /\ Len(mail[v][u]) \in Nat
    BY StepComing
  <2> HIDE DEF d
  <2>. QED  BY <2>1
<1>2. /\ cap(v, t)' = cap(v, t)
      /\ Know(v, u, 0, t)' = Know(v, u, 0 + d, t)
  BY <1>1, StepKnow
<1>3. CapsAt(v, u, d)
  BY <1>1 DEF Caps
<1>4. cap(v, t) = 0 /\ \A s \in OuterTimes : Know(v, u, 0, s) = 0
  BY DEF GoneAt
<1>5. Know(v, u, d, t) \in Int
  <2>1. ComingO(v, u, d) \in Batches(OuterPoints) /\ cap(v, t) \in Int
    BY <1>1, <1>4, SentHolds, HonestIn DEF Sent
  <2>. QED  BY <2>1, BatchFacts DEF Know
<1> HIDE DEF d
<1>6. 0 + d = d /\ 0 \in 0 .. d
  BY <1>1
<1>7. Know(v, u, d, t) >= 0 /\ ~ Know(v, u, d, t) > 0
  <2>1. Know(v, u, d, t) >= 0
    BY <1>3 DEF CapsAt
  <2>2. ASSUME Know(v, u, d, t) > 0 PROVE FALSE
    <3>1. PICK s \in OuterTimes : Know(v, u, 0, s) > 0
      BY <1>3, <1>6, <2>2 DEF CapsAt
    <3>. QED  BY <1>4, <3>1
  <2>. QED  BY <2>1, <2>2
<1>8. Know(v, u, d, t) = 0
  BY <1>5, <1>7
<1>. QED  BY <1>2, <1>4, <1>6, <1>8 DEF d

\* ... and so its input stays closed.
LEMMA GoneClosed ==
    ASSUME Typed, Typed', Caps, OuterBalance, NEW w \in Workers, NEW upto \in Upto(mail, w), NEW runs \in BOOLEAN,
           schedule(w, upto, runs), GoneAt(w), NEW t \in OuterTimes
    PROVE  ~ Outer!Implied(Propagated(w, upto), In, t)
<1> DEFINE T == Propagated(w, upto)
<1>1. upto \in Prefixes(w) /\ T \in Batches(OuterPoints)
  BY ScheduleFacts
<1>2. Balance(w, T, upto)
  BY <1>1, StepBalance
<1> HIDE DEF T
<1> SUFFICES ASSUME Outer!Implied(T, In, t) PROVE FALSE
  BY DEF T
<1>3. PICK m \in 1 .. 4, s \in OuterTimes : m <= In /\ s <= t /\ At(T, <<m, s>>) > 0
  BY <1>1, PortFacts, OuterImplied
<1>4. CASE m = A
  <2>1. PICK v \in Workers : Know(v, w, upto[v], s) > 0
    BY <1>1, <1>2, <1>3, <1>4, Known
  <2>2. Know(v, w, Ahead(w, upto, v, w), s) = 0
    BY GoneKnow
  <2>. QED  BY <2>1, <2>2 DEF Ahead
<1>5. CASE m = In
  <2>1. At(T, <<In, s>>) + At(AllComingO(w, upto), <<In, s>>) + Across(AllComing(w), Source, s) = 0
    BY <1>2 DEF Balance
  <2>2. At(AllComingO(w, upto), <<In, s>>) >= 0 /\ At(AllComingO(w, upto), <<In, s>>) \in Int
    <3>1. AllComingO(w, upto) \in Honest
      BY <1>1, SummedHolds DEF Summed
    <3>. QED  BY <3>1, HonestIn, BatchFacts DEF Honest
  <2>3. Across(AllComing(w), Source, s) = 0
    <3>1. AllComing(w) \in Batches(InnerPoints) /\ Source \in 1 .. 4
      BY SummedHolds, GenuineIn, PortFacts DEF Summed
    <3>2. \A p \in Line(Source, s) : At(AllComing(w), p) = 0
      BY GoneZero
    <3>. QED  BY <3>1, <3>2, AcrossFacts
  <2>4. At(T, <<In, s>>) \in Int
    BY <1>1, BatchFacts
  <2>. QED  BY <1>3, <1>5, <2>1, <2>2, <2>3, <2>4
<1>6. m = A \/ m = In
  BY <1>3, PortFacts
<1>. QED  BY <1>4, <1>5, <1>6

\* When nothing moves inside, what is yet to come inside stays.
LEMMA IdleSums ==
    ASSUME Idle
    PROVE  /\ \A v \in Workers : Mine(v)' = Mine(v)
           /\ \A v, u \in Workers : Coming(v, u)' = Coming(v, u)
           /\ \A u \in Workers : AllComing(u)' = AllComing(u)
           /\ Truth' = Truth /\ TruthO' = TruthO
           /\ \A u \in Workers : \A t \in OuterTimes : Acc(u, t)' = Acc(u, t)
           /\ \A v \in Workers : \A t \in OuterTimes : cap(v, t)' = cap(v, t)
<1>1. \A v \in Workers : Mine(v)' = Mine(v)
  BY DEF Idle, Mine, harvest_inputs
<1>2. \A v, u \in Workers : Coming(v, u)' = Coming(v, u)
  BY <1>1 DEF Idle, Coming
<1>3. \A u \in Workers : AllComing(u)' = AllComing(u)
  BY <1>2 DEF AllComing
<1>4. Truth' = Truth /\ TruthO' = TruthO
  BY DEF Idle, Truth, TruthO
<1>5. \A u \in Workers : \A t \in OuterTimes : Acc(u, t)' = Acc(u, t)
  BY DEF Idle, Acc
<1>6. \A v \in Workers : \A t \in OuterTimes : cap(v, t)' = cap(v, t)
  BY DEF Idle, cap
<1>. QED  BY <1>1, <1>2, <1>3, <1>4, <1>5, <1>6

\* The step of a worker changes nothing in the balance of the others.
LEMMA OthersBalance ==
    ASSUME Typed, Typed', OuterBalance, NEW w \in Workers, NEW upto \in Upto(mail, w), NEW runs \in BOOLEAN,
           schedule(w, upto, runs), NEW u \in Workers, u # w, final'[u] = final[u], internals'[u] = internals[u],
           \A p : At(AllComing(u)', p) = At(AllComing(u), p)
    PROVE  Balance(u, Outer!Plus(tracker[u], final[u]), None)'
<1> DEFINE K == Outer!Plus(tracker[u], final[u])
<1>1. tracker'[u] = tracker[u] /\ alive' = alive
  BY ScheduleFacts
<1>2. Outer!Plus(tracker'[u], final'[u]) = K
  BY <1>1
<1>3. Balance(u, K, None)
  BY DEF OuterBalance, None
<1>4. AllComingO(u, None)' = AllComingO(u, None)
  BY StepSums
<1>5. TruthO' = TruthO
  BY <1>1 DEF TruthO
<1>6. \A l, t : Across(AllComing(u)', l, t) = Across(AllComing(u), l, t)
  BY DEF Across
<1> HIDE DEF K
<1>7. ASSUME NEW t \in OuterTimes
      PROVE  /\ At(Outer!Plus(tracker'[u], final'[u]), <<A, t>>) + At(AllComingO(u, None)', <<A, t>>)
                   = At(TruthO', <<A, t>>)
             /\ At(Outer!Plus(tracker'[u], final'[u]), <<In, t>>) + At(AllComingO(u, None)', <<In, t>>)
                   + Across(AllComing(u)', Source, t) = 0
             /\ At(Outer!Plus(tracker'[u], final'[u]), <<B, t>>) + At(AllComingO(u, None)', <<B, t>>)
                   + Across(AllComing(u)', Target, t) = At(TruthO', <<B, t>>)
             /\ At(Outer!Plus(tracker'[u], final'[u]), <<Out, t>>) = IF t \in internals'[u] THEN 1 ELSE 0
  <2>1. /\ At(K, <<A, t>>) + At(AllComingO(u, None), <<A, t>>) = At(TruthO, <<A, t>>)
        /\ At(K, <<In, t>>) + At(AllComingO(u, None), <<In, t>>) + Across(AllComing(u), Source, t) = 0
        /\ At(K, <<B, t>>) + At(AllComingO(u, None), <<B, t>>) + Across(AllComing(u), Target, t) = At(TruthO, <<B, t>>)
        /\ At(K, <<Out, t>>) = IF t \in internals[u] THEN 1 ELSE 0
    BY <1>3, Zenon DEF Balance
  <2>2. internals'[u] = internals[u]
    OBVIOUS
  <2>. QED  BY <1>2, <1>4, <1>5, <1>6, <2>1, <2>2, Zenon
<1>. QED  BY <1>7, Zenon DEF Balance

\* The step of a worker changes nothing of what it means for others that a nested scope is shut down.
LEMMA IdleGone ==
    ASSUME Typed, Typed', Caps, OuterBalance, NEW w \in Workers, NEW upto \in Upto(mail, w), NEW runs \in BOOLEAN,
           schedule(w, upto, runs), NEW u \in Workers, GoneAt(u),
           \A v \in Workers : /\ entering'[v] = Inner!Nothing /\ inner'[v] = Inner!Nothing
                              /\ shared'[v]["P"] = Inner!Nothing /\ post'[v][u] = post[v][u]
    PROVE  GoneAt(u)'
<1>1. /\ \A x \in Workers : tracker'[x] = IF x = w THEN Propagated(w, upto) ELSE tracker[x]
      /\ within' = within
  BY ScheduleFacts
<1>2. ASSUME NEW t \in OuterTimes PROVE ~ Outer!Implied(tracker'[u], In, t)
  <2>1. CASE u = w
    BY <1>1, <2>1, GoneClosed
  <2>2. CASE u # w
    BY <1>1, <2>2 DEF GoneAt
  <2>. QED  BY <2>1, <2>2
<1>3. ASSUME NEW v \in Workers, NEW t \in OuterTimes PROVE cap(v, t)' = 0 /\ Know(v, u, 0, t)' = 0
  BY GoneKnow
<1>4. ASSUME NEW v \in Workers
      PROVE  /\ within'[v] = Inner!Nothing
             /\ \A i \in DOMAIN post'[v][u] : post'[v][u][i] = Inner!Nothing
  BY <1>1 DEF GoneAt
<1>. QED  BY <1>2, <1>3, <1>4 DEF GoneAt

\* A step in which the nested scope does not run keeps the types.
LEMMA RestTyped ==
    ASSUME Typed, NEW w \in Workers, NEW upto \in Upto(mail, w), schedule(w, upto, FALSE), Rests(w, Propagated(w, upto))
    PROVE  /\ Typed' /\ Idle /\ final'[w] = Outer!Nothing
           /\ \A u \in Workers : u # w => final'[u] = final[u]
<1>1. /\ final' = [final EXCEPT ![w] = Outer!Nothing]
      /\ UNCHANGED <<nested, entering, internals, inner, post, open>>
  BY DEF Rests
<1>2. /\ tracker' \in [Workers -> Batches(OuterPoints)]
      /\ local' \in [Workers -> Honest] /\ mail' \in [Workers -> [Workers -> Seq(Honest)]]
      /\ shared' \in [Workers -> [Children -> Genuine \cup Honest]]
      /\ \A u \in Workers :
            /\ shared'[u]["P"] = IF u = w /\ FALSE THEN Inner!Nothing ELSE shared[u]["P"]
            /\ shared'[u]["A"] \in Honest /\ shared'[u]["B"] \in Honest /\ shared'[u]["P"] \in Genuine
      /\ UNCHANGED <<alive, within, start>>
  BY ScheduleFacts
<1>3. final' \in [Workers -> Batches(OuterPoints)] /\ \A u \in Workers : final'[u] = IF u = w THEN Outer!Nothing ELSE final[u]
  <2>1. final \in [Workers -> Batches(OuterPoints)] /\ Outer!Nothing \in Batches(OuterPoints)
    BY OuterFacts DEF Typed
  <2>. QED  BY <1>1, <2>1, OneChanged
<1>4. Typed'
  BY <1>1, <1>2, <1>3 DEF Typed
<1>5. Idle
  BY <1>1, <1>2 DEF Idle
<1>. QED  BY <1>3, <1>4, <1>5

\* The frontier that a nested scope has accepted, when it does not run.
LEMMA RestAccepts ==
    ASSUME NestedInv, NEW w \in Workers, NEW upto \in Upto(mail, w), schedule(w, upto, FALSE), Rests(w, Propagated(w, upto))
    PROVE  Accepts'
<1> DEFINE T == Propagated(w, upto)
<1>1. Idle /\ Typed
  BY RestTyped DEF NestedInv
<1>2. /\ \A u \in Workers : AllComing(u)' = AllComing(u)
      /\ \A u \in Workers : \A t \in OuterTimes : Acc(u, t)' = Acc(u, t)
      /\ \A v \in Workers : \A t \in OuterTimes : cap(v, t)' = cap(v, t)
      /\ nested' = nested /\ open' = open
  BY <1>1, IdleSums DEF Idle
<1>3. /\ T \in Batches(OuterPoints)
      /\ \A u \in Workers : tracker'[u] = IF u = w THEN T ELSE tracker[u]
  BY <1>1, ScheduleFacts
<1>4. w \in open => Outer!Frontier(T, In) = Accepted(w)
  BY DEF Rests, Active
<1> HIDE DEF T
<1>5. ASSUME NEW u \in Workers, NEW t \in OuterTimes, u \in open
      PROVE  Acc(u, t) <=> Outer!Implied(tracker'[u], In, t)
  <2>1. CASE u # w
    BY <1>3, <1>5, <2>1 DEF NestedInv, Accepts
  <2>2. CASE u = w
    <3>1. Acc(w, t) <=> \E s \in Accepted(w) : s <= t
      BY <1>1, AcceptedFacts DEF NestedInv
    <3>2. Outer!Implied(T, In, t) <=> \E s \in Outer!Frontier(T, In) : s <= t
      BY <1>3, PortFacts, OuterFrontier
    <3>. QED  BY <1>3, <1>4, <1>5, <2>2, <3>1, <3>2
  <2>. QED  BY <2>1, <2>2
<1>6. ASSUME NEW u \in Workers, NEW t \in OuterTimes
      PROVE  /\ \A p \in Line(Source, t) : At(AllComing(u)', p) < 0 => Acc(u, t)'
             /\ \A v \in Workers : cap(v, t)' > 0 => Acc(u, t)'
             /\ u \in open' => (Acc(u, t)' <=> Outer!Implied(tracker'[u], In, t))
             /\ \A p \in Line(Source, t) : At(nested'[u], p) # 0 => p = <<Source, to_inner(t)>>
  <2>1. /\ \A p \in Line(Source, t) : At(AllComing(u), p) < 0 => Acc(u, t)
        /\ \A v \in Workers : cap(v, t) > 0 => Acc(u, t)
        /\ \A p \in Line(Source, t) : At(nested[u], p) # 0 => p = <<Source, to_inner(t)>>
    BY DEF NestedInv, Accepts
  <2>. QED  BY <1>2, <1>5, <2>1
<1>. QED  BY <1>6 DEF Accepts

\* ... and the balances of the outer scope.
LEMMA RestBalance ==
    ASSUME NestedInv, NEW w \in Workers, NEW upto \in Upto(mail, w), schedule(w, upto, FALSE), Rests(w, Propagated(w, upto))
    PROVE  OuterBalance'
<1> DEFINE T == Propagated(w, upto)
<1>1. /\ Typed' /\ Idle /\ final'[w] = Outer!Nothing /\ Typed /\ OuterBalance
      /\ \A u \in Workers : u # w => final'[u] = final[u]
  BY RestTyped DEF NestedInv
<1>2. \A u \in Workers : AllComing(u)' = AllComing(u)
  BY <1>1, IdleSums
<1>3. ASSUME NEW u \in Workers, u # w
      PROVE  Balance(u, Outer!Plus(tracker[u], final[u]), None)'
  <2>1. internals'[u] = internals[u] /\ final'[u] = final[u] /\ \A p : At(AllComing(u)', p) = At(AllComing(u), p)
    BY <1>1, <1>2, <1>3 DEF Idle
  <2>. QED  BY <1>1, <1>3, <2>1, OthersBalance
<1>4. Balance(w, Outer!Plus(tracker[w], final[w]), None)'
  <2>1. upto \in Prefixes(w) /\ T \in Batches(OuterPoints) /\ tracker'[w] = T
    BY <1>1, ScheduleFacts
  <2>2. Balance(w, T, upto)
    BY <1>1, <2>1, StepBalance
  <2>3. AllComingO(w, None)' = AllComingO(w, upto)
    BY <1>1, StepSums
  <2> HIDE DEF T
  <2>4. \A p : At(Outer!Plus(tracker'[w], final'[w]), p) = At(T, p)
    <3>1. \A p : At(Outer!Plus(T, Outer!Nothing), p) = At(T, p) + 0
      BY <2>1, OuterFacts
    <3>2. \A p : At(T, p) + 0 = At(T, p)
      BY <2>1, BatchFacts
    <3>. QED  BY <1>1, <2>1, <3>1, <3>2
  <2>5. TruthO' = TruthO /\ internals' = internals
    BY <1>1, IdleSums DEF Idle
  <2>6. AllComing(w)' = AllComing(w)
    BY <1>2
  <2> DEFINE K == Outer!Plus(tracker'[w], final'[w])
             c == AllComingO(w, None)'
  <2> HIDE DEF K, c
  <2>7. ASSUME NEW t \in OuterTimes
        PROVE  /\ At(K, <<A, t>>) + At(c, <<A, t>>) = At(TruthO, <<A, t>>)
               /\ At(K, <<In, t>>) + At(c, <<In, t>>) + Across(AllComing(w), Source, t) = 0
               /\ At(K, <<B, t>>) + At(c, <<B, t>>) + Across(AllComing(w), Target, t) = At(TruthO, <<B, t>>)
               /\ At(K, <<Out, t>>) = IF t \in internals[w] THEN 1 ELSE 0
    BY <2>2, <2>3, <2>4 DEF K, c, Balance
  <2>. QED  BY <2>5, <2>6, <2>7 DEF K, c, Balance
<1>. QED  BY <1>3, <1>4 DEF OuterBalance, None

\* ... and the invariant.
LEMMA RestInv ==
    ASSUME NestedInv, NEW w \in Workers, NEW upto \in Upto(mail, w), schedule(w, upto, FALSE), Rests(w, Propagated(w, upto))
    PROVE  NestedInv'
<1>1. /\ Typed' /\ Idle /\ final'[w] = Outer!Nothing /\ Typed
      /\ \A u \in Workers : u # w => final'[u] = final[u]
  BY RestTyped DEF NestedInv
<1>2. InnerBalance'
  <2>1. nested' = nested /\ Truth' = Truth /\ \A u \in Workers : AllComing(u)' = AllComing(u)
    BY <1>1, IdleSums DEF Idle
  <2>2. InnerBalance
    BY DEF NestedInv
  <2>. QED  BY <2>1, <2>2 DEF InnerBalance
<1>3. OuterBalance'
  BY RestBalance
<1>4. Caps'
  BY <1>1, StepCaps DEF NestedInv
<1>5. Accepts'
  BY RestAccepts
<1>6. Inside'
  BY <1>1 DEF NestedInv, Inside, Idle
<1>7. OuterCovered'
  BY StepCovered
<1>8. Gone'
  <2>1. ASSUME NEW u \in Workers, u \notin open' PROVE GoneAt(u)'
    <3>1. GoneAt(u)
      BY <1>1, <2>1 DEF NestedInv, Gone, Idle
    <3>2. \A v \in Workers : /\ entering'[v] = Inner!Nothing /\ inner'[v] = Inner!Nothing
                             /\ shared'[v]["P"] = Inner!Nothing /\ post'[v][u] = post[v][u]
      BY <1>1, <3>1 DEF Idle, GoneAt
    <3>3. Caps /\ OuterBalance
      BY DEF NestedInv
    <3>. QED  BY <1>1, <3>1, <3>2, <3>3, IdleGone
  <2>. QED  BY <2>1 DEF Gone
<1>9. News'
  <2>1. ASSUME NEW u \in Workers, NEW t \in OuterTimes
        PROVE  /\ At(final'[u], <<A, t>>) = 0 /\ At(final'[u], <<In, t>>) <= 0
               /\ \A l \in {Out, B} : At(final'[u], <<l, t>>) > 0 => Outer!Implied(tracker'[u], B, t)
    <3>1. CASE u = w
      <4>1. \A p : At(final'[u], p) = 0
        BY <1>1, <3>1, OuterFacts
      <4>. QED  BY <4>1
    <3>2. CASE u # w
      <4>1. tracker'[u] = tracker[u] /\ final'[u] = final[u]
        BY <1>1, <3>2, ScheduleFacts
      <4>. QED  BY <4>1 DEF NestedInv, News
    <3>. QED  BY <3>1, <3>2
  <2>. QED  BY <2>1 DEF News
<1>. QED  BY <1>1, <1>2, <1>3, <1>4, <1>5, <1>6, <1>7, <1>8, <1>9 DEF NestedInv

-----------------------------------------------------------------------------
(* A step in which the nested scope runs.                                   *)

\* The part of a batch at some ports.
LEMMA RestrictedFacts ==
    ASSUME NEW b \in Batches(InnerPoints), NEW ls
    PROVE  /\ Inner!Restricted(b, ls) \in Batches(InnerPoints)
           /\ \A p : At(Inner!Restricted(b, ls), p) = IF p[1] \in ls THEN At(b, p) ELSE 0
<1> DEFINE D == {q \in DOMAIN b : q[1] \in ls}
<1>1. /\ DOMAIN b \subseteq InnerPoints
      /\ \A p : At(b, p) \in Int /\ (At(b, p) # 0 <=> p \in DOMAIN b)
      /\ \A p \in DOMAIN b : b[p] = At(b, p)
  BY BatchFacts
<1>2. Inner!Restricted(b, ls) = [p \in D |-> b[p]]
  BY DEF Inner!Restricted
<1>3. D \in SUBSET InnerPoints
  BY <1>1
<1>6. \A p \in D : b[p] \in Int \ {0}
  BY <1>1
<1>4. \A p : p \in D <=> p \in DOMAIN b /\ p[1] \in ls
  OBVIOUS
<1> HIDE DEF D
<1>5. /\ [p \in D |-> b[p]] \in Batches(InnerPoints)
      /\ \A p : At([q \in D |-> b[q]], p) = IF p \in D THEN b[p] ELSE 0
  BY <1>3, <1>6, BatchMade
<1>. QED  BY <1>1, <1>2, <1>4, <1>5

\* The same change at some points.
LEMMA SameAt ==
    ASSUME NEW P, NEW E, E \in SUBSET P, NEW n, n \in Int \ {0}, NEW e, e = [p \in E |-> n]
    PROVE  e \in Batches(P) /\ \A p : At(e, p) = IF p \in E THEN n ELSE 0
<1>1. e \in [E -> Int \ {0}] /\ DOMAIN e = E /\ \A p \in E : e[p] = n
  OBVIOUS
<1>2. e \in Batches(P)
  BY <1>1, Zenon DEF Batches
<1>3. \A p : At(e, p) = IF p \in E THEN n ELSE 0
  BY <1>1 DEF At
<1>. QED  BY <1>2, <1>3

\* What is reported to the outer scope.
LEMMA ReportedFacts ==
    ASSUME NEW b \in Batches(InnerPoints), NEW before \in SUBSET OuterTimes, NEW after \in SUBSET OuterTimes
    PROVE  /\ Reported(b, before, after) \in Batches(OuterPoints)
           /\ \A t \in OuterTimes :
                 /\ At(Reported(b, before, after), <<A, t>>) = 0
                 /\ At(Reported(b, before, after), <<In, t>>) = Across(b, Source, t)
                 /\ At(Reported(b, before, after), <<Out, t>>) = Has(after, t) - Has(before, t)
                 /\ At(Reported(b, before, after), <<B, t>>) = Across(b, Target, t)
<1> DEFINE c == Projected(b, Source, In)
           F == {<<Out, t>> : t \in before \ after}
           G == {<<Out, t>> : t \in after \ before}
           f == [p \in F |-> -1]
           g == [p \in G |-> 1]
           d == Projected(b, Target, B)
           R == Reported(b, before, after)
<1>1. /\ c \in Batches(OuterPoints)
      /\ \A k \in 1 .. 4 : \A t \in OuterTimes : At(c, <<k, t>>) = IF k = In THEN Across(b, Source, t) ELSE 0
  <2>1. Source \in 1 .. 4 /\ In \in 1 .. 4
    BY PortFacts
  <2>. QED  BY <2>1, ProjectedFacts
<1>2. /\ d \in Batches(OuterPoints)
      /\ \A k \in 1 .. 4 : \A t \in OuterTimes : At(d, <<k, t>>) = IF k = B THEN Across(b, Target, t) ELSE 0
  <2>1. Target \in 1 .. 4 /\ B \in 1 .. 4
    BY PortFacts
  <2>. QED  BY <2>1, ProjectedFacts
<1>3. F \in SUBSET OuterPoints /\ G \in SUBSET OuterPoints
  BY PortFacts, OuterPointFacts
<1>4. \A k, t : (<<k, t>> \in F <=> k = Out /\ t \in before \ after) /\ (<<k, t>> \in G <=> k = Out /\ t \in after \ before)
  OBVIOUS
<1>5. f \in Batches(OuterPoints) /\ \A p : At(f, p) = IF p \in F THEN -1 ELSE 0
  <2> DEFINE x == [p \in F |-> -1]
  <2>1. \A p \in F : x[p] \in Int \ {0}
    OBVIOUS
  <2>2. f = [p \in F |-> x[p]] /\ \A p \in F : x[p] = -1
    OBVIOUS
  <2> HIDE DEF F, x, f
  <2>3. [p \in F |-> x[p]] \in Batches(OuterPoints) /\ \A p : At([q \in F |-> x[q]], p) = IF p \in F THEN x[p] ELSE 0
    BY <1>3, <2>1, BatchMade
  <2>. QED  BY <2>2, <2>3
<1>6. g \in Batches(OuterPoints) /\ \A p : At(g, p) = IF p \in G THEN 1 ELSE 0
  <2> DEFINE x == [p \in G |-> 1]
  <2>1. \A p \in G : x[p] \in Int \ {0}
    OBVIOUS
  <2>2. g = [p \in G |-> x[p]] /\ \A p \in G : x[p] = 1
    OBVIOUS
  <2> HIDE DEF G, x, g
  <2>3. [p \in G |-> x[p]] \in Batches(OuterPoints) /\ \A p : At([q \in G |-> x[q]], p) = IF p \in G THEN x[p] ELSE 0
    BY <1>3, <2>1, BatchMade
  <2>. QED  BY <2>2, <2>3
<1>7. R = Inner!Total(<<c, f, g, d>>)
  BY SameCounts DEF Reported
<1> HIDE DEF c, d, f, g, F, G, R
<1>8. R \in Batches(OuterPoints) /\ \A p : At(R, p) = At(c, p) + At(f, p) + At(g, p) + At(d, p)
  <2> DEFINE Q == Batches(OuterPoints)
  <2>1. /\ <<>> \in Seq(Q) /\ <<c>> \in Seq(Q) /\ <<c, f>> \in Seq(Q) /\ <<c, f, g>> \in Seq(Q)
        /\ <<c, f, g, d>> \in Seq(Q) /\ c \in Q /\ f \in Q /\ g \in Q /\ d \in Q
    <3>1. c \in Q /\ f \in Q /\ g \in Q /\ d \in Q
      BY <1>1, <1>2, <1>5, <1>6
    <3> HIDE DEF Q
    <3>. QED  BY <3>1
  <2>2. /\ <<c>> = Append(<<>>, c) /\ <<c, f>> = Append(<<c>>, f) /\ <<c, f, g>> = Append(<<c, f>>, g)
        /\ <<c, f, g, d>> = Append(<<c, f, g>>, d)
    OBVIOUS
  <2>3. ASSUME NEW p
        PROVE  At(R, p) = At(c, p) + At(f, p) + At(g, p) + At(d, p)
    <3>0. \A x \in Seq(Q) : \A y \in Q : At(Inner!Total(Append(x, y)), p) = At(Inner!Total(x), p) + At(y, p)
      BY AppendTotal
    <3> HIDE DEF Q
    <3>1. At(Inner!Total(Append(<<c, f, g>>, d)), p) = At(Inner!Total(<<c, f, g>>), p) + At(d, p)
      BY <2>1, <3>0, Zenon
    <3>2. At(Inner!Total(Append(<<c, f>>, g)), p) = At(Inner!Total(<<c, f>>), p) + At(g, p)
      BY <2>1, <3>0, Zenon
    <3>3. At(Inner!Total(Append(<<c>>, f)), p) = At(Inner!Total(<<c>>), p) + At(f, p)
      BY <2>1, <3>0, Zenon
    <3>4. At(Inner!Total(Append(<<>>, c)), p) = At(Inner!Total(<<>>), p) + At(c, p)
      BY <2>1, <3>0, Zenon
    <3>7. /\ At(Inner!Total(<<c, f, g, d>>), p) = At(Inner!Total(<<c, f, g>>), p) + At(d, p)
          /\ At(Inner!Total(<<c, f, g>>), p) = At(Inner!Total(<<c, f>>), p) + At(g, p)
          /\ At(Inner!Total(<<c, f>>), p) = At(Inner!Total(<<c>>), p) + At(f, p)
          /\ At(Inner!Total(<<c>>), p) = At(Inner!Total(<<>>), p) + At(c, p)
      BY <2>2, <3>1, <3>2, <3>3, <3>4, Zenon
    <3>5. At(Inner!Total(<<>>), p) = 0
      BY EmptyTotal, NothingFacts
    <3>6. At(c, p) \in Int
      BY <2>1, BatchFacts DEF Q
    <3>. QED  BY <1>7, <3>5, <3>6, <3>7
  <2>4. Inner!Total(<<c, f, g, d>>) \in Q
    BY <2>1, SequenceTotal
  <2>. QED  BY <1>7, <2>3, <2>4
<1>9. ASSUME NEW t \in OuterTimes
      PROVE  /\ At(R, <<A, t>>) = 0
             /\ At(R, <<In, t>>) = Across(b, Source, t)
             /\ At(R, <<Out, t>>) = Has(after, t) - Has(before, t)
             /\ At(R, <<B, t>>) = Across(b, Target, t)
  <2>1. /\ Across(b, Source, t) \in Int /\ Across(b, Target, t) \in Int
    BY PortFacts, AcrossFacts
  <2>2. /\ At(c, <<A, t>>) = 0 /\ At(c, <<In, t>>) = Across(b, Source, t) /\ At(c, <<Out, t>>) = 0 /\ At(c, <<B, t>>) = 0
    BY <1>1, PortFacts
  <2>3. /\ At(d, <<A, t>>) = 0 /\ At(d, <<In, t>>) = 0 /\ At(d, <<Out, t>>) = 0 /\ At(d, <<B, t>>) = Across(b, Target, t)
    BY <1>2, PortFacts
  <2>4. /\ At(f, <<A, t>>) = 0 /\ At(f, <<In, t>>) = 0 /\ At(f, <<B, t>>) = 0
        /\ At(f, <<Out, t>>) = IF t \in before \ after THEN -1 ELSE 0
    BY <1>4, <1>5, PortFacts
  <2>5. /\ At(g, <<A, t>>) = 0 /\ At(g, <<In, t>>) = 0 /\ At(g, <<B, t>>) = 0
        /\ At(g, <<Out, t>>) = IF t \in after \ before THEN 1 ELSE 0
    BY <1>4, <1>6, PortFacts
  <2>6. At(R, <<A, t>>) = 0
    BY <1>8, <2>2, <2>3, <2>4, <2>5
  <2>7. At(R, <<In, t>>) = Across(b, Source, t)
    BY <1>8, <2>1, <2>2, <2>3, <2>4, <2>5
  <2>8. At(R, <<B, t>>) = Across(b, Target, t)
    BY <1>8, <2>1, <2>2, <2>3, <2>4, <2>5
  <2>9. At(R, <<Out, t>>) = 0 + (IF t \in before \ after THEN -1 ELSE 0) + (IF t \in after \ before THEN 1 ELSE 0) + 0
    BY <1>8, <2>2, <2>3, <2>4, <2>5
  <2>. QED  BY <2>6, <2>7, <2>8, <2>9 DEF Has
<1>. QED  BY <1>8, <1>9 DEF R

\* What the nested scope takes from its channels is genuine.
LEMMA BatchIn ==
    ASSUME Typed, NEW w \in Workers, NEW upin \in Upto(post, w)
    PROVE  /\ upin \in [Workers -> Nat] /\ \A v \in Workers : upin[v] \in 0 .. Len(post[v][w])
           /\ \A v \in Workers : post[v][w] \in Seq(Genuine) /\ Inner!Total(SubSeq(post[v][w], 1, upin[v])) \in Genuine
                                 /\ SubSeq(post[v][w], 1, upin[v]) \in Seq(Genuine)
           /\ Batch(w, upin) = Inner!Total([v \in Workers |-> Inner!Total(SubSeq(post[v][w], 1, upin[v]))])
           /\ Batch(w, upin) \in Genuine
<1>1. post \in [Workers -> [Workers -> Seq(Genuine)]]
  BY DEF Typed
<1>2. upin \in [Workers -> Nat] /\ \A v \in Workers : upin[v] <= Len(post[v][w])
  BY <1>1, UptoFacts
<1>3. \A v \in Workers : post[v][w] \in Seq(Genuine) /\ upin[v] \in 0 .. Len(post[v][w])
  <2> TAKE v \in Workers
  <2>1. post[v][w] \in Seq(Genuine)
    BY <1>1
  <2>2. Len(post[v][w]) \in Nat
    BY <2>1, LenProperties
  <2>. QED  BY <1>2, <2>1, <2>2
<1>4. ASSUME NEW v \in Workers
      PROVE  Inner!Total(SubSeq(post[v][w], 1, upin[v])) \in Genuine /\ SubSeq(post[v][w], 1, upin[v]) \in Seq(Genuine)
  <2> DEFINE s == post[v][w]
             k == upin[v]
  <2>1. s \in Seq(Genuine) /\ k \in 0 .. Len(s)
    BY <1>3
  <2> HIDE DEF s, k
  <2>2. SubSeq(s, 1, k) \in Seq(Genuine)
    <3>1. Len(s) \in Nat
      BY <2>1, LenProperties
    <3>2. \A i \in 1 .. k : s[i] \in Genuine
      BY <2>1, <3>1, ElementOfSeq
    <3>3. 1 \in Int /\ k \in Int
      BY <2>1
    <3>. QED  BY <3>2, <3>3, SubSeqProperties
  <2>3. Inner!Total(SubSeq(s, 1, k)) \in Genuine
    BY <2>2, SequenceGenuine
  <2>. QED  BY <2>2, <2>3 DEF s, k
<1> DEFINE f == [v \in Workers |-> Inner!Total(SubSeq(post[v][w], 1, upin[v]))]
           r == Received(post, w, upin)
<1>5. Batch(w, upin) = Inner!Total(f)
  <2>1. r = [v \in Workers |-> SubSeq(post[v][w], 1, upin[v])]
    BY DEF Received
  <2>2. DOMAIN r = Workers /\ [v \in DOMAIN r |-> Inner!Total(r[v])] = f
    BY <2>1
  <2>3. Batch(w, upin) = Inner!Totals(r)
    BY DEF Batch
  <2> HIDE DEF r, f
  <2>. QED  BY <2>2, <2>3 DEF Inner!Totals
<1>6. f \in [Workers -> Genuine]
  BY <1>4
<1> HIDE DEF f
<1>7. Inner!Total(f) \in Genuine
  BY <1>6, ConstantFacts, GenuineTotal
<1>. QED  BY <1>2, <1>3, <1>4, <1>5, <1>7 DEF f

\* What w knows then: the frontier of its input, and what it has heard.
LEMMA KnowsFacts ==
    ASSUME NEW w, NEW upto, NEW upin, Ran(w, upto, upin)
    PROVE  LET S == Outer!Frontier(Propagated(w, upto), In)
               K == Knows(w, upto, upin)
           IN  /\ S \subseteq OuterTimes
               /\ K \in Batches(InnerPoints)
               /\ \A p \in Ports(InnerPoints, {PIn, POut}) : At(K, p) = At(nested[w], p) + At(Batch(w, upin), p)
               /\ \A p \in InnerPoints : p[1] = Target => At(K, p) = 0
               /\ \A p \in InnerPoints : p[1] = Source /\ At(K, p) # 0 => \E t \in S : p = <<Source, to_inner(t)>>
               /\ \A t \in S : At(K, <<Source, to_inner(t)>>) = 1
<1> DEFINE S == Outer!Frontier(Propagated(w, upto), In)
           E == {<<Source, to_inner(t)>> : t \in S}
           e == [p \in E |-> 1]
           n == Inner!Restricted(nested[w], {PIn, POut})
           a == Inner!Plus(n, e)
           o == Own(Batch(w, upin))
           K == Knows(w, upto, upin)
<1>0. /\ Typed /\ w \in Workers /\ upto \in Upto(mail, w) /\ schedule(w, upto, TRUE) /\ upin \in Upto(post, w)
  BY DEF Ran
<1>1. S \subseteq OuterTimes
  <2>1. TRUE \in BOOLEAN
    OBVIOUS
  <2>2. Propagated(w, upto) \in Batches(OuterPoints)
    BY <1>0, <2>1, ScheduleFacts
  <2>. QED  BY <2>2, PortFacts, OuterFrontier
<1>2. E \in SUBSET InnerPoints
  BY <1>1, ConstantFacts, PortFacts, InnerPointFacts
<1>14. \A p : p \in E <=> \E t \in S : p = <<Source, to_inner(t)>>
  OBVIOUS
<1>3. K = Inner!Plus(a, o)
  BY DEF Knows, accept_frontier
<1>4. \A p \in E : p[1] = Source
  OBVIOUS
<1> HIDE DEF S, E
<1>5. e \in Batches(InnerPoints) /\ \A p : At(e, p) = IF p \in E THEN 1 ELSE 0
  <2>1. 1 \in Int \ {0}
    OBVIOUS
  <2> HIDE DEF e
  <2>2. e = [p \in E |-> 1]
    BY DEF e
  <2>. QED  BY <1>2, <2>1, <2>2, SameAt
<1>6. /\ n \in Batches(InnerPoints)
      /\ \A p : At(n, p) = IF p[1] \in {PIn, POut} THEN At(nested[w], p) ELSE 0
  <2>1. nested[w] \in Batches(InnerPoints)
    BY <1>0 DEF Typed
  <2>. QED  BY <2>1, RestrictedFacts
<1>7. /\ o \in Batches(InnerPoints)
      /\ \A p : At(o, p) = IF p[1] \in {PIn, POut} THEN At(Batch(w, upin), p) ELSE 0
  <2>1. Batch(w, upin) \in Batches(InnerPoints)
    BY <1>0, BatchIn, GenuineIn
  <2>. QED  BY <2>1, RestrictedFacts DEF Own
<1> HIDE DEF e, n, o, a, K
<1>8. a \in Batches(InnerPoints) /\ \A p : At(a, p) = At(n, p) + At(e, p)
  BY <1>5, <1>6, PlusFacts DEF a
<1>9. K \in Batches(InnerPoints) /\ \A p : At(K, p) = At(a, p) + At(o, p)
  BY <1>3, <1>7, <1>8, PlusFacts
<1>10. ASSUME NEW p \in Ports(InnerPoints, {PIn, POut})
       PROVE  At(K, p) = At(nested[w], p) + At(Batch(w, upin), p)
  <2>1. p[1] \in {PIn, POut} /\ p[1] # Source
    BY PortFacts DEF Ports
  <2>2. At(n, p) = At(nested[w], p) /\ At(o, p) = At(Batch(w, upin), p)
    BY <1>6, <1>7, <2>1
  <2>3. At(e, p) = 0
    BY <1>4, <1>5, <2>1
  <2>4. At(K, p) = (At(nested[w], p) + 0) + At(Batch(w, upin), p)
    BY <1>8, <1>9, <2>2, <2>3
  <2>5. At(nested[w], p) \in Int
    <3>1. nested[w] \in Batches(InnerPoints)
      BY <1>0 DEF Typed
    <3>. QED  BY <3>1, BatchFacts
  <2>. QED  BY <2>4, <2>5
<1>11. ASSUME NEW p \in InnerPoints, p[1] = Target PROVE At(K, p) = 0
  <2>1. p[1] \notin {PIn, POut} /\ p[1] # Source
    BY <1>11, PortFacts
  <2>2. At(n, p) = 0 /\ At(o, p) = 0
    BY <1>6, <1>7, <2>1
  <2>3. At(e, p) = 0
    BY <1>4, <1>5, <2>1
  <2>. QED  BY <1>8, <1>9, <2>2, <2>3
<1>12. ASSUME NEW p \in InnerPoints, p[1] = Source
       PROVE  At(K, p) = IF p \in E THEN 1 ELSE 0
  <2>1. p[1] \notin {PIn, POut}
    BY <1>12, PortFacts
  <2>2. At(n, p) = 0 /\ At(o, p) = 0
    BY <1>6, <1>7, <2>1
  <2>3. At(e, p) = IF p \in E THEN 1 ELSE 0
    BY <1>5
  <2>4. At(K, p) = (0 + At(e, p)) + 0
    BY <1>8, <1>9, <2>2
  <2>. QED  BY <2>3, <2>4
<1>13. \A p \in InnerPoints : p[1] = Source /\ At(K, p) # 0 => \E t \in S : p = <<Source, to_inner(t)>>
  BY <1>12, <1>14
<1>15. ASSUME NEW t \in S PROVE At(K, <<Source, to_inner(t)>>) = 1
  <2>1. <<Source, to_inner(t)>> \in E /\ <<Source, to_inner(t)>>[1] = Source
    BY <1>14
  <2>2. <<Source, to_inner(t)>> \in InnerPoints
    BY <1>2, <2>1
  <2>. QED  BY <1>12, <2>1, <2>2
<1>. QED  BY <1>1, <1>9, <1>10, <1>11, <1>13, <1>15 DEF S, K

\* The frontier of what is counted inside.
LEMMA PushedFacts ==
    ASSUME NEW K \in Batches(InnerPoints)
    PROVE  /\ pushed_output(K) \in SUBSET OuterTimes
           /\ \A p \in Ports(InnerPoints, {PIn, POut}) :
                 At(K, p) > 0 => \E s \in pushed_output(K) : s <= p[2].outer
           /\ \A s \in pushed_output(K) :
                 \E p \in Ports(InnerPoints, {PIn, POut}) : At(K, p) > 0 /\ p[2].outer = s
<1> DEFINE o == Own(K)
           S == {to_outer(p[2]) : p \in Inner!Counted(o)}
<1>1. o \in Batches(InnerPoints) /\ \A p : At(o, p) = IF p[1] \in {PIn, POut} THEN At(K, p) ELSE 0
  BY RestrictedFacts DEF Own
<1>2. pushed_output(K) = Outer!Least(S)
  BY DEF pushed_output
<1> HIDE DEF o
<1>3. \A p : p \in Inner!Counted(o) <=> p \in Ports(InnerPoints, {PIn, POut}) /\ At(K, p) > 0
  <2>1. \A p : p \in Inner!Counted(o) <=> At(o, p) > 0
    BY <1>1, BatchFacts DEF Inner!Counted, At
  <2>2. \A p : At(o, p) > 0 => p \in InnerPoints
    BY <1>1, BatchFacts
  <2>. QED  BY <1>1, <2>1, <2>2 DEF Ports
<1>4. \A s : s \in S <=> \E p \in Ports(InnerPoints, {PIn, POut}) : At(K, p) > 0 /\ p[2].outer = s
  BY <1>3 DEF to_outer
<1> HIDE DEF S
<1>5. S \in SUBSET OuterTimes
  BY <1>4, InnerPointFacts, ConstantFacts DEF Ports
<1>6. Outer!Least(S) \subseteq S /\ \A t \in S : \E s \in Outer!Least(S) : s <= t
  BY <1>5, OuterLeast
<1>. QED  BY <1>2, <1>4, <1>5, <1>6

\* The empty batch counts nothing negative.
LEMMA CountsNothing == \A P : Inner!Nothing \in Counts(P)
<1> TAKE P
<1>1. Inner!Nothing \in Batches(P) /\ \A p : At(Inner!Nothing, p) = 0
  BY NothingFacts
<1>. QED  BY <1>1 DEF Counts

\* The step, and the types of what it changes.
LEMMA RunsFacts ==
    ASSUME Typed, NEW w \in Workers, NEW upto \in Upto(mail, w), schedule(w, upto, TRUE), NEW upin \in Upto(post, w),
           Runs(w, Propagated(w, upto), upin)
    PROVE  LET K == Knows(w, upto, upin)
               T == Propagated(w, upto)
           IN  /\ w \in open /\ Typed'
               /\ \A u \in Workers :
                     /\ nested'[u] = IF u = w THEN K ELSE nested[u]
                     /\ entering'[u] = IF u = w THEN Inner!Nothing ELSE entering[u]
                     /\ internals'[u] = IF u = w THEN pushed_output(K) ELSE internals[u]
                     /\ final'[u] = IF u = w THEN Reported(Batch(w, upin), internals[w], pushed_output(K)) ELSE final[u]
               /\ \E sending \in BOOLEAN : KeptIn(w, upin, sending)
               /\ open' = IF may_shut_down(T) /\ Inner!Counted(K) = {} THEN open \ {w} ELSE open
<1> DEFINE K == Knows(w, upto, upin)
           T == Propagated(w, upto)
           batch == Batch(w, upin)
<1>1. /\ upto \in Prefixes(w) /\ T \in Batches(OuterPoints)
      /\ tracker' \in [Workers -> Batches(OuterPoints)]
      /\ local' \in [Workers -> Honest] /\ mail' \in [Workers -> [Workers -> Seq(Honest)]]
      /\ shared' \in [Workers -> [Children -> Genuine \cup Honest]]
      /\ \A u \in Workers : shared'[u]["A"] \in Honest /\ shared'[u]["B"] \in Honest /\ shared'[u]["P"] \in Genuine
      /\ UNCHANGED <<alive, within, start>>
  BY ScheduleFacts
<1>2. K \in Batches(InnerPoints) /\ batch \in Batches(InnerPoints)
  <2>1. Ran(w, upto, upin)
    BY DEF Ran
  <2>. QED  BY <2>1, KnowsFacts, BatchIn, GenuineIn
<1>3. /\ w \in open
      /\ nested' = [nested EXCEPT ![w] = K]
      /\ entering' = [entering EXCEPT ![w] = Inner!Nothing]
      /\ internals' = [internals EXCEPT ![w] = pushed_output(K)]
      /\ final' = [final EXCEPT ![w] = Reported(batch, internals[w], pushed_output(K))]
      /\ open' = IF may_shut_down(T) /\ ~ Inner!tracking_anything(nested'[w]) THEN open \ {w} ELSE open
  BY DEF Runs, schedule_nested, shut_down, Knows, Batch
<1>4. \E sending \in BOOLEAN : KeptIn(w, upin, sending)
  <2> DEFINE sending == Mine(w) # Inner!Nothing /\ (Eager \/ Inner!must_send(K, Mine(w)))
  <2>1. /\ inner' = [inner EXCEPT ![w] = IF sending THEN Inner!Nothing ELSE Mine(w)]
        /\ post' = IF sending THEN Sends(Takes(post, w, upin), w, Mine(w)) ELSE Takes(post, w, upin)
        /\ sending => Mine(w) # Inner!Nothing
    BY DEF Runs, schedule_nested, Knows, Batch, Mine
  <2> HIDE DEF sending
  <2>2. CASE sending
    <3>1. KeptIn(w, upin, TRUE)
      BY <2>1, <2>2 DEF KeptIn
    <3>. QED  BY <3>1
  <2>3. CASE ~ sending
    <3>1. KeptIn(w, upin, FALSE)
      BY <2>1, <2>3 DEF KeptIn
    <3>. QED  BY <3>1
  <2>. QED  BY <2>2, <2>3
<1>5. Mine(w) \in Genuine /\ post \in [Workers -> [Workers -> Seq(Genuine)]]
  BY MadeHolds DEF Made, Typed
<1>6. inner' \in [Workers -> Genuine] /\ post' \in [Workers -> [Workers -> Seq(Genuine)]]
  <2>1. PICK sending \in BOOLEAN : KeptIn(w, upin, sending)
    BY <1>4
  <2>2. inner' \in [Workers -> Genuine]
    <3> DEFINE n == IF sending THEN Inner!Nothing ELSE Mine(w)
    <3>1. n \in Genuine
      BY <1>5, GenuineNothing
    <3>2. inner' = [inner EXCEPT ![w] = n] /\ inner \in [Workers -> Genuine]
      BY <2>1 DEF KeptIn, Typed
    <3> HIDE DEF n
    <3>. QED  BY <3>1, <3>2, OneChanged
  <2>3. post' = IF sending THEN Sends(Takes(post, w, upin), w, Mine(w)) ELSE Takes(post, w, upin)
    BY <2>1 DEF KeptIn
  <2>5. upin \in [Workers -> Nat] /\ \A v \in Workers : upin[v] <= Len(post[v][w])
    BY <1>5, UptoFacts
  <2>4. Passed(Genuine, post, w, upin, Mine(w), sending, post')
    BY <1>5, <2>3, <2>5 DEF Passed
  <2>. QED  BY <2>2, <2>4, ChannelFacts
<1> HIDE DEF K, T, batch
<1>7. pushed_output(K) \in SUBSET OuterTimes
  BY <1>2, PushedFacts
<1>8. nested' \in [Workers -> Batches(InnerPoints)] /\ \A u \in Workers : nested'[u] = IF u = w THEN K ELSE nested[u]
  <2>1. nested \in [Workers -> Batches(InnerPoints)]
    BY DEF Typed
  <2>. QED  BY <1>2, <1>3, <2>1, OneChanged
<1>9. /\ entering' \in [Workers -> Counts(Ports(InnerPoints, {Source}))]
      /\ \A u \in Workers : entering'[u] = IF u = w THEN Inner!Nothing ELSE entering[u]
  <2> DEFINE Q == Counts(Ports(InnerPoints, {Source}))
  <2>1. entering \in [Workers -> Q]
    BY DEF Typed
  <2>2. Inner!Nothing \in Q
    BY CountsNothing
  <2>3. entering' = [entering EXCEPT ![w] = Inner!Nothing]
    BY <1>3
  <2> HIDE DEF Q
  <2>4. entering' \in [Workers -> Q] /\ \A u \in Workers : entering'[u] = IF u = w THEN Inner!Nothing ELSE entering[u]
    BY <2>1, <2>2, <2>3, OneChanged
  <2>. QED  BY <2>4 DEF Q
<1>10. /\ internals' \in [Workers -> SUBSET OuterTimes]
       /\ \A u \in Workers : internals'[u] = IF u = w THEN pushed_output(K) ELSE internals[u]
  <2> DEFINE x == pushed_output(K)
             Q == SUBSET OuterTimes
  <2>1. internals \in [Workers -> Q] /\ x \in Q /\ internals' = [internals EXCEPT ![w] = x]
    BY <1>3, <1>7 DEF Typed
  <2> HIDE DEF x, Q
  <2>2. internals' \in [Workers -> Q] /\ \A u \in Workers : internals'[u] = IF u = w THEN x ELSE internals[u]
    BY <2>1, OneChanged
  <2>. QED  BY <2>2 DEF x, Q
<1>11. /\ final' \in [Workers -> Batches(OuterPoints)]
       /\ \A u \in Workers :
             final'[u] = IF u = w THEN Reported(batch, internals[w], pushed_output(K)) ELSE final[u]
  <2> DEFINE x == Reported(batch, internals[w], pushed_output(K))
             Q == Batches(OuterPoints)
  <2>1. internals[w] \in SUBSET OuterTimes
    BY DEF Typed
  <2>2. x \in Q
    BY <1>2, <1>7, <2>1, ReportedFacts
  <2>3. final \in [Workers -> Q] /\ final' = [final EXCEPT ![w] = x]
    BY <1>3 DEF Typed
  <2> HIDE DEF x, Q
  <2>4. final' \in [Workers -> Q] /\ \A u \in Workers : final'[u] = IF u = w THEN x ELSE final[u]
    BY <2>2, <2>3, OneChanged
  <2>. QED  BY <2>4 DEF x, Q
<1>12. open' = IF may_shut_down(T) /\ Inner!Counted(K) = {} THEN open \ {w} ELSE open
  <2>1. nested'[w] = K
    BY <1>8
  <2>. QED  BY <1>3, <2>1 DEF Inner!tracking_anything
<1>13. open' \in SUBSET Workers
  <2>1. open \in SUBSET Workers
    BY DEF Typed
  <2>. QED  BY <1>12, <2>1
<1>14. Typed'
  <2>1. start' \in Starts
    BY <1>1 DEF Typed
  <2>2. /\ alive' \in [Workers -> Counts(Ports(OuterPoints, {A, B}))]
        /\ within' \in [Workers -> Counts(Ports(InnerPoints, {PIn, POut}))]
    BY <1>1 DEF Typed
  <2>. QED  BY <1>1, <1>6, <1>8, <1>9, <1>10, <1>11, <1>13, <2>1, <2>2 DEF Typed
<1>. QED  BY <1>3, <1>4, <1>8, <1>9, <1>10, <1>11, <1>12, <1>14 DEF K, T, batch

\* What others have to hear of from w inside the nested scope stays, and w has heard its batch.
LEMMA RunsComing ==
    ASSUME NEW w, NEW upto, NEW upin, Ran(w, upto, upin), NEW v \in Workers, NEW u \in Workers, NEW p
    PROVE  /\ At(Coming(v, u), p) = At(Coming(v, u)', p) + Taken(w, upin, v, u, p)
           /\ At(Coming(v, u)', p) \in Int
           /\ Mine(w) = Inner!Nothing /\ u # w => post'[v][u] = post[v][u]
           /\ Mine(w) = Inner!Nothing => inner'[w] = Inner!Nothing
           /\ v # w => inner'[v] = inner[v]
<1> DEFINE s == post[v][u]
           b == Mine(w)
           t == Rest(post, w, upin, v, u)
           d == Ahead(w, upin, v, u)
<1>0. /\ Typed /\ w \in Workers /\ upto \in Upto(mail, w) /\ schedule(w, upto, TRUE) /\ upin \in Upto(post, w)
      /\ Runs(w, Propagated(w, upto), upin)
  BY DEF Ran
<1>20. Typed'
  BY <1>0, RunsFacts
<1>1. Made /\ Made' /\ Sent /\ Sent'
  <2>1. (Typed' => Made') /\ (Typed' => Sent')
    BY MadeHolds, SentHolds, PTL
  <2>. QED  BY <1>0, <1>20, <2>1, MadeHolds, SentHolds
<1>2. PICK sending \in BOOLEAN : KeptIn(w, upin, sending)
  BY <1>0, RunsFacts
<1>3. post \in [Workers -> [Workers -> Seq(Genuine)]] /\ s \in Seq(Genuine)
  BY <1>0 DEF Typed
<1>4. b \in Genuine
  BY <1>0, <1>1 DEF Made
<1>5. /\ d \in 0 .. Len(s)
      /\ sending = TRUE /\ v = w => post'[v][u] = Append(t, b)
      /\ ~ (sending = TRUE /\ v = w) => post'[v][u] = t
  <2>1. post' = IF sending THEN Sends(Takes(post, w, upin), w, b) ELSE Takes(post, w, upin)
    BY <1>2 DEF KeptIn
  <2>2. upin \in [Workers -> Nat] /\ \A x \in Workers : upin[x] <= Len(post[x][w])
    BY <1>0, <1>3, UptoFacts
  <2>3. Passed(Genuine, post, w, upin, b, sending, post')
    BY <1>3, <1>4, <2>1, <2>2 DEF Passed
  <2> HIDE DEF b
  <2>4. Left(Genuine, post, w, upin, b, sending, post', v, u)
    BY <1>0, <2>3, ChannelFacts
  <2>. QED  BY <2>4 DEF Left
<1>6. /\ At(Coming(v, u), p) = At(Inner!Total(s), p) + At(Mine(v), p)
      /\ At(Coming(v, u)', p) = At(Inner!Total(post'[v][u]), p) + At(Mine(v)', p)
  BY <1>1 DEF Sent
<1>7. /\ At(Mine(v)', p) = IF sending /\ v = w THEN 0 ELSE At(Mine(v), p)
      /\ At(Mine(v), p) \in Int
      /\ b = Inner!Nothing => inner'[w] = Inner!Nothing
      /\ v # w => inner'[v] = inner[v]
  <2>1. /\ At(Mine(v), p) = At(inner[v], p) + (At(harvest_inputs(v), p) + At(shared[v]["P"], p))
        /\ At(Mine(v)', p) = At(inner'[v], p) + (At(harvest_inputs(v)', p) + At(shared'[v]["P"], p))
    BY <1>0, <1>1 DEF Made
  <2>2. At(Mine(v), p) \in Int
    <3>1. Mine(v) \in Batches(InnerPoints)
      BY <1>1, GenuineIn DEF Made
    <3>. QED  BY <3>1, BatchFacts
  <2>3. /\ shared'[v]["P"] = IF v = w THEN Inner!Nothing ELSE shared[v]["P"]
        /\ entering'[v] = IF v = w THEN Inner!Nothing ELSE entering[v]
    <3>1. TRUE \in BOOLEAN
      OBVIOUS
    <3>2. shared'[v]["P"] = IF v = w /\ TRUE THEN Inner!Nothing ELSE shared[v]["P"]
      BY <1>0, <3>1, ScheduleFacts
    <3>3. entering'[v] = IF v = w THEN Inner!Nothing ELSE entering[v]
      BY <1>0, RunsFacts
    <3>. QED  BY <3>2, <3>3
  <2>4. /\ inner'[v] = IF v # w THEN inner[v] ELSE IF sending THEN Inner!Nothing ELSE Mine(w)
        /\ inner'[w] = IF sending THEN Inner!Nothing ELSE Mine(w)
    BY <1>0, <1>2 DEF KeptIn, Typed
  <2>5. At(Inner!Nothing, p) = 0
    BY NothingFacts
  <2>6. CASE v # w
    <3>1. harvest_inputs(v)' = harvest_inputs(v)
      BY <2>3, <2>6 DEF harvest_inputs
    <3>. QED  BY <2>1, <2>2, <2>3, <2>4, <2>6, <3>1
  <2>7. CASE v = w
    <3>1. harvest_inputs(v)' = Inner!Nothing
      <4>1. entering'[v] = Inner!Nothing
        BY <2>3, <2>7
      <4>2. DOMAIN Inner!Nothing = {}
        BY DEF Inner!Nothing
      <4>3. \A q \in InnerPoints : At(harvest_inputs(v)', q) = 0
        <5> SUFFICES ASSUME NEW q \in InnerPoints PROVE At(harvest_inputs(v)', q) = 0
          OBVIOUS
        <5>1. q[1] \in 1 .. 4 /\ q[2] \in InnerTimes /\ q = <<q[1], q[2]>>
          BY InnerPointFacts
        <5> DEFINE x == q[2]
        <5>2. /\ At(harvest_inputs(v)', <<Source, x>>) = - At(entering'[v], <<Source, x>>)
              /\ At(harvest_inputs(v)', <<PIn, x>>) = At(entering'[v], <<Source, x>>)
              /\ At(harvest_inputs(v)', <<POut, x>>) = 0 /\ At(harvest_inputs(v)', <<Target, x>>) = 0
          BY <1>1, <5>1 DEF Made
        <5>3. At(entering'[v], <<Source, x>>) = 0
          BY <4>1, NothingFacts
        <5> HIDE DEF x
        <5>4. q[1] = Source \/ q[1] = PIn \/ q[1] = POut \/ q[1] = Target
          BY <5>1, PortFacts
        <5>5. q = <<Source, x>> \/ q = <<PIn, x>> \/ q = <<POut, x>> \/ q = <<Target, x>>
          BY <5>1, <5>4 DEF x
        <5>6. /\ At(harvest_inputs(v)', <<Source, x>>) = 0 /\ At(harvest_inputs(v)', <<PIn, x>>) = 0
              /\ At(harvest_inputs(v)', <<POut, x>>) = 0 /\ At(harvest_inputs(v)', <<Target, x>>) = 0
          BY <5>2, <5>3
        <5>. QED  BY <5>5, <5>6
      <4>4. harvest_inputs(v)' \in Genuine
        BY <1>0, <1>1 DEF Made
      <4>. QED  BY <4>3, <4>4, GenuineNothing
    <3>2. At(Mine(v)', p) = At(inner'[v], p) + (0 + 0)
      BY <2>1, <2>3, <2>5, <2>7, <3>1
    <3>3. At(inner'[v], p) = IF sending THEN 0 ELSE At(Mine(v), p)
      BY <2>4, <2>5, <2>7
    <3>. QED  BY <2>2, <2>4, <2>7, <3>2, <3>3
  <2>. QED  BY <2>6, <2>7
<1>8. sending = TRUE => b # Inner!Nothing
  BY <1>2 DEF KeptIn
<1>9. /\ t \in Seq(Genuine)
      /\ At(Inner!Total(s), p) = At(Inner!Total(SubSeq(s, 1, d)), p) + At(Inner!Total(t), p)
      /\ At(Inner!Total(Append(t, b)), p) = At(Inner!Total(t), p) + At(b, p)
      /\ At(Inner!Total(SubSeq(s, 1, d)), p) \in Int /\ At(Inner!Total(t), p) \in Int /\ At(b, p) \in Int
  <2>1. t = SubSeq(s, d + 1, Len(s))
    BY DEF Rest
  <2>2. s \in Seq(Batches(InnerPoints)) /\ b \in Batches(InnerPoints)
    BY <1>3, <1>4, SequenceGenuine, GenuineIn
  <2>3. d \in 0 .. Len(s)
    BY <1>5
  <2> HIDE DEF s, t, d, b
  <2>4. t \in Seq(Genuine)
    BY <1>3, <2>1, <2>3, RestFacts DEF s
  <2>5. /\ SubSeq(s, 1, d) \in Seq(Batches(InnerPoints)) /\ SubSeq(s, d + 1, Len(s)) \in Seq(Batches(InnerPoints))
        /\ At(Inner!Total(s), p) = At(Inner!Total(SubSeq(s, 1, d)), p)
                                     + At(Inner!Total(SubSeq(s, d + 1, Len(s))), p)
    BY <2>2, <2>3, SplitTotal
  <2>6. t \in Seq(Batches(InnerPoints))
    BY <2>1, <2>5
  <2>7. At(Inner!Total(Append(t, b)), p) = At(Inner!Total(t), p) + At(b, p)
    BY <2>2, <2>6, AppendTotal
  <2>8. Inner!Total(SubSeq(s, 1, d)) \in Batches(InnerPoints) /\ Inner!Total(t) \in Batches(InnerPoints)
    BY <2>5, <2>6, SequenceTotal
  <2>9. /\ At(Inner!Total(SubSeq(s, 1, d)), p) \in Int /\ At(Inner!Total(t), p) \in Int /\ At(b, p) \in Int
    BY <2>2, <2>8, BatchFacts
  <2>. QED  BY <2>1, <2>4, <2>5, <2>7, <2>9
<1>10. /\ u = w => SubSeq(s, 1, d) = SubSeq(post[v][w], 1, upin[v])
       /\ u # w => t = s /\ d = 0
  <2>1. ASSUME u = w PROVE SubSeq(s, 1, d) = SubSeq(post[v][w], 1, upin[v])
    BY <2>1 DEF Ahead
  <2>2. ASSUME u # w PROVE t = s /\ d = 0
    <3>1. d = 0
      BY <2>2 DEF Ahead
    <3>2. t = SubSeq(s, 0 + 1, Len(s))
      BY <3>1 DEF Rest
    <3>3. 0 + 1 = 1
      OBVIOUS
    <3>4. SubSeq(s, 1, Len(s)) = s
      BY <1>3, SubSeqFull
    <3>. QED  BY <3>1, <3>2, <3>3, <3>4
  <2>. QED  BY <2>1, <2>2
<1> HIDE DEF s, b, t, d
<1>11. At(Inner!Total(post'[v][u]), p) = At(Inner!Total(t), p) + (IF sending = TRUE /\ v = w THEN At(b, p) ELSE 0)
  <2>1. CASE sending = TRUE /\ v = w
    <3>1. post'[v][u] = Append(t, b)
      BY <1>5, <2>1
    <3>. QED  BY <1>9, <2>1, <3>1
  <2>2. CASE ~ (sending = TRUE /\ v = w)
    <3>1. post'[v][u] = t
      BY <1>5, <2>2
    <3>. QED  BY <1>9, <2>2, <3>1
  <2>. QED  BY <2>1, <2>2
<1>12. At(Mine(v)', p) + (IF sending = TRUE /\ v = w THEN At(b, p) ELSE 0) = At(Mine(v), p) /\ At(Mine(v)', p) \in Int
  BY <1>7, <1>9 DEF b
<1>13. At(Coming(v, u), p) = At(Coming(v, u)', p) + At(Inner!Total(SubSeq(s, 1, d)), p) /\ At(Coming(v, u)', p) \in Int
  <2> DEFINE e == IF sending = TRUE /\ v = w THEN At(b, p) ELSE 0
  <2>1. e \in Int
    BY <1>9
  <2>2. /\ At(Inner!Total(post'[v][u]), p) = At(Inner!Total(t), p) + e
        /\ At(Mine(v)', p) + e = At(Mine(v), p) /\ At(Mine(v)', p) \in Int
    BY <1>11, <1>12
  <2> HIDE DEF e
  <2>. QED  BY <1>6, <1>9, <2>1, <2>2
<1>14. u # w => At(Coming(v, u), p) = At(Coming(v, u)', p)
  <2> SUFFICES ASSUME u # w PROVE At(Coming(v, u), p) = At(Coming(v, u)', p)
    OBVIOUS
  <2>1. At(Inner!Total(s), p) = At(Inner!Total(SubSeq(s, 1, d)), p) + At(Inner!Total(s), p)
    BY <1>9, <1>10
  <2>2. At(Inner!Total(s), p) \in Int
    BY <1>9, <1>10
  <2>. QED  BY <1>9, <1>13, <2>1, <2>2
<1>15. ASSUME b = Inner!Nothing, u # w PROVE post'[v][u] = post[v][u]
  <2>1. ~ (sending = TRUE /\ v = w)
    BY <1>8, <1>15
  <2>. QED  BY <1>5, <1>10, <1>15, <2>1 DEF s
<1>16. At(Coming(v, u), p) = At(Coming(v, u)', p) + Taken(w, upin, v, u, p)
  <2>1. CASE u = w
    <3>1. SubSeq(s, 1, d) = SubSeq(post[v][w], 1, upin[v])
      BY <1>10, <2>1
    <3>. QED  BY <1>13, <2>1, <3>1 DEF Taken
  <2>2. CASE u # w
    BY <1>13, <1>14, <2>2 DEF Taken
  <2>. QED  BY <2>1, <2>2
<1>17. b = Inner!Nothing => inner'[w] = Inner!Nothing
  BY <1>7
<1>18. v # w => inner'[v] = inner[v]
  BY <1>7
<1>19. At(Coming(v, u)', p) \in Int
  BY <1>13
<1>. QED  BY <1>15, <1>16, <1>17, <1>18, <1>19 DEF b

\* What it means for what is counted and what is to come.
LEMMA RunsSums ==
    ASSUME NEW w, NEW upto, NEW upin, Ran(w, upto, upin)
    PROVE  /\ Typed' /\ Batch(w, upin) \in Batches(InnerPoints) /\ Batch(w, upin) \in Genuine
           /\ Knows(w, upto, upin) \in Batches(InnerPoints)
           /\ upto \in Prefixes(w) /\ Propagated(w, upto) \in Batches(OuterPoints)
           /\ \A u \in Workers :
                 /\ AllComing(u) \in Genuine /\ AllComing(u)' \in Genuine
                 /\ AllComing(u) \in Batches(InnerPoints) /\ AllComing(u)' \in Batches(InnerPoints)
                 /\ \A p : At(AllComing(u), p)
                             = At(AllComing(u)', p) + (IF u = w THEN At(Batch(w, upin), p) ELSE 0)
           /\ Truth' = Truth /\ TruthO' = TruthO
<1>0. /\ Typed /\ w \in Workers /\ upto \in Upto(mail, w) /\ schedule(w, upto, TRUE) /\ upin \in Upto(post, w)
      /\ Runs(w, Propagated(w, upto), upin)
  BY DEF Ran
<1>1. Typed'
  BY <1>0, RunsFacts
<1>2. Batch(w, upin) \in Batches(InnerPoints) /\ Batch(w, upin) \in Genuine
  BY <1>0, BatchIn, GenuineIn
<1>3. upto \in Prefixes(w) /\ Propagated(w, upto) \in Batches(OuterPoints)
  BY <1>0, ScheduleFacts
<1>4. Knows(w, upto, upin) \in Batches(InnerPoints)
  BY KnowsFacts
<1>5. Truth' = Truth /\ TruthO' = TruthO
  <2>1. alive' = alive /\ within' = within
    BY <1>0, ScheduleFacts
  <2>. QED  BY <2>1 DEF Truth, TruthO
<1>6. Summed /\ Summed'
  <2>1. Typed' => Summed'
    BY SummedHolds, PTL
  <2>. QED  BY <1>0, <1>1, <2>1, SummedHolds
<1>7. ASSUME NEW u \in Workers
      PROVE  /\ AllComing(u) \in Genuine /\ AllComing(u)' \in Genuine
             /\ AllComing(u) \in Batches(InnerPoints) /\ AllComing(u)' \in Batches(InnerPoints)
  BY <1>6, GenuineIn DEF Summed
<1>8. ASSUME NEW u \in Workers, NEW p
      PROVE  At(AllComing(u), p) = At(AllComing(u)', p) + (IF u = w THEN At(Batch(w, upin), p) ELSE 0)
  <2> DEFINE h == [v \in Workers |-> Coming(v, u)]
             f == [v \in Workers |-> Coming(v, u)']
             g == [v \in Workers |-> IF u = w THEN Inner!Total(SubSeq(post[v][w], 1, upin[v])) ELSE Inner!Nothing]
  <2>1. h \in [Workers -> Genuine] /\ f \in [Workers -> Genuine]
    BY <1>6 DEF Summed
  <2>2. g \in [Workers -> Genuine]
    <3>1. \A v \in Workers : Inner!Total(SubSeq(post[v][w], 1, upin[v])) \in Genuine
      BY <1>0, BatchIn
    <3>2. \A v \in Workers : g[v] \in Genuine
      BY <3>1, GenuineNothing
    <3>. QED  BY <3>2
  <2>3. \A v \in Workers : At(h[v], p) = At(f[v], p) + At(g[v], p)
    <3> TAKE v \in Workers
    <3>1. At(Coming(v, u), p) = At(Coming(v, u)', p) + Taken(w, upin, v, u, p)
      BY RunsComing
    <3>2. At(Inner!Nothing, p) = 0
      BY NothingFacts
    <3>3. CASE u = w
      BY <3>1, <3>3 DEF Taken
    <3>4. CASE u # w
      BY <3>1, <3>2, <3>4 DEF Taken
    <3>. QED  BY <3>3, <3>4
  <2>4. AllComing(u) = Inner!Total(h) /\ AllComing(u)' = Inner!Total(f)
    BY DEF AllComing
  <2>5. At(Inner!Total(g), p) = IF u = w THEN At(Batch(w, upin), p) ELSE 0
    <3>1. CASE u = w
      <4>1. g = [v \in Workers |-> Inner!Total(SubSeq(post[v][w], 1, upin[v]))]
        BY <3>1
      <4> HIDE DEF g
      <4>2. Batch(w, upin) = Inner!Total(g)
        BY <1>0, <4>1, BatchIn
      <4>. QED  BY <3>1, <4>2
    <3>2. CASE u # w
      <4>1. \A v \in Workers : At(g[v], p) = 0
        BY <3>2, NothingFacts
      <4>2. g \in [Workers -> Batches(InnerPoints)]
        BY <2>2, GenuineIn
      <4> HIDE DEF g
      <4>3. At(Inner!Total(g), p) = 0
        BY <4>1, <4>2, ConstantFacts, TotalSigns
      <4>. QED  BY <3>2, <4>3
    <3>. QED  BY <3>1, <3>2
  <2> HIDE DEF h, f, g
  <2>6. h \in [Workers -> Batches(InnerPoints)] /\ f \in [Workers -> Batches(InnerPoints)]
        /\ g \in [Workers -> Batches(InnerPoints)]
    BY <2>1, <2>2, GenuineIn
  <2>7. At(Inner!Total(h), p) = At(Inner!Total(f), p) + At(Inner!Total(g), p)
    BY <2>3, <2>6, ConstantFacts, TotalPlus
  <2>. QED  BY <2>4, <2>5, <2>7
<1>. QED  BY <1>1, <1>2, <1>3, <1>4, <1>5, <1>7, <1>8

\* The balance inside, after the nested scope ran.
LEMMA RunsInner ==
    ASSUME NEW w, NEW upto, NEW upin, Ran(w, upto, upin), InnerBalance
    PROVE  InnerBalance'
<1>0. /\ Typed /\ w \in Workers /\ upto \in Upto(mail, w) /\ schedule(w, upto, TRUE) /\ upin \in Upto(post, w)
      /\ Runs(w, Propagated(w, upto), upin)
  BY DEF Ran
<1>1. ASSUME NEW u \in Workers, NEW p \in Ports(InnerPoints, {PIn, POut})
      PROVE  At(nested'[u], p) + At(AllComing(u)', p) = At(Truth', p)
  <2>1. At(nested[u], p) + At(AllComing(u), p) = At(Truth, p)
    BY DEF InnerBalance
  <2>2. /\ At(AllComing(u), p) = At(AllComing(u)', p) + (IF u = w THEN At(Batch(w, upin), p) ELSE 0)
        /\ Truth' = Truth
    BY RunsSums
  <2>3. nested'[u] = IF u = w THEN Knows(w, upto, upin) ELSE nested[u]
    BY <1>0, RunsFacts
  <2>4. CASE u = w
    <3>1. At(Knows(w, upto, upin), p) = At(nested[w], p) + At(Batch(w, upin), p)
      BY KnowsFacts
    <3>2. At(nested[w], p) \in Int /\ At(Batch(w, upin), p) \in Int /\ At(AllComing(u)', p) \in Int
      <4>1. nested[w] \in Batches(InnerPoints)
        BY <1>0 DEF Typed
      <4>2. Batch(w, upin) \in Batches(InnerPoints) /\ AllComing(u)' \in Batches(InnerPoints)
        BY RunsSums
      <4>. QED  BY <4>1, <4>2, BatchFacts
    <3>3. /\ At(nested[w], p) + At(AllComing(u), p) = At(Truth, p)
          /\ At(AllComing(u), p) = At(AllComing(u)', p) + At(Batch(w, upin), p)
          /\ At(nested'[u], p) = At(nested[w], p) + At(Batch(w, upin), p)
          /\ At(Truth', p) = At(Truth, p)
      BY <2>1, <2>2, <2>3, <2>4, <3>1
    <3>. QED  BY <3>2, <3>3
  <2>5. CASE u # w
    <3>1. At(AllComing(u)', p) \in Int
      <4>1. AllComing(u)' \in Batches(InnerPoints)
        BY RunsSums
      <4>. QED  BY <4>1, BatchFacts
    <3>. QED  BY <2>1, <2>2, <2>3, <2>5, <3>1
  <2>. QED  BY <2>4, <2>5
<1>. QED  BY <1>1 DEF InnerBalance

\* The balances of the outer scopes, after the nested scope ran.
LEMMA RunsBalance ==
    ASSUME NEW w, NEW upto, NEW upin, Ran(w, upto, upin), OuterBalance
    PROVE  OuterBalance'
<1>0. /\ Typed /\ w \in Workers /\ upto \in Upto(mail, w) /\ schedule(w, upto, TRUE) /\ upin \in Upto(post, w)
      /\ Runs(w, Propagated(w, upto), upin) /\ Typed'
  BY RunsSums DEF Ran
<1> DEFINE T == Propagated(w, upto)
           batch == Batch(w, upin)
           after == pushed_output(Knows(w, upto, upin))
           R == Reported(batch, internals[w], after)
<1>1. \A u \in Workers : /\ final'[u] = IF u = w THEN R ELSE final[u]
                         /\ internals'[u] = IF u = w THEN after ELSE internals[u]
  BY <1>0, RunsFacts
<1>2. ASSUME NEW u \in Workers, u # w
      PROVE  Balance(u, Outer!Plus(tracker[u], final[u]), None)'
  <2>1. internals'[u] = internals[u] /\ final'[u] = final[u]
    BY <1>1, <1>2
  <2>2. \A p : At(AllComing(u)', p) = At(AllComing(u), p)
    <3>1. AllComing(u)' \in Batches(InnerPoints)
      BY RunsSums
    <3>2. \A p : At(AllComing(u), p) = At(AllComing(u)', p) + 0
      BY <1>2, RunsSums
    <3>. QED  BY <3>1, <3>2, BatchFacts
  <2>3. TRUE \in BOOLEAN
    OBVIOUS
  <2>. QED  BY <1>0, <1>2, <2>1, <2>2, <2>3, OthersBalance
<1>3. Balance(w, Outer!Plus(tracker[w], final[w]), None)'
  <2>1. upto \in Prefixes(w) /\ T \in Batches(OuterPoints) /\ tracker'[w] = T
    BY <1>0, ScheduleFacts
  <2>2. Balance(w, T, upto)
    BY <1>0, <2>1, StepBalance
  <2>3. AllComingO(w, None)' = AllComingO(w, upto)
    <3>1. TRUE \in BOOLEAN
      OBVIOUS
    <3>. QED  BY <1>0, <3>1, StepSums
  <2>4. batch \in Batches(InnerPoints) /\ after \in SUBSET OuterTimes /\ internals[w] \in SUBSET OuterTimes
    <3>1. batch \in Batches(InnerPoints) /\ Knows(w, upto, upin) \in Batches(InnerPoints)
      BY RunsSums
    <3>2. internals[w] \in SUBSET OuterTimes
      BY <1>0 DEF Typed
    <3>. QED  BY <3>1, <3>2, PushedFacts
  <2> HIDE DEF T, batch, after
  <2>5. /\ R \in Batches(OuterPoints)
        /\ \A t \in OuterTimes :
              /\ At(R, <<A, t>>) = 0
              /\ At(R, <<In, t>>) = Across(batch, Source, t)
              /\ At(R, <<Out, t>>) = Has(after, t) - Has(internals[w], t)
              /\ At(R, <<B, t>>) = Across(batch, Target, t)
    BY <2>4, ReportedFacts
  <2> HIDE DEF R
  <2> DEFINE K == Outer!Plus(tracker'[w], final'[w])
             c == AllComingO(w, None)'
             a == AllComing(w)'
  <2>6. \A p : At(K, p) = At(T, p) + At(R, p)
    BY <1>0, <1>1, <2>1, <2>5, OuterFacts
  <2>7. AllComing(w) \in Batches(InnerPoints) /\ a \in Batches(InnerPoints)
        /\ \A p : At(AllComing(w), p) = At(a, p) + At(batch, p)
    BY <1>0, RunsSums DEF batch
  <2>8. AllComingO(w, upto) \in Batches(OuterPoints)
    BY <1>0, <2>1, SummedHolds, HonestIn DEF Summed
  <2> HIDE DEF K, c, a
  <2>9. ASSUME NEW t \in OuterTimes
        PROVE  /\ At(K, <<A, t>>) + At(c, <<A, t>>) = At(TruthO, <<A, t>>)
               /\ At(K, <<In, t>>) + At(c, <<In, t>>) + Across(a, Source, t) = 0
               /\ At(K, <<B, t>>) + At(c, <<B, t>>) + Across(a, Target, t) = At(TruthO, <<B, t>>)
               /\ At(K, <<Out, t>>) = IF t \in after THEN 1 ELSE 0
    <3>0. Source \in 1 .. 4 /\ Target \in 1 .. 4
      BY PortFacts
    <3>1. /\ Across(AllComing(w), Source, t) = Across(a, Source, t) + Across(batch, Source, t)
          /\ Across(AllComing(w), Target, t) = Across(a, Target, t) + Across(batch, Target, t)
      BY <2>4, <2>7, <3>0, AcrossPlus
    <3>2. /\ Across(a, Source, t) \in Int /\ Across(batch, Source, t) \in Int
          /\ Across(a, Target, t) \in Int /\ Across(batch, Target, t) \in Int
      BY <2>4, <2>7, <3>0, AcrossFacts
    <3>3. /\ At(T, <<A, t>>) + At(c, <<A, t>>) = At(TruthO, <<A, t>>)
          /\ At(T, <<In, t>>) + At(c, <<In, t>>) + Across(AllComing(w), Source, t) = 0
          /\ At(T, <<B, t>>) + At(c, <<B, t>>) + Across(AllComing(w), Target, t) = At(TruthO, <<B, t>>)
          /\ At(T, <<Out, t>>) = IF t \in internals[w] THEN 1 ELSE 0
      BY <2>2, <2>3 DEF c, Balance
    <3>4. \A p : At(T, p) \in Int /\ At(c, p) \in Int
      BY <2>1, <2>3, <2>8, BatchFacts DEF c
    <3>5. /\ At(R, <<A, t>>) = 0
          /\ At(R, <<In, t>>) = Across(batch, Source, t)
          /\ At(R, <<Out, t>>) = Has(after, t) - Has(internals[w], t)
          /\ At(R, <<B, t>>) = Across(batch, Target, t)
      BY <2>5
    <3>6. At(K, <<A, t>>) + At(c, <<A, t>>) = At(TruthO, <<A, t>>)
      <4>1. At(K, <<A, t>>) = At(T, <<A, t>>) + At(R, <<A, t>>)
        BY <2>6
      <4>2. At(T, <<A, t>>) \in Int
        BY <3>4
      <4>. QED  BY <3>3, <3>5, <4>1, <4>2
    <3>7. At(K, <<In, t>>) + At(c, <<In, t>>) + Across(a, Source, t) = 0
      <4>1. At(K, <<In, t>>) = At(T, <<In, t>>) + At(R, <<In, t>>)
        BY <2>6
      <4>2. At(T, <<In, t>>) \in Int /\ At(c, <<In, t>>) \in Int
        BY <3>4
      <4>. QED  BY <3>1, <3>2, <3>3, <3>5, <4>1, <4>2
    <3>8. At(K, <<B, t>>) + At(c, <<B, t>>) + Across(a, Target, t) = At(TruthO, <<B, t>>)
      <4>1. At(K, <<B, t>>) = At(T, <<B, t>>) + At(R, <<B, t>>)
        BY <2>6
      <4>2. At(T, <<B, t>>) \in Int /\ At(c, <<B, t>>) \in Int
        BY <3>4
      <4>. QED  BY <3>1, <3>2, <3>3, <3>5, <4>1, <4>2
    <3>9. At(K, <<Out, t>>) = IF t \in after THEN 1 ELSE 0
      <4>1. At(K, <<Out, t>>) = At(T, <<Out, t>>) + At(R, <<Out, t>>)
        BY <2>6
      <4>. QED  BY <3>3, <3>5, <4>1 DEF Has
    <3>. QED  BY <3>6, <3>7, <3>8, <3>9
  <2>10. TruthO' = TruthO /\ internals'[w] = after
    BY <1>0, <1>1, RunsSums
  <2>. QED  BY <2>9, <2>10 DEF K, c, a, Balance
<1>. QED  BY <1>2, <1>3 DEF OuterBalance, None

\* The frontier that the nested scope has accepted then is the one of the outer scope.
LEMMA RunsAcc ==
    ASSUME NEW w, NEW upto, NEW upin, Ran(w, upto, upin), NEW t \in OuterTimes
    PROVE  Acc(w, t)' <=> Outer!Implied(Propagated(w, upto), In, t)
<1>0. /\ Typed /\ w \in Workers /\ upto \in Upto(mail, w) /\ schedule(w, upto, TRUE) /\ upin \in Upto(post, w)
      /\ Runs(w, Propagated(w, upto), upin) /\ Propagated(w, upto) \in Batches(OuterPoints)
  BY RunsSums DEF Ran
<1> DEFINE T == Propagated(w, upto)
           S == Outer!Frontier(T, In)
           K == Knows(w, upto, upin)
<1>1. /\ S \subseteq OuterTimes
      /\ \A p \in InnerPoints : p[1] = Source /\ At(K, p) # 0 => \E s \in S : p = <<Source, to_inner(s)>>
      /\ \A s \in S : At(K, <<Source, to_inner(s)>>) = 1
  BY KnowsFacts
<1>2. nested'[w] = K
  BY <1>0, RunsFacts
<1>3. Outer!Implied(T, In, t) <=> \E s \in S : s <= t
  BY <1>0, PortFacts, OuterFrontier
<1> HIDE DEF T, S, K
<1>4. ASSUME NEW s \in OuterTimes
      PROVE  At(K, <<Source, to_inner(s)>>) > 0 <=> s \in S
  <2>1. ASSUME At(K, <<Source, to_inner(s)>>) > 0 PROVE s \in S
    <3>1. <<Source, to_inner(s)>> \in InnerPoints /\ <<Source, to_inner(s)>>[1] = Source
      BY ConstantFacts, PortFacts, InnerPointFacts
    <3>2. PICK r \in S : <<Source, to_inner(s)>> = <<Source, to_inner(r)>>
      BY <1>1, <2>1, <3>1
    <3>3. to_inner(s) = to_inner(r)
      BY <3>2
    <3>4. to_inner(s).outer = s /\ to_inner(r).outer = r
      BY DEF to_inner
    <3>. QED  BY <3>3, <3>4
  <2>2. ASSUME s \in S PROVE At(K, <<Source, to_inner(s)>>) > 0
    BY <1>1, <2>2
  <2>. QED  BY <2>1, <2>2
<1>5. Acc(w, t)' <=> \E s \in OuterTimes : s <= t /\ At(K, <<Source, to_inner(s)>>) > 0
  BY <1>2 DEF Acc
<1>6. (\E s \in OuterTimes : s <= t /\ At(K, <<Source, to_inner(s)>>) > 0) <=> \E s \in S : s <= t
  BY <1>1, <1>4
<1>. QED  BY <1>3, <1>5, <1>6 DEF T

\* It does not pass what is yet to enter.
LEMMA RunsEntry ==
    ASSUME NestedInv, NEW w, NEW upto, NEW upin, Ran(w, upto, upin), NEW t \in OuterTimes, NEW p \in Line(Source, t),
           At(AllComing(w)', p) < 0
    PROVE  Outer!Implied(Propagated(w, upto), In, t)
<1>0. /\ Typed /\ w \in Workers /\ upto \in Prefixes(w) /\ Propagated(w, upto) \in Batches(OuterPoints) /\ Caps /\ OuterBalance
  BY RunsSums DEF Ran, NestedInv
<1>1. Balance(w, Propagated(w, upto), upto)
  BY <1>0, StepBalance
<1>2. At(AllComing(w), p) < 0
  <2>1. Source \in 1 .. 4
    BY PortFacts
  <2>2. p = <<Source, p[2]>> /\ p[2] \in InnerTimes
    BY <2>1, LineFacts
  <2>3. Batch(w, upin) \in Genuine /\ Batch(w, upin) \in Batches(InnerPoints) /\ AllComing(w)' \in Batches(InnerPoints)
    BY <1>0, RunsSums
  <2>4. At(Batch(w, upin), p) <= 0
    <3>1. At(Batch(w, upin), <<Source, p[2]>>) <= 0
      BY <2>2, <2>3 DEF Genuine
    <3>. QED  BY <2>2, <3>1
  <2>5. At(Batch(w, upin), p) \in Int /\ At(AllComing(w)', p) \in Int
    BY <2>3, BatchFacts
  <2>6. At(AllComing(w), p) = At(AllComing(w)', p) + At(Batch(w, upin), p)
    BY <1>0, RunsSums
  <2>. QED  BY <2>4, <2>5, <2>6
<1>. QED  BY <1>0, <1>1, <1>2, EntryImplied

\* What the nested scopes have accepted, after one of them ran.
LEMMA RunsAccepts ==
    ASSUME NestedInv, NEW w, NEW upto, NEW upin, Ran(w, upto, upin)
    PROVE  Accepts'
<1>0. /\ Typed /\ w \in Workers /\ upto \in Upto(mail, w) /\ schedule(w, upto, TRUE) /\ upin \in Upto(post, w)
      /\ Runs(w, Propagated(w, upto), upin) /\ Propagated(w, upto) \in Batches(OuterPoints) /\ upto \in Prefixes(w)
      /\ Caps /\ OuterBalance /\ Accepts
  BY RunsSums DEF Ran, NestedInv
<1> DEFINE T == Propagated(w, upto)
           K == Knows(w, upto, upin)
<1>1. Balance(w, T, upto)
  BY <1>0, StepBalance
<1>2. /\ \A u \in Workers : tracker'[u] = IF u = w THEN T ELSE tracker[u]
      /\ alive' = alive
  BY <1>0, ScheduleFacts
<1>3. /\ \A u \in Workers : nested'[u] = IF u = w THEN K ELSE nested[u]
      /\ open' \subseteq open
  <2>1. \A u \in Workers : nested'[u] = IF u = w THEN K ELSE nested[u]
    BY <1>0, RunsFacts
  <2>2. open' = IF may_shut_down(T) /\ Inner!Counted(K) = {} THEN open \ {w} ELSE open
    BY <1>0, RunsFacts
  <2>. QED  BY <2>1, <2>2
<1>4. \A v \in Workers : \A t \in OuterTimes : cap(v, t)' = cap(v, t)
  BY <1>2 DEF cap
<1>5. ASSUME NEW t \in OuterTimes
      PROVE  /\ \A p \in Line(Source, t) : At(AllComing(w)', p) < 0 => Acc(w, t)'
             /\ \A v \in Workers : cap(v, t)' > 0 => Acc(w, t)'
             /\ w \in open' => (Acc(w, t)' <=> Outer!Implied(tracker'[w], In, t))
             /\ \A p \in Line(Source, t) : At(nested'[w], p) # 0 => p = <<Source, to_inner(t)>>
  <2>1. Acc(w, t)' <=> Outer!Implied(T, In, t)
    BY RunsAcc
  <2>2. \A p \in Line(Source, t) : At(AllComing(w)', p) < 0 => Acc(w, t)'
    BY <2>1, RunsEntry
  <2>3. ASSUME NEW v \in Workers, cap(v, t)' > 0 PROVE Acc(w, t)'
    <3>1. cap(v, t) > 0
      BY <1>4, <2>3
    <3>2. In \in 1 .. 4
      BY PortFacts
    <3>3. Outer!Implied(T, In, t)
      BY <1>0, <1>1, <3>1, <3>2, CapImplied
    <3>. QED  BY <2>1, <3>3
  <2>4. tracker'[w] = T
    BY <1>0, <1>2
  <2>5. ASSUME NEW p \in Line(Source, t), At(nested'[w], p) # 0 PROVE p = <<Source, to_inner(t)>>
    <3>1. nested'[w] = K
      BY <1>0, <1>3
    <3>2. Source \in 1 .. 4
      BY PortFacts
    <3>3. p \in InnerPoints /\ p[1] = Source /\ p[2].outer = t
      BY DEF Line
    <3>4. \A q \in InnerPoints : q[1] = Source /\ At(K, q) # 0 =>
              \E s \in Outer!Frontier(T, In) : q = <<Source, to_inner(s)>>
      BY KnowsFacts
    <3> HIDE DEF K
    <3>5. PICK s : p = <<Source, to_inner(s)>>
      BY <2>5, <3>1, <3>3, <3>4
    <3>6. to_inner(s).outer = s /\ p[2] = to_inner(s)
      BY <3>5 DEF to_inner
    <3>. QED  BY <3>3, <3>5, <3>6
  <2>. QED  BY <2>1, <2>2, <2>3, <2>4, <2>5
<1>6. ASSUME NEW u \in Workers, u # w, NEW t \in OuterTimes
      PROVE  /\ \A p \in Line(Source, t) : At(AllComing(u)', p) < 0 => Acc(u, t)'
             /\ \A v \in Workers : cap(v, t)' > 0 => Acc(u, t)'
             /\ u \in open' => (Acc(u, t)' <=> Outer!Implied(tracker'[u], In, t))
             /\ \A p \in Line(Source, t) : At(nested'[u], p) # 0 => p = <<Source, to_inner(t)>>
  <2>1. nested'[u] = nested[u] /\ tracker'[u] = tracker[u]
    BY <1>2, <1>3, <1>6
  <2>2. Acc(u, t)' <=> Acc(u, t)
    BY <2>1 DEF Acc
  <2>3. \A p : At(AllComing(u)', p) = At(AllComing(u), p)
    <3>1. AllComing(u)' \in Batches(InnerPoints)
      BY RunsSums
    <3>2. \A p : At(AllComing(u), p) = At(AllComing(u)', p) + 0
      BY <1>6, RunsSums
    <3>. QED  BY <3>1, <3>2, BatchFacts
  <2>4. /\ \A p \in Line(Source, t) : At(AllComing(u), p) < 0 => Acc(u, t)
        /\ \A v \in Workers : cap(v, t) > 0 => Acc(u, t)
        /\ u \in open => (Acc(u, t) <=> Outer!Implied(tracker[u], In, t))
        /\ \A p \in Line(Source, t) : At(nested[u], p) # 0 => p = <<Source, to_inner(t)>>
    BY <1>0 DEF Accepts
  <2>. QED  BY <1>3, <1>4, <2>1, <2>2, <2>3, <2>4
<1>. QED  BY <1>5, <1>6 DEF Accepts

\* The outer scope is told of all that the nested scope counts.
LEMMA RunsInside ==
    ASSUME NestedInv, NEW w, NEW upto, NEW upin, Ran(w, upto, upin)
    PROVE  Inside'
<1>0. /\ Typed /\ w \in Workers /\ upto \in Upto(mail, w) /\ schedule(w, upto, TRUE) /\ upin \in Upto(post, w)
      /\ Runs(w, Propagated(w, upto), upin) /\ Knows(w, upto, upin) \in Batches(InnerPoints) /\ Inside
  BY RunsSums DEF Ran, NestedInv
<1> DEFINE K == Knows(w, upto, upin)
<1>1. ASSUME NEW u \in Workers, NEW p \in Ports(InnerPoints, {PIn, POut}), At(nested'[u], p) > 0
      PROVE  \E s \in internals'[u] : s <= p[2].outer
  <2>1. /\ nested'[u] = IF u = w THEN K ELSE nested[u]
        /\ internals'[u] = IF u = w THEN pushed_output(K) ELSE internals[u]
    BY <1>0, RunsFacts
  <2>2. CASE u = w
    BY <1>0, <1>1, <2>1, <2>2, PushedFacts
  <2>3. CASE u # w
    BY <1>0, <1>1, <2>1, <2>3 DEF Inside
  <2>. QED  BY <2>2, <2>3
<1>. QED  BY <1>1 DEF Inside

\* What is heard inside the nested scope is no news for the outer one: it knows what was to come from its output.
LEMMA BatchNews ==
    ASSUME NestedInv, NEW w, NEW upto, NEW upin, Ran(w, upto, upin), NEW p \in InnerPoints, At(Batch(w, upin), p) # 0
    PROVE  Outer!Implied(Propagated(w, upto), Out, p[2].outer)
<1>0. /\ Typed /\ w \in Workers /\ upto \in Prefixes(w) /\ upin \in Upto(post, w)
      /\ Propagated(w, upto) \in Batches(OuterPoints) /\ Caps /\ OuterBalance /\ InnerBalance /\ Inside
  BY RunsSums DEF Ran, NestedInv
<1> DEFINE T == Propagated(w, upto)
           D == {q \in InnerPoints : q[2].outer <= p[2].outer}
<1>1. Balance(w, T, upto)
  BY <1>0, StepBalance
<1>2. SUFFICES ASSUME ~ Outer!Implied(T, Out, p[2].outer) PROVE FALSE
  OBVIOUS
<1>3. /\ p[2] \in InnerTimes /\ p[2].outer \in OuterTimes
      /\ \A q \in InnerPoints : q[2].outer \in OuterTimes /\ q[2].outer \in Nat
  BY InnerPointFacts, ConstantFacts
<1>4. ASSUME NEW q \in D PROVE At(AllComing(w), q) >= 0
  <2>1. At(AllComing(w), q) \in Int
    BY <1>0, RunsSums, BatchFacts
  <2>2. ASSUME At(AllComing(w), q) < 0 PROVE FALSE
    <3>1. q \in InnerPoints /\ q[2].outer <= p[2].outer
      OBVIOUS
    <3>2. Outer!Implied(T, Out, q[2].outer)
      BY <1>0, <1>1, <2>2, <3>1, EndImplied
    <3>3. Outer!Implied(T, Out, p[2].outer)
      <4>1. Out \in 1 .. 4 /\ Out <= Out
        BY PortFacts
      <4>2. q[2].outer \in OuterTimes
        BY <1>3, <3>1
      <4> HIDE DEF T
      <4>. QED  BY <1>0, <1>3, <3>1, <3>2, <4>1, <4>2, OuterLater DEF T
    <3>. QED  BY <1>2, <3>3
  <2>. QED  BY <2>1, <2>2
<1>5. Closed(D)
  <2>1. \A q, r \in InnerPoints : q[2].outer <= p[2].outer /\ Leq(r, q) => r[2].outer <= p[2].outer
    <3> SUFFICES ASSUME NEW q \in InnerPoints, NEW r \in InnerPoints, q[2].outer <= p[2].outer, Leq(r, q)
                 PROVE  r[2].outer <= p[2].outer
      OBVIOUS
    <3>1. r[2].outer <= q[2].outer
      BY DEF Leq
    <3>2. r[2].outer \in Nat /\ q[2].outer \in Nat /\ p[2].outer \in Nat
      BY <1>3
    <3>. QED  BY <3>1, <3>2
  <2>. QED  BY <2>1 DEF Closed
<1>6. p \in D
  <2>1. p[2].outer <= p[2].outer
    BY <1>3
  <2>. QED  BY <2>1
<1> HIDE DEF D, T
<1>7. ASSUME NEW v \in Workers
      PROVE  At(Inner!Total(SubSeq(post[v][w], 1, upin[v])), p) = 0
  <2> DEFINE f == [x \in Workers |-> Coming(x, w)]
             s == post[v][w]
             a == Inner!Total(SubSeq(s, 1, upin[v]))
             c == Inner!Total(SubSeq(s, upin[v] + 1, Len(s)))
  <2>1. f \in [Workers -> Genuine] /\ AllComing(w) = Inner!Total(f) /\ f[v] = Coming(v, w)
    BY <1>0, SummedHolds DEF Summed, AllComing
  <2> HIDE DEF f
  <2>2. \A q \in D : At(Inner!Total(f), q) >= 0
    BY <1>4, <2>1
  <2>3. \A q \in D : At(Coming(v, w), q) = 0
    BY <1>5, <2>1, <2>2, ConstantFacts, NothingBelow
  <2>4. /\ Inner!Total(s) \in Genuine /\ Mine(v) \in Genuine
        /\ Coming(v, w) = Inner!Plus(Inner!Total(s), Mine(v))
    BY <1>0, SentHolds, MadeHolds DEF Sent, Made, Coming
  <2> DEFINE y == Inner!Total(s)
             z == Mine(v)
  <2> HIDE DEF y, z, s
  <2>5. \A q \in D : At(y, q) = 0
    <3>1. y \in Genuine /\ z \in Genuine /\ \A q \in D : At(Inner!Plus(y, z), q) >= 0
      BY <2>3, <2>4 DEF y, z
    <3>. QED  BY <1>5, <3>1, GenuinePlus
  <2>6. s \in Seq(Genuine) /\ upin[v] \in 0 .. Len(s)
    BY <1>0, BatchIn DEF s
  <2>7. a \in Genuine /\ c \in Genuine
    <3>1. SubSeq(s, upin[v] + 1, Len(s)) \in Seq(Genuine)
      BY <2>6, RestFacts
    <3>2. a \in Genuine
      BY <1>0, BatchIn DEF s
    <3>. QED  BY <3>1, <3>2, SequenceGenuine
  <2>8. \A q : At(y, q) = At(a, q) + At(c, q)
    <3>1. s \in Seq(Batches(InnerPoints))
      BY <2>6, SequenceGenuine
    <3>. QED  BY <2>6, <3>1, SplitTotal DEF y
  <2> HIDE DEF a, c
  <2>9. \A q \in D : At(Inner!Plus(a, c), q) >= 0
    BY <2>5, <2>7, <2>8, GenuinePlus
  <2>10. \A q \in D : At(a, q) = 0
    BY <1>5, <2>7, <2>9, GenuinePlus
  <2>. QED  BY <1>6, <2>10 DEF a, s
<1>8. At(Batch(w, upin), p) = 0
  <2> DEFINE f == [v \in Workers |-> Inner!Total(SubSeq(post[v][w], 1, upin[v]))]
  <2>1. Batch(w, upin) = Inner!Total(f) /\ \A v \in Workers : f[v] \in Genuine
    BY <1>0, BatchIn
  <2>2. \A v \in Workers : At(f[v], p) = 0
    BY <1>7
  <2>3. f \in [Workers -> Batches(InnerPoints)]
    BY <2>1, GenuineIn
  <2> HIDE DEF f
  <2>4. At(Inner!Total(f), p) = 0
    BY <2>2, <2>3, ConstantFacts, TotalSigns
  <2>. QED  BY <2>1, <2>4
<1>. QED  BY <1>8

\* What the nested scope reports is no news for B.
LEMMA RunsNews ==
    ASSUME NestedInv, NEW w, NEW upto, NEW upin, Ran(w, upto, upin)
    PROVE  News'
<1>0. /\ Typed /\ w \in Workers /\ upto \in Upto(mail, w) /\ schedule(w, upto, TRUE) /\ upin \in Upto(post, w)
      /\ Runs(w, Propagated(w, upto), upin) /\ upto \in Prefixes(w)
      /\ Propagated(w, upto) \in Batches(OuterPoints) /\ OuterBalance /\ Inside /\ News
  BY RunsSums DEF Ran, NestedInv
<1> DEFINE T == Propagated(w, upto)
           K == Knows(w, upto, upin)
           batch == Batch(w, upin)
           after == pushed_output(K)
           before == internals[w]
           R == Reported(batch, before, after)
<1>1. Balance(w, T, upto)
  BY <1>0, StepBalance
<1>2. /\ \A u \in Workers : tracker'[u] = IF u = w THEN T ELSE tracker[u]
      /\ \A u \in Workers : final'[u] = IF u = w THEN R ELSE final[u]
  <2>1. \A u \in Workers : tracker'[u] = IF u = w THEN T ELSE tracker[u]
    BY <1>0, ScheduleFacts
  <2>2. \A u \in Workers : final'[u] = IF u = w THEN R ELSE final[u]
    BY <1>0, RunsFacts
  <2>. QED  BY <2>1, <2>2
<1>3. batch \in Batches(InnerPoints) /\ batch \in Genuine /\ K \in Batches(InnerPoints)
  BY RunsSums
<1>4. /\ after \in SUBSET OuterTimes
      /\ \A s \in after : \E p \in Ports(InnerPoints, {PIn, POut}) : At(K, p) > 0 /\ p[2].outer = s
  BY <1>3, PushedFacts
<1>5. \A p \in InnerPoints : At(batch, p) # 0 => Outer!Implied(T, Out, p[2].outer)
  BY BatchNews
<1>6. \A p \in Ports(InnerPoints, {PIn, POut}) : At(K, p) = At(nested[w], p) + At(batch, p)
  BY KnowsFacts
<1>7. \A p \in Ports(InnerPoints, {PIn, POut}) : At(nested[w], p) > 0 => Outer!Implied(T, Out, p[2].outer)
  BY <1>0, <1>1, InsideImplied
<1>8. before \in SUBSET OuterTimes
  BY <1>0 DEF Typed
<1>9. T \in Batches(OuterPoints)
  BY <1>0
<1>10. \A p : At(nested[w], p) \in Int /\ At(batch, p) \in Int
  <2>1. nested[w] \in Batches(InnerPoints)
    BY <1>0 DEF Typed
  <2>. QED  BY <1>3, <2>1, BatchFacts
<1> HIDE DEF T, K, batch, after, before
<1>11. \A t \in OuterTimes :
              /\ At(R, <<A, t>>) = 0
              /\ At(R, <<In, t>>) = Across(batch, Source, t)
              /\ At(R, <<Out, t>>) = Has(after, t) - Has(before, t)
              /\ At(R, <<B, t>>) = Across(batch, Target, t)
  BY <1>3, <1>4, <1>8, ReportedFacts
<1> HIDE DEF R
<1>12. ASSUME NEW t \in OuterTimes, Outer!Implied(T, Out, t) PROVE Outer!Implied(T, B, t)
  <2>1. Out \in 1 .. 4 /\ B \in 1 .. 4 /\ Out <= B /\ t <= t
    BY PortFacts, ConstantFacts
  <2>. QED  BY <1>9, <1>12, <2>1, OuterLater
<1>13. ASSUME NEW t \in OuterTimes
       PROVE  /\ At(R, <<A, t>>) = 0 /\ At(R, <<In, t>>) <= 0
              /\ \A l \in {Out, B} : At(R, <<l, t>>) > 0 => Outer!Implied(T, B, t)
  <2>0. Source \in 1 .. 4 /\ Target \in 1 .. 4
    BY PortFacts
  <2>1. At(R, <<In, t>>) <= 0
    <3>1. \A p \in Line(Source, t) : At(batch, p) <= 0
      <4> TAKE p \in Line(Source, t)
      <4>1. p = <<Source, p[2]>> /\ p[2] \in InnerTimes
        BY <2>0, LineFacts
      <4>2. At(batch, <<Source, p[2]>>) <= 0
        BY <1>3, <4>1 DEF Genuine
      <4>. QED  BY <4>1, <4>2
    <3>2. Across(batch, Source, t) <= 0
      BY <1>3, <2>0, <3>1, AcrossFacts
    <3>. QED  BY <1>11, <3>2
  <2>2. ASSUME At(R, <<Out, t>>) > 0 PROVE Outer!Implied(T, Out, t)
    <3>0. At(R, <<Out, t>>) = Has(after, t) - Has(before, t)
      BY <1>11
    <3>1. t \in after
      BY <3>0, <2>2 DEF Has
    <3>2. PICK p \in Ports(InnerPoints, {PIn, POut}) : At(K, p) > 0 /\ p[2].outer = t
      BY <1>4, <3>1
    <3>5. At(K, p) = At(nested[w], p) + At(batch, p)
      BY <1>6, Zenon
    <3>6. At(nested[w], p) \in Int /\ At(batch, p) \in Int
      BY <1>10, Zenon
    <3>3. At(nested[w], p) > 0 \/ At(batch, p) # 0
      BY <3>5, <3>6, <3>2
    <3>4. p \in InnerPoints
      BY DEF Ports
    <3>. QED  BY <1>5, <1>7, <3>2, <3>3, <3>4
  <2>3. ASSUME At(R, <<B, t>>) > 0 PROVE Outer!Implied(T, Out, t)
    <3>1. Across(batch, Target, t) > 0
      BY <1>11, <2>3
    <3>2. PICK p \in Line(Target, t) : At(batch, p) > 0
      BY <1>3, <2>0, <3>1, AcrossFacts
    <3>3. p \in InnerPoints /\ p[2].outer = t
      BY DEF Line
    <3>4. At(batch, p) # 0
      BY <3>2
    <3>. QED  BY <1>5, <3>3, <3>4
  <2>. QED  BY <1>11, <1>12, <2>1, <2>2, <2>3
<1>14. ASSUME NEW u \in Workers, NEW t \in OuterTimes
       PROVE  /\ At(final'[u], <<A, t>>) = 0 /\ At(final'[u], <<In, t>>) <= 0
              /\ \A l \in {Out, B} : At(final'[u], <<l, t>>) > 0 => Outer!Implied(tracker'[u], B, t)
  <2>1. CASE u = w
    BY <1>2, <1>13, <2>1
  <2>2. CASE u # w
    BY <1>0, <1>2, <2>2 DEF News
  <2>. QED  BY <2>1, <2>2
<1>. QED  BY <1>14 DEF News

-----------------------------------------------------------------------------
(* A nested scope that is shut down.                                        *)

\* What is yet to come is a sum of batches none of which removes without having added.
LEMMA NothingComes ==
    ASSUME NEW w \in Workers, Settled(w), NEW v \in Workers
    PROVE  /\ \A p \in InnerPoints : At(Coming(v, w), p) = 0 /\ At(AllComing(w), p) = 0
           /\ within[v] = Inner!Nothing
<1>0. Typed /\ InnerBalance /\ (\A p \in InnerPoints : At(AllComing(w), p) >= 0)
      /\ \A p \in Ports(InnerPoints, {PIn, POut}) : At(nested[w], p) <= 0
  BY DEF Settled
<1> DEFINE f == [u \in Workers |-> Coming(u, w)]
<1>1. f \in [Workers -> Genuine] /\ AllComing(w) = Inner!Total(f)
  BY <1>0, SummedHolds DEF Summed, AllComing
<1>2. \A u \in Workers : f[u] = Coming(u, w)
  OBVIOUS
<1> HIDE DEF f
<1>3. \A p \in InnerPoints : At(Inner!Total(f), p) >= 0
  BY <1>0, <1>1
<1>4. Closed(InnerPoints)
  BY GenuineNothing
<1>5. \A u \in Workers : \A p \in InnerPoints : At(f[u], p) = 0
  BY <1>1, <1>3, <1>4, ConstantFacts, NothingBelow
<1>6. ASSUME NEW p \in InnerPoints PROVE At(AllComing(w), p) = 0
  <2>1. f \in [Workers -> Batches(InnerPoints)]
    BY <1>1, GenuineIn
  <2>2. \A u \in Workers : At(f[u], p) = 0
    BY <1>5
  <2>3. At(Inner!Total(f), p) = 0
    BY <2>1, <2>2, ConstantFacts, TotalSigns
  <2>. QED  BY <1>1, <2>3
<1>7. ASSUME NEW p PROVE At(within[v], p) = 0
  <2>1. /\ At(within[v], p) \in Nat /\ At(within[v], p) <= At(Truth, p) /\ At(Truth, p) \in Nat
        /\ At(within[v], p) > 0 => p \in Ports(InnerPoints, {PIn, POut})
    BY <1>0, TruthFacts
  <2>2. ASSUME p \in Ports(InnerPoints, {PIn, POut}) PROVE At(Truth, p) <= 0
    <3>1. At(nested[w], p) + At(AllComing(w), p) = At(Truth, p)
      BY <1>0, <2>2 DEF InnerBalance
    <3>2. At(AllComing(w), p) = 0
      BY <1>6, <2>2 DEF Ports
    <3>3. At(nested[w], p) <= 0 /\ At(nested[w], p) \in Int
      <4>1. nested[w] \in Batches(InnerPoints)
        BY <1>0 DEF Typed
      <4>. QED  BY <1>0, <2>2, <4>1, BatchFacts
    <3>. QED  BY <3>1, <3>2, <3>3
  <2>. QED  BY <2>1, <2>2
<1>8. within[v] = Inner!Nothing
  <2>1. within[v] \in Batches(Ports(InnerPoints, {PIn, POut}))
    BY <1>0, CountsIn DEF Typed
  <2>. QED  BY <1>7, <2>1, NothingFacts
<1>. QED  BY <1>2, <1>5, <1>6, <1>8

\* A nested scope that counts nothing, and hears of nothing, has nothing to come to it.
LEMMA SettledIsVacant ==
    ASSUME NEW w \in Workers, Settled(w)
    PROVE  Vacant(w)
<1>0. Typed
  BY DEF Settled
<1>1. ASSUME NEW v \in Workers
      PROVE  /\ within[v] = Inner!Nothing /\ entering[v] = Inner!Nothing /\ inner[v] = Inner!Nothing
             /\ shared[v]["P"] = Inner!Nothing
             /\ \A i \in DOMAIN post[v][w] : post[v][w][i] = Inner!Nothing
  <2>0. Closed(InnerPoints)
    BY GenuineNothing
  <2>1. within[v] = Inner!Nothing /\ \A p \in InnerPoints : At(Coming(v, w), p) = 0
    BY NothingComes
  <2> DEFINE s == post[v][w]
             h == harvest_inputs(v)
             c == shared[v]["P"]
             i == inner[v]
  <2>2. s \in Seq(Genuine) /\ i \in Genuine /\ c \in Genuine /\ h \in Genuine
    <3>1. s \in Seq(Genuine)
      BY <1>0 DEF Typed
    <3>2. i \in Genuine /\ c \in Genuine
      BY <1>0 DEF Typed
    <3>3. h \in Genuine
      BY <1>0, MadeHolds DEF Made
    <3>. QED  BY <3>1, <3>2, <3>3
  <2>3. Inner!Total(s) \in Genuine
    BY <2>2, SequenceGenuine
  <2>4. Coming(v, w) = Inner!Plus(Inner!Total(s), Mine(v)) /\ Mine(v) = Inner!Plus(i, Inner!Plus(h, c))
    BY DEF Coming, Mine
  <2>5. \A t \in InnerTimes : At(h, <<Source, t>>) = - At(entering[v], <<Source, t>>)
    BY <1>0, MadeHolds DEF Made
  <2> HIDE DEF s, h, c, i
  <2>6. Inner!Plus(h, c) \in Genuine
    BY <2>2, GenuinePlus
  <2>7. Mine(v) \in Genuine
    BY <2>2, <2>4, <2>6, GenuinePlus
  <2>8. \A p \in InnerPoints : At(Inner!Plus(Inner!Total(s), Mine(v)), p) >= 0
    BY <2>1, <2>4
  <2>9. \A p \in InnerPoints : At(Inner!Total(s), p) = 0 /\ At(Mine(v), p) = 0
    BY <2>0, <2>3, <2>7, <2>8, GenuinePlus
  <2>10. \A p \in InnerPoints : At(Inner!Plus(i, Inner!Plus(h, c)), p) >= 0
    BY <2>4, <2>9
  <2>11. \A p \in InnerPoints : At(i, p) = 0 /\ At(Inner!Plus(h, c), p) = 0
    BY <2>0, <2>2, <2>6, <2>10, GenuinePlus
  <2>12. \A p \in InnerPoints : At(Inner!Plus(h, c), p) >= 0
    BY <2>11
  <2>13. \A p \in InnerPoints : At(h, p) = 0 /\ At(c, p) = 0
    BY <2>0, <2>2, <2>12, GenuinePlus
  <2>14. i = Inner!Nothing /\ c = Inner!Nothing
    BY <2>2, <2>11, <2>13, GenuineNothing
  <2>15. entering[v] = Inner!Nothing
    <3>1. entering[v] \in Batches(Ports(InnerPoints, {Source}))
      BY <1>0, CountsIn DEF Typed
    <3>2. ASSUME NEW p \in Ports(InnerPoints, {Source}) PROVE At(entering[v], p) = 0
      <4>1. p \in InnerPoints /\ p[1] = Source
        BY DEF Ports
      <4>2. p = <<Source, p[2]>> /\ p[2] \in InnerTimes
        BY <4>1, InnerPointFacts
      <4>3. At(h, <<Source, p[2]>>) = - At(entering[v], <<Source, p[2]>>)
        BY <2>5, <4>2
      <4>4. At(h, p) = 0 /\ At(entering[v], p) \in Int
        BY <2>13, <3>1, <4>1, BatchFacts
      <4>5. At(h, p) = - At(entering[v], p)
        BY <4>2, <4>3
      <4>. QED  BY <4>4, <4>5
    <3>. QED  BY <3>1, <3>2, NothingFacts
  <2>16. ASSUME NEW j \in DOMAIN s PROVE s[j] = Inner!Nothing
    <3> DEFINE I == 1 .. Len(s)
    <3>1. s \in [I -> Genuine] /\ j \in I
      BY <2>2
    <3>2. IsFiniteSet(I)
      BY <2>2, SequenceGenuine, SequenceTotal
    <3> HIDE DEF I
    <3>3. \A p \in InnerPoints : At(Inner!Total(s), p) >= 0
      BY <2>9
    <3>4. \A p \in InnerPoints : At(s[j], p) = 0
      BY <2>0, <3>1, <3>2, <3>3, NothingBelow
    <3>. QED  BY <3>1, <3>4, GenuineNothing
  <2>. QED  BY <2>1, <2>14, <2>15, <2>16 DEF s, c, i
<1>. QED  BY <1>1 DEF Vacant

\* ... at every worker, as a closed formula.
LEMMA ShutHolds == Shut
<1>. QED  BY SettledIsVacant DEF Shut

\* The nested scope is settled when it is shut down.
LEMMA RunsSettled ==
    ASSUME NestedInv, NEW w, NEW upto, NEW upin, Ran(w, upto, upin),
           \A t \in OuterTimes : ~ Outer!Implied(Propagated(w, upto), In, t),
           Inner!Counted(Knows(w, upto, upin)) = {}
    PROVE  Settled(w)'
<1>0. /\ Typed /\ w \in Workers /\ upto \in Upto(mail, w) /\ schedule(w, upto, TRUE) /\ upin \in Upto(post, w)
      /\ Runs(w, Propagated(w, upto), upin) /\ InnerBalance /\ Typed'
      /\ Knows(w, upto, upin) \in Batches(InnerPoints) /\ AllComing(w)' \in Genuine /\ AllComing(w)' \in Batches(InnerPoints)
  BY RunsSums DEF Ran, NestedInv
<1> DEFINE K == Knows(w, upto, upin)
<1>1. nested'[w] = K
  BY <1>0, RunsFacts
<1>2. InnerBalance'
  BY <1>0, RunsInner
<1>3. \A p : At(K, p) \in Int /\ At(K, p) <= 0
  <2>1. \A p : At(K, p) \in Int /\ (At(K, p) # 0 <=> p \in DOMAIN K)
    BY <1>0, BatchFacts
  <2>2. \A p \in DOMAIN K : ~ K[p] > 0
    BY DEF Inner!Counted
  <2> HIDE DEF K
  <2>3. ASSUME NEW p, ~ At(K, p) <= 0 PROVE FALSE
    <3>1. p \in DOMAIN K /\ At(K, p) = K[p]
      BY <2>1, <2>3 DEF At
    <3>. QED  BY <2>1, <2>2, <2>3, <3>1
  <2>. QED  BY <2>1, <2>3
<1> HIDE DEF K
<1>4. ASSUME NEW p \in InnerPoints PROVE At(AllComing(w)', p) >= 0
  <2>0. p[1] \in 1 .. 4 /\ p[2] \in InnerTimes /\ p = <<p[1], p[2]>> /\ p[2].outer \in OuterTimes
    BY InnerPointFacts, ConstantFacts
  <2>1. At(AllComing(w)', p) \in Int
    BY <1>0, BatchFacts
  <2>2. CASE p[1] = Source
    <3>1. ASSUME At(AllComing(w)', p) < 0 PROVE FALSE
      <4>1. p \in Line(Source, p[2].outer)
        BY <2>2 DEF Line
      <4>. QED  BY <2>0, <3>1, <4>1, RunsEntry
    <3>. QED  BY <2>1, <3>1
  <2>3. CASE p \in Ports(InnerPoints, {PIn, POut})
    <3>1. At(nested'[w], p) + At(AllComing(w)', p) = At(Truth', p)
      BY <1>0, <1>2, <2>3 DEF InnerBalance
    <3>2. At(Truth', p) \in Nat
      <4>1. Truth' = Truth
        BY RunsSums
      <4>. QED  BY <1>0, <4>1, TruthFacts
    <3>3. At(nested'[w], p) \in Int /\ At(nested'[w], p) <= 0
      BY <1>1, <1>3
    <3>. QED  BY <2>1, <3>1, <3>2, <3>3
  <2>4. CASE p[1] = Target
    <3>1. At(AllComing(w)', <<Target, p[2]>>) >= 0
      BY <1>0, <2>0 DEF Genuine
    <3>. QED  BY <2>0, <2>4, <3>1
  <2>5. p[1] = Source \/ p[1] = PIn \/ p[1] = POut \/ p[1] = Target
    BY <2>0, PortFacts
  <2>. QED  BY <2>2, <2>3, <2>4, <2>5 DEF Ports
<1>. QED  BY <1>0, <1>1, <1>2, <1>3, <1>4 DEF Settled

\* What w knows of when the input of the nested scope is closed.
LEMMA RunsClosed ==
    ASSUME NestedInv, NEW w, NEW upto, NEW upin, Ran(w, upto, upin),
           \A t \in OuterTimes : ~ Outer!Implied(Propagated(w, upto), In, t),
           NEW v \in Workers, NEW t \in OuterTimes
    PROVE  cap(v, t)' = 0 /\ Know(v, w, 0, t)' = 0
<1>0. /\ Typed /\ w \in Workers /\ upto \in Upto(mail, w) /\ schedule(w, upto, TRUE) /\ Typed' /\ Caps /\ OuterBalance
      /\ upto \in Prefixes(w) /\ Propagated(w, upto) \in Batches(OuterPoints) /\ In \in 1 .. 4
  BY RunsSums, PortFacts DEF Ran, NestedInv
<1> DEFINE T == Propagated(w, upto)
           d == Ahead(w, upto, v, w)
<1>1. Balance(w, T, upto) /\ t <= t
  BY <1>0, ConstantFacts, StepBalance
<1>2. TRUE \in BOOLEAN
  OBVIOUS
<1>3. d = upto[v]
  BY DEF Ahead
<1>4. /\ d \in 0 .. Len(mail[v][w]) /\ Len(mail'[v][w]) \in Nat /\ Len(mail[v][w]) \in Nat
  BY <1>0, <1>2, StepComing
<1>5. 0 \in 0 .. Len(mail'[v][w]) /\ 0 + d = d /\ 0 + d <= Len(mail[v][w])
  <2> HIDE DEF d
  <2>. QED  BY <1>4
<1>6. /\ cap(v, t)' = cap(v, t) /\ cap(v, t) \in Nat
      /\ Know(v, w, 0, t)' = Know(v, w, 0 + d, t)
  BY <1>0, <1>2, <1>5, StepKnow
<1> HIDE DEF T, d
<1>7. ~ Outer!Implied(T, In, t)
  BY DEF T
<1>8. ASSUME cap(v, t) > 0 PROVE FALSE
  BY <1>0, <1>1, <1>7, <1>8, CapImplied DEF T
<1>9. 0 <= Know(v, w, upto[v], t) /\ Know(v, w, upto[v], t) \in Int
  <2>1. 0 <= Know(v, w, upto[v], t)
    BY <1>0, <1>1, Known DEF T
  <2>2. Know(v, w, upto[v], t) \in Int
    <3>1. upto[v] \in 0 .. Len(mail[v][w])
      BY <1>3, <1>4
    <3>2. ComingO(v, w, upto[v]) \in Honest
      BY <1>0, <3>1, SentHolds DEF Sent
    <3>3. At(ComingO(v, w, upto[v]), <<A, t>>) \in Int
      BY <3>2, HonestIn, BatchFacts
    <3>. QED  BY <1>6, <3>3 DEF Know
  <2>. QED  BY <2>1, <2>2
<1>10. ASSUME Know(v, w, upto[v], t) > 0 PROVE FALSE
  BY <1>0, <1>1, <1>7, <1>10, KnownImplied DEF T
<1>11. Know(v, w, upto[v], t) = 0
  BY <1>9, <1>10
<1>. QED  BY <1>3, <1>5, <1>6, <1>8, <1>11

\* A nested scope is shut down when nothing is in it, and nothing can come to it any more.
LEMMA RunsShut ==
    ASSUME NestedInv, NEW w, NEW upto, NEW upin, Ran(w, upto, upin), w \notin open'
    PROVE  GoneAt(w)'
<1>0. /\ Typed /\ w \in Workers /\ upto \in Upto(mail, w) /\ schedule(w, upto, TRUE) /\ upin \in Upto(post, w)
      /\ Runs(w, Propagated(w, upto), upin) /\ Propagated(w, upto) \in Batches(OuterPoints) /\ In \in 1 .. 4
  BY RunsSums, PortFacts DEF Ran
<1> DEFINE T == Propagated(w, upto)
           K == Knows(w, upto, upin)
<1>1. may_shut_down(T) /\ Inner!Counted(K) = {}
  <2>1. /\ w \in open
        /\ open' = IF may_shut_down(T) /\ Inner!Counted(K) = {} THEN open \ {w} ELSE open
    BY <1>0, RunsFacts
  <2> HIDE DEF T, K
  <2>. QED  BY <2>1
<1>2. \A t \in OuterTimes : ~ Outer!Implied(T, In, t)
  BY <1>0, <1>1, OuterFrontier DEF may_shut_down
<1>3. Settled(w)'
  BY <1>1, <1>2, RunsSettled
<1>4. Vacant(w)'
  <2>1. Shut'
    BY ShutHolds, PTL
  <2>. QED  BY <1>0, <1>3, <2>1 DEF Shut
<1>5. \A v \in Workers : \A t \in OuterTimes : cap(v, t)' = 0 /\ Know(v, w, 0, t)' = 0
  BY <1>2, RunsClosed
<1>6. tracker'[w] = T
  BY <1>0, TRUE \in BOOLEAN, ScheduleFacts
<1> HIDE DEF T, K
<1>. QED  BY <1>2, <1>4, <1>5, <1>6 DEF GoneAt, Vacant

\* A nested scope that is shut down stays without work, after another one ran.
LEMMA RunsGone ==
    ASSUME NestedInv, NEW w, NEW upto, NEW upin, Ran(w, upto, upin)
    PROVE  Gone'
<1>0. /\ Typed /\ w \in Workers /\ upto \in Upto(mail, w) /\ schedule(w, upto, TRUE) /\ upin \in Upto(post, w)
      /\ Runs(w, Propagated(w, upto), upin) /\ Typed' /\ Caps /\ OuterBalance /\ Gone
  BY RunsSums DEF Ran, NestedInv
<1>1. ASSUME NEW u \in Workers, u \notin open', u # w PROVE GoneAt(u)'
  <2>1. u \notin open
    <3>1. open' = IF may_shut_down(Propagated(w, upto)) /\ Inner!Counted(Knows(w, upto, upin)) = {} THEN open \ {w} ELSE open
      BY <1>0, RunsFacts
    <3>. QED  BY <1>1, <3>1
  <2>2. GoneAt(u)
    BY <1>0, <2>1 DEF Gone
  <2>3. \A v \in Workers : Mine(v) = Inner!Nothing
    BY <1>0, <2>2, GoneZero
  <2>4. ASSUME NEW v \in Workers
        PROVE  /\ entering'[v] = Inner!Nothing /\ inner'[v] = Inner!Nothing
               /\ shared'[v]["P"] = Inner!Nothing /\ post'[v][u] = post[v][u]
    <3>1. entering'[v] = IF v = w THEN Inner!Nothing ELSE entering[v]
      BY <1>0, RunsFacts
    <3>2. entering[v] = Inner!Nothing /\ inner[v] = Inner!Nothing /\ shared[v]["P"] = Inner!Nothing
      BY <2>2 DEF GoneAt
    <3>3. Mine(w) = Inner!Nothing
      BY <1>0, <2>3
    <3>4. \A p : /\ Mine(w) = Inner!Nothing /\ u # w => post'[v][u] = post[v][u]
                 /\ Mine(w) = Inner!Nothing => inner'[w] = Inner!Nothing
                 /\ v # w => inner'[v] = inner[v]
      BY RunsComing
    <3>5. shared'[v]["P"] = IF v = w /\ TRUE THEN Inner!Nothing ELSE shared[v]["P"]
      BY <1>0, TRUE \in BOOLEAN, ScheduleFacts
    <3>6. inner'[v] = Inner!Nothing
      BY <3>2, <3>3, <3>4
    <3>7. entering'[v] = Inner!Nothing /\ shared'[v]["P"] = Inner!Nothing
      BY <3>1, <3>2, <3>5
    <3>. QED  BY <1>1, <3>3, <3>4, <3>6, <3>7
  <2>5. TRUE \in BOOLEAN
    OBVIOUS
  <2>. QED  BY <1>0, <2>2, <2>4, <2>5, IdleGone
<1>2. w \notin open' => GoneAt(w)'
  BY RunsShut
<1>. QED  BY <1>0, <1>1, <1>2 DEF Gone

\* A step in which the nested scope runs keeps the invariant.
LEMMA RunsInv ==
    ASSUME NestedInv, NEW w, NEW upto, NEW upin, Ran(w, upto, upin)
    PROVE  NestedInv'
<1>0. /\ Typed /\ w \in Workers /\ upto \in Upto(mail, w) /\ schedule(w, upto, TRUE) /\ Typed' /\ Caps
      /\ TRUE \in BOOLEAN /\ InnerBalance /\ OuterBalance
  BY RunsSums DEF Ran, NestedInv
<1>1. InnerBalance' /\ OuterBalance'
  BY <1>0, RunsInner, RunsBalance
<1>2. Caps'
  BY <1>0, StepCaps
<1>3. Accepts' /\ Inside' /\ News' /\ Gone'
  BY RunsAccepts, RunsInside, RunsNews, RunsGone
<1>4. OuterCovered'
  BY <1>0, StepCovered
<1>. QED  BY <1>0, <1>1, <1>2, <1>3, <1>4 DEF NestedInv

-----------------------------------------------------------------------------
(* The beginning.                                                           *)

\* What the initial capabilities are.
LEMMA StartFacts ==
    ASSUME Init
    PROVE  /\ start.a \in SUBSET Workers /\ start.p \in SUBSET Workers
           /\ \A S \in {start.a, start.p} :
                 /\ Cardinality(S) \in Nat /\ (Cardinality(S) > 0 <=> S # {})
                 /\ Held(S) \in SUBSET OuterTimes /\ Cardinality(Held(S)) \in Nat
                 /\ S # {} => Held(S) = {0} /\ Cardinality(Held(S)) = 1
                 /\ S = {} => Held(S) = {} /\ Cardinality(Held(S)) = 0
<1>1. start.a \in SUBSET Workers /\ start.p \in SUBSET Workers
  BY NestedAssumption DEF Init, Start
<1>2. ASSUME NEW S \in SUBSET Workers
      PROVE  /\ Cardinality(S) \in Nat /\ (Cardinality(S) > 0 <=> S # {})
             /\ Held(S) \in SUBSET OuterTimes /\ Cardinality(Held(S)) \in Nat
             /\ S # {} => Held(S) = {0} /\ Cardinality(Held(S)) = 1
             /\ S = {} => Held(S) = {} /\ Cardinality(Held(S)) = 0
  <2>1. IsFiniteSet(S)
    BY ConstantFacts, FS_Subset
  <2>2. Cardinality(S) \in Nat /\ (Cardinality(S) = 0 <=> S = {})
    BY <2>1, FS_CardinalityType, FS_EmptySet
  <2>3. Cardinality({0}) = 1 /\ Cardinality({}) = 0
    BY FS_Singleton, FS_EmptySet
  <2>4. 0 \in OuterTimes
    BY ConstantFacts
  <2>5. CASE S = {}
    BY <2>2, <2>3, <2>5 DEF Held
  <2>6. CASE S # {}
    BY <2>2, <2>3, <2>4, <2>6 DEF Held
  <2>. QED  BY <2>5, <2>6
<1>. QED  BY <1>1, <1>2

\* A change of one point.
LEMMA LoneFacts ==
    ASSUME NEW P, NEW q \in P, NEW n \in Nat
    PROVE  /\ Outer!Change(q, n) \in Counts(P) /\ Inner!Change(q, n) \in Counts(P)
           /\ \A p : At(Outer!Change(q, n), p) = Lone(n, q, p) /\ At(Inner!Change(q, n), p) = Lone(n, q, p)
<1>1. n \in Int /\ 0 <= n
  OBVIOUS
<1>2. /\ Inner!Change(q, n) \in Batches(P)
      /\ \A p : At(Inner!Change(q, n), p) = IF p = q THEN n ELSE 0
  BY <1>1, ChangeFacts
<1>3. Outer!Change(q, n) = Inner!Change(q, n)
  BY SameCounts
<1>4. \A p : At(Inner!Change(q, n), p) >= 0
  BY <1>1, <1>2
<1>. QED  BY <1>2, <1>3, <1>4 DEF Counts, Lone

\* Nothing is recorded, or under way.
LEMMA InitComing ==
    ASSUME Init, Typed, NEW v \in Workers, NEW w \in Workers, NEW p
    PROVE  /\ Len(mail[v][w]) = 0 /\ At(Coming(v, w), p) = 0 /\ At(ComingO(v, w, 0), p) = 0
<1>0. \A q : At(Inner!Nothing, q) = 0 /\ At(Outer!Nothing, q) = 0
  BY NothingFacts, OuterFacts
<1>1. /\ inner[v] = Inner!Nothing /\ entering[v] = Inner!Nothing /\ local[v] = Outer!Nothing
      /\ shared[v]["P"] = Inner!Nothing /\ shared[v]["A"] = Outer!Nothing /\ shared[v]["B"] = Outer!Nothing
      /\ mail[v][w] = <<>> /\ post[v][w] = <<>>
  BY DEF Init, NoChange, Children
<1>2. At(MineO(v), p) = 0
  <2>1. At(MineO(v), p) = At(local[v], p) + (At(shared[v]["A"], p) + At(shared[v]["B"], p))
    BY MadeHolds DEF Made
  <2>. QED  BY <1>0, <1>1, <2>1
<1>3. At(Mine(v), p) = 0
  <2>1. harvest_inputs(v) = Inner!Nothing
    <3>1. DOMAIN Inner!Nothing = {}
      BY DEF Inner!Nothing
    <3>2. harvest_inputs(v) \in Genuine
      BY MadeHolds DEF Made
    <3>3. \A t \in InnerTimes :
              /\ At(harvest_inputs(v), <<Source, t>>) = - At(entering[v], <<Source, t>>)
              /\ At(harvest_inputs(v), <<PIn, t>>) = At(entering[v], <<Source, t>>)
              /\ At(harvest_inputs(v), <<POut, t>>) = 0 /\ At(harvest_inputs(v), <<Target, t>>) = 0
      BY MadeHolds DEF Made
    <3>4. ASSUME NEW q \in InnerPoints PROVE At(harvest_inputs(v), q) = 0
      <4>1. q[1] \in 1 .. 4 /\ q[2] \in InnerTimes /\ q = <<q[1], q[2]>>
        BY InnerPointFacts
      <4> DEFINE t == q[2]
      <4>2. /\ At(harvest_inputs(v), <<Source, t>>) = - At(entering[v], <<Source, t>>)
            /\ At(harvest_inputs(v), <<PIn, t>>) = At(entering[v], <<Source, t>>)
            /\ At(harvest_inputs(v), <<POut, t>>) = 0 /\ At(harvest_inputs(v), <<Target, t>>) = 0
        BY <3>3, <4>1
      <4>3. At(entering[v], <<Source, t>>) = 0
        BY <1>0, <1>1
      <4> HIDE DEF t
      <4>4. q = <<Source, t>> \/ q = <<PIn, t>> \/ q = <<POut, t>> \/ q = <<Target, t>>
        <5>1. q[1] = Source \/ q[1] = PIn \/ q[1] = POut \/ q[1] = Target
          BY <4>1, PortFacts
        <5>. QED  BY <4>1, <5>1 DEF t
      <4>5. /\ At(harvest_inputs(v), <<Source, t>>) = 0 /\ At(harvest_inputs(v), <<PIn, t>>) = 0
            /\ At(harvest_inputs(v), <<POut, t>>) = 0 /\ At(harvest_inputs(v), <<Target, t>>) = 0
        BY <4>2, <4>3
      <4>. QED  BY <4>4, <4>5
    <3>. QED  BY <3>2, <3>4, GenuineNothing
  <2>2. At(Mine(v), p) = At(inner[v], p) + (At(harvest_inputs(v), p) + At(shared[v]["P"], p))
    BY MadeHolds DEF Made
  <2>. QED  BY <1>0, <1>1, <2>1, <2>2
<1>4. At(Coming(v, w), p) = 0
  <2>1. At(Coming(v, w), p) = At(Inner!Total(post[v][w]), p) + At(Mine(v), p)
    BY SentHolds DEF Sent
  <2>2. At(Inner!Total(post[v][w]), p) = 0
    BY <1>0, <1>1, EmptyTotal
  <2>. QED  BY <1>3, <2>1, <2>2
<1>5. Len(mail[v][w]) = 0
  BY <1>1
<1>6. At(ComingO(v, w, 0), p) = 0
  <2>1. 0 \in 0 .. Len(mail[v][w])
    BY <1>5
  <2>2. At(ComingO(v, w, 0), p) = At(Outer!Total(SubSeq(mail[v][w], 0 + 1, Len(mail[v][w]))), p) + At(MineO(v), p)
    BY <2>1, SentHolds DEF Sent
  <2>3. SubSeq(mail[v][w], 0 + 1, Len(mail[v][w])) = <<>>
    BY <1>1, <1>5
  <2>4. Outer!Total(<<>>) = Outer!Nothing
    BY EmptyTotal, SameCounts
  <2>5. At(Outer!Total(SubSeq(mail[v][w], 0 + 1, Len(mail[v][w]))), p) = 0
    BY <1>0, <2>3, <2>4
  <2>. QED  BY <1>2, <2>2, <2>5
<1>. QED  BY <1>4, <1>5, <1>6

\* The counts of a worker at the start.
LEMMA InitBegun ==
    ASSUME Init, NEW v \in Workers
    PROVE  /\ alive[v] \in Counts(Ports(OuterPoints, {A, B})) /\ within[v] \in Counts(Ports(InnerPoints, {PIn, POut}))
           /\ tracker[v] \in Batches(OuterPoints) /\ nested[v] \in Batches(InnerPoints)
           /\ \A p : Begun(v, p)
<1>0. /\ <<A, 0>> \in Ports(OuterPoints, {A, B}) /\ <<A, 0>> \in OuterPoints /\ <<Out, 0>> \in OuterPoints
      /\ <<POut, to_inner(0)>> \in Ports(InnerPoints, {PIn, POut})
      /\ <<POut, to_inner(0)>> \in InnerPoints /\ <<Source, to_inner(0)>> \in InnerPoints
  BY PortMembers, ConstantFacts, PortFacts, OuterPointFacts
<1>1. /\ Cardinality(start.a) \in Nat /\ Cardinality(start.p) \in Nat
      /\ Cardinality(Held(start.a)) \in Nat /\ Cardinality(Held(start.p)) \in Nat
  BY StartFacts
<1>2. 1 \in Nat /\ 0 \in Nat
  OBVIOUS
<1> DEFINE cA == Outer!Change(<<A, 0>>, Cardinality(start.a))
           cO == Outer!Change(<<Out, 0>>, Cardinality(Held(start.p)))
           cP == Inner!Change(<<POut, to_inner(0)>>, Cardinality(start.p))
           cS == Inner!Change(<<Source, to_inner(0)>>, Cardinality(Held(start.a)))
<1>3. /\ cA \in Batches(OuterPoints) /\ cO \in Batches(OuterPoints)
      /\ \A p : At(cA, p) = Lone(Cardinality(start.a), <<A, 0>>, p)
      /\ \A p : At(cO, p) = Lone(Cardinality(Held(start.p)), <<Out, 0>>, p)
  BY <1>0, <1>1, LoneFacts, CountsIn
<1>4. /\ cP \in Batches(InnerPoints) /\ cS \in Batches(InnerPoints)
      /\ \A p : At(cP, p) = Lone(Cardinality(start.p), <<POut, to_inner(0)>>, p)
      /\ \A p : At(cS, p) = Lone(Cardinality(Held(start.a)), <<Source, to_inner(0)>>, p)
  BY <1>0, <1>1, LoneFacts, CountsIn
<1>5. tracker[v] = Outer!Plus(cA, cO) /\ nested[v] = Inner!Plus(cP, cS)
  BY DEF Init
<1> HIDE DEF cA, cO, cP, cS
<1>6. tracker[v] \in Batches(OuterPoints) /\ \A p : At(tracker[v], p) = At(cA, p) + At(cO, p)
  BY <1>3, <1>5, OuterFacts
<1>7. nested[v] \in Batches(InnerPoints) /\ \A p : At(nested[v], p) = At(cP, p) + At(cS, p)
  BY <1>4, <1>5, PlusFacts
<1>8. /\ alive[v] \in Counts(Ports(OuterPoints, {A, B}))
      /\ \A p : At(alive[v], p) = Lone(Has(start.a, v), <<A, 0>>, p)
  <2>0. Outer!Nothing = Inner!Nothing
    BY SameCounts
  <2>1. CASE v \in start.a
    <3>1. alive[v] = Outer!Change(<<A, 0>>, 1) /\ Has(start.a, v) = 1
      BY <2>1 DEF Init, Has
    <3>. QED  BY <1>0, <1>2, <3>1, LoneFacts
  <2>2. CASE v \notin start.a
    <3>1. alive[v] = Inner!Nothing /\ Has(start.a, v) = 0
      BY <2>0, <2>2 DEF Init, Has
    <3>. QED  BY <3>1, CountsNothing, NothingFacts DEF Lone
  <2>. QED  BY <2>1, <2>2
<1>9. /\ within[v] \in Counts(Ports(InnerPoints, {PIn, POut}))
      /\ \A p : At(within[v], p) = Lone(Has(start.p, v), <<POut, to_inner(0)>>, p)
  <2>1. CASE v \in start.p
    <3>1. within[v] = Inner!Change(<<POut, to_inner(0)>>, 1) /\ Has(start.p, v) = 1
      BY <2>1 DEF Init, Has
    <3>. QED  BY <1>0, <1>2, <3>1, LoneFacts
  <2>2. CASE v \notin start.p
    <3>1. within[v] = Inner!Nothing /\ Has(start.p, v) = 0
      BY <2>2 DEF Init, Has
    <3>. QED  BY <3>1, CountsNothing, NothingFacts DEF Lone
  <2>. QED  BY <2>1, <2>2
<1>. QED  BY <1>3, <1>4, <1>6, <1>7, <1>8, <1>9 DEF Begun

\* The types at the start.
LEMMA InitTyped ==
    ASSUME Init
    PROVE  Typed
<1>1. start \in Starts /\ open \in SUBSET Workers
  BY DEF Init
<1>2. /\ alive \in [Workers -> Counts(Ports(OuterPoints, {A, B}))]
      /\ within \in [Workers -> Counts(Ports(InnerPoints, {PIn, POut}))]
      /\ tracker \in [Workers -> Batches(OuterPoints)] /\ nested \in [Workers -> Batches(InnerPoints)]
  <2>1. /\ alive = [w \in Workers |-> alive[w]] /\ within = [w \in Workers |-> within[w]]
        /\ tracker = [w \in Workers |-> tracker[w]] /\ nested = [w \in Workers |-> nested[w]]
    BY DEF Init
  <2>2. \A v \in Workers :
            /\ alive[v] \in Counts(Ports(OuterPoints, {A, B})) /\ within[v] \in Counts(Ports(InnerPoints, {PIn, POut}))
            /\ tracker[v] \in Batches(OuterPoints) /\ nested[v] \in Batches(InnerPoints)
    BY InitBegun
  <2>. QED  BY <2>1, <2>2
<1>3. /\ Inner!Nothing \in Genuine /\ Outer!Nothing \in Honest /\ Outer!Nothing \in Batches(OuterPoints)
      /\ Inner!Nothing \in Counts(Ports(InnerPoints, {Source}))
  BY GenuineNothing, HonestNothing, OuterFacts, CountsNothing
<1>4. /\ shared \in [Workers -> [Children -> Genuine \cup Honest]]
      /\ \A w \in Workers : shared[w]["A"] \in Honest /\ shared[w]["B"] \in Honest /\ shared[w]["P"] \in Genuine
  <2>1. shared = [w \in Workers |-> NoChange]
    BY DEF Init
  <2>2. /\ NoChange \in [Children -> Genuine \cup Honest]
        /\ NoChange["A"] \in Honest /\ NoChange["B"] \in Honest /\ NoChange["P"] \in Genuine
    BY <1>3 DEF NoChange, Children
  <2> HIDE DEF NoChange
  <2>. QED  BY <2>1, <2>2
<1>5. entering \in [Workers -> Counts(Ports(InnerPoints, {Source}))] /\ local \in [Workers -> Honest]
      /\ inner \in [Workers -> Genuine] /\ final \in [Workers -> Batches(OuterPoints)]
  BY <1>3 DEF Init
<1>6. mail \in [Workers -> [Workers -> Seq(Honest)]] /\ post \in [Workers -> [Workers -> Seq(Genuine)]]
  BY DEF Init
<1>7. internals \in [Workers -> SUBSET OuterTimes]
  <2>1. internals = [w \in Workers |-> Held(start.p)] /\ Held(start.p) \in SUBSET OuterTimes
    BY StartFacts DEF Init
  <2> DEFINE H == Held(start.p)
  <2> HIDE DEF H
  <2>2. internals = [w \in Workers |-> H] /\ H \in SUBSET OuterTimes
    BY <2>1 DEF H
  <2>. QED  BY <2>2
<1>. QED  BY <1>1, <1>2, <1>3, <1>4, <1>5, <1>6, <1>7 DEF Typed

\* The sums over all workers.
LEMMA InitSums ==
    ASSUME Init, NEW w \in Workers, NEW p
    PROVE  /\ At(AllComing(w), p) = 0 /\ At(AllComingO(w, None), p) = 0
           /\ At(Truth, p) = Lone(Cardinality(start.p), <<POut, to_inner(0)>>, p)
           /\ At(TruthO, p) = Lone(Cardinality(start.a), <<A, 0>>, p)
           /\ AllComing(w) \in Batches(InnerPoints)
<1>0. Typed
  BY InitTyped
<1>1. AllComing(w) \in Batches(InnerPoints) /\ At(AllComing(w), p) = 0
  <2> DEFINE f == [v \in Workers |-> Coming(v, w)]
  <2>1. f \in [Workers -> Genuine] /\ AllComing(w) = Inner!Total(f)
    BY <1>0, SummedHolds DEF Summed, AllComing
  <2>2. \A v \in Workers : At(f[v], p) = 0
    BY <1>0, InitComing
  <2> HIDE DEF f
  <2>3. f \in [Workers -> Batches(InnerPoints)]
    BY <2>1, GenuineIn
  <2>. QED  BY <2>1, <2>2, <2>3, ConstantFacts, TotalSigns, TotalIn
<1>2. At(AllComingO(w, None), p) = 0
  <2> DEFINE f == [v \in Workers |-> ComingO(v, w, None[v])]
  <2>1. f \in [Workers -> Honest] /\ AllComingO(w, None) = Inner!Total(f)
    BY <1>0, NoneIn, SummedHolds, SameCounts DEF Summed, AllComingO
  <2>2. \A v \in Workers : At(f[v], p) = 0
    BY <1>0, InitComing DEF None
  <2> HIDE DEF f
  <2>3. f \in [Workers -> Batches(OuterPoints)]
    BY <2>1, HonestIn
  <2>. QED  BY <2>1, <2>2, <2>3, ConstantFacts, TotalSigns
<1>3. ASSUME NEW S \in SUBSET Workers, NEW P, NEW f \in [Workers -> Batches(P)], NEW q,
             \A v \in Workers : At(f[v], p) = Lone(Has(S, v), q, p)
      PROVE  At(Inner!Total(f), p) = Lone(Cardinality(S), q, p)
  <2>1. CASE p = q
    <3> DEFINE g == [v \in Workers |-> IF v \in S THEN 1 ELSE 0]
               h == [v \in Workers |-> At(f[v], p)]
    <3>1. At(Inner!Total(f), p) = SumFunctionOnSet(h, Workers)
      BY ConstantFacts, TotalAt
    <3>2. h = g
      BY <1>3, <2>1 DEF Lone, Has
    <3> HIDE DEF h
    <3>3. SumFunctionOnSet(g, Workers) = Cardinality(S)
      BY ConstantFacts, SumOnes
    <3>. QED  BY <2>1, <3>1, <3>2, <3>3 DEF Lone
  <2>2. CASE p # q
    <3>1. \A v \in Workers : At(f[v], p) = 0
      BY <1>3, <2>2 DEF Lone
    <3>2. At(Inner!Total(f), p) = 0
      BY <3>1, ConstantFacts, TotalSigns
    <3>. QED  BY <2>2, <3>2 DEF Lone
  <2>. QED  BY <2>1, <2>2
<1>4. start.a \in SUBSET Workers /\ start.p \in SUBSET Workers
  BY StartFacts
<1>5. At(Truth, p) = Lone(Cardinality(start.p), <<POut, to_inner(0)>>, p)
  <2>1. within \in [Workers -> Batches(InnerPoints)]
    BY <1>0, SummedHolds DEF Summed
  <2>2. \A v \in Workers : At(within[v], p) = Lone(Has(start.p, v), <<POut, to_inner(0)>>, p)
    BY InitBegun DEF Begun
  <2>. QED  BY <1>3, <1>4, <2>1, <2>2 DEF Truth
<1>6. At(TruthO, p) = Lone(Cardinality(start.a), <<A, 0>>, p)
  <2>1. alive \in [Workers -> Batches(OuterPoints)]
    BY <1>0, SummedHolds DEF Summed
  <2>2. \A v \in Workers : At(alive[v], p) = Lone(Has(start.a, v), <<A, 0>>, p)
    BY InitBegun DEF Begun
  <2>3. TruthO = Inner!Total(alive)
    BY SameCounts DEF TruthO
  <2>. QED  BY <1>3, <1>4, <2>1, <2>2, <2>3
<1>. QED  BY <1>1, <1>2, <1>5, <1>6

\* The balances at the start: every worker counts what all of them have.
LEMMA InitBalances ==
    ASSUME Init
    PROVE  InnerBalance /\ OuterBalance
<1>0. A # In /\ A # Out /\ A # B /\ Out # In /\ Out # B /\ Source # PIn /\ Source # POut
  BY PortFacts
<1>1. ASSUME NEW w \in Workers, NEW p \in Ports(InnerPoints, {PIn, POut})
      PROVE  At(nested[w], p) + At(AllComing(w), p) = At(Truth, p)
  <2>1. At(nested[w], p) = Lone(Cardinality(start.p), <<POut, to_inner(0)>>, p)
                              + Lone(Cardinality(Held(start.a)), <<Source, to_inner(0)>>, p)
    BY InitBegun DEF Begun
  <2>2. At(AllComing(w), p) = 0 /\ At(Truth, p) = Lone(Cardinality(start.p), <<POut, to_inner(0)>>, p)
    BY InitSums
  <2>3. Lone(Cardinality(Held(start.a)), <<Source, to_inner(0)>>, p) = 0
    <3>1. p[1] # Source
      BY <1>0 DEF Ports
    <3>. QED  BY <3>1 DEF Lone
  <2>4. Lone(Cardinality(start.p), <<POut, to_inner(0)>>, p) \in Int
    BY StartFacts DEF Lone
  <2>. QED  BY <2>1, <2>2, <2>3, <2>4
<1>2. ASSUME NEW w \in Workers
      PROVE  Balance(w, Outer!Plus(tracker[w], final[w]), None)
  <2> DEFINE K == Outer!Plus(tracker[w], final[w])
  <2>1. \A p : At(K, p) = At(tracker[w], p)
    <3>1. final[w] = Outer!Nothing /\ tracker[w] \in Batches(OuterPoints)
      BY InitBegun DEF Init
    <3>2. Outer!Nothing \in Batches(OuterPoints) /\ \A p : At(Outer!Nothing, p) = 0
      BY OuterFacts
    <3>3. \A p : At(K, p) = At(tracker[w], p) + At(final[w], p)
      BY <3>1, <3>2, OuterFacts
    <3>4. \A p : At(tracker[w], p) \in Int
      BY <3>1, BatchFacts
    <3>. QED  BY <3>1, <3>2, <3>3, <3>4
  <2> HIDE DEF K
  <2>2. \A p : At(AllComingO(w, None), p) = 0 /\ At(TruthO, p) = Lone(Cardinality(start.a), <<A, 0>>, p)
    BY InitSums
  <2>3. \A l \in 1 .. 4 : \A t \in OuterTimes : Across(AllComing(w), l, t) = 0
    <3>1. AllComing(w) \in Batches(InnerPoints) /\ \A p : At(AllComing(w), p) = 0
      BY InitSums
    <3>. QED  BY <3>1, AcrossFacts
  <2>4. /\ Cardinality(start.a) \in Nat /\ Cardinality(Held(start.p)) \in Nat
        /\ internals[w] = Held(start.p)
        /\ (Held(start.p) = {0} /\ Cardinality(Held(start.p)) = 1) \/ (Held(start.p) = {} /\ Cardinality(Held(start.p)) = 0)
    BY StartFacts DEF Init
  <2>5. ASSUME NEW t \in OuterTimes
        PROVE  /\ At(K, <<A, t>>) + At(AllComingO(w, None), <<A, t>>) = At(TruthO, <<A, t>>)
               /\ At(K, <<In, t>>) + At(AllComingO(w, None), <<In, t>>) + Across(AllComing(w), Source, t) = 0
               /\ At(K, <<B, t>>) + At(AllComingO(w, None), <<B, t>>) + Across(AllComing(w), Target, t) = At(TruthO, <<B, t>>)
               /\ At(K, <<Out, t>>) = IF t \in internals[w] THEN 1 ELSE 0
    <3>1. \A p : At(K, p) = Lone(Cardinality(start.a), <<A, 0>>, p) + Lone(Cardinality(Held(start.p)), <<Out, 0>>, p)
      BY <2>1, InitBegun DEF Begun
    <3>2. \A n \in Nat : /\ Lone(n, <<A, 0>>, <<A, t>>) \in Int /\ Lone(n, <<A, 0>>, <<In, t>>) = 0
                         /\ Lone(n, <<A, 0>>, <<Out, t>>) = 0 /\ Lone(n, <<A, 0>>, <<B, t>>) = 0
                         /\ Lone(n, <<Out, 0>>, <<A, t>>) = 0 /\ Lone(n, <<Out, 0>>, <<In, t>>) = 0
                         /\ Lone(n, <<Out, 0>>, <<B, t>>) = 0
      BY <1>0 DEF Lone
    <3>3. At(K, <<A, t>>) = Lone(Cardinality(start.a), <<A, 0>>, <<A, t>>) + 0 /\ At(K, <<In, t>>) = 0 + 0
          /\ At(K, <<B, t>>) = 0 + 0 /\ At(K, <<Out, t>>) = 0 + Lone(Cardinality(Held(start.p)), <<Out, 0>>, <<Out, t>>)
      BY <2>4, <3>1, <3>2
    <3>4. At(TruthO, <<A, t>>) = Lone(Cardinality(start.a), <<A, 0>>, <<A, t>>) /\ At(TruthO, <<B, t>>) = 0
      BY <2>2, <2>4, <3>2
    <3>5. Lone(Cardinality(start.a), <<A, 0>>, <<A, t>>) \in Int
      BY <2>4, <3>2
    <3>6. Across(AllComing(w), Source, t) = 0 /\ Across(AllComing(w), Target, t) = 0
      BY <2>3, PortFacts
    <3>7. Lone(Cardinality(Held(start.p)), <<Out, 0>>, <<Out, t>>) = IF t \in internals[w] THEN 1 ELSE 0
      <4>1. <<Out, t>> = <<Out, 0>> <=> t = 0
        OBVIOUS
      <4>. QED  BY <2>4, <4>1 DEF Lone
    <3>8. At(AllComingO(w, None), <<A, t>>) = 0 /\ At(AllComingO(w, None), <<In, t>>) = 0 /\ At(AllComingO(w, None), <<B, t>>) = 0
      BY <2>2
    <3>9. At(K, <<Out, t>>) = IF t \in internals[w] THEN 1 ELSE 0
      BY <3>3, <3>7
    <3>. QED  BY <3>3, <3>4, <3>5, <3>6, <3>8, <3>9
  <2>. QED  BY <2>5 DEF Balance, K
<1>. QED  BY <1>1, <1>2 DEF InnerBalance, OuterBalance, None

\* The capabilities of A are known at the start.
LEMMA InitCaps ==
    ASSUME Init
    PROVE  Caps
<1>1. ASSUME NEW v \in Workers, NEW w \in Workers, NEW k \in 0 .. Len(mail[v][w])
      PROVE  CapsAt(v, w, k)
  <2>1. \A p : Len(mail[v][w]) = 0 /\ At(ComingO(v, w, 0), p) = 0
    BY InitTyped, InitComing
  <2>2. k = 0
    BY <2>1
  <2>3. \A t \in OuterTimes : cap(v, t) \in Nat /\ t <= t
    <3>1. alive[v] \in Counts(Ports(OuterPoints, {A, B}))
      BY InitBegun
    <3>. QED  BY <3>1, CountsIn, ConstantFacts DEF cap
  <2>4. \A t \in OuterTimes : Know(v, w, 0, t) = cap(v, t)
    BY <2>1, <2>3 DEF Know
  <2>5. 0 .. 0 = {0}
    OBVIOUS
  <2>. QED  BY <2>1, <2>2, <2>3, <2>4, <2>5 DEF CapsAt
<1>. QED  BY <1>1 DEF Caps

\* The nested scope has accepted the capabilities of A at the start.
LEMMA InitAccepts ==
    ASSUME Init
    PROVE  Accepts
<1>0. A # In /\ A # Out /\ A # B /\ Out # In /\ Out # B /\ Source # PIn /\ Source # POut /\ A <= In /\ ~ Out <= In
      /\ A \in 1 .. 4 /\ In \in 1 .. 4 /\ Out \in 1 .. 4 /\ 0 \in OuterTimes /\ \A t \in OuterTimes : 0 <= t
  BY PortFacts, ConstantFacts
<1>1. ASSUME NEW w \in Workers, NEW s \in OuterTimes
      PROVE  At(nested[w], <<Source, to_inner(s)>>) > 0 <=> s = 0 /\ start.a # {}
  <2>1. At(nested[w], <<Source, to_inner(s)>>)
           = Lone(Cardinality(start.p), <<POut, to_inner(0)>>, <<Source, to_inner(s)>>)
                + Lone(Cardinality(Held(start.a)), <<Source, to_inner(0)>>, <<Source, to_inner(s)>>)
    BY InitBegun DEF Begun
  <2>2. Lone(Cardinality(start.p), <<POut, to_inner(0)>>, <<Source, to_inner(s)>>) = 0
    BY <1>0 DEF Lone
  <2>3. <<Source, to_inner(s)>> = <<Source, to_inner(0)>> <=> s = 0
    <3>1. to_inner(s).outer = s /\ to_inner(0).outer = 0
      BY DEF to_inner
    <3>. QED  BY <3>1
  <2>4. Cardinality(Held(start.a)) \in Nat /\ (Cardinality(Held(start.a)) > 0 <=> start.a # {})
    BY StartFacts
  <2>5. Lone(Cardinality(Held(start.a)), <<Source, to_inner(0)>>, <<Source, to_inner(s)>>)
           = IF s = 0 THEN Cardinality(Held(start.a)) ELSE 0
    BY <2>3 DEF Lone
  <2>. QED  BY <2>1, <2>2, <2>4, <2>5
<1>2. ASSUME NEW w \in Workers, NEW t \in OuterTimes
      PROVE  Acc(w, t) <=> start.a # {}
  BY <1>0, <1>1 DEF Acc
<1>3. ASSUME NEW w \in Workers, NEW t \in OuterTimes
      PROVE  Outer!Implied(tracker[w], In, t) <=> start.a # {}
  <2>0. tracker[w] \in Batches(OuterPoints)
    BY InitBegun
  <2>1. \A m \in 1 .. 4 : \A s \in OuterTimes :
            At(tracker[w], <<m, s>>) = Lone(Cardinality(start.a), <<A, 0>>, <<m, s>>)
                                        + Lone(Cardinality(Held(start.p)), <<Out, 0>>, <<m, s>>)
    BY InitBegun DEF Begun
  <2>2. Cardinality(start.a) \in Nat /\ (Cardinality(start.a) > 0 <=> start.a # {}) /\ Cardinality(Held(start.p)) \in Nat
    BY StartFacts
  <2>3. ASSUME NEW m \in 1 .. 4, NEW s \in OuterTimes, m <= In, s <= t, At(tracker[w], <<m, s>>) > 0
        PROVE  start.a # {}
    <3>1. Lone(Cardinality(Held(start.p)), <<Out, 0>>, <<m, s>>) = 0
      BY <1>0, <2>3 DEF Lone
    <3>2. At(tracker[w], <<m, s>>) = Lone(Cardinality(start.a), <<A, 0>>, <<m, s>>) + 0
      BY <2>1, <3>1
    <3>3. Lone(Cardinality(start.a), <<A, 0>>, <<m, s>>) = Cardinality(start.a)
          \/ Lone(Cardinality(start.a), <<A, 0>>, <<m, s>>) = 0
      BY DEF Lone
    <3>. QED  BY <2>2, <2>3, <3>2, <3>3
  <2>4. ASSUME start.a # {} PROVE At(tracker[w], <<A, 0>>) > 0
    <3>1. Lone(Cardinality(Held(start.p)), <<Out, 0>>, <<A, 0>>) = 0
      BY <1>0 DEF Lone
    <3>2. Lone(Cardinality(start.a), <<A, 0>>, <<A, 0>>) = Cardinality(start.a)
      BY DEF Lone
    <3>3. At(tracker[w], <<A, 0>>) = Cardinality(start.a) + 0
      BY <1>0, <2>1, <3>1, <3>2
    <3>. QED  BY <2>2, <2>4, <3>3
  <2>5. Outer!Implied(tracker[w], In, t) <=>
            \E m \in 1 .. 4 : \E s \in OuterTimes : m <= In /\ s <= t /\ At(tracker[w], <<m, s>>) > 0
    BY <1>0, <2>0, OuterImplied
  <2>. QED  BY <1>0, <2>3, <2>4, <2>5
<1>4. ASSUME NEW w \in Workers, NEW t \in OuterTimes
      PROVE  /\ \A p \in Line(Source, t) : At(AllComing(w), p) < 0 => Acc(w, t)
             /\ \A v \in Workers : cap(v, t) > 0 => Acc(w, t)
             /\ w \in open => (Acc(w, t) <=> Outer!Implied(tracker[w], In, t))
             /\ \A p \in Line(Source, t) : At(nested[w], p) # 0 => p = <<Source, to_inner(t)>>
  <2>1. \A p \in Line(Source, t) : ~ At(AllComing(w), p) < 0
    BY InitSums
  <2>2. ASSUME NEW v \in Workers, cap(v, t) > 0 PROVE start.a # {}
    <3>1. cap(v, t) = Lone(Has(start.a, v), <<A, 0>>, <<A, t>>)
      BY InitBegun DEF Begun, cap
    <3>. QED  BY <2>2, <3>1 DEF Lone, Has
  <2>3. ASSUME NEW p \in Line(Source, t), At(nested[w], p) # 0 PROVE p = <<Source, to_inner(t)>>
    <3>1. At(nested[w], p) = Lone(Cardinality(start.p), <<POut, to_inner(0)>>, p)
                              + Lone(Cardinality(Held(start.a)), <<Source, to_inner(0)>>, p)
      BY InitBegun DEF Begun
    <3>2. p[1] = Source /\ p[2].outer = t
      BY DEF Line
    <3>3. Lone(Cardinality(start.p), <<POut, to_inner(0)>>, p) = 0
      BY <1>0, <3>2 DEF Lone
    <3>4. p = <<Source, to_inner(0)>>
      BY <2>3, <3>1, <3>3 DEF Lone
    <3>5. to_inner(0).outer = 0 /\ p[2] = to_inner(0)
      BY <3>4 DEF to_inner
    <3>. QED  BY <3>2, <3>4, <3>5
  <2>. QED  BY <1>2, <1>3, <2>1, <2>2, <2>3
<1>. QED  BY <1>4 DEF Accepts

\* The invariant holds at the start.
LEMMA InitInv ==
    ASSUME Init
    PROVE  NestedInv
<1>0. /\ A \in 1 .. 4 /\ B \in 1 .. 4 /\ Out \in 1 .. 4 /\ Out <= B /\ 0 \in OuterTimes /\ 0 <= 0 /\ A <= A
      /\ Source # PIn /\ Source # POut /\ A # Out
  BY PortFacts, ConstantFacts
<1>1. \A w \in Workers : tracker[w] \in Batches(OuterPoints)
  BY InitBegun
<1>2. Inside
  <2>1. ASSUME NEW w \in Workers, NEW p \in Ports(InnerPoints, {PIn, POut}), At(nested[w], p) > 0
        PROVE  \E s \in internals[w] : s <= p[2].outer
    <3>1. At(nested[w], p) = Lone(Cardinality(start.p), <<POut, to_inner(0)>>, p)
                              + Lone(Cardinality(Held(start.a)), <<Source, to_inner(0)>>, p)
      BY InitBegun DEF Begun
    <3>2. Lone(Cardinality(Held(start.a)), <<Source, to_inner(0)>>, p) = 0
      <4>1. p[1] # Source
        BY <1>0 DEF Ports
      <4>. QED  BY <4>1 DEF Lone
    <3>3. Cardinality(start.p) \in Nat /\ (Cardinality(start.p) > 0 <=> start.p # {})
      BY StartFacts
    <3>4. Lone(Cardinality(start.p), <<POut, to_inner(0)>>, p) > 0
      BY <2>1, <3>1, <3>2, <3>3 DEF Lone
    <3>5. p = <<POut, to_inner(0)>> /\ Cardinality(start.p) > 0
      BY <3>4 DEF Lone
    <3>6. 0 \in internals[w]
      BY <3>3, <3>5 DEF Init, Held
    <3>7. p[2].outer = 0
      BY <3>5 DEF to_inner
    <3>. QED  BY <1>0, <3>6, <3>7
  <2>. QED  BY <2>1 DEF Inside
<1>3. OuterCovered
  <2>1. ASSUME NEW w \in Workers, NEW v \in Workers, NEW p \in OuterPoints, At(alive[v], p) > 0
        PROVE  Outer!Implied(tracker[w], p[1], p[2])
    <3>1. At(alive[v], p) = Lone(Has(start.a, v), <<A, 0>>, p)
      BY InitBegun DEF Begun
    <3>2. p = <<A, 0>> /\ v \in start.a
      BY <2>1, <3>1 DEF Lone, Has
    <3>3. At(tracker[w], <<A, 0>>) = Lone(Cardinality(start.a), <<A, 0>>, <<A, 0>>)
                                         + Lone(Cardinality(Held(start.p)), <<Out, 0>>, <<A, 0>>)
      BY InitBegun DEF Begun
    <3>4. Cardinality(start.a) \in Nat /\ Cardinality(start.a) > 0
      BY <3>2, StartFacts
    <3>5. Lone(Cardinality(start.a), <<A, 0>>, <<A, 0>>) = Cardinality(start.a)
          /\ Lone(Cardinality(Held(start.p)), <<Out, 0>>, <<A, 0>>) = 0
      BY <1>0 DEF Lone
    <3>6. At(tracker[w], <<A, 0>>) > 0
      BY <3>3, <3>4, <3>5
    <3>7. Outer!Implied(tracker[w], A, 0)
      BY <1>0, <1>1, <3>6, OuterImplied
    <3>. QED  BY <3>2, <3>7
  <2>2. ASSUME NEW w \in Workers, NEW v \in Workers, NEW p \in InnerPoints, At(within[v], p) > 0
        PROVE  Outer!Implied(tracker[w], B, p[2].outer)
    <3>1. At(within[v], p) = Lone(Has(start.p, v), <<POut, to_inner(0)>>, p)
      BY InitBegun DEF Begun
    <3>2. p = <<POut, to_inner(0)>> /\ v \in start.p
      BY <2>2, <3>1 DEF Lone, Has
    <3>3. At(tracker[w], <<Out, 0>>) = Lone(Cardinality(start.a), <<A, 0>>, <<Out, 0>>)
                                         + Lone(Cardinality(Held(start.p)), <<Out, 0>>, <<Out, 0>>)
      BY InitBegun DEF Begun
    <3>4. Cardinality(Held(start.p)) = 1
      BY <3>2, StartFacts
    <3>5. Lone(Cardinality(start.a), <<A, 0>>, <<Out, 0>>) = 0
          /\ Lone(Cardinality(Held(start.p)), <<Out, 0>>, <<Out, 0>>) = Cardinality(Held(start.p))
      BY <1>0 DEF Lone
    <3>6. At(tracker[w], <<Out, 0>>) > 0
      BY <3>3, <3>4, <3>5
    <3>7. Outer!Implied(tracker[w], B, 0)
      BY <1>0, <1>1, <3>6, OuterImplied
    <3>8. p[2].outer = 0
      BY <3>2 DEF to_inner
    <3>. QED  BY <3>7, <3>8
  <2>. QED  BY <2>1, <2>2 DEF OuterCovered
<1>4. Gone
  BY DEF Gone, Init
<1>5. News
  <2>1. \A w \in Workers : \A p : At(final[w], p) = 0
    BY OuterFacts DEF Init
  <2>. QED  BY <2>1 DEF News
<1>. QED  BY <1>2, <1>3, <1>4, <1>5, InitTyped, InitBalances, InitCaps, InitAccepts DEF NestedInv

-----------------------------------------------------------------------------
(* The invariant.                                                           *)

\* Every step preserves the invariant.
LEMMA NextInv ==
    ASSUME NestedInv, Next
    PROVE  NestedInv'
<1>1. ASSUME NEW w \in Workers, NEW v \in Workers, NEW t \in OuterTimes, send(w, t, v) PROVE NestedInv'
  BY <1>1, SendInv
<1>2. ASSUME NEW w \in Workers, NEW t \in OuterTimes, downgrade(w, t, {}) PROVE NestedInv'
  <2>1. {} \in SUBSET OuterTimes /\ (\A u \in {} : t <= u /\ t # u) /\ ({} = {} \/ \E u : {} = {u})
    OBVIOUS
  <2>. QED  BY <1>2, <2>1, DowngradeInv
<1>3. ASSUME NEW w \in Workers, NEW t \in OuterTimes, NEW u \in 0 .. start.time, Outer!less_than(t, u), downgrade(w, t, {u})
      PROVE  NestedInv'
  <2>1. u \in OuterTimes /\ t <= u /\ t # u
    <3>1. <<t, u>> \in OuterLeq /\ t # u
      BY <1>3 DEF Outer!less_than, Outer!less_equal
    <3>2. PICK d \in OuterTimes \X OuterTimes : d[1] <= d[2] /\ <<t, u>> = <<d[1], d[2]>>
      BY <3>1 DEF OuterLeq
    <3>. QED  BY <3>1, <3>2
  <2>2. {u} \in SUBSET OuterTimes /\ (\A x \in {u} : t <= x /\ t # x) /\ ({u} = {} \/ \E x : {u} = {x})
    BY <2>1
  <2>. QED  BY <1>3, <2>2, DowngradeInv
<1>4. ASSUME NEW w \in Workers, NEW t \in OuterTimes, consume(w, t) PROVE NestedInv'
  BY <1>4, ConsumeInv
<1>5. ASSUME NEW w \in Workers, NEW l \in {PIn, POut}, NEW t \in InnerTimes, handle(w, <<l, t>>) PROVE NestedInv'
  BY <1>5, HandleInv
<1>6. ASSUME NEW w \in Workers, NEW upto \in Upto(mail, w), schedule(w, upto, TRUE),
             NEW upin \in Upto(post, w), Runs(w, Propagated(w, upto), upin)
      PROVE  NestedInv'
  <2>1. Ran(w, upto, upin)
    BY <1>6 DEF Ran, NestedInv
  <2>. QED  BY <2>1, RunsInv
<1>7. ASSUME NEW w \in Workers, NEW upto \in Upto(mail, w), schedule(w, upto, FALSE), Rests(w, Propagated(w, upto))
      PROVE  NestedInv'
  BY <1>7, RestInv
<1>8. CASE User
  BY <1>1, <1>2, <1>3, <1>4, <1>5, <1>8 DEF User
<1>9. CASE \E w \in Workers : \E upto \in Upto(mail, w) : Step(w, upto)
  <2>1. PICK w \in Workers : \E upto \in Upto(mail, w) : Step(w, upto)
    BY <1>9
  <2>2. PICK upto \in Upto(mail, w) : Step(w, upto)
    BY <2>1
  <2>. QED  BY <1>6, <1>7, <2>2 DEF Step
<1>. QED  BY <1>8, <1>9 DEF Next

\* Nor does a step that changes nothing disturb it.
LEMMA StutterInv ==
    ASSUME NestedInv, UNCHANGED vars
    PROVE  NestedInv'
<1>1. UNCHANGED <<alive, within, shared, entering, local, inner, final, mail, post, tracker, nested, internals, open, start>>
  BY DEF vars
<1>2. \A v \in Workers : Mine(v)' = Mine(v) /\ MineO(v)' = MineO(v)
  BY <1>1 DEF Mine, MineO, harvest_inputs
<1>3. \A v, w \in Workers : /\ Coming(v, w)' = Coming(v, w)
                             /\ \A k : ComingO(v, w, k)' = ComingO(v, w, k)
  BY <1>1, <1>2 DEF Coming, ComingO
<1>4. \A w \in Workers : /\ AllComing(w)' = AllComing(w)
                          /\ \A k : AllComingO(w, k)' = AllComingO(w, k)
  BY <1>3 DEF AllComing, AllComingO
<1>5. Truth' = Truth /\ TruthO' = TruthO
  BY <1>1 DEF Truth, TruthO
<1>6. \A v \in Workers : \A t : cap(v, t)' = cap(v, t)
  BY <1>1 DEF cap
<1>7. \A v, w \in Workers : \A k, t : Know(v, w, k, t)' = Know(v, w, k, t)
  BY <1>3, <1>6 DEF Know
<1>8. \A w \in Workers : \A t : Acc(w, t)' = Acc(w, t)
  BY <1>1 DEF Acc
<1>9. Typed'
  BY <1>1 DEF NestedInv, Typed
<1>10. InnerBalance' /\ OuterBalance'
  <2>1. InnerBalance'
    BY <1>1, <1>4, <1>5 DEF NestedInv, InnerBalance
  <2>2. OuterBalance'
    BY <1>1, <1>4, <1>5 DEF NestedInv, OuterBalance, Balance
  <2>. QED  BY <2>1, <2>2
<1>11. Caps'
  BY <1>1, <1>3, <1>6, <1>7 DEF NestedInv, Caps, CapsAt
<1>12. Accepts'
  BY <1>1, <1>4, <1>6, <1>8 DEF NestedInv, Accepts
<1>13. Inside' /\ OuterCovered' /\ News'
  BY <1>1 DEF NestedInv, Inside, OuterCovered, News
<1>14. Gone'
  BY <1>1, <1>6, <1>7 DEF NestedInv, Gone, GoneAt
<1>. QED  BY <1>9, <1>10, <1>11, <1>12, <1>13, <1>14 DEF NestedInv

(* The invariant of a scope in a scope holds throughout, for any number of  *)
(* workers and of messages, and for times and rounds up to any bound.       *)
THEOREM NestedInvHolds == Spec => []NestedInv
<1>1. Init => NestedInv
  BY InitInv
<1>2. NestedInv /\ [Next]_vars => NestedInv'
  BY NextInv, StutterInv
<1>. QED  BY <1>1, <1>2, PTL DEF Spec

(* No frontier of either scope, at any worker, passes a capability or a     *)
(* message that is alive: the two trackers, the projection of inner         *)
(* pointstamps and the exchange of batches between workers together.        *)
THEOREM NestedSafeHolds == Spec => []NestedSafe
<1>1. NestedInv => NestedSafe
  BY InvImpliesSafe
<1>. QED  BY <1>1, NestedInvHolds, PTL

=============================================================================
