----------------------- MODULE ProgressProtocolProofs -----------------------
(***************************************************************************)
(* Proofs about ProgressProtocol, for every graph, every number of workers *)
(* and every bound: the inductive invariant, and from it that frontiers    *)
(* are safe, monotonic, and final when a tracker is empty, and that the    *)
(* protocol implements ProgressTracking.                                   *)
(***************************************************************************)
EXTENDS ProgressProtocol, FiniteSetTheorems, WellFoundedInduction, TLAPS

-----------------------------------------------------------------------------
(* Facts about numbers and cardinalities.                                   *)

\* A non-empty set of naturals has a least element.
LEMMA LeastNatural ==
    ASSUME NEW S \in SUBSET Nat, S # {}
    PROVE  \E m \in S : \A k \in S : m <= k
<1> DEFINE R == StrictSubsetOrdering(Nat)
           T == {0 .. n : n \in S}
<1>1. \A n \in S : IsFiniteSet(0 .. n) /\ 0 .. n \subseteq Nat
  BY FS_Interval
<1>2. T \subseteq FiniteSubsetsOf(Nat) /\ T # {}
  BY <1>1 DEF FiniteSubsetsOf
<1>3. PICK c \in T : \A d \in T : <<d, c>> \notin R
  <2>1. IsWellFoundedOn(R, FiniteSubsetsOf(Nat))
    BY FS_StrictSubsetOrderingWellFounded
  <2> QED  BY <1>2, <2>1, WFMin
<1>4. PICK m \in S : c = 0 .. m
  OBVIOUS
<1>5. ASSUME NEW k \in S, k < m  PROVE FALSE
  <2>1. 0 .. k \in T
    OBVIOUS
  <2>2. 0 .. k \subseteq 0 .. m /\ 0 .. k # 0 .. m
    BY <1>5
  <2>3. <<0 .. k, 0 .. m>> \in R
    BY <2>2, <1>1 DEF StrictSubsetOrdering
  <2> QED  BY <1>3, <1>4, <2>1, <2>3
<1> QED  BY <1>5

\* The numbers up to n are finitely many.
LEMMA FiniteUpto ==
    ASSUME NEW n \in Nat
    PROVE  IsFiniteSet(1 .. n)
  BY FS_Interval

\* The updates at a pointstamp are finitely many.
LEMMA AtFinite ==
    ASSUME TypeOK, NEW U, NEW d, NEW p
    PROVE  /\ IsFiniteSet(At(U, d, p))
           /\ Cardinality(At(U, d, p)) \in Nat
<1>1. Made = 1 .. Len(obj) /\ Len(obj) \in Nat
  BY DEF TypeOK, Made
<1>2. IsFiniteSet(Made)
  BY <1>1, FS_Interval
<1>3. At(U, d, p) \subseteq Made
  BY DEF At
<1> QED  BY <1>2, <1>3, FS_Subset, FS_CardinalityType

\* The cardinality of a disjoint union.
LEMMA DisjointUnion ==
    ASSUME NEW S, NEW T, IsFiniteSet(S), IsFiniteSet(T), S \cap T = {}
    PROVE  Cardinality(S \cup T) = Cardinality(S) + Cardinality(T)
<1>1. Cardinality(S \cup T)
          = Cardinality(S) + Cardinality(T) - Cardinality(S \cap T)
  BY FS_Union
<1>2. Cardinality(S \cap T) = 0
  BY FS_EmptySet
<1>3. Cardinality(S) \in Nat /\ Cardinality(T) \in Nat
  BY FS_CardinalityType
<1> QED  BY <1>1, <1>2, <1>3

\* Counts of disjoint batches add up.
LEMMA NetUnion ==
    ASSUME TypeOK, NEW U, NEW V, U \cap V = {}, NEW p
    PROVE  Net(U \cup V, p) = Net(U, p) + Net(V, p)
<1>1. ASSUME NEW d  PROVE
        Cardinality(At(U \cup V, d, p)) = Cardinality(At(U, d, p)) + Cardinality(At(V, d, p))
  <2>1. At(U \cup V, d, p) = At(U, d, p) \cup At(V, d, p)
    BY DEF At
  <2>2. At(U, d, p) \cap At(V, d, p) = {}
    BY DEF At
  <2>3. IsFiniteSet(At(U, d, p)) /\ IsFiniteSet(At(V, d, p))
    BY AtFinite
  <2> QED  BY <2>1, <2>2, <2>3, DisjointUnion
<1>2. Cardinality(At(U \cup V, 1, p)) = Cardinality(At(U, 1, p)) + Cardinality(At(V, 1, p))
  BY <1>1
<1>3. Cardinality(At(U \cup V, -1, p)) = Cardinality(At(U, -1, p)) + Cardinality(At(V, -1, p))
  BY <1>1
<1>4. /\ Cardinality(At(U, 1, p)) \in Nat /\ Cardinality(At(V, 1, p)) \in Nat
      /\ Cardinality(At(U, -1, p)) \in Nat /\ Cardinality(At(V, -1, p)) \in Nat
  BY AtFinite
<1> QED  BY <1>2, <1>3, <1>4 DEF Net

-----------------------------------------------------------------------------
(* Steps of an operator: Delayed, Retain and Give make objects from one     *)
(* they hold.                                                               *)

\* What the three have in common.
Grows(x) ==
    /\ obj' \in Seq(Object) /\ Len(obj') <= MaxObjects /\ Len(obj) <= Len(obj')
    /\ \A y \in Made : obj'[y] = obj[y]
    /\ \A y \in Made' \ Made :
          /\ obj'[y].from = x
          /\ <<obj[x].pt, obj'[y].pt>> \in Leq
          /\ obj'[y].pt \in CapPoints =>
                /\ obj'[y].home = obj[x].home
                /\ Owner[obj'[y].pt] = Owner[obj[x].pt]
          /\ obj'[y].pt \in CapPoints \/ obj'[y].pt # obj[x].pt
    /\ live' = live \cup (Made' \ Made)
    /\ shared' = [shared EXCEPT ![Holder(x)] = @ \cup ((Made' \ Made) \X {1})]
    /\ UNCHANGED <<local, log, pos, tracker, running>>

\* The objects made so far are numbered from 1 on.
LEMMA MadeIs == TypeOK => Made = 1 .. Len(obj) /\ Len(obj) \in Nat
  BY DEF TypeOK, Made

\* An object has a pointstamp, a worker and an operator.
LEMMA ObjType ==
    ASSUME TypeOK, NEW x \in Made
    PROVE  /\ obj[x] \in Object /\ x \in Nat
           /\ obj[x].pt \in Points /\ obj[x].home \in Workers
           /\ Owner[obj[x].pt] \in Operators /\ Holder(x) \in Agents
<1>1. obj[x] \in Object /\ x \in Nat
  BY MadeIs DEF TypeOK
<1>2. obj[x].pt \in Points /\ obj[x].home \in Workers
  BY <1>1 DEF Object
<1>3. \A p \in Points : Owner[p] \in Operators
  BY GraphAssumption DEF Owner, Points
<1> QED  BY <1>1, <1>2, <1>3 DEF Holder, Agents

\* There are finitely many initial capabilities.
LEMMA InitialLen == Len(InitialCaps) \in Nat
  BY ConfigAssumption

\* What is alive has been made.
LEMMA LiveMade == TypeOK => live \subseteq Made
  BY DEF TypeOK

\* A new object that Derive may be given.
Fits(x, new) ==
    /\ new \in Object
    /\ new.from = x
    /\ <<obj[x].pt, new.pt>> \in Leq
    /\ new.pt \in CapPoints => /\ new.home = obj[x].home
                               /\ Owner[new.pt] = Owner[obj[x].pt]
    /\ new.pt \in CapPoints \/ new.pt # obj[x].pt

\* Objects that are made from a live one come with their updates.
LEMMA DeriveGrows ==
    ASSUME TypeOK, NEW x \in live, NEW news \in Seq(Object), Derive(x, news),
           \A i \in 1 .. Len(news) : Fits(x, news[i]),
           UNCHANGED <<local, log, pos, tracker, running>>
    PROVE  Grows(x)
<1> DEFINE n == Len(obj)
           m == Len(news)
<1>1. /\ obj \in Seq(Object) /\ n \in Nat /\ m \in Nat
      /\ Made = 1 .. n
      /\ obj' = obj \o news
  BY MadeIs DEF Derive, TypeOK
<1>2. obj' \in Seq(Object) /\ Len(obj') = n + m
  BY <1>1
<1>3. Made' = 1 .. n + m
  BY <1>2 DEF Made
<1>4. Made' \ Made = n + 1 .. n + m
  BY <1>1, <1>3
<1>5. \A y \in Made : obj'[y] = obj[y]
  BY <1>1
<1>6. \A y \in Made' \ Made : y - n \in 1 .. m /\ obj'[y] = news[y - n]
  BY <1>1, <1>4
<1>7. {<<y, 1>> : y \in n + 1 .. n + m} = (Made' \ Made) \X {1}
  BY <1>4
<1>8. live' = live \cup (Made' \ Made)
  BY <1>4 DEF Derive
<1>9. shared' = [shared EXCEPT ![Holder(x)] = @ \cup ((Made' \ Made) \X {1})]
  BY <1>7 DEF Derive
<1>10. n + m <= MaxObjects
  BY DEF Derive
<1>11. \A y \in Made' \ Made :
          /\ obj'[y].from = x
          /\ <<obj[x].pt, obj'[y].pt>> \in Leq
          /\ obj'[y].pt \in CapPoints =>
                /\ obj'[y].home = obj[x].home
                /\ Owner[obj'[y].pt] = Owner[obj[x].pt]
          /\ obj'[y].pt \in CapPoints \/ obj'[y].pt # obj[x].pt
  BY <1>6 DEF Fits
<1> HIDE DEF n, m
<1>12. Len(obj') <= MaxObjects /\ Len(obj) <= Len(obj')
  BY <1>1, <1>2, <1>10 DEF n, m
<1> QED  BY <1>2, <1>5, <1>8, <1>9, <1>11, <1>12 DEF Grows

\* The hops of the graph, and the times of a location.
LEMMA HopFacts ==
    ASSUME NEW p \in Points, NEW q \in OutOf[p]
    PROVE  /\ q \in Points
           /\ <<p, q>> \in Leq
           /\ p \in CapPoints <=> q \notin CapPoints
           /\ p \notin CapPoints => Owner[p] = Owner[q]
<1>1. q \in Points /\ <<p, q>> \in Step
  BY DEF OutOf
<1> QED  BY <1>1, GraphAssumption

\* Earlier pointstamps are those of the same place at lesser times.
LEMMA EarlierFacts ==
    ASSUME NEW p \in Points, NEW q \in Earlier[p]
    PROVE  /\ q \in Points
           /\ <<q, p>> \in Leq
           /\ q \in CapPoints <=> p \in CapPoints
           /\ Owner[q] = Owner[p]
<1>1. q \in Points /\ q[1] = p[1]
  BY DEF Earlier
<1>2. <<q, p>> \in Leq
  BY GraphAssumption
<1> QED  BY <1>1, <1>2 DEF Owner, CapPoints

\* A delayed capability comes with its update.
LEMMA DelayedGrows ==
    ASSUME TypeOK, NEW x \in live, NEW p \in Points, Delayed(x, p)
    PROVE  Grows(x)
<1>1. obj[x] \in Object /\ x \in Nat
  BY ObjType, LiveMade
<1>2. <<obj[x].pt, p>> \in Leq /\ p \in CapPoints /\ Owner[p] = Owner[obj[x].pt]
  <2>1. CASE p = obj[x].pt
    BY <1>1, <2>1, GraphAssumption DEF Delayed, IsCap
  <2>2. CASE obj[x].pt \in Earlier[p]
    BY <1>1, <2>2, EarlierFacts DEF Delayed, IsCap
  <2> QED  BY <2>1, <2>2 DEF Delayed
<1>3. Fits(x, NewCap(x, p))
  BY <1>1, <1>2 DEF Fits, NewCap, Object
<1> DEFINE news == <<NewCap(x, p)>>
<1>4. news \in Seq(Object) /\ Len(news) = 1 /\ news[1] = NewCap(x, p)
  BY <1>3 DEF Fits
<1>5. \A i \in 1 .. Len(news) : Fits(x, news[i])
  BY <1>3, <1>4
<1>6. Derive(x, news) /\ UNCHANGED <<local, log, pos, tracker, running>>
  BY DEF Delayed
<1> QED  BY <1>4, <1>5, <1>6, DeriveGrows

\* A retained capability comes with its update.
LEMMA RetainGrows ==
    ASSUME TypeOK, NEW x \in live, NEW p \in Points, Retain(x, p)
    PROVE  Grows(x)
<1>1. obj[x] \in Object /\ x \in Nat /\ obj[x].pt \in Points
  BY ObjType, LiveMade
<1>2. PICK q \in OutOf[obj[x].pt] : p = q \/ q \in Earlier[p]
  BY DEF Retain
<1>3. /\ q \in Points
      /\ <<obj[x].pt, q>> \in Leq
      /\ q \in CapPoints
      /\ Owner[obj[x].pt] = Owner[q]
  BY <1>1, HopFacts DEF Retain, IsCap
<1>4. <<obj[x].pt, p>> \in Leq /\ p \in CapPoints /\ Owner[p] = Owner[obj[x].pt]
  <2>1. CASE p = q
    BY <1>3, <2>1
  <2>2. CASE q \in Earlier[p]
    BY <1>1, <1>3, <2>2, EarlierFacts, GraphAssumption
  <2> QED  BY <1>2, <2>1, <2>2
<1>5. Fits(x, NewCap(x, p))
  BY <1>1, <1>4 DEF Fits, NewCap, Object
<1> DEFINE news == <<NewCap(x, p)>>
<1>6. news \in Seq(Object) /\ Len(news) = 1 /\ news[1] = NewCap(x, p)
  BY <1>5 DEF Fits
<1>7. \A i \in 1 .. Len(news) : Fits(x, news[i])
  BY <1>5, <1>6
<1>8. Derive(x, news) /\ UNCHANGED <<local, log, pos, tracker, running>>
  BY DEF Retain
<1> QED  BY <1>6, <1>7, <1>8, DeriveGrows

\* Could-result-in is antisymmetric.
LEMMA LeqAntisymmetric ==
    ASSUME NEW p \in Points, NEW q \in Points, <<p, q>> \in Leq, <<q, p>> \in Leq
    PROVE  p = q
<1>1. PICK m \in {p, q} : \A r \in {p, q} : <<r, m>> \in Leq => r = m
  BY GraphAssumption
<1> QED  BY <1>1

\* Messages that are sent come with their updates.
LEMMA GiveGrows ==
    ASSUME TypeOK, NEW x \in live, Give(x)
    PROVE  Grows(x)
<1>1. obj[x] \in Object /\ x \in Nat /\ obj[x].pt \in Points
  BY ObjType, LiveMade
<1>2. PICK q \in Sessions(x) :
         \E order \in [1 .. Cardinality(OutOf[q]) -> OutOf[q]],
            to \in [1 .. Cardinality(OutOf[q]) -> Workers] :
            Derive(x, [i \in 1 .. Cardinality(OutOf[q]) |->
                          [pt |-> order[i], home |-> to[i], from |-> x]])
  BY DEF Give
<1> DEFINE targets == OutOf[q]
           copies == Cardinality(targets)
<1>3. q \in Points /\ q \in CapPoints /\ <<obj[x].pt, q>> \in Leq
  <2>1. CASE IsCap(x)
    BY <1>1, <2>1, GraphAssumption DEF Sessions, IsCap
  <2>2. CASE ~ IsCap(x)
    BY <1>1, <2>2, HopFacts DEF Sessions, IsCap
  <2> QED  BY <2>1, <2>2
<1>4. copies \in Nat
  BY <1>3, GraphAssumption, FS_CardinalityType
<1>5. PICK order \in [1 .. copies -> targets], to \in [1 .. copies -> Workers] :
         Derive(x, [i \in 1 .. copies |-> [pt |-> order[i], home |-> to[i], from |-> x]])
  BY <1>2
<1> DEFINE new(i) == [pt |-> order[i], home |-> to[i], from |-> x]
           news == [i \in 1 .. copies |-> new(i)]
<1>6. ASSUME NEW i \in 1 .. copies  PROVE Fits(x, new(i))
  <2>1. order[i] \in targets /\ to[i] \in Workers
    BY <1>5
  <2>2. order[i] \in Points /\ <<q, order[i]>> \in Leq /\ order[i] \notin CapPoints
    BY <1>3, <2>1, HopFacts
  <2>3. <<obj[x].pt, order[i]>> \in Leq
    BY <1>1, <1>3, <2>2, GraphAssumption
  <2>4. order[i] # obj[x].pt
    BY <1>3, <2>2, LeqAntisymmetric
  <2> QED  BY <1>1, <2>1, <2>2, <2>3, <2>4 DEF Fits, Object
<1>7. \A i \in 1 .. copies : news[i] = new(i) /\ new(i) \in Object
  BY <1>6 DEF Fits
<1> HIDE DEF copies, new
<1>8. news \in Seq(Object) /\ Len(news) = copies
  BY <1>4, <1>7
<1>9. \A i \in 1 .. Len(news) : Fits(x, news[i])
  BY <1>6, <1>7, <1>8
<1>10. Derive(x, news) /\ UNCHANGED <<local, log, pos, tracker, running>>
  BY <1>5 DEF Give, new, copies
<1> QED  BY <1>8, <1>9, <1>10, DeriveGrows

-----------------------------------------------------------------------------
(* Such a step preserves the invariant: what it makes is in no update yet.  *)

\* Updates that were sent are about objects that were made.
LEMMA SentMade ==
    ASSUME TypeOK, NEW v \in Workers
    PROVE  /\ Len(log[v]) \in Nat
           /\ \A i \in 1 .. Len(log[v]) : log[v][i] \subseteq Made \X {-1, 1}
           /\ \A k \in 0 .. Len(log[v]) : /\ Sent(v, k) \subseteq Made \X {-1, 1}
                                          /\ Sent(v, k) \subseteq AllSent(v)
           /\ AllSent(v) \subseteq Made \X {-1, 1}
<1>1. /\ Len(log[v]) \in Nat
      /\ \A i \in 1 .. Len(log[v]) : log[v][i] \subseteq Made \X {-1, 1}
  BY DEF TypeOK
<1>2. ASSUME NEW k \in 0 .. Len(log[v])
      PROVE  Sent(v, k) \subseteq Made \X {-1, 1} /\ Sent(v, k) \subseteq AllSent(v)
  BY <1>1 DEF Sent, AllSent
<1> QED  BY <1>1, <1>2 DEF AllSent

\* What a worker knows is what it started with and what some worker has sent.
LEMMA KnownSent ==
    ASSUME TypeOK, NEW w \in Workers
    PROVE  /\ \A v \in Workers : pos[w][v] \in 0 .. Len(log[v])
           /\ \A u \in Known(w) : u \in Seeds \/ \E v \in Workers : u \in AllSent(v)
<1>1. \A v \in Workers : pos[w][v] \in 0 .. Len(log[v])
  BY SentMade DEF TypeOK
<1>2. \A v \in Workers : Sent(v, pos[w][v]) \subseteq AllSent(v)
  BY <1>1, SentMade
<1> QED  BY <1>1, <1>2 DEF Known

\* A sequence over a set is one over a larger set.
LEMMA SeqMonotone ==
    ASSUME NEW A, NEW B, A \subseteq B, NEW s \in Seq(A)
    PROVE  s \in Seq(B)
  OBVIOUS

\* New objects are well formed.
LEMMA GrowsType ==
    ASSUME TypeOK, NEW x \in live, Grows(x)
    PROVE  /\ TypeOK'
           /\ Made \subseteq Made' /\ Made' = 1 .. Len(obj')
           /\ Len(obj') \in Nat /\ Len(obj) <= Len(obj')
<1>1. Made' = 1 .. Len(obj') /\ Made = 1 .. Len(obj)
      /\ Len(obj') \in Nat /\ Len(obj) \in Nat
  BY MadeIs DEF Grows, Made
<1>2. Made \subseteq Made'
  BY <1>1 DEF Grows
<1> DEFINE A == SUBSET (Made \X {-1, 1})
           B == SUBSET (Made' \X {-1, 1})
<1>3. A \subseteq B
  BY <1>2
<1>4. shared' \in [Agents -> B]
  <2>1. shared \in [Agents -> B] /\ (Made' \ Made) \X {1} \in B
    BY <1>3 DEF TypeOK
  <2> HIDE DEF B
  <2>2. \A a \in Agents : shared'[a] = shared[a] \/ shared'[a] = shared[a] \cup ((Made' \ Made) \X {1})
    BY DEF Grows, TypeOK
  <2>3. \A a \in Agents : shared'[a] \in B
    BY <2>1, <2>2 DEF B
  <2>4. DOMAIN shared' = Agents /\ shared' = [a \in Agents |-> shared'[a]]
    BY DEF Grows, TypeOK
  <2> QED  BY <2>3, <2>4
<1>5. local' \in [Workers -> B]
  BY <1>3 DEF Grows, TypeOK
<1>6. log' \in [Workers -> Seq(B)]
  <2>1. log' = log /\ log \in [Workers -> Seq(A)]
    BY DEF Grows, TypeOK
  <2> HIDE DEF A, B
  <2>2. \A w \in Workers : log[w] \in Seq(B)
    BY <1>3, <2>1, SeqMonotone
  <2> QED  BY <2>1, <2>2
<1>7. live' \in SUBSET Made'
  BY <1>2 DEF Grows, TypeOK
<1>8. obj' \in Seq(Object) /\ Len(obj') <= MaxObjects
  BY DEF Grows
<1>9. /\ pos' \in [Workers -> [Workers -> Nat]]
      /\ \A w, v \in Workers : pos'[w][v] <= Len(log'[v])
      /\ tracker' \in [Workers -> [Points -> Int]]
      /\ running' \in [Workers -> BOOLEAN]
  <2>1. pos' = pos /\ log' = log /\ tracker' = tracker /\ running' = running
    BY DEF Grows
  <2> QED  BY <2>1 DEF TypeOK
<1>10. TypeOK'
  BY <1>4, <1>5, <1>6, <1>7, <1>8, <1>9 DEF TypeOK
<1>11. Len(obj) <= Len(obj')
  BY DEF Grows
<1> QED  BY <1>1, <1>2, <1>10, <1>11

\* New objects have a parent that was alive.
LEMMA GrowsLineage ==
    ASSUME TypeOK, Lineage, NEW x \in live, Grows(x)
    PROVE  Lineage'
<1>1. /\ Made \subseteq Made' /\ Made' = 1 .. Len(obj') /\ Made = 1 .. Len(obj)
      /\ Len(obj') \in Nat /\ Len(obj) \in Nat /\ x \in Made
      /\ Len(InitialCaps) \in Nat /\ Len(obj) <= Len(obj')
  BY GrowsType, MadeIs, LiveMade, InitialLen
<1>2. \A y \in 1 .. Len(InitialCaps) : IsCap(y)'
  BY <1>1 DEF Lineage, Grows, IsCap
<1>3. ASSUME NEW y \in Made', y > Len(InitialCaps)
      PROVE  LET z == obj'[y].from
             IN  /\ z \in 1 .. y - 1
                 /\ <<obj'[z].pt, obj'[y].pt>> \in Leq
                 /\ IsCap(y)' => Holder(y)' = <<obj'[z].home, Owner[obj'[z].pt]>>
                 /\ IsCap(y)' \/ obj'[z].pt # obj'[y].pt
  <2>1. CASE y \in Made
    <3>1. obj'[y] = obj[y]
      BY <2>1 DEF Grows
    <3>2. obj[y].from \in 1 .. y - 1
      BY <1>3, <2>1 DEF Lineage
    <3>3. obj[y].from \in Made
      BY <1>1, <2>1, <3>2
    <3>4. obj'[obj[y].from] = obj[obj[y].from]
      BY <3>3 DEF Grows
    <3> QED  BY <1>3, <2>1, <3>1, <3>2, <3>4 DEF Lineage, IsCap, Holder
  <2>2. CASE y \notin Made
    <3>1. obj'[y].from = x /\ obj'[x] = obj[x]
      BY <1>1, <2>2 DEF Grows
    <3>2. x \in 1 .. y - 1
      BY <1>1, <2>2
    <3> QED  BY <1>1, <2>2, <3>1, <3>2 DEF Grows, IsCap, Holder
  <2> QED  BY <2>1, <2>2
<1>4. Len(InitialCaps) <= Len(obj')
  BY <1>1 DEF Lineage
<1> QED  BY <1>2, <1>3, <1>4 DEF Lineage, IsCap, Holder

\* The recorder of an old update is what it was.
LEMMA GrowsRecorder ==
    ASSUME TypeOK, Lineage, NEW x \in live, Grows(x), NEW u \in Made \X {-1, 1}
    PROVE  /\ Genuine(u)' <=> Genuine(u)
           /\ Genuine(u) => Recorder(u)' = Recorder(u)
<1>1. Made \subseteq Made' /\ u \in Made' \X {-1, 1}
  BY GrowsType
<1>2. Genuine(u)' <=> Genuine(u)
  BY <1>1 DEF Genuine, Grows
<1>3. obj'[u[1]] = obj[u[1]]
  BY DEF Grows
<1>4. ASSUME Genuine(u), u[2] = 1  PROVE Recorder(u)' = Recorder(u)
  <2>1. obj[u[1]].from \in Made
    <3>1. u[1] \in Made /\ u[1] > Len(InitialCaps)
      BY <1>4 DEF Genuine
    <3>2. obj[u[1]].from \in 1 .. u[1] - 1
      BY <3>1 DEF Lineage
    <3> QED  BY <3>1, <3>2, MadeIs
  <2>2. obj'[obj[u[1]].from] = obj[obj[u[1]].from]
    BY <2>1 DEF Grows
  <2> QED  BY <1>3, <1>4, <2>2 DEF Recorder, Holder
<1>5. ASSUME u[2] # 1  PROVE Recorder(u)' = Recorder(u)
  BY <1>3, <1>5 DEF Recorder, Holder
<1> QED  BY <1>2, <1>4, <1>5

\* An update about a new object: it is a birth, recorded by the holder of x.
LEMMA GrowsNew ==
    ASSUME TypeOK, Lineage, NEW x \in live, Grows(x),
           NEW u \in (Made' \ Made) \X {-1, 1}
    PROVE  /\ Genuine(u)' <=> u[2] = 1
           /\ u[2] = 1 => Recorder(u)' = Holder(x)
           /\ u[2] = 1 => u \in shared'[Holder(x)]
<1>1. u[1] \in Made' /\ u[1] \notin Made /\ u[1] > Len(InitialCaps)
  BY GrowsType, MadeIs, ConfigAssumption DEF Lineage
<1>2. u[1] \in live'
  BY <1>1 DEF Grows
<1>3. Genuine(u)' <=> u[2] = 1
  BY <1>1, <1>2 DEF Genuine
<1>4. obj'[u[1]].from = x /\ obj'[x] = obj[x]
  BY <1>1, LiveMade DEF Grows
<1>5. u[2] = 1 => Recorder(u)' = Holder(x)
  BY <1>4 DEF Recorder, Holder
<1>6. ASSUME u[2] = 1  PROVE u \in shared'[Holder(x)]
  <2>1. u \in (Made' \ Made) \X {1}
    BY <1>6
  <2>2. Holder(x) \in Agents
    BY ObjType, LiveMade
  <2> QED  BY <2>1, <2>2 DEF Grows, TypeOK
<1> QED  BY <1>3, <1>5, <1>6

\* The updates of new objects are genuine.
LEMMA GrowsInvented ==
    ASSUME TypeOK, Lineage, NothingInvented, NEW x \in live, Grows(x)
    PROVE  NothingInvented'
<1>1. local' = local /\ log' = log /\ \A w \in Workers : AllSent(w)' = AllSent(w)
  BY DEF Grows, AllSent, Sent
<1>2. \A w \in Workers : local[w] \cup AllSent(w) \subseteq Made \X {-1, 1}
  BY SentMade DEF TypeOK
<1>3. \A w \in Workers : \A u \in local'[w] \cup AllSent(w)' :
         Genuine(u)' /\ Recorder(u)'[1] = w
  BY <1>1, <1>2, GrowsRecorder DEF NothingInvented
<1>4. ASSUME NEW a \in Agents, NEW u \in shared'[a]
      PROVE  Genuine(u)' /\ Recorder(u)' = a
  <2>1. CASE u \in shared[a]
    <3>1. u \in Made \X {-1, 1} /\ Genuine(u) /\ Recorder(u) = a
      BY <2>1 DEF NothingInvented, TypeOK
    <3> QED  BY <3>1, GrowsRecorder
  <2>2. CASE u \notin shared[a]
    <3>1. a = Holder(x) /\ u \in (Made' \ Made) \X {1}
      BY <1>4, <2>2 DEF Grows, TypeOK
    <3>2. u \in (Made' \ Made) \X {-1, 1} /\ u[2] = 1
      BY <3>1
    <3> QED  BY <3>1, <3>2, GrowsNew
  <2> QED  BY <2>1, <2>2
<1>5. \A w \in Workers : \A i \in DOMAIN log'[w] : log'[w][i] # {}
  BY <1>1 DEF NothingInvented
<1> QED  BY <1>3, <1>4, <1>5 DEF NothingInvented

\* The updates of new objects are recorded.
LEMMA GrowsLost ==
    ASSUME TypeOK, Lineage, NothingLost, NEW x \in live, Grows(x)
    PROVE  NothingLost'
<1>1. local' = local /\ log' = log /\ \A w : AllSent(w)' = AllSent(w)
  BY DEF Grows, AllSent, Sent
<1>2. \A a \in Agents : shared[a] \subseteq shared'[a]
  BY DEF Grows, TypeOK
<1> SUFFICES ASSUME NEW u \in Made' \X {-1, 1}, Genuine(u)', NEW a, a = Recorder(u)'
             PROVE  u \in shared'[a] \cup local'[a[1]] \cup AllSent(a[1])'
  BY DEF NothingLost
<1>3. CASE u[1] \in Made
  <2>1. u \in Made \X {-1, 1}
    BY <1>3
  <2>2. Genuine(u) /\ Recorder(u)' = Recorder(u)
    BY <2>1, GrowsRecorder
  <2>3. u \in shared[Recorder(u)] \cup local[Recorder(u)[1]] \cup AllSent(Recorder(u)[1])
    BY <2>1, <2>2 DEF NothingLost
  <2>4. Recorder(u) \in Agents
    <3>1. u[2] = 1 => obj[u[1]].from \in Made
      <4>1. u[2] = 1 => obj[u[1]].from \in 1 .. u[1] - 1
        BY <1>3, <2>2 DEF Genuine, Lineage
      <4> QED  BY <1>3, <4>1, MadeIs
    <3> QED  BY <1>3, <3>1, ObjType DEF Recorder
  <2> QED  BY <1>1, <1>2, <2>2, <2>3, <2>4
<1>4. CASE u[1] \notin Made
  <2>1. u \in (Made' \ Made) \X {-1, 1}
    BY <1>4
  <2> QED  BY <2>1, GrowsNew
<1> QED  BY <1>3, <1>4

\* The updates of new objects are in one place.
LEMMA GrowsTwice ==
    ASSUME TypeOK, NothingTwice, NEW x \in live, Grows(x)
    PROVE  NothingTwice'
<1>1. local' = local /\ log' = log /\ \A w : AllSent(w)' = AllSent(w)
  BY DEF Grows, AllSent, Sent
<1>2. \A w \in Workers : local[w] \cup AllSent(w) \subseteq Made \X {-1, 1}
  BY SentMade DEF TypeOK
<1>3. \A a \in Agents : shared'[a] \subseteq shared[a] \cup ((Made' \ Made) \X {1})
  BY DEF Grows, TypeOK
<1>4. ASSUME NEW w \in Workers, NEW o \in Operators
      PROVE  shared'[<<w, o>>] \cap (local'[w] \cup AllSent(w)') = {}
  <2>1. <<w, o>> \in Agents
    BY DEF Agents
  <2>2. shared[<<w, o>>] \cap (local[w] \cup AllSent(w)) = {}
    BY DEF NothingTwice
  <2>3. ((Made' \ Made) \X {1}) \cap (local[w] \cup AllSent(w)) = {}
    BY <1>2
  <2> QED  BY <1>1, <1>3, <2>1, <2>2, <2>3
<1> QED  BY <1>1, <1>4 DEF NothingTwice

\* A closed set of genuine updates stays closed: x is alive.
LEMMA GrowsClosed ==
    ASSUME TypeOK, NEW x \in live, Grows(x), NEW S, Closed(S),
           \A u \in S : Genuine(u)
    PROVE  \A y, z \in Made' : /\ <<y, -1>> \in S
                               /\ z > Len(InitialCaps)
                               /\ y = obj'[z].from \/ (y = z /\ obj'[y].pt \in CapPoints)
                               => <<z, 1>> \in S
<1> SUFFICES ASSUME NEW y \in Made', NEW z \in Made', <<y, -1>> \in S,
                    z > Len(InitialCaps),
                    y = obj'[z].from \/ (y = z /\ obj'[y].pt \in CapPoints)
             PROVE  <<z, 1>> \in S
  OBVIOUS
<1>1. y \in Made /\ y \notin live
  BY DEF Genuine
<1>2. z \in Made
  BY <1>1 DEF Grows
<1>3. obj'[z] = obj[z] /\ obj'[y] = obj[y]
  BY <1>1, <1>2 DEF Grows
<1> QED  BY <1>1, <1>2, <1>3 DEF Closed, IsCap

\* Batches stay consistent cuts when objects are made.
LEMMA GrowsConsistent ==
    ASSUME TypeOK, NothingInvented, Consistent, NEW x \in live, Grows(x)
    PROVE  Consistent'
<1>1. local' = local /\ log' = log
  BY DEF Grows
<1>2. \A w \in Workers : AllSent(w)' = AllSent(w) /\ \A k : Sent(w, k)' = Sent(w, k)
  BY <1>1 DEF AllSent, Sent
<1>3. ASSUME NEW w \in Workers, NEW k \in 0 .. Len(log[w])
      PROVE  Closed(Sent(w, k))'
  <2>1. \A u \in Sent(w, k) : Genuine(u)
    BY SentMade DEF NothingInvented
  <2>2. Closed(Sent(w, k))
    BY DEF Consistent
  <2> QED  BY <1>1, <2>1, <2>2, GrowsClosed, ZenonT(30) DEF Closed, IsCap, Sent
<1>4. ASSUME NEW w \in Workers  PROVE Closed(local[w] \cup AllSent(w))'
  <2>1. \A u \in local[w] \cup AllSent(w) : Genuine(u)
    BY DEF NothingInvented
  <2>2. Closed(local[w] \cup AllSent(w))
    BY DEF Consistent
  <2> QED  BY <1>1, <1>2, <2>1, <2>2, GrowsClosed DEF Closed, IsCap
<1> QED  BY <1>1, <1>3, <1>4 DEF Consistent

\* A worker knows of nothing that was not made.
LEMMA KnownMade ==
    ASSUME TypeOK, Lineage, NEW w \in Workers
    PROVE  Known(w) \subseteq Made \X {-1, 1}
<1>1. Seeds \subseteq Made \X {-1, 1}
  BY MadeIs, InitialLen DEF Seeds, Lineage
<1> QED  BY <1>1, KnownSent, SentMade

\* New objects do not change what trackers count.
LEMMA GrowsTracker ==
    ASSUME TypeOK, Lineage, TrackerIsSum, NEW x \in live, Grows(x)
    PROVE  TrackerIsSum'
<1> SUFFICES ASSUME NEW w \in Workers, NEW p \in Points
             PROVE  tracker'[w][p] = Net(Known(w), p)'
  BY DEF TrackerIsSum
<1>1. Known(w)' = Known(w) /\ tracker' = tracker
  BY DEF Grows, Known, Sent
<1>2. ASSUME NEW d  PROVE {y \in Made' : obj'[y].pt = p /\ <<y, d>> \in Known(w)} = At(Known(w), d, p)
  <2>1. \A y : <<y, d>> \in Known(w) => y \in Made
    BY KnownMade
  <2>2. Made \subseteq Made' /\ \A y \in Made : obj'[y] = obj[y]
    BY GrowsType DEF Grows
  <2> QED  BY <2>1, <2>2 DEF At
<1>3. Net(Known(w), p)' = Net(Known(w), p)
  BY <1>1, <1>2 DEF Net, At
<1> QED  BY <1>1, <1>3 DEF TrackerIsSum

\* Making objects from a live one preserves the invariant.
LEMMA GrowsInductive ==
    ASSUME IndInv, NEW x \in live, Grows(x)
    PROVE  IndInv'
  BY GrowsType, GrowsLineage, GrowsInvented, GrowsLost, GrowsTwice,
     GrowsConsistent, GrowsTracker DEF IndInv

-----------------------------------------------------------------------------
(* The other steps leave obj as it is, and with it the lineage and the      *)
(* recorder of every update.                                                *)

\* Each update is recorded by one operator of one worker.
LEMMA RecorderType ==
    ASSUME TypeOK, Lineage, NEW u, Genuine(u)
    PROVE  /\ u[1] \in Made /\ u[2] \in {-1, 1} /\ u = <<u[1], u[2]>>
           /\ Recorder(u) \in Agents
           /\ Recorder(u)[1] \in Workers /\ Recorder(u)[2] \in Operators
           /\ Recorder(u) = <<Recorder(u)[1], Recorder(u)[2]>>
<1>1. u[1] \in Made /\ u[2] \in {-1, 1} /\ u = <<u[1], u[2]>>
  BY DEF Genuine
<1>2. u[2] = 1 => obj[u[1]].from \in Made
  <2>1. u[2] = 1 => obj[u[1]].from \in 1 .. u[1] - 1
    BY <1>1 DEF Genuine, Lineage
  <2> QED  BY <1>1, <2>1, MadeIs
<1>3. Recorder(u) \in Agents
  BY <1>1, <1>2, ObjType DEF Recorder
<1> QED  BY <1>1, <1>3 DEF Agents

\* Dropping a capability, or consuming a message, preserves the invariant.
LEMMA ReleaseInductive ==
    ASSUME IndInv, NEW x \in live, Release(x)
    PROVE  IndInv'
<1> USE DEF IndInv
<1>1. /\ obj' = obj /\ local' = local /\ log' = log /\ pos' = pos
      /\ tracker' = tracker /\ running' = running /\ live' = live \ {x}
      /\ Made' = Made
  BY DEF Release, Made
<1>2. /\ Holder(x) \in Agents /\ x \in Made
      /\ \A a \in Agents : /\ shared[a] \subseteq shared'[a]
                           /\ a # Holder(x) => shared'[a] = shared[a]
      /\ shared'[Holder(x)] = shared[Holder(x)] \cup {<<x, -1>>}
      /\ shared' \in [Agents -> SUBSET (Made \X {-1, 1})]
  <2>1. Holder(x) \in Agents /\ x \in Made
    BY ObjType, LiveMade
  <2> QED  BY <2>1 DEF Release, TypeOK
<1>3. TypeOK'
  BY <1>1, <1>2 DEF TypeOK
<1>4. Lineage'
  BY <1>1 DEF Lineage, IsCap, Holder
<1>5. \A u : Genuine(u)' <=> Genuine(u) \/ u = <<x, -1>>
  BY <1>1, <1>2 DEF Genuine
<1>6. \A u : Recorder(u)' = Recorder(u)
  BY <1>1 DEF Recorder, Holder
<1>7. \A w : AllSent(w)' = AllSent(w) /\ \A k : Sent(w, k)' = Sent(w, k)
  BY <1>1 DEF AllSent, Sent
<1>8. Recorder(<<x, -1>>) = Holder(x) /\ ~ Genuine(<<x, -1>>)
  BY DEF Recorder, Genuine
<1>9. NothingInvented'
  <2>1. ASSUME NEW a \in Agents, NEW u \in shared'[a]
        PROVE  Genuine(u)' /\ Recorder(u)' = a
    <3>1. u \in shared[a] \/ (u = <<x, -1>> /\ a = Holder(x))
      BY <1>2
    <3> QED  BY <3>1, <1>5, <1>6, <1>8 DEF NothingInvented
  <2>2. \A w \in Workers : \A u \in local'[w] \cup AllSent(w)' :
           Genuine(u)' /\ Recorder(u)'[1] = w
    BY <1>1, <1>5, <1>6, <1>7 DEF NothingInvented
  <2>3. \A w \in Workers : \A i \in DOMAIN log'[w] : log'[w][i] # {}
    BY <1>1 DEF NothingInvented
  <2> QED  BY <2>1, <2>2, <2>3 DEF NothingInvented
<1>10. NothingLost'
  <2> SUFFICES ASSUME NEW u \in Made' \X {-1, 1}, Genuine(u)', NEW a, a = Recorder(u)'
               PROVE  u \in shared'[a] \cup local'[a[1]] \cup AllSent(a[1])'
    BY DEF NothingLost
  <2>1. CASE u = <<x, -1>>
    BY <1>2, <1>6, <1>8, <2>1
  <2>2. CASE Genuine(u)
    BY <1>1, <1>2, <1>6, <1>7, <2>2, RecorderType DEF NothingLost
  <2> QED  BY <1>5, <2>1, <2>2
<1>11. NothingTwice'
  <2>1. ASSUME NEW w \in Workers, NEW o \in Operators
        PROVE  shared'[<<w, o>>] \cap (local[w] \cup AllSent(w)) = {}
    <3>1. <<w, o>> \in Agents
      BY DEF Agents
    <3>2. <<x, -1>> \notin local[w] \cup AllSent(w)
      BY <1>8 DEF NothingInvented
    <3>3. shared[<<w, o>>] \cap (local[w] \cup AllSent(w)) = {}
      BY DEF NothingTwice
    <3> QED  BY <1>2, <3>1, <3>2, <3>3
  <2> QED  BY <1>1, <1>7, <2>1 DEF NothingTwice
<1>12. Consistent'
  BY <1>1, <1>7 DEF Consistent, Closed, IsCap
<1>13. TrackerIsSum'
  <2>1. \A w : Known(w)' = Known(w)
    BY <1>1, <1>7 DEF Known
  <2> QED  BY <1>1, <2>1 DEF TrackerIsSum, Net, At
<1> QED  BY <1>3, <1>4, <1>9, <1>10, <1>11, <1>12, <1>13

\* Moving the updates of an operator to its worker preserves the invariant.
LEMMA ExtractInductive ==
    ASSUME IndInv, NEW w \in Workers, NEW o \in Operators, Extract(w, o)
    PROVE  IndInv'
<1> USE DEF IndInv
<1>1. /\ obj' = obj /\ live' = live /\ log' = log /\ pos' = pos
      /\ tracker' = tracker /\ running' = running /\ Made' = Made
  BY DEF Extract, Made
<1>2. /\ <<w, o>> \in Agents
      /\ shared'[<<w, o>>] = {}
      /\ \A a \in Agents : a # <<w, o>> => shared'[a] = shared[a]
      /\ shared' \in [Agents -> SUBSET (Made \X {-1, 1})]
  BY DEF Extract, TypeOK, Agents
<1>3. /\ local'[w] = local[w] \cup shared[<<w, o>>]
      /\ \A v \in Workers : v # w => local'[v] = local[v]
      /\ local' \in [Workers -> SUBSET (Made \X {-1, 1})]
  BY <1>2 DEF Extract, TypeOK
<1>4. TypeOK'
  BY <1>1, <1>2, <1>3 DEF TypeOK
<1>5. Lineage'
  BY <1>1 DEF Lineage, IsCap, Holder
<1>6. \A u : (Genuine(u)' <=> Genuine(u)) /\ Recorder(u)' = Recorder(u)
  BY <1>1 DEF Genuine, Recorder, Holder
<1>7. \A v : AllSent(v)' = AllSent(v) /\ \A k : Sent(v, k)' = Sent(v, k)
  BY <1>1 DEF AllSent, Sent
<1>8. NothingInvented'
  <2>1. ASSUME NEW a \in Agents, NEW u \in shared'[a]
        PROVE  Genuine(u)' /\ Recorder(u)' = a
    BY <1>2, <1>6 DEF NothingInvented
  <2>2. ASSUME NEW v \in Workers, NEW u \in local'[v] \cup AllSent(v)'
        PROVE  Genuine(u)' /\ Recorder(u)'[1] = v
    <3>1. u \in local[v] \cup AllSent(v) \/ (u \in shared[<<w, o>>] /\ v = w)
      BY <1>3, <1>7
    <3> QED  BY <1>2, <1>6, <3>1 DEF NothingInvented
  <2>3. \A v \in Workers : \A i \in DOMAIN log'[v] : log'[v][i] # {}
    BY <1>1 DEF NothingInvented
  <2> QED  BY <2>1, <2>2, <2>3 DEF NothingInvented
<1>9. NothingLost'
  <2> SUFFICES ASSUME NEW u \in Made' \X {-1, 1}, Genuine(u)', NEW a, a = Recorder(u)'
               PROVE  u \in shared'[a] \cup local'[a[1]] \cup AllSent(a[1])'
    BY DEF NothingLost
  <2>1. a \in Agents /\ a[1] \in Workers /\ Genuine(u) /\ a = Recorder(u)
    BY <1>6, RecorderType
  <2>2. u \in shared[a] \cup local[a[1]] \cup AllSent(a[1])
    BY <1>1, <2>1 DEF NothingLost
  <2>3. CASE a = <<w, o>>
    BY <1>2, <1>3, <1>7, <2>2, <2>3
  <2>4. CASE a # <<w, o>>
    BY <1>2, <1>3, <1>7, <2>1, <2>2, <2>4
  <2> QED  BY <2>3, <2>4
<1>10. NothingTwice'
  <2>1. ASSUME NEW v \in Workers, NEW q \in Operators
        PROVE  shared'[<<v, q>>] \cap (local'[v] \cup AllSent(v)) = {}
    <3>1. <<v, q>> \in Agents
      BY DEF Agents
    <3>2. shared[<<v, q>>] \cap (local[v] \cup AllSent(v)) = {}
      BY DEF NothingTwice
    <3>3. <<v, q>> # <<w, o>> => shared[<<v, q>>] \cap shared[<<w, o>>] = {}
      BY <1>2, <3>1 DEF NothingInvented
    <3>4. CASE <<v, q>> = <<w, o>>
      BY <1>2, <3>4
    <3>5. CASE <<v, q>> # <<w, o>>
      <4>1. shared'[<<v, q>>] = shared[<<v, q>>]
        BY <1>2, <3>1, <3>5
      <4>2. local'[v] \subseteq local[v] \cup shared[<<w, o>>]
        BY <1>3
      <4> QED  BY <3>2, <3>3, <3>5, <4>1, <4>2
    <3> QED  BY <3>4, <3>5
  <2>2. ASSUME NEW v \in Workers  PROVE local'[v] \cap AllSent(v) = {}
    BY <1>3 DEF NothingTwice
  <2> QED  BY <1>1, <1>7, <2>1, <2>2 DEF NothingTwice
<1>11. Consistent'
  <2>1. ASSUME NEW v \in Workers  PROVE Closed(local'[v] \cup AllSent(v))
    <3>1. Closed(local[v] \cup AllSent(v))
      BY DEF Consistent
    <3>2. CASE v # w
      BY <1>3, <3>1, <3>2
    <3>3. CASE v = w
      <4> SUFFICES ASSUME NEW x \in Made, NEW y \in Made,
                          <<x, -1>> \in local'[w] \cup AllSent(w),
                          y > Len(InitialCaps),
                          x = obj[y].from \/ (x = y /\ IsCap(x))
                   PROVE  <<y, 1>> \in local'[w] \cup AllSent(w)
        BY <3>3 DEF Closed
      <4>1. CASE <<x, -1>> \in local[w] \cup AllSent(w)
        BY <1>3, <3>1, <3>3, <4>1 DEF Closed
      <4>2. CASE <<x, -1>> \in shared[<<w, o>>]
        <5>1. Recorder(<<x, -1>>) = <<w, o>> /\ Recorder(<<x, -1>>) = Holder(x)
          BY <1>2, <4>2 DEF NothingInvented, Recorder
        <5>2. Genuine(<<y, 1>>)
          BY DEF Genuine
        <5>3. Recorder(<<y, 1>>) = Holder(x)
          BY DEF Recorder, Lineage
        <5>4. <<y, 1>> \in shared[<<w, o>>] \cup local[w] \cup AllSent(w)
          BY <5>1, <5>2, <5>3 DEF NothingLost
        <5> QED  BY <1>3, <5>4
      <4> QED  BY <1>3, <4>1, <4>2
    <3> QED  BY <3>2, <3>3
  <2> QED  BY <1>1, <1>7, <2>1 DEF Consistent, Closed, IsCap
<1>12. TrackerIsSum'
  <2>1. \A v : Known(v)' = Known(v)
    BY <1>1, <1>7 DEF Known
  <2> QED  BY <1>1, <2>1 DEF TrackerIsSum, Net, At
<1> QED  BY <1>4, <1>5, <1>8, <1>9, <1>10, <1>11, <1>12

\* A batch of which some count is not zero is not empty.
LEMMA NetOfNothing == \A p : Net({}, p) = 0
<1>1. \A d, p : At({}, d, p) = {}
  BY DEF At
<1> QED  BY <1>1, FS_EmptySet DEF Net

\* A union of one more set.
LEMMA UnionStep ==
    ASSUME NEW n \in Nat, NEW s
    PROVE  \A e : e \in UNION {s[i] : i \in 1 .. n + 1}
                  <=> e \in UNION {s[i] : i \in 1 .. n} \/ e \in s[n + 1]
<1>1. 1 .. n + 1 = (1 .. n) \cup {n + 1}
  OBVIOUS
<1> DEFINE In(m, e) == \E i \in 1 .. m : e \in s[i]
<1>2. \A m, e : e \in UNION {s[i] : i \in 1 .. m} <=> In(m, e)
  OBVIOUS
<1>3. \A e : In(n + 1, e) <=> In(n, e) \/ e \in s[n + 1]
  BY <1>1
<1> HIDE DEF In
<1> QED  BY <1>2, <1>3

\* Sending a batch of updates to all workers preserves the invariant.
LEMMA EndScheduleInductive ==
    ASSUME IndInv, NEW w \in Workers, EndSchedule(w)
    PROVE  IndInv'
<1> USE DEF IndInv
<1>1. /\ obj' = obj /\ live' = live /\ shared' = shared /\ pos' = pos
      /\ tracker' = tracker /\ Made' = Made
  BY DEF EndSchedule, Made
<1>2. \A u : (Genuine(u)' <=> Genuine(u)) /\ Recorder(u)' = Recorder(u)
  BY <1>1 DEF Genuine, Recorder, Holder
<1>3. Lineage'
  BY <1>1 DEF Lineage, IsCap, Holder
<1>4. running' \in [Workers -> BOOLEAN]
  BY DEF EndSchedule, TypeOK
<1>5. CASE log' = log /\ local' = local
  <2>1. TypeOK'
    BY <1>1, <1>4, <1>5 DEF TypeOK
  <2>2. \A v : AllSent(v)' = AllSent(v) /\ \A k : Sent(v, k)' = Sent(v, k)
    BY <1>5 DEF AllSent, Sent
  <2>3. NothingInvented' /\ NothingLost'
    BY <1>1, <1>2, <1>5, <2>2 DEF NothingInvented, NothingLost
  <2>4. NothingTwice' /\ Consistent'
    BY <1>1, <1>5, <2>2 DEF NothingTwice, Consistent, Closed, IsCap
  <2>5. \A v : Known(v)' = Known(v)
    BY <1>1, <2>2 DEF Known
  <2>6. TrackerIsSum'
    BY <1>1, <2>5 DEF TrackerIsSum, Net, At
  <2> QED  BY <1>3, <2>1, <2>3, <2>4, <2>6
<1>6. CASE /\ log' = [log EXCEPT ![w] = Append(@, local[w])]
           /\ local' = [local EXCEPT ![w] = {}]
           /\ \E p \in Points : Net(local[w], p) # 0
  <2>1. local[w] # {}
    BY <1>6, NetOfNothing
  <2> DEFINE n == Len(log[w])
             B == SUBSET (Made \X {-1, 1})
  <2>2. /\ log \in [Workers -> Seq(B)] /\ local \in [Workers -> B] /\ n \in Nat
    BY DEF TypeOK
  <2> HIDE DEF B
  <2>3. /\ log'[w] = Append(log[w], local[w])
        /\ log' \in [Workers -> Seq(B)]
        /\ \A v \in Workers : v # w => log'[v] = log[v]
    BY <1>6, <2>2
  <2>4. /\ Len(log'[w]) = n + 1
        /\ log'[w][n + 1] = local[w]
        /\ \A i \in 1 .. n : log'[w][i] = log[w][i]
    BY <2>2, <2>3
  <2>5. /\ local'[w] = {}
        /\ local' \in [Workers -> B]
        /\ \A v \in Workers : v # w => local'[v] = local[v]
    BY <1>6, <2>2 DEF B
  <2>6. ASSUME NEW v \in Workers
        PROVE  Len(log'[v]) \in Nat /\ Len(log[v]) \in Nat /\ Len(log[v]) <= Len(log'[v])
    <3>1. Len(log[v]) \in Nat
      BY <2>2
    <3>2. CASE v = w
      BY <2>2, <2>4, <3>2
    <3>3. CASE v # w
      BY <2>3, <3>1, <3>3
    <3> QED  BY <3>2, <3>3
  <2>7. TypeOK'
    <3>1. \A v, x \in Workers : pos'[v][x] <= Len(log'[x])
      <4>1. \A v, x \in Workers : pos[v][x] \in Nat /\ pos[v][x] <= Len(log[x])
        BY DEF TypeOK
      <4> QED  BY <1>1, <2>6, <4>1
    <3>2. log' \in [Workers -> Seq(SUBSET (Made' \X {-1, 1}))]
      BY <1>1, <2>3 DEF B
    <3>3. local' \in [Workers -> SUBSET (Made' \X {-1, 1})]
      BY <1>1, <2>5 DEF B
    <3> QED  BY <1>1, <1>4, <3>1, <3>2, <3>3 DEF TypeOK
  <2>8. ASSUME NEW v \in Workers, NEW k \in 0 .. Len(log[v])  PROVE Sent(v, k)' = Sent(v, k)
    <3>1. \A i \in 1 .. k : log'[v][i] = log[v][i]
      BY <2>3, <2>4, <2>6
    <3> QED  BY <3>1 DEF Sent
  <2>9. \A v \in Workers : v # w => AllSent(v)' = AllSent(v)
    BY <2>3 DEF AllSent, Sent
  <2>10. AllSent(w)' = AllSent(w) \cup local[w]
    <3>1. AllSent(w)' = UNION {log'[w][i] : i \in 1 .. n + 1}
      BY <2>4 DEF AllSent, Sent
    <3>2. AllSent(w) = UNION {log'[w][i] : i \in 1 .. n}
      BY <2>4 DEF AllSent, Sent
    <3>3. \A e : e \in AllSent(w)' <=> e \in AllSent(w) \/ e \in local[w]
      BY <2>2, <2>4, <3>1, <3>2, UnionStep
    <3> QED  BY <3>3
  <2>11. \A v \in Workers : local'[v] \cup AllSent(v)' = local[v] \cup AllSent(v)
    BY <2>5, <2>9, <2>10
  <2>12. NothingInvented'
    <3>1. ASSUME NEW v \in Workers, NEW i \in DOMAIN log'[v]  PROVE log'[v][i] # {}
      <4>1. CASE v # w
        BY <2>3, <4>1 DEF NothingInvented
      <4>2. CASE v = w
        <5>1. i \in 1 .. n \/ i = n + 1
          BY <2>2, <2>3, <2>4, <4>2
        <5>2. \A j \in 1 .. n : log[w][j] # {}
          BY <2>2 DEF NothingInvented
        <5> QED  BY <2>1, <2>4, <4>2, <5>1, <5>2
      <4> QED  BY <4>1, <4>2
    <3>2. \A a \in Agents : \A u \in shared'[a] : Genuine(u)' /\ Recorder(u)' = a
      BY <1>1, <1>2 DEF NothingInvented
    <3>3. \A v \in Workers : \A u \in local'[v] \cup AllSent(v)' :
             Genuine(u)' /\ Recorder(u)'[1] = v
      BY <1>2, <2>11 DEF NothingInvented
    <3> QED  BY <3>1, <3>2, <3>3 DEF NothingInvented
  <2>13. NothingLost'
    <3> SUFFICES ASSUME NEW u \in Made' \X {-1, 1}, Genuine(u)', NEW a, a = Recorder(u)'
                 PROVE  u \in shared'[a] \cup local'[a[1]] \cup AllSent(a[1])'
      BY DEF NothingLost
    <3>1. a[1] \in Workers /\ Genuine(u) /\ a = Recorder(u)
      BY <1>2, RecorderType
    <3>2. u \in shared[a] \cup local[a[1]] \cup AllSent(a[1])
      BY <1>1, <3>1 DEF NothingLost
    <3> QED  BY <1>1, <2>11, <3>1, <3>2
  <2>14. NothingTwice'
    <3>1. \A v \in Workers : \A o \in Operators :
             shared'[<<v, o>>] \cap (local'[v] \cup AllSent(v)') = {}
      BY <1>1, <2>11 DEF NothingTwice
    <3>2. \A v \in Workers : local'[v] \cap AllSent(v)' = {}
      BY <2>5, <2>9 DEF NothingTwice
    <3>3. ASSUME NEW v \in Workers, NEW i \in DOMAIN log'[v], NEW j \in DOMAIN log'[v], i # j
          PROVE  log'[v][i] \cap log'[v][j] = {}
      <4>1. CASE v # w
        BY <2>3, <3>3, <4>1 DEF NothingTwice
      <4>2. CASE v = w
        <5>1. DOMAIN log[w] = 1 .. n /\ DOMAIN log'[w] = 1 .. n + 1
          BY <2>2, <2>3, <2>4
        <5>2. \A l \in 1 .. n : log[w][l] \cap local[w] = {}
          BY DEF NothingTwice, AllSent, Sent
        <5>3. CASE i \in 1 .. n /\ j \in 1 .. n
          BY <2>4, <3>3, <4>2, <5>1, <5>3 DEF NothingTwice
        <5>4. CASE i \in 1 .. n /\ j = n + 1
          BY <2>4, <4>2, <5>2, <5>4
        <5>5. CASE j \in 1 .. n /\ i = n + 1
          BY <2>4, <4>2, <5>2, <5>5
        <5> QED  BY <2>2, <3>3, <4>2, <5>1, <5>3, <5>4, <5>5
      <4> QED  BY <4>1, <4>2
    <3> QED  BY <3>1, <3>2, <3>3 DEF NothingTwice
  <2>15. Consistent'
    <3>1. \A S : Closed(S)' <=> Closed(S)
      BY <1>1 DEF Closed, IsCap
    <3>2. \A v \in Workers : Closed(local'[v] \cup AllSent(v)')
      BY <2>11 DEF Consistent
    <3>3. ASSUME NEW v \in Workers, NEW k \in 0 .. Len(log'[v])  PROVE Closed(Sent(v, k)')
      <4>1. CASE k \in 0 .. Len(log[v])
        BY <2>8, <4>1 DEF Consistent
      <4>2. CASE k \notin 0 .. Len(log[v])
        <5>1. v = w /\ k = n + 1
          BY <2>3, <2>4, <2>6, <4>2
        <5>2. Sent(v, k)' = local'[w] \cup AllSent(w)'
          BY <2>4, <2>5, <5>1 DEF AllSent
        <5> QED  BY <3>2, <5>2
      <4> QED  BY <4>1, <4>2
    <3> QED  BY <1>1, <3>2, <3>3 DEF Consistent, Closed, IsCap
  <2>16. TrackerIsSum'
    <3>1. ASSUME NEW v \in Workers  PROVE Known(v)' = Known(v)
      <4>1. \A x \in Workers : pos[v][x] \in 0 .. Len(log[x])
        BY KnownSent
      <4> QED  BY <1>1, <2>8, <4>1 DEF Known
    <3> QED  BY <1>1, <3>1 DEF TrackerIsSum, Net, At
  <2> QED  BY <1>3, <2>7, <2>12, <2>13, <2>14, <2>15, <2>16
<1> QED  BY <1>5, <1>6 DEF EndSchedule

\* The batches that arrive are new to the worker.
LEMMA ArrivedNew ==
    ASSUME TypeOK, NothingInvented, NothingTwice, NEW w \in Workers,
           NEW upto \in [Workers -> Nat],
           \A v \in Workers : upto[v] \in pos[w][v] .. Len(log[v])
    PROVE  /\ Arrived(w, upto) \cap Known(w) = {}
           /\ Arrived(w, upto) \cup Known(w)
                  = Seeds \cup UNION {Sent(v, upto[v]) : v \in Workers}
<1>1. \A v \in Workers : pos[w][v] \in 0 .. Len(log[v]) /\ Len(log[v]) \in Nat
  BY KnownSent, SentMade
<1>2. \A v \in Workers : DOMAIN log[v] = 1 .. Len(log[v])
  BY DEF TypeOK
<1>3. ASSUME NEW u \in Arrived(w, upto), u \in Known(w)  PROVE FALSE
  <2>0. PICK v \in Workers : \E i \in pos[w][v] + 1 .. upto[v] : u \in log[v][i]
    BY <1>3 DEF Arrived
  <2>1. PICK i \in pos[w][v] + 1 .. upto[v] : u \in log[v][i]
    BY <2>0
  <2>2. i \in 1 .. Len(log[v]) /\ i > pos[w][v]
    BY <1>1, <2>1
  <2>3. u \in AllSent(v)
    BY <2>1, <2>2 DEF AllSent, Sent
  <2>4. Genuine(u) /\ Recorder(u)[1] = v
    BY <2>3 DEF NothingInvented
  <2>5. u \notin Seeds
    BY <2>4, InitialLen DEF Seeds, Genuine
  <2>6. PICK x \in Workers : u \in Sent(x, pos[w][x])
    BY <1>3, <2>5 DEF Known
  <2>7. PICK j \in 1 .. pos[w][x] : u \in log[x][j]
    BY <2>6 DEF Sent
  <2>8. u \in AllSent(x)
    BY <1>1, <2>6, SentMade
  <2>9. x = v
    BY <2>4, <2>8 DEF NothingInvented
  <2>10. j \in DOMAIN log[v] /\ i \in DOMAIN log[v] /\ i # j
    BY <1>1, <1>2, <2>2, <2>7, <2>9
  <2> QED  BY <2>1, <2>7, <2>9, <2>10 DEF NothingTwice
<1>4. ASSUME NEW v \in Workers
      PROVE  \A u : u \in Sent(v, upto[v])
                 <=> u \in Sent(v, pos[w][v]) \/ \E i \in pos[w][v] + 1 .. upto[v] : u \in log[v][i]
  <2>1. \A k : k \in 1 .. upto[v] <=> k \in 1 .. pos[w][v] \/ k \in pos[w][v] + 1 .. upto[v]
    BY <1>1
  <2>2. \A u, k : u \in Sent(v, k) <=> \E i \in 1 .. k : u \in log[v][i]
    BY DEF Sent
  <2> QED  BY <2>1, <2>2
<1>5. \A u : u \in Arrived(w, upto)
          <=> \E v \in Workers : \E i \in pos[w][v] + 1 .. upto[v] : u \in log[v][i]
  BY DEF Arrived
<1>6. \A u : u \in Known(w) <=> u \in Seeds \/ \E v \in Workers : u \in Sent(v, pos[w][v])
  BY DEF Known
<1>7. \A u : u \in UNION {Sent(v, upto[v]) : v \in Workers}
          <=> \E v \in Workers : u \in Sent(v, upto[v])
  OBVIOUS
<1> DEFINE A == Arrived(w, upto)
           K == Known(w)
           N == UNION {Sent(v, upto[v]) : v \in Workers}
<1>8. \A u : u \in A \/ u \in K <=> u \in Seeds \/ u \in N
  BY <1>4, <1>5, <1>6, <1>7
<1> HIDE DEF A, K, N
<1>9. A \cup K = Seeds \cup N
  BY <1>8
<1> QED  BY <1>3, <1>9 DEF A, K, N

\* Receiving batches of updates preserves the invariant.
LEMMA BeginScheduleInductive ==
    ASSUME IndInv, NEW w \in Workers, BeginSchedule(w)
    PROVE  IndInv'
<1> USE DEF IndInv
<1>1. /\ obj' = obj /\ live' = live /\ shared' = shared
      /\ local' = local /\ log' = log /\ Made' = Made
  BY DEF BeginSchedule, Made
<1>2. PICK upto \in [Workers -> 0 .. Longest] :
         /\ \A v \in Workers : upto[v] \in pos[w][v] .. Len(log[v])
         /\ pos' = [pos EXCEPT ![w] = upto]
         /\ tracker' = [tracker EXCEPT ![w] =
                [p \in Points |-> tracker[w][p] + Net(Arrived(w, upto), p)]]
  BY DEF BeginSchedule
<1>3. \A v \in Workers : upto[v] \in Nat /\ upto[v] <= Len(log[v])
  BY <1>2, KnownSent, SentMade
<1>4. upto \in [Workers -> Nat]
  BY <1>2, <1>3
<1>5. \A U, p : Net(U, p) \in Int
  BY AtFinite DEF Net
<1>6. TypeOK'
  <2>1. pos' \in [Workers -> [Workers -> Nat]]
    BY <1>2, <1>4 DEF TypeOK
  <2>2. \A x, v \in Workers : pos'[x][v] <= Len(log'[v])
    BY <1>1, <1>2, <1>3 DEF TypeOK
  <2>3. tracker' \in [Workers -> [Points -> Int]]
    <3>1. \A p \in Points : tracker[w][p] + Net(Arrived(w, upto), p) \in Int
      BY <1>5 DEF TypeOK
    <3>2. [p \in Points |-> tracker[w][p] + Net(Arrived(w, upto), p)] \in [Points -> Int]
      BY <3>1
    <3> QED  BY <1>2, <3>2 DEF TypeOK
  <2>4. running' \in [Workers -> BOOLEAN]
    BY DEF BeginSchedule, TypeOK
  <2> QED  BY <1>1, <2>1, <2>2, <2>3, <2>4 DEF TypeOK
<1>7. Lineage'
  BY <1>1 DEF Lineage, IsCap, Holder
<1>8. \A u : (Genuine(u)' <=> Genuine(u)) /\ Recorder(u)' = Recorder(u)
  BY <1>1 DEF Genuine, Recorder, Holder
<1>9. \A v : AllSent(v)' = AllSent(v) /\ \A k : Sent(v, k)' = Sent(v, k)
  BY <1>1 DEF AllSent, Sent
<1>10. NothingInvented' /\ NothingLost'
  BY <1>1, <1>8, <1>9 DEF NothingInvented, NothingLost
<1>11. NothingTwice' /\ Consistent'
  BY <1>1, <1>9 DEF NothingTwice, Consistent, Closed, IsCap
<1>12. TrackerIsSum'
  <2>1. ASSUME NEW x \in Workers, x # w, NEW p \in Points
        PROVE  tracker'[x][p] = Net(Known(x), p)'
    <3>1. pos'[x] = pos[x] /\ tracker'[x] = tracker[x]
      BY <1>2, <2>1 DEF TypeOK
    <3>2. Known(x)' = Known(x)
      BY <1>9, <3>1 DEF Known
    <3> QED  BY <1>1, <3>1, <3>2 DEF TrackerIsSum, Net, At
  <2>2. ASSUME NEW p \in Points  PROVE tracker'[w][p] = Net(Known(w), p)'
    <3>1. pos'[w] = upto /\ tracker'[w][p] = tracker[w][p] + Net(Arrived(w, upto), p)
      BY <1>2 DEF TypeOK
    <3>2. Known(w)' = Seeds \cup UNION {Sent(v, upto[v]) : v \in Workers}
      BY <1>9, <3>1 DEF Known
    <3>3. Known(w)' = Arrived(w, upto) \cup Known(w) /\ Arrived(w, upto) \cap Known(w) = {}
      BY <1>2, <1>4, <3>2, ArrivedNew
    <3>4. Net(Known(w)', p) = Net(Arrived(w, upto), p) + Net(Known(w), p)
      BY <3>3, NetUnion
    <3>5. Net(Known(w), p)' = Net(Known(w)', p)
      BY <1>1 DEF Net, At
    <3> QED  BY <1>5, <3>1, <3>4, <3>5 DEF TrackerIsSum
  <2> QED  BY <2>1, <2>2 DEF TrackerIsSum
<1> QED  BY <1>6, <1>7, <1>10, <1>11, <1>12

\* The invariant holds at the start.
LEMMA InitInductive == Init => IndInv
<1> SUFFICES ASSUME Init PROVE IndInv
  OBVIOUS
<1> DEFINE n == Len(InitialCaps)
<1>1. n \in Nat /\ \A x \in 1 .. n : InitialCaps[x] \in Workers \X CapPoints
  BY ConfigAssumption
<1>2. CapPoints \subseteq Points
  BY DEF CapPoints
<1>3. /\ obj \in [1 .. n -> Object]
      /\ \A x \in 1 .. n : obj[x].pt = InitialCaps[x][2] /\ obj[x].pt \in CapPoints
  BY <1>1, <1>2 DEF Init, Object
<1>4. obj \in Seq(Object) /\ Len(obj) = n /\ Made = 1 .. n
  BY <1>1, <1>3 DEF Made
<1>5. TypeOK
  <2>1. \A p \in Points : Cardinality({x \in 1 .. n : InitialCaps[x][2] = p}) \in Int
    <3>1. IsFiniteSet(1 .. n)
      BY <1>1, FiniteUpto
    <3> QED  BY <3>1, FS_Subset, FS_CardinalityType
  <2>2. tracker \in [Workers -> [Points -> Int]]
    BY <2>1 DEF Init
  <2>3. log \in [Workers -> Seq(SUBSET (Made \X {-1, 1}))]
    BY DEF Init
  <2>4. running \in [Workers -> BOOLEAN]
    BY DEF Init
  <2>5. pos \in [Workers -> [Workers -> Nat]] /\ \A w, v \in Workers : pos[w][v] <= Len(log[v])
    BY DEF Init
  <2>6. n <= MaxObjects
    BY ConfigAssumption
  <2> QED  BY <1>4, <2>2, <2>3, <2>4, <2>5, <2>6 DEF TypeOK, Init
<1>6. Lineage
  BY <1>1, <1>3, <1>4 DEF Lineage, IsCap
<1>7. \A w \in Workers : /\ local[w] = {} /\ log[w] = <<>> /\ Len(log[w]) = 0
                         /\ DOMAIN log[w] = {} /\ \A k \in 0 .. 0 : Sent(w, k) = {}
                         /\ AllSent(w) = {}
  BY DEF Init, AllSent, Sent
<1>8. \A a \in Agents : shared[a] = {}
  BY DEF Init
<1>9. \A u : ~ Genuine(u)
  <2>1. live = Made
    BY <1>4 DEF Init
  <2> QED  BY <1>1, <1>4, <2>1 DEF Genuine
<1>10. NothingInvented /\ NothingLost
  BY <1>7, <1>8, <1>9 DEF NothingInvented, NothingLost
<1>11. NothingTwice
  BY <1>7, <1>8 DEF NothingTwice, Agents
<1>12. Consistent
  BY <1>7 DEF Consistent, Closed
<1>13. ASSUME NEW w \in Workers, NEW p \in Points  PROVE tracker[w][p] = Net(Known(w), p)
  <2>1. Known(w) = Seeds
    <3>1. \A v \in Workers : pos[w][v] = 0
      BY DEF Init
    <3>2. \A v \in Workers : Sent(v, pos[w][v]) = {}
      BY <1>7, <3>1
    <3> QED  BY <3>2 DEF Known
  <2>2. At(Seeds, 1, p) = {x \in 1 .. n : InitialCaps[x][2] = p}
    BY <1>3, <1>4 DEF At, Seeds
  <2>3. At(Seeds, -1, p) = {}
    BY DEF At, Seeds
  <2>4. Cardinality(At(Seeds, -1, p)) = 0
    BY <2>3, FS_EmptySet
  <2>5. Cardinality(At(Seeds, 1, p)) \in Nat
    BY <1>5, AtFinite
  <2>6. tracker[w][p] = Cardinality({x \in 1 .. n : InitialCaps[x][2] = p})
    BY DEF Init
  <2>7. tracker[w][p] = Cardinality(At(Seeds, 1, p))
    BY <2>2, <2>6
  <2> QED  BY <2>1, <2>4, <2>5, <2>7 DEF Net
<1> QED  BY <1>5, <1>6, <1>10, <1>11, <1>12, <1>13 DEF IndInv, TrackerIsSum

\* Every step preserves the invariant.
LEMMA NextInductive == IndInv /\ [Next]_vars => IndInv'
<1> SUFFICES ASSUME IndInv, [Next]_vars PROVE IndInv'
  OBVIOUS
<1> TypeOK
  BY DEF IndInv
<1>1. ASSUME NEW x \in live, NEW p \in Points, Delayed(x, p)  PROVE IndInv'
  BY <1>1, DelayedGrows, GrowsInductive
<1>2. ASSUME NEW x \in live, NEW p \in Points, Retain(x, p)  PROVE IndInv'
  BY <1>2, RetainGrows, GrowsInductive
<1>3. ASSUME NEW x \in live, Give(x)  PROVE IndInv'
  BY <1>3, GiveGrows, GrowsInductive
<1>4. ASSUME NEW x \in live, Release(x)  PROVE IndInv'
  BY <1>4, ReleaseInductive
<1>5. ASSUME NEW w \in Workers, BeginSchedule(w)  PROVE IndInv'
  BY <1>5, BeginScheduleInductive
<1>6. ASSUME NEW w \in Workers, NEW o \in Operators, Extract(w, o)  PROVE IndInv'
  BY <1>6, ExtractInductive
<1>7. ASSUME NEW w \in Workers, EndSchedule(w)  PROVE IndInv'
  BY <1>7, EndScheduleInductive
<1>8. CASE UNCHANGED vars
  <2>1. /\ obj' = obj /\ live' = live /\ shared' = shared /\ local' = local /\ log' = log
        /\ pos' = pos /\ tracker' = tracker /\ running' = running
    BY <1>8 DEF vars
  <2>2. TypeOK' /\ Lineage'
    BY <2>1 DEF IndInv, TypeOK, Lineage, Made, IsCap, Holder
  <2>3. NothingInvented' /\ NothingLost'
    <3>1. Made' = Made
      BY <2>1 DEF Made
    <3>2. \A u : (Genuine(u)' <=> Genuine(u)) /\ Recorder(u)' = Recorder(u)
      BY <2>1, <3>1 DEF Genuine, Recorder, Holder
    <3>3. \A v : AllSent(v)' = AllSent(v)
      BY <2>1 DEF AllSent, Sent
    <3> QED  BY <2>1, <3>1, <3>2, <3>3 DEF IndInv, NothingInvented, NothingLost
  <2>4. NothingTwice' /\ Consistent'
    BY <2>1 DEF IndInv, NothingTwice, Consistent, Closed, AllSent, Sent, Made, IsCap
  <2>5. TrackerIsSum'
    BY <2>1 DEF IndInv, TrackerIsSum, Net, At, Known, Sent, Made
  <2> QED  BY <2>2, <2>3, <2>4, <2>5 DEF IndInv
<1> QED  BY <1>1, <1>2, <1>3, <1>4, <1>5, <1>6, <1>7, <1>8 DEF Next

(* The invariant of the protocol: whatever the graph and the interleaving   *)
(* of operators, schedules and batches, every update is recorded once, kept *)
(* until it is sent, and received in consistent cuts of the instance that   *)
(* recorded it (subgraph.rs, broadcast.rs).                                 *)
THEOREM Invariance == Spec => []IndInv
  BY InitInductive, NextInductive, PTL DEF Spec

(* The state of the protocol stays well formed: no update is about an       *)
(* object that was not made, no worker applies a batch that was not sent.   *)
THEOREM TypeCorrect == Spec => []TypeOK
<1>1. IndInv => TypeOK
  BY DEF IndInv
<1> QED  BY <1>1, Invariance, PTL

-----------------------------------------------------------------------------
(* A frontier that has passed a pointstamp knows the whole history below it.*)

\* An object whose end is known to a worker is not alive, and is no seed.
LEMMA KnownGenuine ==
    ASSUME IndInv, NEW w \in Workers, NEW u \in Known(w), u \notin Seeds
    PROVE  /\ Genuine(u)
           /\ Recorder(u)[1] \in Workers
           /\ u \in Sent(Recorder(u)[1], pos[w][Recorder(u)[1]])
<1>1. PICK v \in Workers : u \in Sent(v, pos[w][v])
  BY DEF Known
<1>2. u \in AllSent(v)
  BY <1>1, KnownSent, SentMade DEF IndInv
<1>3. Genuine(u) /\ Recorder(u)[1] = v
  BY <1>2 DEF IndInv, NothingInvented
<1> QED  BY <1>1, <1>3

\* What a worker has received is closed.
LEMMA KnownClosed ==
    ASSUME IndInv, NEW w \in Workers, NEW x \in Made, NEW y \in Made,
           <<x, -1>> \in Known(w), y > Len(InitialCaps),
           x = obj[y].from \/ (x = y /\ IsCap(x))
    PROVE  <<y, 1>> \in Known(w)
<1>1. <<x, -1>> \notin Seeds
  BY DEF Seeds
<1>2. PICK v \in Workers : <<x, -1>> \in Sent(v, pos[w][v])
  BY <1>1 DEF Known
<1>3. pos[w][v] \in 0 .. Len(log[v])
  BY KnownSent DEF IndInv
<1>4. Closed(Sent(v, pos[w][v]))
  BY <1>3 DEF IndInv, Consistent
<1>5. <<y, 1>> \in Sent(v, pos[w][v])
  BY <1>2, <1>4 DEF Closed
<1> QED  BY <1>5 DEF Known

\* Counts at a point below a passed one.
LEMMA BelowPassed ==
    ASSUME IndInv, NEW w \in Workers, NEW p \in Points, ~ Implied(w, p),
           NEW q \in Below[p]
    PROVE  /\ q \in Points
           /\ Cardinality(At(Known(w), 1, q)) <= Cardinality(At(Known(w), -1, q))
           /\ \A r \in Points : <<r, q>> \in Leq => r \in Below[p]
<1>1. q \in Points /\ <<q, p>> \in Leq
  BY DEF Below
<1>2. Net(Known(w), q) <= 0
  <2>1. tracker[w][q] \in Int /\ ~ (tracker[w][q] > 0)
    BY <1>1 DEF Implied, Count, IndInv, TypeOK
  <2> QED  BY <1>1, <2>1 DEF IndInv, TrackerIsSum
<1>3. Cardinality(At(Known(w), 1, q)) \in Nat /\ Cardinality(At(Known(w), -1, q)) \in Nat
  BY AtFinite DEF IndInv
<1>4. \A r \in Points : <<r, q>> \in Leq => <<r, p>> \in Leq
  BY <1>1, GraphAssumption
<1> QED  BY <1>1, <1>2, <1>3, <1>4 DEF Net, Below

\* Facts about sets: a strict superset has more elements.
LEMMA StrictlyMore ==
    ASSUME NEW S, NEW T, IsFiniteSet(T), S \subseteq T, Cardinality(T) <= Cardinality(S)
    PROVE  S = T
<1>1. IsFiniteSet(S) /\ Cardinality(S) <= Cardinality(T)
      /\ (Cardinality(S) = Cardinality(T) => S = T)
  BY FS_Subset
<1>2. Cardinality(S) \in Nat /\ Cardinality(T) \in Nat
  BY <1>1, FS_CardinalityType
<1> QED  BY <1>1, <1>2

(* Among the objects whose birth is unknown, one at a minimal pointstamp    *)
(* and of least index has a parent whose birth is known and whose end is    *)
(* not; the tracker counts it, unless it counts an end without its birth.   *)
LEMMA BirthsKnown ==
    ASSUME IndInv, NEW w \in Workers, NEW p \in Points, ~ Implied(w, p)
    PROVE  \A x \in Made : obj[x].pt \in Below[p] => <<x, 1>> \in Known(w)
<1> DEFINE Bad == {x \in Made : obj[x].pt \in Below[p] /\ <<x, 1>> \notin Known(w)}
           Pts == {obj[x].pt : x \in Bad}
<1> SUFFICES ASSUME Bad # {} PROVE FALSE
  OBVIOUS
<1> TypeOK /\ Lineage
  BY DEF IndInv
<1>1. Pts \in SUBSET Points /\ Pts # {}
  BY ObjType
<1>2. PICK m \in Pts : \A q \in Pts : <<q, m>> \in Leq => q = m
  BY <1>1, GraphAssumption
<1> DEFINE BadM == {x \in Bad : obj[x].pt = m}
<1>3. BadM \in SUBSET Nat /\ BadM # {}
  <2>1. Made \subseteq Nat
    BY MadeIs
  <2>2. \E x \in Bad : obj[x].pt = m
    BY <1>2
  <2> QED  BY <2>1, <2>2
<1>4. PICK y \in BadM : \A k \in BadM : y <= k
  BY <1>3, LeastNatural
<1>5. y \in Made /\ y \in Nat /\ obj[y].pt = m /\ m \in Below[p] /\ <<y, 1>> \notin Known(w)
  BY <1>3
<1>6. \A x \in Bad : x > Len(InitialCaps)
  <2>1. \A x \in 1 .. Len(InitialCaps) : <<x, 1>> \in Known(w)
    BY DEF Known, Seeds
  <2> QED  BY <2>1, MadeIs, InitialLen
<1> DEFINE f == obj[y].from
           q == obj[f].pt
<1>7. /\ f \in 1 .. y - 1 /\ f \in Made
      /\ <<q, m>> \in Leq
      /\ IsCap(y) \/ q # m
  <2>1. y > Len(InitialCaps)
    BY <1>6
  <2>2. f \in 1 .. y - 1 /\ <<q, m>> \in Leq /\ (IsCap(y) \/ q # m)
    BY <1>5, <2>1 DEF Lineage
  <2> QED  BY <1>5, <2>2, MadeIs
<1>8. <<f, -1>> \notin Known(w)
  BY <1>5, <1>6, <1>7, KnownClosed
<1>9. q \in Below[p]
  BY <1>5, <1>7, BelowPassed, ObjType
<1>10. <<f, 1>> \in Known(w)
  <2> SUFFICES ASSUME <<f, 1>> \notin Known(w) PROVE FALSE
    OBVIOUS
  <2>1. f \in Bad
    BY <1>7, <1>9
  <2>2. q = m
    BY <1>2, <1>7, <2>1
  <2>3. f \in BadM
    BY <2>1, <2>2
  <2> QED  BY <1>4, <1>5, <1>7, <2>3
<1>11. PICK z \in At(Known(w), -1, q) : z \notin At(Known(w), 1, q)
  <2> SUFFICES ASSUME At(Known(w), -1, q) \subseteq At(Known(w), 1, q) PROVE FALSE
    OBVIOUS
  <2>1. f \in At(Known(w), 1, q) /\ f \notin At(Known(w), -1, q)
    BY <1>7, <1>8, <1>10 DEF At
  <2>2. Cardinality(At(Known(w), 1, q)) <= Cardinality(At(Known(w), -1, q))
    BY <1>9, BelowPassed
  <2>3. IsFiniteSet(At(Known(w), 1, q))
    BY AtFinite
  <2> QED  BY <2>1, <2>2, <2>3, StrictlyMore
<1>12. z \in Made /\ obj[z].pt = q /\ <<z, -1>> \in Known(w) /\ <<z, 1>> \notin Known(w)
  BY <1>11 DEF At
<1>13. z \in Bad /\ q = m
  BY <1>2, <1>7, <1>9, <1>12
<1>14. ~ IsCap(z)
  BY <1>6, <1>12, <1>13, KnownClosed
<1>15. ~ IsCap(y)
  BY <1>5, <1>12, <1>13, <1>14 DEF IsCap
<1> QED  BY <1>7, <1>13, <1>15

\* A worker whose frontier has passed a pointstamp knows the whole life of all that could result in it.
LEMMA HistoryKnown ==
    ASSUME IndInv, NEW w \in Workers, NEW p \in Points, ~ Implied(w, p),
           NEW x \in Made, obj[x].pt \in Below[p]
    PROVE  <<x, 1>> \in Known(w) /\ <<x, -1>> \in Known(w)
<1> DEFINE q == obj[x].pt
           S == At(Known(w), -1, q)
           T == At(Known(w), 1, q)
<1>1. \A y \in Made : obj[y].pt = q => y \in T
  BY BirthsKnown DEF At
<1>2. S \subseteq T
  BY <1>1 DEF At
<1>3. Cardinality(T) <= Cardinality(S)
  BY BelowPassed
<1>4. IsFiniteSet(T)
  BY AtFinite DEF IndInv
<1>5. S = T
  BY <1>2, <1>3, <1>4, StrictlyMore
<1>6. x \in T
  BY <1>1
<1> QED  BY <1>5, <1>6 DEF At

\* An object whose end a worker knows is not alive.
LEMMA EndedNotLive ==
    ASSUME IndInv, NEW w \in Workers, NEW x, <<x, -1>> \in Known(w)
    PROVE  x \notin live
<1>1. <<x, -1>> \notin Seeds
  BY DEF Seeds
<1>2. Genuine(<<x, -1>>)
  BY <1>1, KnownGenuine
<1> QED  BY <1>2 DEF Genuine

\* Nothing alive could still result in a pointstamp that a frontier passed.
LEMMA PassedIsFinished ==
    ASSUME IndInv, NEW w \in Workers, NEW p \in Points, ~ Implied(w, p),
           NEW x \in live
    PROVE  obj[x].pt \notin Below[p]
<1>1. x \in Made
  BY LiveMade DEF IndInv
<1> QED  BY <1>1, HistoryKnown, EndedNotLive

AllFinished ==
    \A w \in Workers, p \in Points, x \in live :
        ~ Implied(w, p) => <<obj[x].pt, p>> \notin Leq

\* An empty tracker means that all that was made is gone.
LEMMA InvariantFinished == IndInv => AllFinished
<1> SUFFICES ASSUME IndInv, NEW w \in Workers, NEW p \in Points, NEW x \in live,
                    ~ Implied(w, p), <<obj[x].pt, p>> \in Leq
             PROVE  FALSE
  BY DEF AllFinished
<1>1. obj[x].pt \in Below[p]
  BY ObjType, LiveMade DEF IndInv, Below
<1> QED  BY <1>1, PassedIsFinished

\* The invariant implies that frontiers are safe.
LEMMA InvariantSafe == IndInv => FrontierSafe
<1> SUFFICES ASSUME IndInv, NEW x \in live, NEW w \in Workers
             PROVE  Implied(w, obj[x].pt)
  BY DEF FrontierSafe
<1>1. obj[x].pt \in Points
  BY ObjType, LiveMade DEF IndInv
<1>2. obj[x].pt \in Below[obj[x].pt]
  BY <1>1, GraphAssumption DEF Below
<1> QED  BY <1>1, <1>2, PassedIsFinished

(* No worker's frontier passes a pointstamp that a live capability or       *)
(* message could still result in, for every graph, every set of workers     *)
(* and every interleaving of schedules and batches (reachability.rs,        *)
(* subgraph.rs: the promise that notifications and shutdown rely on).       *)
THEOREM Safety == Spec => []FrontierSafe
  BY Invariance, InvariantSafe, PTL

\* The invariant implies that completion is final.
LEMMA InvariantFinal == IndInv => CompletionIsFinal
<1> SUFFICES ASSUME IndInv, NEW w \in Workers, ~ tracking_anything(w)
             PROVE  /\ live = {}
                    /\ \A v \in Workers : pos[w][v] = Len(log[v]) /\ local[v] = {}
                    /\ \A a \in Agents : shared[a] = {}
  BY DEF CompletionIsFinal
<1> TypeOK /\ Lineage
  BY DEF IndInv
<1>1. \A p \in Points : ~ Implied(w, p)
  BY DEF Implied, tracking_anything, Below
<1>2. ASSUME NEW u, Genuine(u)
      PROVE  /\ Recorder(u)[1] \in Workers
             /\ u \in Sent(Recorder(u)[1], pos[w][Recorder(u)[1]])
             /\ u \in AllSent(Recorder(u)[1])
  <2>1. u[1] \in Made /\ u[2] \in {-1, 1} /\ u = <<u[1], u[2]>>
    BY <1>2, RecorderType
  <2>2. obj[u[1]].pt \in Points
    BY <2>1, ObjType
  <2>3. obj[u[1]].pt \in Below[obj[u[1]].pt]
    BY <2>2, GraphAssumption DEF Below
  <2>4. u \in Known(w)
    BY <1>1, <2>1, <2>2, <2>3, HistoryKnown
  <2>5. u \notin Seeds
    BY <1>2, InitialLen DEF Seeds, Genuine
  <2> QED  BY <2>4, <2>5, KnownGenuine, KnownSent, SentMade
<1>3. live = {}
  <2> SUFFICES ASSUME NEW x \in live PROVE FALSE
    OBVIOUS
  <2>1. obj[x].pt \in Points
    BY ObjType, LiveMade
  <2> QED  BY <1>1, <2>1, InvariantSafe DEF FrontierSafe
<1>4. ASSUME NEW v \in Workers, pos[w][v] # Len(log[v])  PROVE FALSE
  <2>1. pos[w][v] \in 0 .. Len(log[v]) /\ Len(log[v]) \in Nat
    BY KnownSent, SentMade
  <2> DEFINE i == pos[w][v] + 1
  <2>2. i \in 1 .. Len(log[v]) /\ DOMAIN log[v] = 1 .. Len(log[v])
    BY <1>4, <2>1 DEF TypeOK
  <2>3. PICK u : u \in log[v][i]
    BY <2>2 DEF IndInv, NothingInvented
  <2>4. u \in AllSent(v)
    BY <2>2, <2>3 DEF AllSent, Sent
  <2>5. Genuine(u) /\ Recorder(u)[1] = v
    BY <2>4 DEF IndInv, NothingInvented
  <2>6. PICK j \in 1 .. pos[w][v] : u \in log[v][j]
    BY <1>2, <2>5 DEF Sent
  <2>7. j \in DOMAIN log[v] /\ i \in DOMAIN log[v] /\ i # j
    BY <2>1, <2>2, <2>6
  <2> QED  BY <2>3, <2>6, <2>7 DEF IndInv, NothingTwice
<1>5. ASSUME NEW v \in Workers, NEW u \in local[v]  PROVE FALSE
  <2>1. Genuine(u) /\ Recorder(u)[1] = v
    BY <1>5 DEF IndInv, NothingInvented
  <2>2. u \in AllSent(v)
    BY <1>2, <2>1
  <2> QED  BY <1>5, <2>2 DEF IndInv, NothingTwice
<1>6. ASSUME NEW a \in Agents, NEW u \in shared[a]  PROVE FALSE
  <2>1. Genuine(u) /\ Recorder(u) = a
    BY <1>6 DEF IndInv, NothingInvented
  <2>2. u \in AllSent(a[1])
    BY <1>2, <2>1
  <2>3. a = <<a[1], a[2]>> /\ a[1] \in Workers /\ a[2] \in Operators
    BY DEF Agents
  <2>4. shared[<<a[1], a[2]>>] \cap (local[a[1]] \cup AllSent(a[1])) = {}
    BY <2>3 DEF IndInv, NothingTwice
  <2> QED  BY <1>6, <2>2, <2>3, <2>4
<1> QED  BY <1>3, <1>4, <1>5, <1>6

(* A worker whose tracker counts nothing may drop the scope: nothing is     *)
(* alive, nothing is unsent, and it has received all that was sent          *)
(* (Subgraph::schedule's return value, Worker::step_or_park).               *)
THEOREM Completion == Spec => []CompletionIsFinal
  BY Invariance, InvariantFinal, PTL

\* A step keeps what every frontier has passed.
LEMMA StepMonotonic ==
    ASSUME IndInv, [Next]_vars, NEW w \in Workers
    PROVE  Passed(w) \subseteq Passed(w)'
<1>1. CASE tracker' = tracker
  BY <1>1 DEF Passed, Implied, Count
<1>2. ASSUME NEW v \in Workers, BeginSchedule(v)  PROVE Passed(w) \subseteq Passed(w)'
  <2> SUFFICES ASSUME NEW p \in Points, ~ Implied(w, p), NEW q \in Below[p]
               PROVE  tracker'[w][q] = tracker[w][q]
    BY DEF Passed, Implied, Count
  <2> TypeOK
    BY DEF IndInv
  <2>1. PICK upto \in [Workers -> 0 .. Longest] :
           /\ \A x \in Workers : upto[x] \in pos[v][x] .. Len(log[x])
           /\ tracker' = [tracker EXCEPT ![v] =
                  [r \in Points |-> tracker[v][r] + Net(Arrived(v, upto), r)]]
    BY <1>2 DEF BeginSchedule
  <2>2. CASE w # v
    BY <2>1, <2>2 DEF TypeOK
  <2>3. CASE w = v
    <3>1. q \in Points
      BY DEF Below
    <3>2. upto \in [Workers -> Nat]
      BY <2>1, KnownSent, SentMade
    <3>3. Arrived(w, upto) \cap Known(w) = {}
      BY <2>1, <2>3, <3>2, ArrivedNew DEF IndInv
    <3>4. \A d \in {-1, 1} : At(Arrived(w, upto), d, q) = {}
      BY <3>3, HistoryKnown DEF At
    <3>5. Net(Arrived(w, upto), q) = 0
      BY <3>4, FS_EmptySet DEF Net
    <3>6. tracker[w][q] \in Int
      BY <3>1 DEF TypeOK
    <3> QED  BY <2>1, <2>3, <3>1, <3>5, <3>6 DEF TypeOK
  <2> QED  BY <2>2, <2>3
<1> QED
  BY <1>1, <1>2 DEF Next, vars, Delayed, Retain, Give, Release, Extract, EndSchedule

(* Frontiers only advance: no batch, in whatever order batches arrive,      *)
(* takes back what a worker's operators were told (frontier.rs, the         *)
(* notificators of operators).                                              *)
THEOREM Monotonic == Spec => FrontierMonotonic
<1>1. IndInv /\ [Next]_vars => [\A w \in Workers : Passed(w) \subseteq Passed(w)']_vars
  BY StepMonotonic
<1> QED  BY <1>1, Invariance, PTL DEF Spec, FrontierMonotonic

-----------------------------------------------------------------------------
(* The protocol implements ProgressTracking.                                *)

Outstanding == {obj[x].pt : x \in live}
PassedBy == [w \in Workers |-> Passed(w)]

\* Initial states map to initial states of the promise.
LEMMA InitImplements == Init => Promise!Init
<1> SUFFICES ASSUME Init PROVE Promise!Init
  OBVIOUS
<1> IndInv
  BY InitInductive
<1>1. Outstanding \in SUBSET Points
  BY ObjType, LiveMade DEF Outstanding, IndInv
<1>2. ASSUME NEW w \in Workers, NEW p \in Points
      PROVE  Implied(w, p) <=> \E q \in Outstanding : <<q, p>> \in Leq
  <2>1. ASSUME NEW q \in Below[p], Count(w, q) > 0
        PROVE  \E r \in Outstanding : <<r, p>> \in Leq
    <3> DEFINE S == {x \in 1 .. Len(InitialCaps) : InitialCaps[x][2] = q}
    <3>1. q \in Points /\ <<q, p>> \in Leq
      BY DEF Below
    <3>2. Count(w, q) = Cardinality(S)
      BY <3>1 DEF Count, Init
    <3>3. S # {}
      <4> HIDE DEF S
      <4> SUFFICES ASSUME S = {} PROVE FALSE
        OBVIOUS
      <4>1. Cardinality(S) = 0
        BY FS_EmptySet
      <4> QED  BY <2>1, <3>2, <4>1
    <3>4. PICK x \in S : TRUE
      BY <3>3
    <3>5. obj[x].pt = q /\ x \in live
      BY <3>4 DEF Init
    <3> QED  BY <3>1, <3>5 DEF Outstanding
  <2>2. ASSUME NEW q \in Outstanding, <<q, p>> \in Leq  PROVE Implied(w, p)
    <3>1. PICK x \in live : q = obj[x].pt
      BY DEF Outstanding
    <3>2. q \in Below[p]
      BY <1>1, <2>2 DEF Below
    <3> QED  BY <3>1, <3>2, PassedIsFinished
  <2> QED  BY <2>1, <2>2 DEF Implied
<1>3. \A w \in Workers : Passed(w) = {p \in Points : ~ \E q \in Outstanding : <<q, p>> \in Leq}
  BY <1>2 DEF Passed
<1> QED  BY <1>1, <1>3 DEF Promise!Init, Promise!Finished, Outstanding

\* Every step maps to a step of the promise, or to a stutter.
LEMMA StepImplements == IndInv /\ IndInv' /\ [Next]_vars => [Promise!Next]_(Promise!vars)
<1> SUFFICES ASSUME IndInv, IndInv', [Next]_vars PROVE [Promise!Next]_(Promise!vars)
  OBVIOUS
<1> TypeOK /\ TypeOK'
  BY DEF IndInv
<1>1. Outstanding' \in SUBSET Points
  <2>1. obj' \in Seq(Object) /\ live' \subseteq DOMAIN obj'
    BY DEF TypeOK, Made
  <2>2. \A x \in live' : obj'[x] \in Object
    BY <2>1
  <2> QED  BY <2>2 DEF Outstanding, Object
<1>2. ASSUME /\ \A x \in live' : \E y \in live : <<obj[y].pt, obj'[x].pt>> \in Leq
             /\ tracker' = tracker
      PROVE  Promise!Compute
  <2>1. PassedBy' = PassedBy
    BY <1>2 DEF PassedBy, Passed, Implied, Count
  <2>2. \A p \in Outstanding' : \E q \in Outstanding : <<q, p>> \in Leq
    BY <1>2 DEF Outstanding
  <2> QED  BY <1>1, <2>1, <2>2 DEF Promise!Compute, Outstanding, PassedBy
<1>3. \A x \in live : x \in Made /\ <<obj[x].pt, obj[x].pt>> \in Leq
  BY ObjType, LiveMade, GraphAssumption
<1>4. ASSUME NEW x \in live, Grows(x)  PROVE Promise!Compute
  <2>1. ASSUME NEW y \in live'  PROVE \E z \in live : <<obj[z].pt, obj'[y].pt>> \in Leq
    <3>1. CASE y \in live
      BY <1>3, <1>4, <3>1 DEF Grows
    <3>2. CASE y \in Made' \ Made
      BY <1>4, <3>2 DEF Grows
    <3> QED  BY <1>4, <3>1, <3>2 DEF Grows
  <2> QED  BY <1>2, <1>4, <2>1 DEF Grows
<1>5. ASSUME NEW x \in live, Release(x)  PROVE Promise!Compute
  BY <1>2, <1>3, <1>5 DEF Release
<1>6. ASSUME NEW w \in Workers, BeginSchedule(w)  PROVE Promise!Advance(w)
  <2>1. obj' = obj /\ live' = live
    BY <1>6 DEF BeginSchedule
  <2>2. ASSUME NEW v \in Workers, v # w  PROVE Passed(v)' = Passed(v)
    <3>1. tracker'[v] = tracker[v]
      BY <1>6, <2>2 DEF BeginSchedule, TypeOK
    <3> QED  BY <3>1 DEF Passed, Implied, Count
  <2>3. Passed(w) \subseteq Passed(w)'
    BY StepMonotonic
  <2>4. Passed(w)' \subseteq {p \in Points : ~ \E q \in Outstanding : <<q, p>> \in Leq}
    <3>1. AllFinished'
      BY InvariantFinished, PTL
    <3> QED  BY <2>1, <3>1 DEF AllFinished, Passed, Outstanding
  <2>5. PassedBy' = [PassedBy EXCEPT ![w] = PassedBy'[w]]
    BY <2>2 DEF PassedBy
  <2>6. PassedBy[w] = Passed(w) /\ PassedBy'[w] = Passed(w)'
    BY DEF PassedBy
  <2>7. Outstanding' = Outstanding
    BY <2>1 DEF Outstanding
  <2> QED
    BY <2>3, <2>4, <2>5, <2>6, <2>7
    DEF Promise!Advance, Promise!Finished, Outstanding, PassedBy
<1>7. ASSUME obj' = obj, live' = live, tracker' = tracker  PROVE UNCHANGED Promise!vars
  <2>1. PassedBy' = PassedBy /\ Outstanding' = Outstanding
    BY <1>7 DEF PassedBy, Outstanding, Passed, Implied, Count
  <2> QED  BY <2>1 DEF Promise!vars, Outstanding, PassedBy
<1>8. CASE \E x \in live, p \in Points : Delayed(x, p) \/ Retain(x, p)
  BY <1>4, <1>8, DelayedGrows, RetainGrows DEF Promise!Next
<1>9. CASE \E x \in live : Give(x) \/ Release(x)
  BY <1>4, <1>5, <1>9, GiveGrows DEF Promise!Next
<1>10. CASE \E w \in Workers : BeginSchedule(w)
  BY <1>6, <1>10 DEF Promise!Next
<1>11. CASE \E w \in Workers : EndSchedule(w) \/ \E o \in Operators : Extract(w, o)
  BY <1>7, <1>11 DEF EndSchedule, Extract
<1>12. CASE UNCHANGED vars
  BY <1>7, <1>12 DEF vars
<1> QED  BY <1>8, <1>9, <1>10, <1>11, <1>12 DEF Next

(* The protocol keeps the promise of progress tracking: every step of an    *)
(* operator or a scope is a step of ProgressTracking, or none.              *)
THEOREM Refinement == Spec => Implements
  BY Invariance, InitImplements, StepImplements, PTL DEF Spec, Implements, Promise!Spec
=============================================================================
